------------------------------ MODULE HandoverMC ------------------------------
(***************************************************************************)
(* What is handed over through a table that somebody polls, for TLC: the   *)
(* events of PostgreSQL's and MySQL's bus, and the pages that              *)
(* Elasticsearch is to index.  A behaviour is one of one part; the other   *)
(* rests in an initial state of its own.                                   *)
(***************************************************************************)
EXTENDS EventBus, SearchOutbox

CONSTANTS
  n1, n2, g1

VARIABLE part

handoverVars == <<part, vars, outboxVars>>

\* Events arrive in the first; in the second rows appear out of order, are pruned
\* before every instance has polled them, and subscriptions' tail reads overlap.
Orderly == {{}, {"gaps", "lag", "slowTail"}}

\* What may go wrong together and still let Elasticsearch catch up.
Survivable == {{"fail", "stop", "rebuild"}, {"stop", "restore", "rebuild"}}

HandoverInit ==
  /\ part \in {"bus", "search"}
  /\ Init /\ OutboxInit
  /\ part # "bus" => mode = {}
  /\ part # "search" => outboxMode = {"stop", "restore", "rebuild"}

BusStep == part = "bus" /\ Next /\ UNCHANGED outboxVars
SearchStep == part = "search" /\ OutboxNext /\ UNCHANGED vars

HandoverNext == (BusStep \/ SearchStep) /\ UNCHANGED part

\* The fairness of both: at rest the worker has nothing to do.
HandoverSpec ==
  /\ HandoverInit /\ [][HandoverNext]_handoverVars
  /\ \A i \in Instances :
       /\ WF_vars(part = "bus" /\ Storing(i))
       /\ WF_vars(part = "bus" /\ Polling(i))
       /\ WF_vars(part = "bus" /\ Tailing(i))
  /\ OutboxFairness

=============================================================================
