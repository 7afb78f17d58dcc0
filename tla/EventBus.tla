------------------------------- MODULE EventBus -------------------------------
(***************************************************************************)
(* The event bus between server instances on PostgreSQL and MySQL          *)
(* (db/postgres/event-bus.ts, db/mysql/event-bus.ts): events are delivered *)
(* at once where they are emitted, stored in wiki_events, and found there  *)
(* by the other instances' polls.                                          *)
(*                                                                         *)
(* The database draws a row's id when the insert starts and shows the row  *)
(* when it commits.  An instance has at most one listener here: the bus    *)
(* delivers to all of them alike.                                          *)
(***************************************************************************)
EXTENDS Naturals, FiniteSets, SequencesExt

CONSTANTS
  Instances,      \* server processes
  None,
  Modes,          \* sets of the things that may happen, see BusActs
  MaxEvents,      \* bound on the events
  MaxSubscribes,  \* bound on the subscriptions
  MaxFailures,    \* bound on the polls and tail reads that fail
  PollLimit,      \* rows that one poll reads
  MaxStored       \* maxStoredEvents

\* "gaps": rows become visible in another order than their ids.  "lag": rows are
\* pruned that a listening instance has not polled.  "slowTail": the tail reads of
\* subscriptions overlap.  "lateBoot": a subscription overtakes that of the boot.
BusActs == {"gaps", "lag", "slowTail", "lateBoot"}

ASSUME BusAssumption ==
  /\ Modes \subseteq SUBSET BusActs
  /\ MaxEvents \in Nat /\ MaxSubscribes \in Nat /\ MaxFailures \in Nat
  /\ PollLimit \in Nat \ {0} /\ MaxStored \in Nat \ {0}
  /\ None \notin Nat

VARIABLES
  mode,       \* what may happen in this behaviour
  emitted,    \* how many events each instance has emitted
  stored,     \* how many of them it has inserted: the rest are in writeChain
  inserting,  \* the id of the insert that has not committed, or None
  lastId,     \* the sequence of wiki_events.id
  log,        \* the rows of wiki_events
  listening,  \* the instances with a listener
  subscribed, \* how often each instance was subscribed to
  tails,      \* the tail reads (maxEventId) that have not resolved
  ready,      \* polling may start
  lastSeen,   \* lastSeenId
  polled,     \* the rows that a poll has read and not delivered, or None
  got,        \* history: what each listener was given, in order
  owed,       \* history: events emitted elsewhere since the listener was ready
  failures

vars == <<mode, emitted, stored, inserting, lastId, log, listening, subscribed,
          tails, ready, lastSeen, polled, got, owed, failures>>

Events == [source : Instances, number : Nat \ {0}]

Total(count) == FoldFunction(+, 0, count)

RowIds == Nat \ {0}

Row == [id : RowIds, event : Events]

\* The read of the boot is number 0, that of the n-th subscription number n.
TailReads == [number : Nat, value : Nat \cup {None}]

Init ==
  /\ mode \in Modes
  /\ emitted = [i \in Instances |-> 0]
  /\ stored = [i \in Instances |-> 0]
  /\ inserting = [i \in Instances |-> None]
  /\ lastId = 0
  /\ log = {}
  /\ listening = {}
  /\ subscribed = [i \in Instances |-> 0]
  /\ tails = [i \in Instances |-> {[number |-> 0, value |-> None]}]
  /\ ready = [i \in Instances |-> FALSE]
  /\ lastSeen = [i \in Instances |-> 0]
  /\ polled = [i \in Instances |-> None]
  /\ got = [i \in Instances |-> <<>>]
  /\ owed = [i \in Instances |-> {}]
  /\ failures = 0

listener == <<listening, subscribed, tails, ready, lastSeen, polled>>

-----------------------------------------------------------------------------
(* Emitting.                                                               *)

Given(i, events) == IF i \in listening THEN got[i] \o events ELSE got[i]

\* emit: delivers to the local listener and appends to the write chain.
Emit(i) ==
  /\ Total(emitted) < MaxEvents
  /\ emitted' = [emitted EXCEPT ![i] = @ + 1]
  /\ LET e == [source |-> i, number |-> emitted'[i]]
     IN  /\ got' = [got EXCEPT ![i] = Given(i, <<e>>)]
         /\ owed' = [j \in Instances |->
              IF j # i /\ j \in listening /\ ready[j] THEN owed[j] \cup {e}
              ELSE owed[j]]
  /\ UNCHANGED <<mode, stored, inserting, lastId, log, listener, failures>>

MaxEventId == IF log = {} THEN 0 ELSE Max({r.id : r \in log})

\* The next insert of the chain starts.
Insert(i) ==
  /\ inserting[i] = None
  /\ stored[i] < emitted[i]
  /\ "gaps" \in mode \/ \A j \in Instances : inserting[j] = None
  /\ lastId' = lastId + 1
  /\ inserting' = [inserting EXCEPT ![i] = lastId']
  /\ UNCHANGED <<mode, emitted, stored, log, listener, got, owed, failures>>

Commit(i) ==
  /\ inserting[i] # None
  /\ stored' = [stored EXCEPT ![i] = @ + 1]
  /\ log' = log \cup {[id |-> inserting[i],
                       event |-> [source |-> i, number |-> stored'[i]]]}
  /\ inserting' = [inserting EXCEPT ![i] = None]
  /\ UNCHANGED <<mode, emitted, lastId, listener, got, owed, failures>>

\* The insert is refused: the chain goes on, and the event stays local.
FailInsert(i) ==
  /\ failures < MaxFailures
  /\ inserting[i] # None
  /\ stored' = [stored EXCEPT ![i] = @ + 1]
  /\ inserting' = [inserting EXCEPT ![i] = None]
  /\ owed' = [j \in Instances |-> owed[j] \ {[source |-> i, number |-> stored'[i]]}]
  /\ failures' = failures + 1
  /\ UNCHANGED <<mode, emitted, lastId, log, listener, got>>

-----------------------------------------------------------------------------
(* Subscribing.                                                            *)

\* The first listener: polling waits until the tail of the log is known.
Subscribe(i) ==
  /\ i \notin listening
  /\ Total(subscribed) < MaxSubscribes
  /\ \A t \in tails[i] : (IF t.number = 0 THEN "lateBoot" ELSE "slowTail") \in mode
  /\ listening' = listening \cup {i}
  /\ subscribed' = [subscribed EXCEPT ![i] = @ + 1]
  /\ ready' = [ready EXCEPT ![i] = FALSE]
  /\ tails' = [tails EXCEPT ![i] = @ \cup {[number |-> subscribed'[i], value |-> None]}]
  /\ UNCHANGED <<mode, emitted, stored, inserting, lastId, log, lastSeen, polled,
                 got, owed, failures>>

Unsubscribe(i) ==
  /\ i \in listening
  /\ listening' = listening \ {i}
  /\ got' = [got EXCEPT ![i] = <<>>]
  /\ owed' = [owed EXCEPT ![i] = {}]
  /\ UNCHANGED <<mode, emitted, stored, inserting, lastId, log, subscribed, tails,
                 ready, lastSeen, polled, failures>>

\* The database answers a tail read ...
ReadTail(i) ==
  /\ \E t \in tails[i] :
       /\ t.value = None
       /\ tails' = [tails EXCEPT ![i] =
            (@ \ {t}) \cup {[t EXCEPT !.value = MaxEventId]}]
  /\ UNCHANGED <<mode, emitted, stored, inserting, lastId, log, listening, subscribed,
                 ready, lastSeen, polled, got, owed, failures>>

\* ... and its promise resolves.  Only the boot's may move lastSeenId back.
TailKnown(i) ==
  /\ \E t \in tails[i] :
       /\ t.value # None
       /\ lastSeen' = [lastSeen EXCEPT ![i] =
            IF t.number = 0 \/ t.value > @ THEN t.value ELSE @]
       /\ tails' = [tails EXCEPT ![i] = @ \ {t}]
  /\ ready' = [ready EXCEPT ![i] = TRUE]
  /\ UNCHANGED <<mode, emitted, stored, inserting, lastId, log, listening, subscribed,
                 polled, got, owed, failures>>

FailTail(i) ==
  /\ failures < MaxFailures
  /\ \E t \in tails[i] :
       /\ t.value = None
       /\ tails' = [tails EXCEPT ![i] = @ \ {t}]
  /\ ready' = [ready EXCEPT ![i] = TRUE]
  /\ failures' = failures + 1
  /\ UNCHANGED <<mode, emitted, stored, inserting, lastId, log, listening, subscribed,
                 lastSeen, polled, got, owed>>

-----------------------------------------------------------------------------
(* Polling.                                                                *)

Unseen(i) == {r \in log : r.id > lastSeen[i]}

\* ORDER BY id.
ById(rows) ==
  CHOOSE s \in [1 .. Cardinality(rows) -> rows] :
    \A m, n \in DOMAIN s : m < n => s[m].id < s[n].id

\* The rows a poll reads.
Fetch(i) ==
  {r \in Unseen(i) : Cardinality({q \in Unseen(i) : q.id < r.id}) < PollLimit}

\* The timer ticks and the query is answered; one poll at a time.
Poll(i) ==
  /\ ready[i] /\ i \in listening /\ polled[i] = None
  /\ Fetch(i) # {}
  /\ polled' = [polled EXCEPT ![i] = Fetch(i)]
  /\ UNCHANGED <<mode, emitted, stored, inserting, lastId, log, listening, subscribed,
                 tails, ready, lastSeen, got, owed, failures>>

\* Faulty: the instance's own events are delivered again.
ForeignAll(i, rows) == [n \in DOMAIN ById(rows) |-> ById(rows)[n].event]

\* Own events were delivered by emit.
Foreign(i, rows) ==
  LET others == ById({r \in rows : r.event.source # i})
  IN  [n \in DOMAIN others |-> others[n].event]

\* Faulty: what the limit left unread counts as seen.
SeenAll(i, rows) == Max({lastSeen[i]} \cup {r.id : r \in log})

Seen(i, rows) == Max({lastSeen[i]} \cup {r.id : r \in rows})

\* The poll goes on after its await and delivers the rows in one go.
DeliverRows(i) ==
  /\ polled[i] # None
  /\ lastSeen' = [lastSeen EXCEPT ![i] = Seen(i, polled[i])]
  /\ got' = [got EXCEPT ![i] = Given(i, Foreign(i, polled[i]))]
  /\ owed' = [owed EXCEPT ![i] = @ \ {r.event : r \in polled[i]}]
  /\ polled' = [polled EXCEPT ![i] = None]
  /\ UNCHANGED <<mode, emitted, stored, inserting, lastId, log, listening, subscribed,
                 tails, ready, failures>>

FailPoll(i) ==
  /\ failures < MaxFailures
  /\ polled[i] # None
  /\ polled' = [polled EXCEPT ![i] = None]
  /\ failures' = failures + 1
  /\ UNCHANGED <<mode, emitted, stored, inserting, lastId, log, listening, subscribed,
                 tails, ready, lastSeen, got, owed>>

Outdated == {r \in log : r.id + MaxStored <= MaxEventId}

Awaited == {r \in log : \E i \in listening : r.id > lastSeen[i]}

\* prune, after a poll or by its own timer.
Prune ==
  /\ Outdated # {}
  /\ "lag" \in mode \/ Outdated \cap Awaited = {}
  /\ log' = log \ Outdated
  /\ UNCHANGED <<mode, emitted, stored, inserting, lastId, listener, got, owed, failures>>

-----------------------------------------------------------------------------
Storing(i) == Insert(i) \/ Commit(i)

Polling(i) == Poll(i) \/ DeliverRows(i)

Tailing(i) == ReadTail(i) \/ TailKnown(i)

Next ==
  \/ \E i \in Instances :
       \/ Emit(i) \/ Storing(i) \/ FailInsert(i)
       \/ Subscribe(i) \/ Unsubscribe(i) \/ Tailing(i) \/ FailTail(i)
       \/ Polling(i) \/ FailPoll(i)
  \/ Prune

\* The chain's inserts, the tail reads and the polls of the interval complete.
Fairness ==
  \A i \in Instances : WF_vars(Storing(i)) /\ WF_vars(Polling(i)) /\ WF_vars(Tailing(i))

Spec == Init /\ [][Next]_vars /\ Fairness

-----------------------------------------------------------------------------
\* The log and the instances keep their shapes: ids are unique and drawn.
BusTypeOK ==
  /\ mode \in Modes
  /\ emitted \in [Instances -> Nat]
  /\ stored \in [Instances -> Nat]
  /\ inserting \in [Instances -> RowIds \cup {None}]
  /\ lastId \in Nat
  /\ log \subseteq Row
  /\ \A r, q \in log : r.id = q.id => r = q
  /\ \A r \in log : r.id <= lastId
  /\ listening \subseteq Instances
  /\ subscribed \in [Instances -> Nat]
  /\ tails \in [Instances -> SUBSET TailReads]
  /\ ready \in [Instances -> BOOLEAN]
  /\ lastSeen \in [Instances -> Nat]
  /\ polled \in [Instances -> (SUBSET Row) \cup {None}]
  /\ got \in [Instances -> Seq(Events)]
  /\ owed \in [Instances -> SUBSET Events]
  /\ failures \in 0 .. MaxFailures

\* A listener is given the events of every source in the order they were emitted,
\* and none twice, its own instance's included, whatever polls, tail reads and
\* subscriptions overlap ("without local duplicates", bus.test.ts).
DeliveredOnceInOrder ==
  \A i \in Instances : \A m, n \in DOMAIN got[i] :
    m < n /\ got[i][m].source = got[i][n].source => got[i][m].number < got[i][n].number

\* "multiple server instances on the same Postgres see each other's page-change
\* notifications" (event-bus.ts): an event that is emitted and stored while a
\* listener elsewhere is ready reaches it, as long as that listener stays and when
\* rows appear in order, are not pruned early and tail reads do not overlap.  There
\* is a bound on the events, so in the end nothing is owed.
EventsArrive == <>[](mode = {} => \A i \in Instances : owed[i] = {})

\* The rows and the listeners keep their shape, and every event is delivered once.
DeliveryInv == BusTypeOK /\ DeliveredOnceInOrder

=============================================================================
