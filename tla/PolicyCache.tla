----------------------------- MODULE PolicyCache -----------------------------
(***************************************************************************)
(* The permission policy of one server process (services/authz.ts): read   *)
(* from the grants and the page rules once, shared by all the requests, and*)
(* dropped when a rule changes.                                            *)
(*                                                                         *)
(* policy() is asynchronous and nothing locks: requests ask, loads read and*)
(* rule changes commit in any order.  The closure's cachedPolicy,          *)
(* policyLoading and policyGeneration are what keeps them apart.           *)
(*                                                                         *)
(* The grants do not change while the server runs, so a policy is what     *)
(* listPageRules returned: the number of changes committed before it.      *)
(***************************************************************************)
EXTENDS Naturals, FiniteSets

CONSTANTS
  Readers,     \* requests that need a principal
  Editors,     \* requests that create or delete a page rule
  Loads,       \* names for the promises of loads; a settled one is used again
  None,
  Failed,      \* a rejected promise
  MaxChanges   \* bound on the changes of the rules

Versions == 0 .. MaxChanges

VARIABLES
  version,     \* the changes of page_rules committed so far
  cached,      \* cachedPolicy
  loading,     \* policyLoading
  generation,  \* policyGeneration
  loads,       \* the loads: their progress, then their result
  reads,       \* what each reader waits for
  edits,       \* the change that an editor has committed and not answered
  answered,    \* history: the last change that has been answered
  judged       \* history: the policy that the last reader was judged by

vars == <<version, cached, loading, generation, loads, reads, edits, answered,
          judged>>

\* `since' is history: what had been answered when the load began.
Load ==
       [state : {"reading"}, generation : Nat, since : Versions]
  \cup [state : {"read"}, generation : Nat, since : Versions, seen : Versions]
  \cup [state : {"retrying"}, since : Versions, next : Loads]
  \cup [state : {"settled"}, since : Versions, result : Versions \cup {Failed}]

\* `need' is history: what had been answered when the request came.
Read ==
       [state : {"idle"}]
  \cup [state : {"asked"}, need : Versions]
  \cup [state : {"waiting"}, need : Versions, load : Loads, starter : BOOLEAN]

ASSUME PolicyCacheAssumption ==
  /\ MaxChanges \in Nat
  /\ None \notin Versions \cup Loads \cup Load
  /\ Failed \notin Versions \cup {None}

Idle == [state |-> "idle"]

Init ==
  /\ version = 0
  /\ cached = None
  /\ loading = None
  /\ generation = 0
  /\ loads = [l \in Loads |-> None]
  /\ reads = [r \in Readers |-> Idle]
  /\ edits = [e \in Editors |-> None]
  /\ answered = 0
  /\ judged = None

-----------------------------------------------------------------------------
(* Loads.                                                                  *)

WaitsFor(r, l) == reads[r].state = "waiting" /\ reads[r].load = l

Settled(l) == loads[l] # None /\ loads[l].state = "settled"

\* Nobody can tell a load of this name any more.
Free(l) ==
  /\ loads[l] = None \/ Settled(l)
  /\ loading # l
  /\ \A r \in Readers : ~ WaitsFor(r, l)
  /\ \A m \in Loads :
       (loads[m] # None /\ loads[m].state = "retrying") => loads[m].next # l

\* The names do not matter, so one of the free ones is taken.
NewLoad == CHOOSE l \in Loads : Free(l)

Begun == [state |-> "reading", generation |-> generation, since |-> answered]

\* listPermissionGrants and listPageRules.
ReadRules(l) ==
  /\ loads[l] # None /\ loads[l].state = "reading"
  /\ loads' = [loads EXCEPT ![l] =
       [state |-> "read", generation |-> @.generation, since |-> @.since,
        seen |-> version]]
  /\ UNCHANGED <<version, cached, loading, generation, reads, edits, answered,
                 judged>>

SettledAs(l, v) == [state |-> "settled", since |-> loads[l].since, result |-> v]

\* The query fails.
FailLoad(l) ==
  /\ loads[l] # None /\ loads[l].state = "reading"
  /\ loads' = [loads EXCEPT ![l] = SettledAs(l, Failed)]
  /\ UNCHANGED <<version, cached, loading, generation, reads, edits, answered,
                 judged>>

\* Faulty: a load that was overtaken by a change is kept.
KeepAny(l) ==
  /\ loads[l] # None /\ loads[l].state = "read"
  /\ cached' = loads[l].seen
  /\ loads' = [loads EXCEPT ![l] = SettledAs(l, loads[l].seen)]
  /\ UNCHANGED <<version, loading, generation, reads, edits, answered, judged>>

\* No rule changed since the load began: its policy is kept.
Keep(l) ==
  /\ loads[l] # None /\ loads[l].state = "read"
  /\ loads[l].generation = generation
  /\ cached' = loads[l].seen
  /\ loads' = [loads EXCEPT ![l] = SettledAs(l, loads[l].seen)]
  /\ UNCHANGED <<version, loading, generation, reads, edits, answered, judged>>

\* A rule changed: whatever load is under way is forgotten, and policy() is
\* called again, which finds a policy in the cache or begins another load.
Retry(l) ==
  /\ loads[l] # None /\ loads[l].state = "read"
  /\ loads[l].generation # generation
  /\ \/ /\ cached # None
        /\ loads' = [loads EXCEPT ![l] = SettledAs(l, cached)]
        /\ loading' = None
     \/ /\ cached = None
        /\ \E m \in Loads : Free(m)
        /\ loads' = [loads EXCEPT
             ![l] = [state |-> "retrying", since |-> @.since, next |-> NewLoad],
             ![NewLoad] = Begun]
        /\ loading' = NewLoad
  /\ UNCHANGED <<version, cached, generation, reads, edits, answered, judged>>

\* The inner policy() returns, and its finally block runs.
Relay(l) ==
  /\ loads[l] # None /\ loads[l].state = "retrying"
  /\ Settled(loads[l].next)
  /\ loads' = [loads EXCEPT ![l] = SettledAs(l, loads[loads[l].next].result)]
  /\ loading' = IF loading = loads[l].next THEN None ELSE loading
  /\ UNCHANGED <<version, cached, generation, reads, edits, answered, judged>>

-----------------------------------------------------------------------------
(* Readers: principalForUser, principalForApiKey, canAnonymous.            *)

\* A request comes.  It looks up the defaults and the groups first.
Ask(r) ==
  /\ reads[r] = Idle
  /\ reads' = [reads EXCEPT ![r] = [state |-> "asked", need |-> answered]]
  /\ UNCHANGED <<version, cached, loading, generation, loads, edits, answered,
                 judged>>

Judge(r, v) ==
  /\ judged' = v
  /\ reads' = [reads EXCEPT ![r] = Idle]

Waiting(r, l, starter) ==
  [reads EXCEPT ![r] = [state |-> "waiting", need |-> @.need, load |-> l,
                        starter |-> starter]]

UseCached(r) ==
  /\ reads[r].state = "asked"
  /\ cached # None
  /\ Judge(r, cached)
  /\ UNCHANGED <<version, cached, loading, generation, loads, edits, answered>>

Join(r) ==
  /\ reads[r].state = "asked"
  /\ cached = None /\ loading # None
  /\ reads' = Waiting(r, loading, FALSE)
  /\ UNCHANGED <<version, cached, loading, generation, loads, edits, answered,
                 judged>>

StartLoad(r) ==
  /\ reads[r].state = "asked"
  /\ cached = None /\ loading = None
  /\ \E l \in Loads : Free(l)
  /\ loads' = [loads EXCEPT ![NewLoad] = Begun]
  /\ loading' = NewLoad
  /\ reads' = Waiting(r, NewLoad, TRUE)
  /\ UNCHANGED <<version, cached, generation, edits, answered, judged>>

\* Faulty: a failed load is tried again without end.
ReceiveOrAskAgain(r) ==
  /\ reads[r].state = "waiting"
  /\ Settled(reads[r].load)
  /\ \/ /\ loads[reads[r].load].result # Failed
        /\ Judge(r, loads[reads[r].load].result)
     \/ /\ loads[reads[r].load].result = Failed
        /\ reads' = [reads EXCEPT ![r] = [state |-> "asked", need |-> @.need]]
        /\ UNCHANGED judged
  /\ loading' = IF reads[r].starter /\ loading = reads[r].load THEN None
                ELSE loading
  /\ UNCHANGED <<version, cached, generation, loads, edits, answered>>

\* The promise settles; the call that began the load clears policyLoading.
Receive(r) ==
  /\ reads[r].state = "waiting"
  /\ Settled(reads[r].load)
  /\ Judge(r, loads[reads[r].load].result)
  /\ loading' = IF reads[r].starter /\ loading = reads[r].load THEN None
                ELSE loading
  /\ UNCHANGED <<version, cached, generation, loads, edits, answered>>

-----------------------------------------------------------------------------
(* Editors: createPageRule, deletePageRule.                                *)

\* Faulty: the author is answered before anything is invalidated.
AnswerFirst(e) ==
  /\ edits[e] = None
  /\ version < MaxChanges
  /\ version' = version + 1
  /\ edits' = [edits EXCEPT ![e] = version']
  /\ answered' = version'
  /\ UNCHANGED <<cached, loading, generation, loads, reads, judged>>

\* insertPageRule or deletePageRule commits.
CommitRule(e) ==
  /\ edits[e] = None
  /\ version < MaxChanges
  /\ version' = version + 1
  /\ edits' = [edits EXCEPT ![e] = version']
  /\ UNCHANGED <<cached, loading, generation, loads, reads, answered, judged>>

\* The call goes on after its await: it drops what is cached and what is being
\* loaded, and answers.
Invalidate(e) ==
  /\ edits[e] # None
  /\ cached' = None
  /\ loading' = None
  /\ generation' = generation + 1
  /\ answered' = IF edits[e] > answered THEN edits[e] ELSE answered
  /\ edits' = [edits EXCEPT ![e] = None]
  /\ UNCHANGED <<version, loads, reads, judged>>

-----------------------------------------------------------------------------
Reading(r) == UseCached(r) \/ Join(r) \/ StartLoad(r) \/ Receive(r)

Loading(l) == ReadRules(l) \/ FailLoad(l) \/ Keep(l) \/ Retry(l) \/ Relay(l)

Next ==
  \/ \E r \in Readers : Ask(r) \/ Reading(r)
  \/ \E l \in Loads : Loading(l)
  \/ \E e \in Editors : CommitRule(e) \/ Invalidate(e)

\* Queries and promises complete.
Fairness ==
  /\ \A r \in Readers : WF_vars(Reading(r))
  /\ \A l \in Loads : WF_vars(Loading(l))

Spec == Init /\ [][Next]_vars /\ Fairness

-----------------------------------------------------------------------------
PolicyTypeOK ==
  /\ version \in Versions
  /\ cached \in Versions \cup {None}
  /\ loading \in Loads \cup {None}
  /\ generation \in Nat
  /\ loads \in [Loads -> Load \cup {None}]
  /\ reads \in [Readers -> Read]
  /\ edits \in [Editors -> Versions \cup {None}]
  /\ answered \in Versions
  /\ judged \in Versions \cup {None, Failed}

\* A cached policy is the current one, except between the commit of a rule and
\* its answer: no load that was overtaken can put an old policy back.
CachedPolicyIsCurrent ==
  (cached # None /\ \A e \in Editors : edits[e] = None) => cached = version

\* The cache cannot be told from reading the rules: a request is judged by a
\* policy with every change that was answered before the request came, however
\* loads, changes and failures overlap (policy() and its generation counter).
AskedOf(r) == IF reads[r].state = "idle" THEN None ELSE reads[r].need

Reads == INSTANCE PolicyReads WITH
           asked <- [r \in Readers |-> AskedOf(r)]

ReadsAreFresh == Reads!Spec

\* Every request that asks for the policy is answered: loads that are overtaken
\* by changes and calls that wait for each other's loads do not go on for ever.
RequestsAreAnswered == \A r \in Readers : reads[r].state # "idle" ~> reads[r].state = "idle"

=============================================================================
