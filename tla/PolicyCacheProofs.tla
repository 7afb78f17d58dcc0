-------------------------- MODULE PolicyCacheProofs --------------------------
(***************************************************************************)
(* The permission policy for any readers, editors, loads and rule changes: *)
(* its cache cannot be told from reading the rules.                        *)
(***************************************************************************)
EXTENDS PolicyCache, TLAPS

-----------------------------------------------------------------------------
(* Types.                                                                  *)

LEMMA LoadShape ==
  ASSUME PolicyTypeOK, NEW l \in Loads, loads[l] # None
  PROVE  /\ loads[l] \in Load
         /\ loads[l].since \in Versions
         /\ loads[l].state \in {"reading", "read", "retrying", "settled"}
         /\ loads[l].state \in {"reading", "read"} => loads[l].generation \in Nat
         /\ loads[l].state = "read" => loads[l].seen \in Versions
         /\ loads[l].state = "retrying" => loads[l].next \in Loads
         /\ loads[l].state = "settled" => loads[l].result \in Versions \cup {Failed}
BY DEF PolicyTypeOK, Load

LEMMA ReadShape ==
  ASSUME PolicyTypeOK, NEW r \in Readers
  PROVE  /\ reads[r].state \in {"idle", "asked", "waiting"}
         /\ reads[r].state = "idle" => reads[r] = Idle
         /\ reads[r].state # "idle" => reads[r].need \in Versions
         /\ reads[r].state = "waiting" => /\ reads[r].load \in Loads
                                          /\ reads[r].starter \in BOOLEAN
BY DEF PolicyTypeOK, Read, Idle

LEMMA BegunIsLoad ==
  ASSUME PolicyTypeOK
  PROVE  /\ Begun \in Load /\ Begun # None
         /\ Begun.state = "reading" /\ Begun.generation = generation
         /\ Begun.since = answered
BY PolicyCacheAssumption DEF PolicyTypeOK, Begun, Load

LEMMA SettledIsLoad ==
  ASSUME PolicyTypeOK, NEW l \in Loads, loads[l] # None,
         NEW v \in Versions \cup {Failed}
  PROVE  /\ SettledAs(l, v) \in Load /\ SettledAs(l, v) # None
         /\ SettledAs(l, v).state = "settled" /\ SettledAs(l, v).result = v
         /\ SettledAs(l, v).since = loads[l].since
<1>1. loads[l].since \in Versions
  BY LoadShape
<1> QED
  BY <1>1, PolicyCacheAssumption DEF SettledAs, Load

LEMMA NewLoadIsFree ==
  ASSUME \E l \in Loads : Free(l)
  PROVE  NewLoad \in Loads /\ Free(NewLoad)
BY DEF NewLoad

LEMMA PolicyTypeInit == Init => PolicyTypeOK
BY PolicyCacheAssumption DEF Init, PolicyTypeOK, Versions, Read, Idle

LEMMA PolicyTypeNext == PolicyTypeOK /\ [Next]_vars => PolicyTypeOK'
<1> SUFFICES ASSUME PolicyTypeOK, [Next]_vars
             PROVE  PolicyTypeOK'
  OBVIOUS
<1> USE PolicyCacheAssumption
<1>1. ASSUME NEW r \in Readers, Ask(r) PROVE PolicyTypeOK'
  <2>1. [state |-> "asked", need |-> answered] \in Read
    BY DEF PolicyTypeOK, Read
  <2> QED
    BY <1>1, <2>1 DEF Ask, PolicyTypeOK
<1>2. ASSUME NEW r \in Readers, UseCached(r) PROVE PolicyTypeOK'
  <2>1. Idle \in Read
    BY DEF Idle, Read
  <2> QED
    BY <1>2, <2>1 DEF UseCached, Judge, PolicyTypeOK
<1>3. ASSUME NEW r \in Readers, NEW l \in Loads, NEW b \in BOOLEAN,
             reads[r].state = "asked"
      PROVE  Waiting(r, l, b) \in [Readers -> Read]
  <2>1. reads[r].need \in Versions
    BY <1>3, ReadShape
  <2>2. [state |-> "waiting", need |-> reads[r].need, load |-> l, starter |-> b] \in Read
    BY <2>1 DEF Read
  <2> QED
    BY <2>2 DEF Waiting, PolicyTypeOK
<1>4. ASSUME NEW r \in Readers, Join(r) PROVE PolicyTypeOK'
  BY <1>3, <1>4 DEF Join, PolicyTypeOK
<1>5. ASSUME NEW r \in Readers, StartLoad(r) PROVE PolicyTypeOK'
  <2>1. NewLoad \in Loads
    BY <1>5, NewLoadIsFree DEF StartLoad
  <2> QED
    BY <1>3, <1>5, <2>1, BegunIsLoad DEF StartLoad, PolicyTypeOK
<1>6. ASSUME NEW r \in Readers, Receive(r) PROVE PolicyTypeOK'
  <2>1. Idle \in Read
    BY DEF Idle, Read
  <2>2. reads[r].load \in Loads /\ loads[reads[r].load] # None
    BY <1>6, ReadShape DEF Receive, Settled
  <2>3. loads[reads[r].load].result \in Versions \cup {Failed}
    BY <1>6, <2>2, LoadShape DEF Receive, Settled
  <2> QED
    BY <1>6, <2>1, <2>3 DEF Receive, Judge, PolicyTypeOK
<1>7. ASSUME NEW l \in Loads, ReadRules(l) PROVE PolicyTypeOK'
  <2>1. [state |-> "read", generation |-> loads[l].generation,
         since |-> loads[l].since, seen |-> version] \in Load
    BY <1>7, LoadShape DEF ReadRules, PolicyTypeOK, Load
  <2> QED
    BY <1>7, <2>1 DEF ReadRules, PolicyTypeOK
<1>8. ASSUME NEW l \in Loads, FailLoad(l) PROVE PolicyTypeOK'
  <2>1. SettledAs(l, Failed) \in Load
    BY <1>8, SettledIsLoad DEF FailLoad
  <2> QED
    BY <1>8, <2>1 DEF FailLoad, PolicyTypeOK
<1>9. ASSUME NEW l \in Loads, Keep(l) PROVE PolicyTypeOK'
  <2>1. loads[l].seen \in Versions
    BY <1>9, LoadShape DEF Keep
  <2>2. SettledAs(l, loads[l].seen) \in Load
    BY <1>9, <2>1, SettledIsLoad DEF Keep
  <2> QED
    BY <1>9, <2>1, <2>2 DEF Keep, PolicyTypeOK
<1>10. ASSUME NEW l \in Loads, Retry(l) PROVE PolicyTypeOK'
  <2>1. CASE cached # None
    <3>1. SettledAs(l, cached) \in Load
      BY <1>10, <2>1, SettledIsLoad DEF Retry, PolicyTypeOK
    <3> QED
      BY <1>10, <2>1, <3>1 DEF Retry, PolicyTypeOK
  <2>2. CASE cached = None
    <3>1. NewLoad \in Loads
      BY <1>10, <2>2, NewLoadIsFree DEF Retry
    <3>2. [state |-> "retrying", since |-> loads[l].since, next |-> NewLoad] \in Load
      BY <1>10, <3>1, LoadShape DEF Retry, Load
    <3> QED
      BY <1>10, <2>2, <3>1, <3>2, BegunIsLoad DEF Retry, PolicyTypeOK
  <2> QED
    BY <2>1, <2>2
<1>11. ASSUME NEW l \in Loads, Relay(l) PROVE PolicyTypeOK'
  <2>1. loads[l].next \in Loads /\ loads[loads[l].next] # None
    BY <1>11, LoadShape DEF Relay, Settled
  <2>2. loads[loads[l].next].result \in Versions \cup {Failed}
    BY <1>11, <2>1, LoadShape DEF Relay, Settled
  <2>3. SettledAs(l, loads[loads[l].next].result) \in Load
    BY <1>11, <2>2, SettledIsLoad DEF Relay
  <2> QED
    BY <1>11, <2>3 DEF Relay, PolicyTypeOK
<1>12. ASSUME NEW e \in Editors, CommitRule(e) PROVE PolicyTypeOK'
  BY <1>12 DEF CommitRule, PolicyTypeOK, Versions
<1>13. ASSUME NEW e \in Editors, Invalidate(e) PROVE PolicyTypeOK'
  BY <1>13 DEF Invalidate, PolicyTypeOK
<1>14. CASE UNCHANGED vars
  BY <1>14 DEF vars, PolicyTypeOK
<1> QED
  BY <1>1, <1>2, <1>4, <1>5, <1>6, <1>7, <1>8, <1>9, <1>10, <1>11, <1>12,
     <1>13, <1>14 DEF Next, Reading, Loading

\* The cache, the loads and the requests keep their shapes.
THEOREM PolicyTypeCorrect == Spec => []PolicyTypeOK
<1>1. Init => PolicyTypeOK
  BY PolicyTypeInit
<1>2. PolicyTypeOK /\ [Next]_vars => PolicyTypeOK'
  BY PolicyTypeNext
<1> QED
  BY <1>1, <1>2, PTL DEF Spec

-----------------------------------------------------------------------------
(* Freshness.                                                              *)

Pending == \E e \in Editors : edits[e] # None

\* What a load has read, when no rule change was answered since it began, holds
\* every answered change; its result holds every one answered before it began.
LoadIsFresh(l) ==
  loads[l] # None =>
    /\ loads[l].since <= answered
    /\ loads[l].state \in {"reading", "read"} => loads[l].generation <= generation
    /\ loads[l].state = "read" =>
         /\ loads[l].since <= loads[l].seen /\ loads[l].seen <= version
         /\ loads[l].generation = generation =>
              answered <= loads[l].seen /\ (loads[l].seen = version \/ Pending)
    /\ loads[l].state = "retrying" =>
         /\ loads[loads[l].next] # None
         /\ loads[l].since <= loads[loads[l].next].since
    /\ loads[l].state = "settled" /\ loads[l].result # Failed =>
         loads[l].since <= loads[l].result /\ loads[l].result <= version

\* A reader waits for a load that began after all it must be judged by.
ReaderIsServed(r) ==
  /\ reads[r].state # "idle" => reads[r].need <= answered
  /\ reads[r].state = "waiting" =>
       loads[reads[r].load] # None /\ reads[r].need <= loads[reads[r].load].since

CacheIsFresh ==
  cached # None => /\ answered <= cached /\ cached <= version
                   /\ cached = version \/ Pending

\* A load that may still be joined began after the last answered change.
LoadingIsFresh ==
  loading # None => loads[loading] # None /\ loads[loading].since = answered

EditsAreCommitted ==
  answered <= version /\ \A e \in Editors : edits[e] # None => edits[e] <= version

FreshInv ==
  /\ PolicyTypeOK
  /\ EditsAreCommitted
  /\ CacheIsFresh
  /\ LoadingIsFresh
  /\ \A l \in Loads : LoadIsFresh(l)
  /\ \A r \in Readers : ReaderIsServed(r)

LEMMA FreshInit == Init => FreshInv
BY PolicyTypeInit, PolicyCacheAssumption
   DEF Init, FreshInv, EditsAreCommitted, CacheIsFresh, LoadingIsFresh, LoadIsFresh,
       ReaderIsServed, Idle

LEMMA AskFresh ==
  ASSUME FreshInv, NEW r \in Readers, Ask(r), PolicyTypeOK'
  PROVE  FreshInv'
<1>1. answered <= answered
  BY DEF FreshInv, PolicyTypeOK, Versions
<1> QED
  BY <1>1 DEF FreshInv, Ask, EditsAreCommitted, CacheIsFresh, LoadingIsFresh,
     LoadIsFresh, ReaderIsServed, Pending, PolicyTypeOK

LEMMA UseCachedFresh ==
  ASSUME FreshInv, NEW r \in Readers, UseCached(r), PolicyTypeOK'
  PROVE  FreshInv'
BY DEF FreshInv, UseCached, Judge, Idle, EditsAreCommitted, CacheIsFresh,
       LoadingIsFresh, LoadIsFresh, ReaderIsServed, Pending, PolicyTypeOK

LEMMA JoinFresh ==
  ASSUME FreshInv, NEW r \in Readers, Join(r), PolicyTypeOK'
  PROVE  FreshInv'
<1>1. \A q \in Readers : ReaderIsServed(q)'
  BY DEF Join, Waiting, FreshInv, ReaderIsServed, LoadingIsFresh, PolicyTypeOK
<1> QED
  BY <1>1 DEF FreshInv, Join, EditsAreCommitted, CacheIsFresh, LoadingIsFresh,
     LoadIsFresh, Pending

LEMMA ReceiveFresh ==
  ASSUME FreshInv, NEW r \in Readers, Receive(r), PolicyTypeOK'
  PROVE  FreshInv'
<1>1. \A q \in Readers : ReaderIsServed(q)'
  BY DEF Receive, Judge, Idle, FreshInv, ReaderIsServed, PolicyTypeOK
<1> QED
  BY <1>1 DEF FreshInv, Receive, EditsAreCommitted, CacheIsFresh, LoadingIsFresh,
     LoadIsFresh, Pending

\* A load that begins under a free name disturbs no other.
LEMMA BeginFresh ==
  ASSUME FreshInv, NEW m \in Loads, Free(m), PolicyTypeOK',
         loads'[m] = Begun, UNCHANGED <<version, generation, answered, edits>>
  PROVE  LoadIsFresh(m)'
<1>1. loads'[m] # None /\ loads'[m].state = "reading"
      /\ loads'[m].generation = generation /\ loads'[m].since = answered
  BY BegunIsLoad DEF FreshInv
<1> QED
  BY <1>1 DEF LoadIsFresh, FreshInv, PolicyTypeOK, Versions

LEMMA StartLoadFresh ==
  ASSUME FreshInv, NEW r \in Readers, StartLoad(r), PolicyTypeOK'
  PROVE  FreshInv'
<1>1. PICK m \in Loads :
        /\ Free(m) /\ loads' = [loads EXCEPT ![m] = Begun] /\ loading' = m
        /\ reads' = Waiting(r, m, TRUE)
  BY NewLoadIsFree DEF StartLoad
<1>2. loads'[m] = Begun /\ \A l \in Loads \ {m} : loads'[l] = loads[l]
  BY <1>1 DEF FreshInv, PolicyTypeOK
<1>3. Begun # None /\ Begun.since = answered
  BY BegunIsLoad DEF FreshInv
<1>4. UNCHANGED <<version, cached, generation, edits, answered, judged>>
  BY DEF StartLoad
<1>5. \A l \in Loads : LoadIsFresh(l)'
  <2>1. LoadIsFresh(m)'
    BY <1>1, <1>2, <1>4, BeginFresh
  <2>2. ASSUME NEW l \in Loads, l # m PROVE LoadIsFresh(l)'
    <3>1. loads'[l] = loads[l]
      BY <1>2, <2>2
    <3>2. loads[l] # None /\ loads[l].state = "retrying" =>
            loads[l].next \in Loads /\ loads[l].next # m
      BY <1>1, LoadShape DEF Free, FreshInv
    <3> QED
      BY <1>2, <1>4, <3>1, <3>2 DEF LoadIsFresh, FreshInv, Pending
  <2> QED
    BY <2>1, <2>2
<1>6. \A q \in Readers : ReaderIsServed(q)'
  <2>1. ReaderIsServed(r)'
    <3>1. reads'[r].state = "waiting" /\ reads'[r].need = reads[r].need /\ reads'[r].load = m
      BY <1>1 DEF Waiting, FreshInv, PolicyTypeOK
    <3> QED
      BY <1>2, <1>3, <1>4, <3>1 DEF ReaderIsServed, FreshInv, StartLoad
  <2>2. ASSUME NEW q \in Readers, q # r PROVE ReaderIsServed(q)'
    <3>1. reads'[q] = reads[q]
      BY <1>1, <2>2 DEF Waiting, FreshInv, PolicyTypeOK
    <3>2. reads[q].state = "waiting" => reads[q].load \in Loads \ {m}
      BY <1>1, ReadShape DEF Free, WaitsFor, FreshInv
    <3> QED
      BY <1>2, <1>4, <3>1, <3>2 DEF ReaderIsServed, FreshInv
  <2> QED
    BY <2>1, <2>2
<1>7. LoadingIsFresh'
  BY <1>1, <1>2, <1>3, <1>4 DEF LoadingIsFresh
<1> QED
  BY <1>4, <1>5, <1>6, <1>7 DEF FreshInv, EditsAreCommitted, CacheIsFresh, Pending

\* A load that reads, settles or waits for another keeps its place in history.
LEMMA ProgressFresh ==
  ASSUME FreshInv, PolicyTypeOK', NEW l \in Loads, loads[l] # None,
         NEW new, loads' = [loads EXCEPT ![l] = new],
         new # None, new.since = loads[l].since,
         LoadIsFresh(l)', LoadingIsFresh', CacheIsFresh',
         UNCHANGED <<version, generation, reads, edits, answered>>
  PROVE  FreshInv'
<1>1. \A k \in Loads \ {l} : loads'[k] = loads[k]
  BY DEF FreshInv, PolicyTypeOK
<1>2. \A k \in Loads : loads[k] # None =>
        loads'[k] # None /\ loads'[k].since = loads[k].since
  BY <1>1 DEF FreshInv, PolicyTypeOK
<1>3. ASSUME NEW k \in Loads, k # l PROVE LoadIsFresh(k)'
  <2>1. loads'[k] = loads[k]
    BY <1>1, <1>3
  <2>2. loads[k] # None /\ loads[k].state = "retrying" => loads[k].next \in Loads
    BY LoadShape DEF FreshInv
  <2> QED
    BY <1>2, <2>1, <2>2 DEF LoadIsFresh, FreshInv, Pending
<1>4. \A k \in Loads : LoadIsFresh(k)'
  BY <1>3
<1>5. \A r \in Readers : ReaderIsServed(r)'
  BY <1>2, ReadShape DEF FreshInv, ReaderIsServed
<1> QED
  BY <1>4, <1>5 DEF FreshInv, EditsAreCommitted

\* Every load goes on under its own name, so what may be joined stays joinable.
LEMMA LoadingStays ==
  ASSUME FreshInv, NEW l \in Loads, NEW new, loads' = [loads EXCEPT ![l] = new],
         new # None, new.since = loads[l].since, loading' \in {loading, None},
         UNCHANGED answered
  PROVE  LoadingIsFresh'
BY DEF FreshInv, LoadingIsFresh, PolicyTypeOK

LEMMA ReadRulesFresh ==
  ASSUME FreshInv, NEW l \in Loads, ReadRules(l), PolicyTypeOK'
  PROVE  FreshInv'
<1>1. PICK new : /\ new = [state |-> "read", generation |-> loads[l].generation,
                           since |-> loads[l].since, seen |-> version]
                 /\ loads' = [loads EXCEPT ![l] = new]
  BY DEF ReadRules, FreshInv, PolicyTypeOK
<1>2. new \in Load /\ new # None /\ loads[l].since \in Versions
  BY <1>1, LoadShape, PolicyCacheAssumption DEF ReadRules, FreshInv, PolicyTypeOK, Load
<1>3. loads'[l] = new
  BY <1>1 DEF FreshInv, PolicyTypeOK
<1>4. LoadIsFresh(l)'
  BY <1>1, <1>2, <1>3 DEF LoadIsFresh, FreshInv, ReadRules, EditsAreCommitted,
     PolicyTypeOK, Versions
<1>5. CacheIsFresh'
  BY DEF ReadRules, FreshInv, CacheIsFresh, Pending
<1>6. LoadingIsFresh'
  BY <1>1, <1>2, LoadingStays DEF ReadRules
<1> QED
  BY <1>1, <1>2, <1>4, <1>5, <1>6, ProgressFresh DEF ReadRules

\* A load settles with a result that is fresh enough, or fails.
LEMMA SettleFresh ==
  ASSUME FreshInv, PolicyTypeOK', NEW l \in Loads, loads[l] # None,
         NEW v \in Versions \cup {Failed},
         v # Failed => loads[l].since <= v /\ v <= version,
         loads' = [loads EXCEPT ![l] = SettledAs(l, v)],
         loading' \in {loading, None}, CacheIsFresh',
         UNCHANGED <<version, generation, reads, edits, answered>>
  PROVE  FreshInv'
<1>1. PICK new : new = SettledAs(l, v) /\ loads' = [loads EXCEPT ![l] = new]
  OBVIOUS
<1>2. /\ new # None /\ new.since = loads[l].since
      /\ new.state = "settled" /\ new.result = v
  BY <1>1, SettledIsLoad DEF FreshInv
<1>3. loads'[l] = new
  BY <1>1 DEF FreshInv, PolicyTypeOK
<1>4. LoadIsFresh(l)'
  BY <1>2, <1>3 DEF LoadIsFresh, FreshInv
<1>5. LoadingIsFresh'
  BY <1>1, <1>2, LoadingStays
<1> QED
  BY <1>1, <1>2, <1>4, <1>5, ProgressFresh

LEMMA FailLoadFresh ==
  ASSUME FreshInv, NEW l \in Loads, FailLoad(l), PolicyTypeOK'
  PROVE  FreshInv'
<1>1. CacheIsFresh'
  BY DEF FailLoad, FreshInv, CacheIsFresh, Pending
<1> QED
  BY <1>1, SettleFresh DEF FailLoad

LEMMA KeepFresh ==
  ASSUME FreshInv, NEW l \in Loads, Keep(l), PolicyTypeOK'
  PROVE  FreshInv'
<1>1. loads[l].seen \in Versions
  BY LoadShape DEF Keep, FreshInv
<1>2. /\ loads[l].since <= loads[l].seen /\ loads[l].seen <= version
      /\ answered <= loads[l].seen /\ (loads[l].seen = version \/ Pending)
  BY DEF FreshInv, LoadIsFresh, Keep
<1>3. CacheIsFresh'
  BY <1>2 DEF Keep, CacheIsFresh, Pending
<1> QED
  BY <1>1, <1>2, <1>3, SettleFresh DEF Keep

LEMMA RelayFresh ==
  ASSUME FreshInv, NEW l \in Loads, Relay(l), PolicyTypeOK'
  PROVE  FreshInv'
<1>1. loads[l].next \in Loads /\ loads[loads[l].next] # None
  BY LoadShape DEF Relay, Settled, FreshInv
<1>2. PICK v : v = loads[loads[l].next].result
  OBVIOUS
<1>3. v \in Versions \cup {Failed}
  BY <1>1, <1>2, LoadShape DEF Relay, Settled, FreshInv
<1>4. loads[l].since <= loads[loads[l].next].since
  BY DEF FreshInv, LoadIsFresh, Relay
<1>5. v # Failed => loads[loads[l].next].since <= v /\ v <= version
  BY <1>1, <1>2 DEF FreshInv, LoadIsFresh, Relay, Settled
<1>6. loads[l].since \in Versions /\ loads[loads[l].next].since \in Versions
  BY <1>1, LoadShape DEF FreshInv, Relay
<1>7. v # Failed => loads[l].since <= v /\ v <= version
  BY <1>3, <1>4, <1>5, <1>6 DEF Versions
<1>8. CacheIsFresh'
  BY DEF Relay, FreshInv, CacheIsFresh, Pending
<1> QED
  BY <1>2, <1>3, <1>7, <1>8, SettleFresh DEF Relay

LEMMA RetryFresh ==
  ASSUME FreshInv, NEW l \in Loads, Retry(l), PolicyTypeOK'
  PROVE  FreshInv'
<1>0. CacheIsFresh'
  BY DEF Retry, FreshInv, CacheIsFresh, Pending
<1>1. loads[l].since \in Versions /\ loads[l].since <= answered
  BY LoadShape DEF FreshInv, LoadIsFresh, Retry
<1>2. CASE cached # None
  <2>1. cached \in Versions /\ answered <= cached /\ cached <= version
    BY <1>2 DEF FreshInv, CacheIsFresh, PolicyTypeOK
  <2>2. loads[l].since <= cached
    BY <1>1, <2>1 DEF FreshInv, PolicyTypeOK, Versions
  <2> QED
    BY <1>0, <1>2, <2>1, <2>2, SettleFresh DEF Retry
<1>3. CASE cached = None
  <2>13. PICK m \in Loads : \E new :
           /\ Free(m)
           /\ new = [state |-> "retrying", since |-> loads[l].since, next |-> m]
           /\ loads' = [loads EXCEPT ![l] = new, ![m] = Begun]
           /\ loading' = m
    BY <1>3, NewLoadIsFree DEF Retry, FreshInv, PolicyTypeOK
  <2>1. PICK new :
          /\ Free(m)
          /\ new = [state |-> "retrying", since |-> loads[l].since, next |-> m]
          /\ loads' = [loads EXCEPT ![l] = new, ![m] = Begun]
          /\ loading' = m
    BY <2>13
  <2>2. m # l
    BY <2>1 DEF Free, Retry, Settled
  <2>3. /\ loads'[l] = new /\ loads'[m] = Begun
        /\ \A k \in Loads \ {l, m} : loads'[k] = loads[k]
    BY <2>1, <2>2 DEF FreshInv, PolicyTypeOK
  <2>4. new # None /\ Begun # None /\ Begun.since = answered
    BY <1>1, <2>1, BegunIsLoad, PolicyCacheAssumption DEF FreshInv, Load
  <2>5. UNCHANGED <<version, cached, generation, reads, edits, answered, judged>>
    BY DEF Retry
  <2>6. \A k \in Loads \ {m} : loads[k] # None =>
          loads'[k] # None /\ loads'[k].since = loads[k].since
    <3>1. new.since = loads[l].since
      BY <2>1
    <3> QED
      BY <2>3, <2>4, <3>1
  <2>7. LoadIsFresh(m)'
    BY <2>1, <2>3, <2>5, BeginFresh
  <2>8. LoadIsFresh(l)'
    BY <1>1, <2>1, <2>3, <2>4, <2>5 DEF LoadIsFresh
  <2>9. ASSUME NEW k \in Loads, k # l, k # m PROVE LoadIsFresh(k)'
    <3>1. loads'[k] = loads[k]
      BY <2>3, <2>9
    <3>2. loads[k] # None /\ loads[k].state = "retrying" =>
            loads[k].next \in Loads \ {m}
      BY <2>1, LoadShape DEF Free, FreshInv
    <3>3. loads[k] # None /\ loads[k].state = "retrying" =>
            /\ loads'[loads[k].next] # None
            /\ loads'[loads[k].next].since = loads[loads[k].next].since
      BY <2>6, <3>2 DEF FreshInv, LoadIsFresh
    <3> QED
      BY <2>5, <3>1, <3>3 DEF LoadIsFresh, FreshInv, Pending
  <2>10. \A k \in Loads : LoadIsFresh(k)'
    BY <2>7, <2>8, <2>9
  <2>11. ASSUME NEW q \in Readers PROVE ReaderIsServed(q)'
    <3>1. reads[q].state = "waiting" => reads[q].load \in Loads \ {m}
      BY <2>1, ReadShape DEF Free, WaitsFor, FreshInv
    <3> QED
      BY <2>5, <2>6, <3>1 DEF ReaderIsServed, FreshInv
  <2>12. LoadingIsFresh'
    BY <2>1, <2>3, <2>4, <2>5 DEF LoadingIsFresh
  <2> QED
    BY <1>0, <2>5, <2>10, <2>11, <2>12 DEF FreshInv, EditsAreCommitted
<1> QED
  BY <1>2, <1>3

LEMMA CommitRuleFresh ==
  ASSUME FreshInv, NEW e \in Editors, CommitRule(e), PolicyTypeOK'
  PROVE  FreshInv'
<1>1. version' = version + 1 /\ version \in Nat /\ answered \in Nat
  BY PolicyCacheAssumption DEF CommitRule, FreshInv, PolicyTypeOK, Versions
<1>2. edits'[e] = version' /\ \A d \in Editors \ {e} : edits'[d] = edits[d]
  BY DEF CommitRule, FreshInv, PolicyTypeOK
<1>3. Pending'
  BY <1>1, <1>2, PolicyCacheAssumption DEF Pending, PolicyTypeOK
<1>4. UNCHANGED <<cached, loading, generation, loads, reads, answered, judged>>
  BY DEF CommitRule
<1>5. EditsAreCommitted'
  BY <1>1, <1>2, <1>4 DEF EditsAreCommitted, FreshInv, PolicyTypeOK, Versions
<1>6. CacheIsFresh'
  BY <1>1, <1>3, <1>4 DEF CacheIsFresh, FreshInv, PolicyTypeOK, Versions
<1>7. ASSUME NEW l \in Loads PROVE LoadIsFresh(l)'
  <2>1. loads[l] # None => /\ loads[l].state = "read" => loads[l].seen \in Nat
                           /\ loads[l].state = "settled" /\ loads[l].result # Failed
                                => loads[l].result \in Nat
    BY LoadShape DEF FreshInv, Versions
  <2>2. LoadIsFresh(l)
    BY DEF FreshInv
  <2> QED
    BY <1>1, <1>3, <1>4, <2>1, <2>2 DEF LoadIsFresh
<1>8. LoadingIsFresh' /\ \A r \in Readers : ReaderIsServed(r)'
  BY <1>4 DEF FreshInv, LoadingIsFresh, ReaderIsServed
<1> QED
  BY <1>5, <1>6, <1>7, <1>8 DEF FreshInv

LEMMA InvalidateFresh ==
  ASSUME FreshInv, NEW e \in Editors, Invalidate(e), PolicyTypeOK'
  PROVE  FreshInv'
<1>1. answered \in Nat /\ answered' \in Nat /\ version \in Nat /\ edits[e] \in Nat
      /\ edits[e] <= version /\ answered <= version
  BY DEF Invalidate, FreshInv, EditsAreCommitted, PolicyTypeOK, Versions
<1>2. answered <= answered' /\ answered' <= version
  BY <1>1 DEF Invalidate
<1>3. cached' = None /\ loading' = None /\ generation' = generation + 1
      /\ generation \in Nat
  BY DEF Invalidate, FreshInv, PolicyTypeOK
<1>4. UNCHANGED <<version, loads, reads>>
  BY DEF Invalidate
<1>5. EditsAreCommitted'
  BY <1>2, <1>4 DEF Invalidate, EditsAreCommitted, FreshInv, PolicyTypeOK
<1>6. ASSUME NEW l \in Loads PROVE LoadIsFresh(l)'
  <2>1. loads[l] # None => /\ loads[l].since \in Nat
                           /\ loads[l].state \in {"reading", "read"} =>
                                loads[l].generation \in Nat
    BY LoadShape DEF FreshInv, Versions
  <2>2. LoadIsFresh(l)
    BY DEF FreshInv
  <2> QED
    BY <1>1, <1>2, <1>3, <1>4, <2>1, <2>2 DEF LoadIsFresh
<1>7. ASSUME NEW r \in Readers PROVE ReaderIsServed(r)'
  <2>1. reads[r].state # "idle" => reads[r].need \in Nat
    BY ReadShape DEF FreshInv, Versions
  <2> QED
    BY <1>1, <1>2, <1>4, <2>1 DEF ReaderIsServed, FreshInv
<1>8. CacheIsFresh' /\ LoadingIsFresh'
  BY <1>3 DEF CacheIsFresh, LoadingIsFresh
<1> QED
  BY <1>5, <1>6, <1>7, <1>8 DEF FreshInv

LEMMA FreshNext == FreshInv /\ [Next]_vars => FreshInv'
<1> SUFFICES ASSUME FreshInv, [Next]_vars
             PROVE  FreshInv'
  OBVIOUS
<1>1. PolicyTypeOK'
  BY PolicyTypeNext DEF FreshInv
<1>2. ASSUME NEW r \in Readers, Ask(r) \/ Reading(r) PROVE FreshInv'
  BY <1>1, <1>2, AskFresh, UseCachedFresh, JoinFresh, StartLoadFresh, ReceiveFresh
     DEF Reading
<1>3. ASSUME NEW l \in Loads, Loading(l) PROVE FreshInv'
  BY <1>1, <1>3, ReadRulesFresh, FailLoadFresh, KeepFresh, RetryFresh, RelayFresh
     DEF Loading
<1>4. ASSUME NEW e \in Editors, CommitRule(e) \/ Invalidate(e) PROVE FreshInv'
  BY <1>1, <1>4, CommitRuleFresh, InvalidateFresh
<1>5. CASE UNCHANGED vars
  BY <1>1, <1>5 DEF vars, FreshInv, EditsAreCommitted, CacheIsFresh, LoadingIsFresh,
     LoadIsFresh, ReaderIsServed, Pending
<1> QED
  BY <1>2, <1>3, <1>4, <1>5 DEF Next

THEOREM CacheStaysFresh == Spec => []FreshInv
<1>1. Init => FreshInv
  BY FreshInit
<1>2. FreshInv /\ [Next]_vars => FreshInv'
  BY FreshNext
<1> QED
  BY <1>1, <1>2, PTL DEF Spec

\* A cached policy is the current one unless a rule change is on its way.
THEOREM CachedPolicyIsCurrentHolds == Spec => []CachedPolicyIsCurrent
<1>1. FreshInv => CachedPolicyIsCurrent
  BY DEF FreshInv, CacheIsFresh, Pending, CachedPolicyIsCurrent
<1> QED
  BY <1>1, CacheStaysFresh, PTL

-----------------------------------------------------------------------------
(* The cache implements the policy without a cache.                        *)

LEMMA ReadsInit == Init => Reads!Init
BY DEF Init, Reads!Init, AskedOf, Idle

\* A step that leaves the readers alone is a change, an answer, or nothing.
LEMMA ReadsIdle ==
  ASSUME UNCHANGED <<version, answered, reads, judged>>
  PROVE  UNCHANGED Reads!vars
BY DEF Reads!vars, AskedOf

LEMMA ReadsAsk ==
  ASSUME FreshInv, NEW r \in Readers, Ask(r)
  PROVE  Reads!Ask(r)
<1>1. reads[r].state = "idle"
  BY DEF Ask, Idle
<1>2. /\ reads'[r].state = "asked" /\ reads'[r].need = answered
      /\ \A q \in Readers \ {r} : reads'[q] = reads[q]
  BY DEF Ask, FreshInv, PolicyTypeOK
<1>3. /\ AskedOf(r) = None /\ AskedOf(r)' = answered
      /\ \A q \in Readers \ {r} : AskedOf(q)' = AskedOf(q)
  BY <1>1, <1>2 DEF AskedOf
<1>4. [q \in Readers |-> AskedOf(q)]' =
        [[q \in Readers |-> AskedOf(q)] EXCEPT ![r] = answered]
  BY <1>3
<1> QED
  BY <1>3, <1>4 DEF Ask, Reads!Ask

\* Whoever is judged stops asking, and is judged by a fresh policy or none.
LEMMA ReadsJudge ==
  ASSUME FreshInv, NEW r \in Readers, reads[r].state # "idle",
         NEW v, Judge(r, v), v \in (reads[r].need .. version) \cup {Failed},
         UNCHANGED <<version, answered>>
  PROVE  Reads!Judge(r)
<1>1. reads[r].need # None
  BY ReadShape, PolicyCacheAssumption DEF FreshInv
<1>2. /\ reads'[r].state = "idle"
      /\ \A q \in Readers \ {r} : reads'[q] = reads[q]
  BY DEF Judge, Idle, FreshInv, PolicyTypeOK
<1>3. /\ AskedOf(r) = reads[r].need /\ AskedOf(r)' = None
      /\ \A q \in Readers \ {r} : AskedOf(q)' = AskedOf(q)
  BY <1>2 DEF AskedOf
<1>4. [q \in Readers |-> AskedOf(q)]' =
        [[q \in Readers |-> AskedOf(q)] EXCEPT ![r] = None]
  BY <1>3
<1>5. [q \in Readers |-> AskedOf(q)][r] = reads[r].need
  BY <1>3
<1> QED
  BY <1>1, <1>4, <1>5 DEF Judge, Reads!Judge

LEMMA ReadsUseCached ==
  ASSUME FreshInv, NEW r \in Readers, UseCached(r)
  PROVE  Reads!Judge(r)
<1>1. /\ reads[r].state = "asked" /\ cached # None /\ Judge(r, cached)
      /\ UNCHANGED <<version, answered>>
  BY DEF UseCached
<1>2. reads[r].need <= answered /\ answered <= cached /\ cached <= version
  BY <1>1 DEF FreshInv, ReaderIsServed, CacheIsFresh
<1>3. reads[r].need \in Nat /\ answered \in Nat /\ cached \in Nat /\ version \in Nat
  BY <1>1, ReadShape DEF FreshInv, PolicyTypeOK, Versions
<1>4. cached \in reads[r].need .. version
  BY <1>2, <1>3
<1> QED
  BY <1>1, <1>4, ReadsJudge

LEMMA ReadsReceive ==
  ASSUME FreshInv, NEW r \in Readers, Receive(r)
  PROVE  Reads!Judge(r)
<1>1. PICK l \in Loads : l = reads[r].load
  BY ReadShape DEF Receive, FreshInv
<1>2. PICK v : v = loads[l].result
  OBVIOUS
<1>3. /\ reads[r].state = "waiting" /\ loads[l] # None /\ loads[l].state = "settled"
      /\ Judge(r, v) /\ UNCHANGED <<version, answered>>
  BY <1>1, <1>2 DEF Receive, Settled
<1>4. v \in Versions \cup {Failed} /\ loads[l].since \in Versions
      /\ reads[r].need \in Versions /\ version \in Versions
  BY <1>2, <1>3, LoadShape, ReadShape DEF FreshInv, PolicyTypeOK
<1>5. reads[r].need <= loads[l].since
  BY <1>1, <1>3 DEF FreshInv, ReaderIsServed
<1>6. v # Failed => loads[l].since <= v /\ v <= version
  BY <1>2, <1>3 DEF FreshInv, LoadIsFresh
<1>7. v \in (reads[r].need .. version) \cup {Failed}
  BY <1>4, <1>5, <1>6 DEF Versions
<1> QED
  BY <1>3, <1>7, ReadsJudge

LEMMA ReadsInvalidate ==
  ASSUME FreshInv, NEW e \in Editors, Invalidate(e)
  PROVE  Reads!Acknowledge
<1>1. answered \in Nat /\ version \in Nat /\ edits[e] \in Nat
      /\ edits[e] <= version /\ answered <= version
  BY DEF Invalidate, FreshInv, EditsAreCommitted, PolicyTypeOK, Versions
<1>2. answered' \in answered .. version
  BY <1>1 DEF Invalidate
<1> QED
  BY <1>2 DEF Invalidate, Reads!Acknowledge, AskedOf

LEMMA ReadsNext == FreshInv /\ [Next]_vars => [Reads!Next]_(Reads!vars)
<1> SUFFICES ASSUME FreshInv, [Next]_vars
             PROVE  Reads!Next \/ UNCHANGED Reads!vars
  OBVIOUS
<1>1. ASSUME NEW r \in Readers, Ask(r) \/ Reading(r)
      PROVE  Reads!Next \/ UNCHANGED Reads!vars
  <2>1. CASE Ask(r)
    BY <2>1, ReadsAsk DEF Reads!Next
  <2>2. CASE UseCached(r)
    BY <2>2, ReadsUseCached DEF Reads!Next
  <2>3. ASSUME NEW l, NEW b, reads[r].state = "asked", reads' = Waiting(r, l, b)
        PROVE  \A q \in Readers : AskedOf(q)' = AskedOf(q)
    BY <2>3 DEF Waiting, AskedOf, FreshInv, PolicyTypeOK
  <2>4. CASE Join(r)
    BY <2>3, <2>4 DEF Join, Reads!vars
  <2>5. CASE StartLoad(r)
    BY <2>3, <2>5 DEF StartLoad, Reads!vars
  <2>6. CASE Receive(r)
    BY <2>6, ReadsReceive DEF Reads!Next
  <2> QED
    BY <1>1, <2>1, <2>2, <2>4, <2>5, <2>6 DEF Reading
<1>2. ASSUME NEW l \in Loads, Loading(l) PROVE UNCHANGED Reads!vars
  BY <1>2, ReadsIdle DEF Loading, ReadRules, FailLoad, Keep, Retry, Relay
<1>3. ASSUME NEW e \in Editors, CommitRule(e) PROVE Reads!Change
  BY <1>3 DEF CommitRule, Reads!Change, AskedOf
<1>4. ASSUME NEW e \in Editors, Invalidate(e) PROVE Reads!Acknowledge
  BY <1>4, ReadsInvalidate
<1>5. CASE UNCHANGED vars
  BY <1>5, ReadsIdle DEF vars
<1> QED
  BY <1>1, <1>2, <1>3, <1>4, <1>5 DEF Next, Reads!Next

\* However loads, rule changes, failures and requests overlap, every request is
\* judged by a policy with all that was answered before it came.
THEOREM ReadsAreFreshHolds == Spec => ReadsAreFresh
<1>1. Init => Reads!Init
  BY ReadsInit
<1>2. FreshInv /\ [Next]_vars => [Reads!Next]_(Reads!vars)
  BY ReadsNext
<1> QED
  BY <1>1, <1>2, CacheStaysFresh, PTL DEF Spec, ReadsAreFresh, Reads!Spec

=============================================================================
