----------------------------- MODULE RateLimiter -----------------------------
(***************************************************************************)
(* The rate limiters of the HTTP application (http/rate-limit.ts,          *)
(* http/app.ts): a window that slides over the hits of each key, in the    *)
(* memory of a process or in a table that several processes share.         *)
(*                                                                         *)
(* A check is synchronous, so it is one step.  A bucket is the sequence of *)
(* the times of its hits; lastSeen is never before the last of them, and   *)
(* is left out because sweep asks for both.                                *)
(***************************************************************************)
EXTENDS Naturals, FiniteSets, SequencesExt

CONSTANTS
  LimitKeys,    \* scope, subject and address
  HitLimit,
  HitWindow,    \* windowMs
  MaxBuckets,
  MaxNow,       \* bound on the clock
  Limiters,     \* the processes that share the table
  Stores        \* of "memory" and "database", to choose from

VARIABLES
  store,
  now,
  hits,         \* the hits of each key: the buckets, or rate_limit_hits
  order,        \* the keys of the buckets in the order of the Map
  lastSweep,
  passed        \* history: when each key was let through within the window, since its
                \* hits were last trimmed or lost with the process

limitVars == <<store, now, hits, order, lastSweep, passed>>

\* A memory has one process.
Alone == CHOOSE i \in Limiters : TRUE

LimitInit ==
  /\ store \in Stores
  /\ now = HitWindow
  /\ hits = [k \in LimitKeys |-> <<>>]
  /\ order = <<>>
  /\ lastSweep = [i \in Limiters |-> 0]
  /\ passed = [k \in LimitKeys |-> <<>>]

\* Faulty: a hit counts for a moment longer than the window.
FreshTooLong(times, t) == SelectSeq(times, LAMBDA at : at + HitWindow >= t)

\* The hits that are later than the cutoff.
Fresh(times, t) == SelectSeq(times, LAMBDA at : at + HitWindow > t)

Buckets(table) == {k \in LimitKeys : table[k] # <<>>}
FreshBuckets(table) == {k \in LimitKeys : Fresh(table[k], now) # <<>>}

\* sweep: at most once in a window.
SweepIsDue(i) == now >= lastSweep[i] + HitWindow
Swept(i) ==
  IF SweepIsDue(i) THEN [k \in LimitKeys |-> Fresh(hits[k], now)] ELSE hits
SweptAt(i) == IF SweepIsDue(i) THEN [lastSweep EXCEPT ![i] = now] ELSE lastSweep

\* trimOverflow of the table: ORDER BY MAX(hit_at), which is free among equals and
\* counts the rows that have expired and are not swept.
Oldest(table, n) ==
  { old \in SUBSET Buckets(table) :
      /\ Cardinality(old) = n
      /\ \A k \in old, kept \in Buckets(table) \ old : Last(table[k]) <= Last(table[kept]) }

TrimmedRows(table) ==
  LET overflow == Cardinality(FreshBuckets(table)) - MaxBuckets
  IN  IF overflow <= 0 THEN {{}} ELSE Oldest(table, overflow)

\* trimOverflow of the memory: the keys that were checked the longest ago.
TrimmedKeys(keys) ==
  IF Len(keys) <= MaxBuckets THEN {} ELSE ToSet(SubSeq(keys, 1, Len(keys) - MaxBuckets))

Without(table, keys) == [k \in LimitKeys |-> IF k \in keys THEN <<>> ELSE table[k]]

\* Whether the window lets the key through, and what a hit leaves.
Passes(times) == Len(times) < HitLimit
AfterCheck(table, k) ==
  LET times == Fresh(table[k], now)
  IN  [table EXCEPT ![k] = IF Passes(times) THEN Append(times, now) ELSE times]

Remember(k, ok, trimmed) ==
  passed' = Without(IF ok THEN [passed EXCEPT ![k] = Append(@, now)] ELSE passed, trimmed)

MovedToEnd(keys, k) == Append(SelectSeq(keys, LAMBDA key : key # k), k)

\* check of createRateLimiter.
CheckMemory(i, k, ok) ==
  /\ store = "memory" /\ i = Alone
  /\ LET swept == Swept(i)
         checked == AfterCheck(swept, k)
         keys == MovedToEnd(SelectSeq(order, LAMBDA key : swept[key] # <<>>), k)
         trimmed == IF ok THEN TrimmedKeys(keys) ELSE {}
     IN  /\ ok = Passes(Fresh(swept[k], now))
         /\ hits' = Without(checked, trimmed)
         /\ order' = SelectSeq(keys, LAMBDA key : key \notin trimmed)
         /\ Remember(k, ok, trimmed)
  /\ lastSweep' = SweptAt(i)
  /\ UNCHANGED <<store, now>>

\* check of createDbRateLimiter, in one BEGIN IMMEDIATE transaction.
CheckDatabase(i, k, ok) ==
  /\ store = "database"
  /\ LET swept == Swept(i)
         checked == AfterCheck(swept, k)
     IN  \E trimmed \in (IF ok THEN TrimmedRows(checked) ELSE {{}}) :
           /\ ok = Passes(Fresh(swept[k], now))
           /\ hits' = Without(checked, trimmed)
           /\ Remember(k, ok, trimmed)
  /\ lastSweep' = SweptAt(i)
  /\ UNCHANGED <<store, now, order>>

\* The transaction fails and is rolled back; lastSweep is not.
FailDatabase(i) ==
  /\ store = "database"
  /\ lastSweep' = SweptAt(i)
  /\ UNCHANGED <<store, now, hits, order, passed>>

\* The process of a limiter starts again: what it had in memory is gone.
RestartLimiter(i) ==
  /\ store = "memory" => i = Alone
  /\ lastSweep[i] # 0
  /\ lastSweep' = [lastSweep EXCEPT ![i] = 0]
  /\ IF store = "memory"
     THEN /\ hits' = Without(hits, LimitKeys) /\ order' = <<>>
          /\ passed' = Without(passed, LimitKeys)
     ELSE UNCHANGED <<hits, order, passed>>
  /\ UNCHANGED <<store, now>>

PassTime ==
  /\ now < MaxNow /\ now' = now + 1
  /\ passed' = [k \in LimitKeys |-> SelectSeq(passed[k], LAMBDA at : at + HitWindow > now')]
  /\ UNCHANGED <<store, hits, order, lastSweep>>

Check(i, k, ok) == CheckMemory(i, k, ok) \/ CheckDatabase(i, k, ok)

LimitNext ==
  \/ \E i \in Limiters : FailDatabase(i) \/ RestartLimiter(i) \/ \E k \in LimitKeys, ok \in BOOLEAN : Check(i, k, ok)
  \/ PassTime

LimitSpec == LimitInit /\ [][LimitNext]_limitVars

-----------------------------------------------------------------------------
(* Properties.                                                             *)

\* The Map holds the keys that have hits, at most maxBuckets of them; the table holds
\* the hits in the order of their times.
LimitTypeOK ==
  /\ now \in HitWindow .. MaxNow
  /\ \A k \in LimitKeys : hits[k] \in Seq(HitWindow .. now) /\ Len(hits[k]) <= HitLimit
  /\ store = "memory" =>
       /\ IsInjective(order) /\ ToSet(order) = Buckets(hits)
       /\ Len(order) <= MaxBuckets
  /\ store = "database" => order = <<>>

\* Whatever is swept, restarted and rolled back, and through whichever process, a key
\* is refused exactly when it was let through as often as the limit within the window,
\* unless its hits were trimmed since ("shares DB-backed buckets across limiter
\* instances", rate-limit.test.ts).
AnswersFollowTheWindow ==
  [][\A i \in Limiters, k \in LimitKeys, ok \in BOOLEAN :
       Check(i, k, ok) => ok = (Len(passed[k]) < HitLimit)]_limitVars

=============================================================================
