--------------------------------- MODULE Drivers ---------------------------------
(***************************************************************************)
(* Two calls of one repository at once, on each kind of database.          *)
(* SQLite and libSQL run a call at once, the JavaScript being synchronous. *)
(* PostgreSQL and MySQL run it statement by statement, as db.transaction   *)
(* and autocommit do:                                                      *)
(*   PostgreSQL, READ COMMITTED: a statement sees what was committed when  *)
(*   it began and what its transaction wrote; it locks the rows it matched *)
(*   and waits for the locks of others, then matches those rows again, but *)
(*   no row that came meanwhile;                                           *)
(*   MySQL, InnoDB at REPEATABLE READ: the plain reads of a transaction    *)
(*   see the rows of its first one; a write sees the latest, locks the     *)
(*   rows of its range and, where there are none, the gap, which others    *)
(*   may lock too but not insert into.                                     *)
(* Of two calls that wait for each other one is rolled back.               *)
(***************************************************************************)
EXTENDS Statements, FiniteSets, SequencesExt

CONSTANTS
  Databases,     \* some of "sqlite", "postgres" and "mysql"
  Repositories,  \* the repositories whose calls meet
  StartsOf       \* of each repository: the rows it may be called on

Sqlite == INSTANCE SqliteRepositories
Postgres == INSTANCE PostgresRepositories
Mysql == INSTANCE MysqlRepositories

Callers == {1, 2}

VARIABLES
  database, repository,
  method,     \* of each caller: the method it calls
  before,     \* the kinds of the rows when both calls begin
  committed,  \* ... of the rows committed
  own,        \* of each caller: the rows its open transaction wrote
  locks,      \* ... the rows it holds
  gaps,       \* ... the rows that are not there, in whose gaps it holds others off
  snapshot,   \* ... what the plain reads of its MySQL transaction see, <<>> before the first
  waits,      \* ... the rows it matched and waits for, <<>> when it does not wait
  at,         \* ... the statement it is at
  read,       \* ... what its code has read
  hit,        \* ... the rows its last statement changed, as they were
  answers     \* ... what its call gave, Pending before

driverVars ==
  <<database, repository, method, before, committed, own, locks, gaps, snapshot, waits, at,
    read, hit, answers>>

\* What a call gives back is a function of names: rows, or one of these.
Answer(a) == "answer" :> a
Pending == Answer("pending")
Victim == Answer("deadlock")

-----------------------------------------------------------------------------
\* One statement on rows as they are seen.

Wanted(s, seen) == \A r \in DOMAIN s.given : r \in DOMAIN seen /\ seen[r] \in s.given[r]

\* The newest rows of a trim that are there.
Newest(s, rows) ==
  {s.newest[i] : i \in {i \in DOMAIN s.newest :
     /\ rows[s.newest[i]] # "none"
     /\ Cardinality({j \in 1..(i - 1) : rows[s.newest[j]] # "none"}) < s.most}}

\* The rows a statement that writes would lock, of those it is about.
Matched(s, rows, seen) ==
  CASE s.do = "insert" -> s.rows
    [] s.do = "trim" -> {r \in s.rows \ Newest(s, rows) : rows[r] # "none"}
    [] s.do = "trim as read" -> {r \in s.rows \ Newest(s, seen) : rows[r] # "none"}
    [] s.do = "lock" -> {r \in s.rows : rows[r] # "none"}
    [] OTHER -> {r \in s.rows : rows[r] # "none" /\ rows[r] \in DOMAIN s.to}

\* What becomes of the rows it matched; of a row that changed meanwhile, nothing if it does
\* not match any more.
Written(s, rows, matched) ==
  [r \in {r \in matched : s.do \notin {"lock", "read"} /\
            IF s.do \in {"trim", "trim as read"} THEN rows[r] # "none"
                                                 ELSE rows[r] \in DOMAIN s.to} |->
     IF s.do \in {"trim", "trim as read"} THEN "none" ELSE s.to[rows[r]]]

Refused(s, rows) == s.do = "insert" /\ \E r \in s.rows : rows[r] \notin DOMAIN s.to

\* What the rows a statement changed were; "none" for those it left.
Hit(s, rows, wrote) ==
  [r \in s.rows |-> IF r \in DOMAIN wrote THEN rows[r] ELSE "none"]

Only(f, S) == [x \in S |-> f[x]]

\* What a call gives back when it ends of itself.
Gives(program, seen, changed) ==
  CASE program.gives = "rows" -> seen
    [] program.gives = "row" -> changed
    [] program.gives = "changed" ->
         Answer(IF \E r \in DOMAIN changed : changed[r] # "none" THEN "some" ELSE "none")
    [] OTHER -> Answer("ok")

-----------------------------------------------------------------------------
\* A call that runs at once, as on SQLite, from the rows given: the rows it leaves and what
\* it gives.
AtOnce(program, rows) ==
  LET step(c, s) ==
        IF c.gave # Pending \/ ~Wanted(s, c.seen) THEN c
        ELSE IF s.do = "stop" THEN [c EXCEPT !.gave = Answer(s.answer)]
        ELSE IF Refused(s, c.rows)
          THEN [c EXCEPT !.gave = Answer("conflict"),
                         !.rows = IF program.tx THEN rows ELSE c.rows]
        ELSE LET matched == Matched(s, c.rows, c.seen)
             IN [c EXCEPT
                   !.seen = IF s.do \in {"read", "lock"} THEN Only(c.rows, s.rows) @@ c.seen
                                                         ELSE c.seen,
                   !.hit = IF s.do \in {"read", "lock"} THEN c.hit
                           ELSE Hit(s, c.rows, Written(s, c.rows, matched)),
                   !.rows = Written(s, c.rows, matched) @@ c.rows]
      end == FoldLeft(step, [rows |-> rows, seen |-> <<>>, hit |-> <<>>, gave |-> Pending],
                      program.do)
  IN [rows |-> end.rows,
      gave |-> IF end.gave = Pending THEN Gives(program, end.seen, end.hit) ELSE end.gave]

-----------------------------------------------------------------------------
\* The calls of every repository of every database, by each caller.
Programs ==
  [d \in Databases \union {"sqlite"} |-> [r \in Repositories |-> [p \in Callers |->
     CASE d = "sqlite" -> Sqlite!Calls(r, p)
       [] d = "postgres" -> Postgres!Calls(r, p)
       [] OTHER -> Mysql!Calls(r, p)]]]

\* Both calls begin on these rows.
Begin(d, r, start, calls) ==
  /\ database = d
  /\ repository = r
  /\ before = start
  /\ method = calls
  /\ committed = before
  /\ own = [p \in Callers |-> <<>>]
  /\ locks = [p \in Callers |-> {}]
  /\ gaps = [p \in Callers |-> {}]
  /\ snapshot = [p \in Callers |-> <<>>]
  /\ waits = [p \in Callers |-> <<>>]
  /\ at = [p \in Callers |-> 1]
  /\ read = [p \in Callers |-> <<>>]
  /\ hit = [p \in Callers |-> <<>>]
  /\ answers = [p \in Callers |-> Pending]

DriversInit ==
  \E d \in Databases, r \in Repositories :
    \E start \in StartsOf[r], calls \in [Callers -> DOMAIN Programs["sqlite"][r][1]] :
      Begin(d, r, start, calls)

Program(p) == Programs[database][repository][p][method[p]]
StatementAt(p) == Program(p).do[at[p]]
View(p) == own[p] @@ committed
ReadView(p) ==
  IF database = "mysql" /\ Program(p).tx /\ snapshot[p] # <<>> THEN own[p] @@ snapshot[p]
                                                               ELSE View(p)
Busy(p) == answers[p] = Pending

LockedByOthers(p) == UNION {locks[q] : q \in Callers \ {p}}
GapsOfOthers(p) == UNION {gaps[q] : q \in Callers \ {p}}

\* The rows whose locks a statement needs; MySQL's range holds every row of the statement.
Needs(p, s) ==
  CASE s.do = "read" -> {}
    [] database = "mysql" /\ s.do # "insert" -> {r \in s.rows : \E q \in Callers : View(q)[r] # "none"}
    [] waits[p] # <<>> -> waits[p][1]
    [] OTHER -> Matched(s, View(p), read[p])
Blocked(p, s) ==
  \/ Needs(p, s) \intersect LockedByOthers(p) # {}
  \/ database = "mysql" /\ s.do = "insert" /\ s.rows \intersect GapsOfOthers(p) # {}

\* The code goes on to its next statement, or the call ends: what it wrote is committed, or
\* taken back, and its locks are gone.
End(p, kept, answer) ==
  /\ answers' = [answers EXCEPT ![p] = answer]
  /\ committed' = kept @@ committed
  /\ own' = [own EXCEPT ![p] = <<>>]
  /\ locks' = [locks EXCEPT ![p] = {}]
  /\ gaps' = [gaps EXCEPT ![p] = {}]
  /\ snapshot' = [snapshot EXCEPT ![p] = <<>>]
  /\ at' = [at EXCEPT ![p] = 1]
  /\ read' = [read EXCEPT ![p] = <<>>]
  /\ hit' = [hit EXCEPT ![p] = <<>>]
  /\ UNCHANGED <<database, repository, method, before>>

NextOf(program, i, seen) ==
  LET later == {j \in (i + 1)..Len(program.do) : Wanted(program.do[j], seen)}
  IN IF later = {} THEN Len(program.do) + 1 ELSE CHOOSE j \in later : \A k \in later : j <= k

GoOn(p, wrote, locked, gapped, seen, changed) ==
  LET program == Program(p)
      i == NextOf(program, at[p], seen)
  IN IF i > Len(program.do) THEN End(p, wrote @@ own[p], Gives(program, seen, changed))
     ELSE IF program.do[i].do = "stop" THEN End(p, wrote @@ own[p], Answer(program.do[i].answer))
     ELSE /\ at' = [at EXCEPT ![p] = i]
          /\ read' = [read EXCEPT ![p] = seen]
          /\ hit' = [hit EXCEPT ![p] = changed]
          /\ IF program.tx
               THEN /\ own' = [own EXCEPT ![p] = wrote @@ @]
                    /\ locks' = [locks EXCEPT ![p] = @ \union locked]
                    /\ gaps' = [gaps EXCEPT ![p] = @ \union gapped]
                    /\ snapshot' = [snapshot EXCEPT ![p] =
                         IF StatementAt(p).do = "read" /\ @ = <<>> THEN committed ELSE @]
                    /\ UNCHANGED committed
               ELSE /\ committed' = wrote @@ committed
                    /\ UNCHANGED <<own, locks, gaps, snapshot>>
          /\ UNCHANGED <<database, repository, method, before, answers>>

-----------------------------------------------------------------------------
\* SQLite and libSQL: the method runs at once.
RunMethod(p) ==
  /\ database = "sqlite" /\ Busy(p)
  /\ LET end == AtOnce(Program(p), committed)
     IN End(p, end.rows, end.gave)
  /\ UNCHANGED waits

ReadRows(p) ==
  /\ database # "sqlite" /\ Busy(p)
  /\ StatementAt(p).do = "read"
  /\ GoOn(p, <<>>, {}, {}, Only(ReadView(p), StatementAt(p).rows) @@ read[p], hit[p])
  /\ UNCHANGED waits

\* PostgreSQL: the statement has matched its rows, and waits for one of them.
WaitForLocks(p) ==
  /\ database = "postgres" /\ Busy(p)
  /\ waits[p] = <<>>
  /\ Blocked(p, StatementAt(p))
  /\ waits' = [waits EXCEPT ![p] = <<Matched(StatementAt(p), View(p), read[p])>>]
  /\ UNCHANGED <<database, repository, method, before, committed, own, locks, gaps, snapshot,
                 at, read, hit, answers>>

WriteRows(p) ==
  LET s == StatementAt(p)
      rows == View(p)
      matched == Needs(p, s)
      wrote == Written(s, rows, matched)
  IN /\ database # "sqlite" /\ Busy(p)
     /\ s.do # "read"
     /\ ~Blocked(p, s)
     /\ waits' = [waits EXCEPT ![p] = <<>>]
     /\ IF Refused(s, rows) THEN End(p, IF Program(p).tx THEN <<>> ELSE own[p], Answer("conflict"))
        ELSE GoOn(p, wrote,
                  IF s.do = "insert" THEN {r \in DOMAIN wrote : wrote[r] # rows[r]} ELSE matched,
                  IF database = "mysql" THEN {r \in s.rows : rows[r] = "none"} ELSE {},
                  IF s.do = "lock" THEN Only(rows, s.rows) @@ read[p] ELSE read[p],
                  IF s.do = "lock" THEN hit[p] ELSE Hit(s, rows, wrote))

\* The database rolls one of two transactions back that wait for each other.
RollBackVictim(p) ==
  /\ database # "sqlite"
  /\ \A q \in Callers : Busy(q) /\ StatementAt(q).do # "read" /\ Blocked(q, StatementAt(q))
  /\ End(p, <<>>, Victim)
  /\ waits' = [waits EXCEPT ![p] = <<>>]

DriversNext ==
  \E p \in Callers :
    RunMethod(p) \/ ReadRows(p) \/ WaitForLocks(p) \/ WriteRows(p) \/ RollBackVictim(p)

DriversSpec == DriversInit /\ [][DriversNext]_driverVars

-----------------------------------------------------------------------------
Serial(p, q) ==
  LET first == AtOnce(Programs["sqlite"][repository][p][method[p]], before)
      second == AtOnce(Programs["sqlite"][repository][q][method[q]], first.rows)
  IN /\ committed = second.rows
     /\ answers[p] = first.gave
     /\ answers[q] = second.gave
Alone(p) ==
  LET end == AtOnce(Programs["sqlite"][repository][p][method[p]], before)
  IN committed = end.rows /\ answers[p] = end.gave

\* The pairs of methods that are not serial on either server: they read, without a lock, what
\* they then write, or read in two statements.
RacesOnServers ==
  {<<"oidcStates", {"consume"}>>, <<"passkeys", {"consumeChallenge"}>>,
   <<"authRecovery", {"consumePasswordReset"}>>,
   <<"authRecovery", {"consumePasswordReset", "replacePasswordReset"}>>,
   <<"authRecovery", {"consumeEmailVerification"}>>,
   <<"authRecovery", {"consumeEmailVerification", "replaceEmailVerification"}>>,
   <<"apiKeys", {"revoke"}>>, <<"pageShares", {"revoke"}>>, <<"authAccounts", {"link"}>>,
   <<"authz", {"addUserToGroup"}>>, <<"authz", {"syncRoleGroup"}>>,
   <<"authz", {"addUserToGroup", "syncRoleGroup"}>>, <<"authz", {"ensureDefaults"}>>,
   <<"notifications", {"moveWatchers", "watch"}>>,
   <<"elasticsearch", {"loadPageSource"}>>, <<"analytics", {"incrementBatch", "summary"}>>,
   <<"admin", {"deleteRevisions", "stats"}>>}
\* On PostgreSQL a DELETE does not see the rows that come while it waits.
RacesOnPostgres ==
  {<<"authRecovery", {"replacePasswordReset"}>>, <<"authRecovery", {"replaceEmailVerification"}>>,
   <<"totp", {"replaceRecoveryCodes"}>>, <<"totp", {"enable", "replaceRecoveryCodes"}>>,
   <<"userPreferences", {"applyForUser"}>>}
     \union {<<"pages", {"purge", m}>> : m \in {"writeExisting", "move", "remove", "setLifecycle"}}
\* On MySQL what is not among the entries read to be kept is deleted, the entry of another
\* caller too.
RacesOnMysql == {<<"auditLog", {"record"}>>}

Races ==
  CASE database = "postgres" -> RacesOnServers \union RacesOnPostgres
    [] database = "mysql" -> RacesOnServers \union RacesOnMysql
    [] OTHER -> {}

\* The pairs of which one may be rolled back, and nothing calls it again: they lock the same
\* rows in opposite orders, or, on MySQL, share a gap that both insert into.
Deadlocks ==
  {<<"analytics", {"incrementBatch"}>>, <<"pages", {"create", "move"}>>,
   <<"pages", {"create", "remove"}>>, <<"pages", {"move", "purge"}>>,
   <<"pages", {"purge", "remove"}>>}
    \union IF database = "postgres" THEN {} ELSE
      {<<"authRecovery", {"replacePasswordReset"}>>,
       <<"authRecovery", {"replaceEmailVerification"}>>,
       <<"totp", {"replaceRecoveryCodes"}>>, <<"totp", {"enable", "replaceRecoveryCodes"}>>}

Pair == <<repository, {method[p] : p \in Callers}>>

\* Two calls leave the rows and give the answers that SQLite gives when it runs one after the
\* other, on every database (the contract of db/cross-driver-contract.test.ts), but for the
\* pairs that are known to race; and a call is rolled back for another only in a pair that
\* is known for it, the other doing what it does alone.
CallsAreSerial ==
  (\A p \in Callers : ~Busy(p)) =>
     /\ (\E p \in Callers : answers[p] = Victim) => Pair \in Deadlocks
     /\ Pair \notin Races =>
          IF answers[1] = Victim THEN Alone(2)
          ELSE IF answers[2] = Victim THEN Alone(1)
          ELSE Serial(1, 2) \/ Serial(2, 1)
==================================================================================
