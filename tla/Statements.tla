------------------------------- MODULE Statements -------------------------------
(***************************************************************************)
(* What the repositories of the three kinds of database ask of it, as      *)
(* data: a call is a list of statements over the rows it is about.  Of a   *)
(* row only its kind is kept: "none" when there is no such row, "live" for *)
(* the row as it was found, and what a WHERE, an early return or a later   *)
(* answer tells apart.  What caller p writes of its own is of kind         *)
(* Mine(p), in a row it has made a key for, Own(p).                        *)
(***************************************************************************)
EXTENDS Integers, Sequences, TLC

Some == {"live", "spent", "other", "v1", "v2", "zero", "one", "two", "more"}
Kinds == Some \union {"none"}

Own(p) == <<"own1", "own2">>[p]
Mine(p) == <<"v1", "v2">>[p]
Owns == {"own1", "own2"}

\* A statement: what it does, the rows it looks at, the kind it makes of each kind it
\* matches, the kinds its code must have read before to issue it, what it answers when it
\* stops the call, and for a trim how many of the rows (newest first) it keeps.
Statement(do, rows, to) ==
  [do |-> do, rows |-> rows, to |-> to, given |-> <<>>, answer |-> "none",
   newest |-> <<>>, most |-> 0]

Read(rows) == Statement("read", rows, <<>>)
ReadForUpdate(rows) == Statement("lock", rows, <<>>)
Update(rows, to) == Statement("change", rows, to)
Set(rows, kind) == Update(rows, [k \in Some |-> kind])
Delete(rows, kinds) == Update(rows, [k \in kinds |-> "none"])
DeleteAll(rows) == Delete(rows, Some)
Insert(rows, kind) == Statement("insert", rows, "none" :> kind)
InsertOrIgnore(rows, kind) ==
  Statement("insert", rows, [k \in Kinds |-> IF k = "none" THEN kind ELSE k])
Upsert(rows, kind) == Statement("insert", rows, [k \in Kinds |-> kind])
Add(rows) ==
  Statement("insert", rows,
            [k \in Kinds |-> CASE k = "none" -> "one" [] k = "one" -> "two" [] OTHER -> "more"])

\* A DELETE of all but the newest: chosen by the statement, or by an earlier read.
Trim(newest, most) ==
  [Statement("trim", {newest[i] : i \in DOMAIN newest}, <<>>)
     EXCEPT !.newest = newest, !.most = most]
TrimAsRead(newest, most) == [Trim(newest, most) EXCEPT !.do = "trim as read"]

\* A statement issued, or a call ended with an answer, only if the row was read so.
Given(row, kinds, s) == [s EXCEPT !.given = (row :> kinds) @@ s.given]
StopIf(row, kinds, answer) ==
  [Given(row, kinds, Statement("stop", {}, <<>>)) EXCEPT !.answer = answer]

\* A call: in a transaction or not, what it gives back ("ok", the rows it read, whether
\* its last statement changed one, or the row changed) and its statements.
Call(gives, statements) == [tx |-> FALSE, gives |-> gives, do |-> statements]
Transaction(gives, statements) == [tx |-> TRUE, gives |-> gives, do |-> statements]
Query(rows) == Call("rows", <<Read(rows)>>)
Run(statement) == Call("ok", <<statement>>)
Changes(statement) == Call("changed", <<statement>>)
=================================================================================
