---------------------------- MODULE EventBusProofs ----------------------------
(***************************************************************************)
(* That the bus of PostgreSQL and MySQL gives a listener every event once  *)
(* and in the order of its source, for any instances, bounds and limits:   *)
(* rows may appear out of order, be pruned before they are polled, and     *)
(* tail reads and polls may overlap subscriptions.                         *)
(*                                                                         *)
(* Only a subscription before the boot has read the tail of the log is     *)
(* left out (lateBoot): its read may move lastSeenId back.                 *)
(***************************************************************************)
EXTENDS EventBus, FiniteSetTheorems, WellFoundedInduction, TLAPS

NoLateBoot == \A m \in Modes : "lateBoot" \notin m

\* The rows of the log, and those a poll has read, be they pruned since.
Polled(i) == IF polled[i] = None THEN {} ELSE polled[i]

Rows == log \cup UNION {Polled(i) : i \in Instances}

\* Ids are drawn once, and rows of one source have them in the order of its events.
RowsAreOrdered ==
  /\ \A r \in Rows : r.id <= lastId /\ r.event.number <= stored[r.event.source]
  /\ \A r, q \in Rows : r.id = q.id => r = q
  /\ \A r, q \in Rows : r.event.source = q.event.source /\ r.id < q.id =>
       r.event.number < q.event.number

\* An insert that has not committed has an id of its own, after those of its source.
InsertsAreLast ==
  \A j \in Instances : inserting[j] # None =>
    /\ inserting[j] <= lastId
    /\ \A r \in Rows : r.id # inserting[j]
    /\ \A r \in Rows : r.event.source = j => r.id < inserting[j]
    /\ \A k \in Instances : k # j => inserting[k] # inserting[j]

\* A listener was given what its instance emitted, or what others have stored.
GivenWasStored ==
  \A i \in Instances : \A n \in DOMAIN got[i] :
    LET e == got[i][n]
    IN  e.number <= IF e.source = i THEN emitted[i] ELSE stored[e.source]

\* Before there is a listener nothing is given, and the boot's tail read comes before.
ListenersComeFirst ==
  \A i \in Instances :
    /\ i \notin listening => got[i] = <<>>
    /\ \A t \in tails[i] : t.number = 0 => i \notin listening /\ polled[i] = None

\* The event is later than all that listener i was given of its source.
IsNews(i, e) ==
  \A n \in DOMAIN got[i] : got[i][n].source = e.source => got[i][n].number < e.number

\* Foreign rows that are not seen, or that were polled and not delivered, are news.
UnseenIsNews ==
  \A i \in Instances : \A r \in Unseen(i) \cup Polled(i) :
    r.event.source # i => IsNews(i, r.event)

RowsAreFinite == IsFiniteSet(log) /\ \A i \in Instances : IsFiniteSet(Polled(i))

NewsInv ==
  /\ BusTypeOK /\ RowsAreFinite
  /\ RowsAreOrdered /\ InsertsAreLast
  /\ GivenWasStored /\ ListenersComeFirst /\ UnseenIsNews
  /\ DeliveredOnceInOrder

-----------------------------------------------------------------------------
(* What the operators on sets of rows return.                              *)

LEMMA NatMinimum ==
  ASSUME NEW T, T \subseteq Nat, T # {}
  PROVE  \E n \in T : \A m \in T : n <= m
<1> DEFINE Below == {ss \in Nat \X Nat : ss[1] < ss[2]}
<1>1. IsWellFoundedOn(Below, Nat)
  BY NatLessThanWellFounded DEF OpToRel
<1>2. PICK n \in T : \A m \in T : <<m, n>> \notin Below
  BY <1>1, WFMin
<1>3. ASSUME NEW m \in T
      PROVE  n <= m
  <2>1. <<m, n>> \in Nat \X Nat /\ <<m, n>>[1] = m /\ <<m, n>>[2] = n
    OBVIOUS
  <2>2. ~ (m < n)
    BY <1>2, <2>1 DEF Below
  <2> QED
    BY <2>2
<1> QED
  BY <1>3

\* Induction over finite sets, as the least counterexample: the installed provers
\* cannot take the library's, whose argument is an operator.
LEMMA LeastSet ==
  ASSUME NEW F, F # {}, \A S \in F : IsFiniteSet(S)
  PROVE  \E S \in F : \A x \in S : S \ {x} \notin F
<1> DEFINE Sizes == {Cardinality(S) : S \in F}
<1>1. Sizes \subseteq Nat /\ Sizes # {}
  BY FS_CardinalityType
<1>2. PICK n \in Sizes : \A m \in Sizes : n <= m
  BY <1>1, NatMinimum
<1>3. PICK S \in F : Cardinality(S) = n
  OBVIOUS
<1>4. ASSUME NEW x \in S, S \ {x} \in F
      PROVE  FALSE
  <2>1. Cardinality(S \ {x}) = n - 1 /\ n \in Nat
    BY <1>1, <1>3, FS_RemoveElement
  <2>2. n <= n - 1
    BY <1>2, <1>4, <2>1
  <2> QED
    BY <2>1, <2>2
<1> QED
  BY <1>4

LEMMA MaxIsLast ==
  ASSUME NEW T, T \subseteq Nat, T # {}, NEW bound \in Nat, \A n \in T : n <= bound
  PROVE  Max(T) \in T /\ \A n \in T : n <= Max(T)
<1> DEFINE Gaps == {bound - n : n \in T}
<1>1. Gaps \subseteq Nat /\ Gaps # {}
  <2>1. \A n \in T : bound - n \in Nat
    OBVIOUS
  <2> QED
    BY <2>1
<1>2. PICK g \in Gaps : \A h \in Gaps : g <= h
  BY <1>1, NatMinimum
<1>3. PICK m \in T : g = bound - m
  OBVIOUS
<1>4. ASSUME NEW n \in T
      PROVE  m >= n
  <2>1. g <= bound - n
    BY <1>2
  <2>2. m \in Nat /\ n \in Nat
    OBVIOUS
  <2> QED
    BY <1>3, <2>1, <2>2
<1>5. \E x \in T : \A y \in T : x >= y
  BY <1>4
<1>6. Max(T) \in T /\ \A n \in T : Max(T) >= n
  BY <1>5 DEF Max
<1> QED
  BY <1>6

\* s enumerates the rows by their ids.
Enumerates(s, rows) ==
  /\ s \in [1 .. Cardinality(rows) -> rows]
  /\ \A m, n \in DOMAIN s : m < n => s[m].id < s[n].id

LEMMA RowsCanBeOrdered ==
  ASSUME NEW rows, rows \subseteq Row, IsFiniteSet(rows),
         \A r, q \in rows : r.id = q.id => r = q
  PROVE  \E s : Enumerates(s, rows)
<1> DEFINE F == {R \in SUBSET rows : ~ \E s : Enumerates(s, R)}
<1> SUFFICES ASSUME F # {} PROVE FALSE
  OBVIOUS
<1>1. \A R \in F : IsFiniteSet(R)
  BY FS_Subset
<1>2. PICK R \in F : \A x \in R : R \ {x} \notin F
  BY <1>1, LeastSet
<1>3. R # {}
  <2>1. Enumerates(<<>>, {})
    BY FS_EmptySet DEF Enumerates
  <2> QED
    BY <2>1
<1>4. \A r \in R : r.id \in Nat
  BY DEF Row, RowIds
<1>5. PICK x \in R : \A r \in R : x.id <= r.id
  <2> DEFINE Ids == {r.id : r \in R}
  <2>1. Ids \subseteq Nat /\ Ids # {}
    BY <1>3, <1>4
  <2>2. PICK n \in Ids : \A m \in Ids : n <= m
    BY <2>1, NatMinimum
  <2>3. PICK x \in R : x.id = n
    OBVIOUS
  <2> QED
    BY <2>2, <2>3
<1>6. PICK s : Enumerates(s, R \ {x})
  BY <1>2
<1> DEFINE k == Cardinality(R)
           t == [n \in 1 .. k |-> IF n = 1 THEN x ELSE s[n - 1]]
<1>7. k \in Nat \ {0} /\ Cardinality(R \ {x}) = k - 1
  BY <1>1, <1>3, FS_EmptySet, FS_CardinalityType, FS_RemoveElement
<1>8. /\ s \in [1 .. k - 1 -> R \ {x}]
      /\ \A m, n \in 1 .. k - 1 : m < n => s[m].id < s[n].id
  BY <1>6, <1>7 DEF Enumerates
<1> HIDE DEF k
<1>9. \A n \in 1 .. k : n # 1 => n - 1 \in 1 .. k - 1 /\ s[n - 1] \in R \ {x}
  BY <1>7, <1>8
<1>10. t \in [1 .. k -> R]
  BY <1>9
<1>11. \A r \in R \ {x} : x.id < r.id
  BY <1>4, <1>5
<1>12. ASSUME NEW m \in 1 .. k, NEW n \in 1 .. k, m < n
       PROVE  t[m].id < t[n].id
  <2>1. n # 1 /\ t[n] = s[n - 1]
    BY <1>12
  <2>2. CASE m = 1
    BY <1>9, <1>11, <2>1, <2>2
  <2>3. CASE m # 1
    BY <1>8, <1>9, <1>12, <2>1, <2>3
  <2> QED
    BY <2>2, <2>3
<1>13. Enumerates(t, R)
  BY <1>10, <1>12 DEF Enumerates, k
<1> QED
  BY <1>13

LEMMA ByIdEnumerates ==
  ASSUME NEW rows, rows \subseteq Row, IsFiniteSet(rows),
         \A r, q \in rows : r.id = q.id => r = q
  PROVE  Enumerates(ById(rows), rows)
BY RowsCanBeOrdered DEF Enumerates, ById

-----------------------------------------------------------------------------
(* The shapes of rows, and of what is delivered.                           *)

LEMMA RowShape ==
  ASSUME NEW r \in Row
  PROVE  /\ r.id \in Nat /\ r.id # 0 /\ r.event \in Events
         /\ r.event.source \in Instances /\ r.event.number \in Nat
BY DEF Row, RowIds, Events

LEMMA RowsShape ==
  ASSUME BusTypeOK
  PROVE  /\ Rows \subseteq Row /\ log \subseteq Rows
         /\ \A i \in Instances : Polled(i) \subseteq Rows /\ Polled(i) \subseteq Row
<1>1. \A i \in Instances : Polled(i) \subseteq Row
  BY DEF BusTypeOK, Polled
<1> QED
  BY <1>1 DEF BusTypeOK, Rows

LEMMA MaxEventIdIsNat ==
  ASSUME BusTypeOK
  PROVE  MaxEventId \in Nat
<1> DEFINE Ids == {r.id : r \in log}
<1>1. \A r \in log : r.id \in Nat /\ r.id <= lastId
  BY RowShape DEF BusTypeOK
<1>2. CASE log # {}
  <2>1. /\ Ids \subseteq Nat /\ (\A n \in Ids : n <= lastId)
        /\ Ids # {} /\ lastId \in Nat
    <3>1. PICK r \in log : TRUE
      BY <1>2
    <3>2. r.id \in Ids
      OBVIOUS
    <3>3. \A n \in Ids : n \in Nat /\ n <= lastId
      BY <1>1
    <3> QED
      BY <3>2, <3>3 DEF BusTypeOK
  <2>2. Max(Ids) \in Ids
    BY <2>1, MaxIsLast
  <2> QED
    BY <1>2, <2>1, <2>2 DEF MaxEventId
<1> QED
  BY <1>2 DEF MaxEventId

\* lastSeenId goes up to the last row that was polled.
LEMMA SeenIsLast ==
  ASSUME BusTypeOK, RowsAreOrdered, NEW i \in Instances, NEW rows, rows \subseteq Rows
  PROVE  /\ Seen(i, rows) \in Nat /\ lastSeen[i] <= Seen(i, rows)
         /\ \A r \in rows : r.id <= Seen(i, rows)
<1> DEFINE T == {lastSeen[i]} \cup {r.id : r \in rows}
<1>1. lastSeen[i] \in Nat /\ lastId \in Nat
  BY DEF BusTypeOK
<1>2. \A r \in rows : r.id \in Nat /\ r.id <= lastId
  BY RowsShape, RowShape DEF RowsAreOrdered
<1>3. T \subseteq Nat /\ T # {} /\ \A n \in T : n <= lastSeen[i] + lastId
  <2>1. ASSUME NEW n \in T
        PROVE  n \in Nat /\ n <= lastSeen[i] + lastId
    <3>1. CASE n = lastSeen[i]
      BY <1>1, <3>1
    <3>2. CASE \E r \in rows : n = r.id
      BY <1>1, <1>2, <3>2
    <3> QED
      BY <3>1, <3>2
  <2> QED
    BY <2>1
<1>4. lastSeen[i] + lastId \in Nat
  BY <1>1
<1>5. Max(T) \in T /\ \A n \in T : n <= Max(T)
  BY <1>3, <1>4, MaxIsLast
<1> QED
  BY <1>3, <1>5 DEF Seen

Ordered(s) ==
  \A m, n \in DOMAIN s : m < n /\ s[m].source = s[n].source => s[m].number < s[n].number

\* A poll delivers the events of foreign rows, those of a source in order.
LEMMA ForeignShape ==
  ASSUME BusTypeOK, RowsAreOrdered, NEW i \in Instances, NEW rows, rows \subseteq Rows,
         IsFiniteSet(rows)
  PROVE  /\ Foreign(i, rows) \in Seq(Events)
         /\ \A n \in DOMAIN Foreign(i, rows) :
              \E r \in rows : r.event = Foreign(i, rows)[n] /\ r.event.source # i
         /\ Ordered(Foreign(i, rows))
<1> DEFINE others == {r \in rows : r.event.source # i}
           s == ById(others)
           k == Cardinality(others)
<1>1. IsFiniteSet(others) /\ others \subseteq Row /\ others \subseteq Rows
  BY FS_Subset, RowsShape
<1>2. \A r, q \in others : r.id = q.id => r = q
  BY <1>1 DEF RowsAreOrdered
<1>3. Enumerates(s, others)
  BY <1>1, <1>2, ByIdEnumerates
<1>4. k \in Nat
  BY <1>1, FS_CardinalityType
<1> HIDE DEF others, s, k
<1>5. s \in [1 .. k -> others] /\ \A m, n \in 1 .. k : m < n => s[m].id < s[n].id
  BY <1>3 DEF Enumerates, k
<1>6. Foreign(i, rows) = [n \in 1 .. k |-> s[n].event]
  BY <1>5 DEF Foreign, others, s
<1>7. \A n \in 1 .. k : /\ s[n] \in others /\ s[n] \in rows /\ s[n].event.source # i
                        /\ s[n].event \in Events
  BY <1>1, <1>5, RowShape DEF others
<1>8. Foreign(i, rows) \in Seq(Events)
  BY <1>4, <1>6, <1>7
<1>9. \A m, n \in 1 .. k : m < n /\ s[m].event.source = s[n].event.source =>
        s[m].event.number < s[n].event.number
  BY <1>1, <1>5, <1>7 DEF RowsAreOrdered
<1> QED
  BY <1>6, <1>7, <1>8, <1>9 DEF Ordered

\* What a listener has been given, and then more that is news.
LEMMA GivenShape ==
  ASSUME BusTypeOK, NEW i \in Instances, NEW t \in Seq(Events)
  PROVE  /\ Given(i, t) \in Seq(Events)
         /\ \A n \in DOMAIN Given(i, t) :
              \/ n \in DOMAIN got[i] /\ Given(i, t)[n] = got[i][n]
              \/ \E m \in DOMAIN t : Given(i, t)[n] = t[m]
         /\ i \notin listening => Given(i, t) = got[i]
<1>1. got[i] \in Seq(Events)
  BY DEF BusTypeOK
<1>2. CASE i \in listening
  <2>1. Given(i, t) = got[i] \o t
    BY <1>2 DEF Given
  <2> QED
    BY <1>1, <1>2, <2>1
<1>3. CASE i \notin listening
  BY <1>1, <1>3 DEF Given
<1> QED
  BY <1>2, <1>3

LEMMA GivenInOrder ==
  ASSUME BusTypeOK, NEW i \in Instances, NEW t \in Seq(Events),
         Ordered(got[i]), Ordered(t), \A n \in DOMAIN t : IsNews(i, t[n])
  PROVE  Ordered(Given(i, t))
<1>1. got[i] \in Seq(Events)
  BY DEF BusTypeOK
<1>2. CASE i \in listening
  <2> DEFINE g == got[i]
             s == g \o t
  <2>1. Given(i, t) = s
    BY <1>2 DEF Given
  <2>2. /\ Len(s) = Len(g) + Len(t) /\ s \in Seq(Events)
        /\ \A n \in 1 .. Len(g) : s[n] = g[n]
        /\ \A n \in 1 .. Len(t) : s[Len(g) + n] = t[n]
        /\ Len(g) \in Nat /\ Len(t) \in Nat
    BY <1>1
  <2> HIDE DEF s
  <2>3. ASSUME NEW n \in 1 .. Len(s), n > Len(g)
        PROVE  n - Len(g) \in 1 .. Len(t) /\ s[n] = t[n - Len(g)]
    <3>1. n - Len(g) \in 1 .. Len(t)
      BY <2>2, <2>3
    <3>2. n = Len(g) + (n - Len(g))
      BY <2>2
    <3> QED
      BY <2>2, <3>1, <3>2
  <2>4. ASSUME NEW m \in 1 .. Len(s), NEW n \in 1 .. Len(s), m < n,
               s[m].source = s[n].source
        PROVE  s[m].number < s[n].number
    <3>1. CASE n <= Len(g)
      <4>1. m \in DOMAIN g /\ n \in DOMAIN g /\ s[m] = g[m] /\ s[n] = g[n]
        BY <1>1, <2>2, <2>4, <3>1
      <4> QED
        BY <2>4, <4>1 DEF Ordered
    <3>2. CASE m <= Len(g) /\ n > Len(g)
      <4>1. m \in DOMAIN g /\ s[m] = g[m]
        BY <1>1, <2>2, <3>2
      <4>2. n - Len(g) \in DOMAIN t /\ s[n] = t[n - Len(g)]
        BY <2>3, <3>2
      <4> QED
        BY <2>4, <4>1, <4>2 DEF IsNews
    <3>3. CASE m > Len(g)
      <4>1. n > Len(g) /\ m - Len(g) < n - Len(g)
        BY <2>2, <2>4, <3>3
      <4>2. /\ m - Len(g) \in DOMAIN t /\ s[m] = t[m - Len(g)]
            /\ n - Len(g) \in DOMAIN t /\ s[n] = t[n - Len(g)]
        BY <2>3, <3>3, <4>1
      <4> QED
        BY <2>4, <4>1, <4>2 DEF Ordered
    <3> QED
      BY <2>2, <3>1, <3>2, <3>3
  <2>5. DOMAIN s = 1 .. Len(s)
    BY <2>2
  <2>6. Ordered(s)
    BY <2>4, <2>5 DEF Ordered
  <2> QED
    BY <2>1, <2>6
<1>3. CASE i \notin listening
  BY <1>3 DEF Given
<1> QED
  BY <1>2, <1>3

-----------------------------------------------------------------------------
(* Emitting.                                                               *)

LEMMA EmitKeeps ==
  ASSUME NewsInv, NEW i \in Instances, Emit(i)
  PROVE  NewsInv'
<1> USE DEF NewsInv
<1> DEFINE e == [source |-> i, number |-> emitted'[i]]
<1>1. /\ emitted[i] \in Nat /\ emitted' \in [Instances -> Nat]
      /\ emitted'[i] = emitted[i] + 1
      /\ \A j \in Instances : j # i => emitted'[j] = emitted[j]
  BY DEF Emit, BusTypeOK
<1>2. e \in Events /\ e.source = i /\ e.number = emitted[i] + 1
  BY <1>1 DEF Events
<1>3. got' = [got EXCEPT ![i] = Given(i, <<e>>)]
  BY DEF Emit
<1>4. owed' = [j \in Instances |->
                 IF j # i /\ j \in listening /\ ready[j] THEN owed[j] \cup {e} ELSE owed[j]]
  BY DEF Emit
<1>5. Rows' = Rows /\ \A j \in Instances : Unseen(j)' = Unseen(j) /\ Polled(j)' = Polled(j)
  BY DEF Emit, listener, Rows, Unseen, Polled
<1> HIDE DEF e
<1>6. <<e>> \in Seq(Events) /\ DOMAIN <<e>> = {1} /\ <<e>>[1] = e
  BY <1>2
<1>7. /\ Given(i, <<e>>) \in Seq(Events)
      /\ \A n \in DOMAIN Given(i, <<e>>) :
           \/ n \in DOMAIN got[i] /\ Given(i, <<e>>)[n] = got[i][n]
           \/ Given(i, <<e>>)[n] = e
      /\ i \notin listening => Given(i, <<e>>) = got[i]
  <2> DEFINE t == <<e>>
  <2>1. t \in Seq(Events) /\ DOMAIN t = {1} /\ t[1] = e
    BY <1>6
  <2> HIDE DEF t
  <2>2. /\ Given(i, t) \in Seq(Events)
        /\ \A n \in DOMAIN Given(i, t) :
             \/ n \in DOMAIN got[i] /\ Given(i, t)[n] = got[i][n]
             \/ \E m \in DOMAIN t : Given(i, t)[n] = t[m]
        /\ i \notin listening => Given(i, t) = got[i]
    BY <2>1, GivenShape
  <2>3. /\ Given(i, t) \in Seq(Events)
        /\ \A n \in DOMAIN Given(i, t) :
             \/ n \in DOMAIN got[i] /\ Given(i, t)[n] = got[i][n]
             \/ Given(i, t)[n] = e
        /\ i \notin listening => Given(i, t) = got[i]
    BY <2>1, <2>2
  <2> QED
    BY <2>3 DEF t
<1>8. /\ got'[i] = Given(i, <<e>>)
      /\ \A j \in Instances : j # i => got'[j] = got[j]
  BY <1>3 DEF BusTypeOK
<1>9. \A n \in DOMAIN got[i] :
        /\ got[i][n] \in Events
        /\ got[i][n].source = i => got[i][n].number <= emitted[i]
  BY DEF BusTypeOK, GivenWasStored
<1>10. IsNews(i, e)
  BY <1>1, <1>2, <1>9 DEF IsNews, Events
<1>11. BusTypeOK'
  <2>1. got' \in [Instances -> Seq(Events)]
    BY <1>3, <1>7 DEF BusTypeOK
  <2>2. owed' \in [Instances -> SUBSET Events]
    BY <1>2, <1>4 DEF BusTypeOK
  <2> QED
    BY <1>1, <2>1, <2>2 DEF Emit, listener, BusTypeOK
<1>12. RowsAreFinite' /\ RowsAreOrdered' /\ InsertsAreLast'
  BY <1>5 DEF Emit, RowsAreFinite, RowsAreOrdered, InsertsAreLast
<1>13. GivenWasStored'
  <2> SUFFICES ASSUME NEW j \in Instances, NEW n \in DOMAIN got'[j]
               PROVE  got'[j][n].number <=
                        IF got'[j][n].source = j THEN emitted'[j] ELSE stored[got'[j][n].source]
    BY DEF Emit, GivenWasStored
  <2>1. CASE j # i
    BY <1>1, <1>8, <2>1 DEF GivenWasStored
  <2>2. CASE j = i /\ got'[i][n] = e
    BY <1>1, <1>2, <2>2
  <2>3. CASE j = i /\ n \in DOMAIN got[i] /\ got'[i][n] = got[i][n]
    <3>1. CASE got[i][n].source = i
      <4>1. got[i][n].number \in Nat /\ got[i][n].number <= emitted[i]
        BY <1>9, <2>3, <3>1 DEF Events
      <4> QED
        BY <1>1, <2>3, <3>1, <4>1
    <3>2. CASE got[i][n].source # i
      BY <2>3, <3>2 DEF GivenWasStored
    <3> QED
      BY <3>1, <3>2
  <2> QED
    BY <1>7, <1>8, <2>1, <2>2, <2>3
<1>14. ListenersComeFirst'
  BY <1>7, <1>8 DEF Emit, listener, ListenersComeFirst
<1>15. UnseenIsNews'
  <2> SUFFICES ASSUME NEW j \in Instances, NEW r \in Unseen(j) \cup Polled(j),
                      r.event.source # j
               PROVE  IsNews(j, r.event)'
    BY <1>5 DEF UnseenIsNews
  <2>1. IsNews(j, r.event)
    BY DEF UnseenIsNews
  <2>2. CASE j # i
    BY <1>8, <2>1, <2>2 DEF IsNews
  <2>3. CASE j = i
    BY <1>2, <1>7, <1>8, <2>1, <2>3 DEF IsNews
  <2> QED
    BY <2>2, <2>3
<1>16. DeliveredOnceInOrder'
  <2>1. Ordered(got[i]) /\ Ordered(<<e>>)
    BY <1>6 DEF DeliveredOnceInOrder, Ordered
  <2>2. Ordered(Given(i, <<e>>))
    BY <1>6, <1>10, <2>1, GivenInOrder
  <2> QED
    BY <1>8, <2>2 DEF DeliveredOnceInOrder, Ordered
<1> QED
  BY <1>11, <1>12, <1>13, <1>14, <1>15, <1>16

LEMMA InsertKeeps ==
  ASSUME NewsInv, NEW i \in Instances, Insert(i)
  PROVE  NewsInv'
<1> USE DEF NewsInv
<1>1. lastId' = lastId + 1 /\ lastId \in Nat /\ lastId' \in RowIds
  BY DEF Insert, BusTypeOK, RowIds
<1>2. inserting' = [inserting EXCEPT ![i] = lastId']
  BY DEF Insert
<1>3. /\ inserting' \in [Instances -> RowIds \cup {None}] /\ inserting'[i] = lastId'
      /\ \A j \in Instances : j # i => inserting'[j] = inserting[j]
      /\ \A j \in Instances : inserting[j] # None => inserting[j] \in Nat
  BY <1>1, <1>2 DEF BusTypeOK, RowIds
<1>4. Rows' = Rows
  BY DEF Insert, listener, Rows, Polled
<1>5. \A r \in Rows : r.id \in Nat /\ r.id <= lastId /\ r.event.source \in Instances
  BY RowsShape, RowShape DEF RowsAreOrdered
<1>6. BusTypeOK'
  <2>1. \A r \in log : r.id <= lastId'
    BY <1>1, <1>5, RowsShape
  <2> QED
    BY <1>1, <1>3, <2>1 DEF Insert, listener, BusTypeOK
<1>7. RowsAreOrdered'
  BY <1>1, <1>4, <1>5 DEF Insert, RowsAreOrdered
<1>8. InsertsAreLast'
  <2> SUFFICES ASSUME NEW j \in Instances, inserting'[j] # None
               PROVE  /\ inserting'[j] <= lastId'
                      /\ \A r \in Rows : r.id # inserting'[j]
                      /\ \A r \in Rows : r.event.source = j => r.id < inserting'[j]
                      /\ \A k \in Instances : k # j => inserting'[k] # inserting'[j]
    BY <1>4 DEF InsertsAreLast
  <2>1. \A k \in Instances : inserting[k] # None =>
          inserting[k] \in Nat /\ inserting[k] <= lastId /\ inserting[k] < lastId'
    BY <1>1, <1>3 DEF InsertsAreLast
  <2>2. CASE j = i
    <3>1. None # lastId'
      BY <1>1, BusAssumption
    <3> QED
      BY <1>1, <1>3, <1>5, <2>1, <2>2, <3>1
  <2>3. CASE j # i
    BY <1>1, <1>3, <2>1, <2>3 DEF InsertsAreLast
  <2> QED
    BY <2>2, <2>3
<1> QED
  BY <1>6, <1>7, <1>8 DEF Insert, listener, RowsAreFinite, GivenWasStored,
     ListenersComeFirst, UnseenIsNews, Unseen, Polled, IsNews, DeliveredOnceInOrder

LEMMA GivenAreEvents ==
  ASSUME BusTypeOK, NEW i \in Instances, NEW n \in DOMAIN got[i]
  PROVE  /\ got[i][n] \in Events /\ got[i][n].source \in Instances
         /\ got[i][n].number \in Nat
<1>1. got[i] \in Seq(Events)
  BY DEF BusTypeOK
<1>2. got[i][n] \in Events
  BY <1>1
<1> QED
  BY <1>2 DEF Events

LEMMA StoredGrows ==
  ASSUME NewsInv, NEW i \in Instances, stored' = [stored EXCEPT ![i] = @ + 1]
  PROVE  /\ stored' \in [Instances -> Nat] /\ stored'[i] = stored[i] + 1
         /\ \A j \in Instances : stored[j] \in Nat /\ stored[j] <= stored'[j]
         /\ UNCHANGED <<got, emitted>> => GivenWasStored'
<1>1. /\ stored' \in [Instances -> Nat] /\ stored'[i] = stored[i] + 1
      /\ \A j \in Instances : stored[j] \in Nat /\ stored[j] <= stored'[j]
  BY DEF NewsInv, BusTypeOK
<1>2. \A j \in Instances : \A n \in DOMAIN got[j] :
        got[j][n].source \in Instances /\ got[j][n].number \in Nat
  BY GivenAreEvents DEF NewsInv
<1>3. ASSUME UNCHANGED <<got, emitted>>
      PROVE  GivenWasStored'
  <2> SUFFICES ASSUME NEW j \in Instances, NEW n \in DOMAIN got[j],
                      got[j][n].source # j
               PROVE  got[j][n].number <= stored'[got[j][n].source]
    BY <1>3 DEF NewsInv, GivenWasStored
  <2>1. got[j][n].number <= stored[got[j][n].source]
    BY DEF NewsInv, GivenWasStored
  <2> QED
    BY <1>1, <1>2, <2>1
<1> QED
  BY <1>1, <1>3

LEMMA CommitKeeps ==
  ASSUME NewsInv, NEW i \in Instances, Commit(i)
  PROVE  NewsInv'
<1> USE DEF NewsInv
<1> DEFINE q == [id |-> inserting[i], event |-> [source |-> i, number |-> stored'[i]]]
<1>1. /\ stored' = [stored EXCEPT ![i] = @ + 1] /\ log' = log \cup {q}
      /\ inserting' = [inserting EXCEPT ![i] = None] /\ inserting[i] # None
  BY DEF Commit
<1>2. /\ stored' \in [Instances -> Nat] /\ stored'[i] = stored[i] + 1
      /\ \A j \in Instances : stored[j] \in Nat /\ stored[j] <= stored'[j]
      /\ GivenWasStored'
  BY <1>1, StoredGrows DEF Commit
<1>3. /\ q.id = inserting[i] /\ q.event.source = i /\ q.event.number = stored'[i]
      /\ q \in Row /\ q.id \in Nat /\ q.id <= lastId
  BY <1>1, <1>2 DEF Row, Events, BusTypeOK, InsertsAreLast, RowIds
<1> HIDE DEF q
<1>4. /\ Rows' = Rows \cup {q}
      /\ \A j \in Instances : Polled(j)' = Polled(j) /\ Unseen(j)' \subseteq Unseen(j) \cup {q}
  BY <1>1 DEF Commit, listener, Rows, Polled, Unseen
<1>5. \A r \in Rows : /\ r.id \in Nat /\ r.event.source \in Instances
                      /\ r.event.number \in Nat /\ r.id # q.id
                      /\ r.event.number <= stored[r.event.source]
                      /\ r.event.source = i => r.id < q.id /\ r.event.number < q.event.number
  <2>1. \A r \in Rows : /\ r.id \in Nat /\ r.event.source \in Instances
                        /\ r.event.number \in Nat /\ r.id # q.id
                        /\ r.event.number <= stored[r.event.source]
                        /\ r.event.source = i => r.id < q.id
    BY <1>1, <1>3, RowsShape, RowShape DEF RowsAreOrdered, InsertsAreLast
  <2> QED
    BY <1>2, <1>3, <2>1
<1>6. BusTypeOK'
  <2>1. inserting' \in [Instances -> RowIds \cup {None}]
    BY <1>1 DEF BusTypeOK
  <2>2. log' \subseteq Row
    BY <1>1, <1>3 DEF BusTypeOK
  <2>3. \A r \in log' : r.id <= lastId
    BY <1>1, <1>3 DEF BusTypeOK
  <2>4. \A r, t \in log' : r.id = t.id => r = t
    BY <1>1, <1>5, RowsShape DEF BusTypeOK
  <2> QED
    BY <1>2, <2>1, <2>2, <2>3, <2>4 DEF Commit, listener, BusTypeOK
<1>7. RowsAreFinite'
  BY <1>1, <1>4, FS_AddElement DEF RowsAreFinite
<1>8. RowsAreOrdered'
  <2>1. \A r \in Rows' : r.id <= lastId' /\ r.event.number <= stored'[r.event.source]
    <3>1. \A r \in Rows : r.id <= lastId' /\ r.event.number <= stored'[r.event.source]
      BY <1>2, <1>5 DEF Commit, RowsAreOrdered
    <3>2. q.id <= lastId' /\ q.event.number <= stored'[q.event.source]
      BY <1>2, <1>3 DEF Commit
    <3> QED
      BY <1>4, <3>1, <3>2
  <2>2. \A r, t \in Rows' : r.id = t.id => r = t
    BY <1>4, <1>5 DEF RowsAreOrdered
  <2>3. \A r, t \in Rows' : r.event.source = t.event.source /\ r.id < t.id =>
          r.event.number < t.event.number
    BY <1>3, <1>4, <1>5 DEF RowsAreOrdered
  <2> QED
    BY <2>1, <2>2, <2>3 DEF RowsAreOrdered
<1>9. InsertsAreLast'
  <2> SUFFICES ASSUME NEW j \in Instances, inserting'[j] # None
               PROVE  /\ inserting'[j] <= lastId
                      /\ \A r \in Rows' : r.id # inserting'[j]
                      /\ \A r \in Rows' : r.event.source = j => r.id < inserting'[j]
                      /\ \A k \in Instances : k # j => inserting'[k] # inserting'[j]
    BY DEF Commit, InsertsAreLast
  <2>1. j # i /\ inserting'[j] = inserting[j] /\ inserting[j] # inserting[i]
    BY <1>1 DEF BusTypeOK, InsertsAreLast
  <2>2. \A k \in Instances : inserting'[k] = inserting[k] \/ inserting'[k] = None
    BY <1>1 DEF BusTypeOK
  <2> QED
    BY <1>3, <1>4, <2>1, <2>2 DEF InsertsAreLast
<1>10. ListenersComeFirst' /\ DeliveredOnceInOrder'
  BY DEF Commit, listener, ListenersComeFirst, DeliveredOnceInOrder
<1>11. UnseenIsNews'
  <2> SUFFICES ASSUME NEW j \in Instances, NEW r \in (Unseen(j) \cup Polled(j))',
                      r.event.source # j
               PROVE  IsNews(j, r.event)
    BY DEF UnseenIsNews, Commit, IsNews
  <2>1. CASE r \in Unseen(j) \cup Polled(j)
    BY <2>1 DEF UnseenIsNews
  <2>2. CASE r = q
    <3> SUFFICES ASSUME NEW n \in DOMAIN got[j], got[j][n].source = i
                 PROVE  got[j][n].number < q.event.number
      BY <1>3, <2>2 DEF IsNews
    <3>1. got[j][n].number <= stored[i] /\ got[j][n].number \in Nat
      BY <1>3, <2>2, GivenAreEvents DEF GivenWasStored
    <3> QED
      BY <1>2, <1>3, <3>1
  <2> QED
    BY <1>4, <2>1, <2>2
<1> QED
  BY <1>2, <1>6, <1>7, <1>8, <1>9, <1>10, <1>11

LEMMA FailInsertKeeps ==
  ASSUME NewsInv, NEW i \in Instances, FailInsert(i)
  PROVE  NewsInv'
<1> USE DEF NewsInv
<1>1. /\ stored' \in [Instances -> Nat]
      /\ \A j \in Instances : stored[j] \in Nat /\ stored[j] <= stored'[j]
      /\ GivenWasStored'
  BY StoredGrows DEF FailInsert
<1>2. inserting' = [inserting EXCEPT ![i] = None]
  BY DEF FailInsert
<1>3. \A j \in Instances : inserting'[j] = inserting[j] \/ inserting'[j] = None
  BY <1>2 DEF BusTypeOK
<1>4. Rows' = Rows
  BY DEF FailInsert, listener, Rows, Polled
<1>5. BusTypeOK'
  <2>1. inserting' \in [Instances -> RowIds \cup {None}]
    BY <1>2 DEF BusTypeOK
  <2>2. owed' \in [Instances -> SUBSET Events]
    BY DEF FailInsert, BusTypeOK
  <2>3. failures' \in 0 .. MaxFailures
    BY BusAssumption DEF FailInsert, BusTypeOK
  <2> QED
    BY <1>1, <2>1, <2>2, <2>3 DEF FailInsert, listener, BusTypeOK
<1>6. RowsAreOrdered'
  <2>1. \A r \in Rows : r.event.source \in Instances /\ r.event.number \in Nat
    BY RowsShape, RowShape
  <2>2. \A r \in Rows : r.event.number <= stored'[r.event.source]
    BY <1>1, <2>1 DEF RowsAreOrdered
  <2> QED
    BY <1>4, <2>2 DEF FailInsert, RowsAreOrdered
<1>7. InsertsAreLast'
  BY <1>3, <1>4 DEF FailInsert, InsertsAreLast
<1> QED
  BY <1>1, <1>5, <1>6, <1>7 DEF FailInsert, listener, RowsAreFinite,
     ListenersComeFirst, UnseenIsNews, Unseen, Polled, IsNews, DeliveredOnceInOrder

-----------------------------------------------------------------------------
(* Subscribing.                                                            *)

LEMMA SubscribeKeeps ==
  ASSUME NoLateBoot, NewsInv, NEW i \in Instances, Subscribe(i)
  PROVE  NewsInv'
<1> USE DEF NewsInv
<1>1. \A t \in tails[i] : t.number # 0
  BY DEF Subscribe, NoLateBoot, BusTypeOK
<1>2. /\ subscribed' \in [Instances -> Nat]
      /\ subscribed'[i] \in Nat \ {0}
  BY DEF Subscribe, BusTypeOK
<1> DEFINE t == [number |-> subscribed'[i], value |-> None]
<1>3. t \in TailReads /\ t.number # 0
  BY <1>2 DEF TailReads
<1>4. tails' = [tails EXCEPT ![i] = @ \cup {t}]
  BY DEF Subscribe
<1> HIDE DEF t
<1>5. tails' \in [Instances -> SUBSET TailReads]
  BY <1>3, <1>4 DEF BusTypeOK
<1>6. BusTypeOK'
  BY <1>2, <1>5 DEF Subscribe, BusTypeOK
<1>7. ListenersComeFirst'
  <2> SUFFICES ASSUME NEW j \in Instances
               PROVE  /\ j \notin listening' => got[j] = <<>>
                      /\ \A u \in tails'[j] :
                           u.number = 0 => j \notin listening' /\ polled[j] = None
    BY DEF Subscribe, ListenersComeFirst
  <2>1. CASE j = i
    BY <1>1, <1>3, <1>4, <2>1 DEF Subscribe, BusTypeOK
  <2>2. CASE j # i
    BY <1>4, <2>2 DEF Subscribe, BusTypeOK, ListenersComeFirst
  <2> QED
    BY <2>1, <2>2
<1> QED
  BY <1>6, <1>7 DEF Subscribe, RowsAreFinite, Rows, Polled, RowsAreOrdered, InsertsAreLast,
     GivenWasStored, UnseenIsNews, Unseen, IsNews, DeliveredOnceInOrder

LEMMA UnsubscribeKeeps ==
  ASSUME NewsInv, NEW i \in Instances, Unsubscribe(i)
  PROVE  NewsInv'
<1> USE DEF NewsInv
<1>1. /\ got' = [got EXCEPT ![i] = <<>>] /\ owed' = [owed EXCEPT ![i] = {}]
      /\ listening' = listening \ {i}
  BY DEF Unsubscribe
<1>2. /\ got'[i] = <<>> /\ DOMAIN got'[i] = {}
      /\ \A j \in Instances : j # i => got'[j] = got[j]
  BY <1>1 DEF BusTypeOK
<1>3. BusTypeOK'
  BY <1>1 DEF Unsubscribe, BusTypeOK
<1>4. GivenWasStored' /\ UnseenIsNews' /\ DeliveredOnceInOrder'
  BY <1>2 DEF Unsubscribe, GivenWasStored, UnseenIsNews, Unseen, Polled, IsNews,
     DeliveredOnceInOrder
<1>5. ListenersComeFirst'
  BY <1>1, <1>2 DEF Unsubscribe, ListenersComeFirst
<1> QED
  BY <1>3, <1>4, <1>5 DEF Unsubscribe, RowsAreFinite, Rows, Polled, RowsAreOrdered,
     InsertsAreLast

LEMMA ReadTailKeeps ==
  ASSUME NewsInv, NEW i \in Instances, ReadTail(i)
  PROVE  NewsInv'
<1> USE DEF NewsInv
<1>1. PICK t \in tails[i] :
        tails' = [tails EXCEPT ![i] = (@ \ {t}) \cup {[t EXCEPT !.value = MaxEventId]}]
  BY DEF ReadTail
<1> DEFINE u == [t EXCEPT !.value = MaxEventId]
<1>2. t \in TailReads /\ MaxEventId \in Nat
  BY MaxEventIdIsNat DEF BusTypeOK
<1>3. u \in TailReads /\ u.number = t.number
  BY <1>2 DEF TailReads
<1> HIDE DEF u
<1>4. tails' = [tails EXCEPT ![i] = (@ \ {t}) \cup {u}]
  BY <1>1 DEF u
<1>5. BusTypeOK'
  BY <1>3, <1>4 DEF ReadTail, BusTypeOK
<1>6. ListenersComeFirst'
  BY <1>3, <1>4 DEF ReadTail, BusTypeOK, ListenersComeFirst
<1> QED
  BY <1>5, <1>6 DEF ReadTail, RowsAreFinite, Rows, Polled, RowsAreOrdered, InsertsAreLast,
     GivenWasStored, UnseenIsNews, Unseen, IsNews, DeliveredOnceInOrder

LEMMA TailKnownKeeps ==
  ASSUME NewsInv, NEW i \in Instances, TailKnown(i)
  PROVE  NewsInv'
<1> USE DEF NewsInv
<1>1. PICK t \in tails[i] :
        /\ t.value # None
        /\ lastSeen' = [lastSeen EXCEPT ![i] =
             IF t.number = 0 \/ t.value > @ THEN t.value ELSE @]
        /\ tails' = [tails EXCEPT ![i] = @ \ {t}]
  BY DEF TailKnown
<1>2. t.value \in Nat
  BY <1>1 DEF BusTypeOK, TailReads
<1>3. /\ lastSeen' \in [Instances -> Nat]
      /\ t.number # 0 => lastSeen[i] <= lastSeen'[i]
      /\ \A j \in Instances : lastSeen[j] \in Nat /\ (j # i => lastSeen'[j] = lastSeen[j])
  BY <1>1, <1>2 DEF BusTypeOK
<1>4. BusTypeOK'
  BY <1>1, <1>3 DEF TailKnown, BusTypeOK
<1>5. ListenersComeFirst'
  BY <1>1 DEF TailKnown, BusTypeOK, ListenersComeFirst
<1>6. UnseenIsNews'
  <2> SUFFICES ASSUME NEW j \in Instances, NEW r \in (Unseen(j) \cup Polled(j))',
                      r.event.source # j
               PROVE  IsNews(j, r.event)
    BY DEF UnseenIsNews, TailKnown, IsNews
  <2>1. CASE j = i /\ t.number = 0
    <3>1. got[i] = <<>>
      BY <2>1 DEF ListenersComeFirst
    <3> QED
      BY <2>1, <3>1 DEF IsNews
  <2>2. CASE ~ (j = i /\ t.number = 0)
    <3>1. lastSeen[j] <= lastSeen'[j] /\ lastSeen[j] \in Nat /\ lastSeen'[j] \in Nat
      BY <1>3, <2>2
    <3>2. \A q \in log : q.id \in Nat
      BY RowShape DEF BusTypeOK
    <3>3. r \in Unseen(j) \cup Polled(j)
      BY <3>1, <3>2 DEF Unseen, Polled, TailKnown
    <3> QED
      BY <3>3 DEF UnseenIsNews
  <2> QED
    BY <2>1, <2>2
<1> QED
  BY <1>4, <1>5, <1>6 DEF TailKnown, RowsAreFinite, Rows, Polled, RowsAreOrdered,
     InsertsAreLast, GivenWasStored, DeliveredOnceInOrder

LEMMA FailTailKeeps ==
  ASSUME NewsInv, NEW i \in Instances, FailTail(i)
  PROVE  NewsInv'
<1> USE DEF NewsInv
<1>1. PICK t \in tails[i] : tails' = [tails EXCEPT ![i] = @ \ {t}]
  BY DEF FailTail
<1>2. failures' \in 0 .. MaxFailures
  BY BusAssumption DEF FailTail, BusTypeOK
<1>3. BusTypeOK'
  BY <1>1, <1>2 DEF FailTail, BusTypeOK
<1>4. ListenersComeFirst'
  BY <1>1 DEF FailTail, BusTypeOK, ListenersComeFirst
<1> QED
  BY <1>3, <1>4 DEF FailTail, RowsAreFinite, Rows, Polled, RowsAreOrdered, InsertsAreLast,
     GivenWasStored, UnseenIsNews, Unseen, IsNews, DeliveredOnceInOrder

-----------------------------------------------------------------------------
(* Polling.                                                                *)

\* Rows that are forgotten disturb nothing.
LEMMA FewerRows ==
  ASSUME NewsInv, Rows' \subseteq Rows, UNCHANGED <<stored, inserting, lastId>>
  PROVE  RowsAreOrdered' /\ InsertsAreLast'
BY DEF NewsInv, RowsAreOrdered, InsertsAreLast

LEMMA PollKeeps ==
  ASSUME NewsInv, NEW i \in Instances, Poll(i)
  PROVE  NewsInv'
<1> USE DEF NewsInv
<1>1. polled' = [polled EXCEPT ![i] = Fetch(i)] /\ i \in listening
  BY DEF Poll
<1>2. Fetch(i) \subseteq Unseen(i) /\ Unseen(i) \subseteq log /\ log \subseteq Row
  BY DEF Fetch, Unseen, BusTypeOK
<1>3. IsFiniteSet(Fetch(i))
  BY <1>2, FS_Subset DEF RowsAreFinite
<1>4. /\ Polled(i)' \subseteq Fetch(i)
      /\ \A j \in Instances : j # i => Polled(j)' = Polled(j)
  BY <1>1 DEF Polled, BusTypeOK
<1>5. Rows' \subseteq Rows
  BY <1>2, <1>4 DEF Poll, Rows
<1>6. BusTypeOK'
  BY <1>1, <1>2 DEF Poll, BusTypeOK
<1>7. RowsAreFinite'
  BY <1>3, <1>4, FS_Subset DEF Poll, RowsAreFinite
<1>8. ListenersComeFirst'
  BY <1>1 DEF Poll, BusTypeOK, ListenersComeFirst
<1>9. UnseenIsNews'
  BY <1>2, <1>4 DEF Poll, UnseenIsNews, Unseen, IsNews
<1> QED
  BY <1>5, <1>6, <1>7, <1>8, <1>9, FewerRows DEF Poll, GivenWasStored, DeliveredOnceInOrder

LEMMA FailPollKeeps ==
  ASSUME NewsInv, NEW i \in Instances, FailPoll(i)
  PROVE  NewsInv'
<1> USE DEF NewsInv
<1>1. polled' = [polled EXCEPT ![i] = None]
  BY DEF FailPoll
<1>2. Polled(i)' = {} /\ \A j \in Instances : j # i => Polled(j)' = Polled(j)
  BY <1>1 DEF Polled, BusTypeOK
<1>3. Rows' \subseteq Rows
  BY <1>2 DEF FailPoll, Rows
<1>4. failures' \in 0 .. MaxFailures
  BY BusAssumption DEF FailPoll, BusTypeOK
<1>5. BusTypeOK'
  BY <1>1, <1>4 DEF FailPoll, BusTypeOK
<1>6. RowsAreFinite'
  BY <1>2, FS_EmptySet DEF FailPoll, RowsAreFinite
<1>7. ListenersComeFirst'
  BY <1>1 DEF FailPoll, BusTypeOK, ListenersComeFirst
<1>8. UnseenIsNews'
  BY <1>2 DEF FailPoll, UnseenIsNews, Unseen, IsNews
<1> QED
  BY <1>3, <1>5, <1>6, <1>7, <1>8, FewerRows
     DEF FailPoll, GivenWasStored, DeliveredOnceInOrder

LEMMA PruneKeeps ==
  ASSUME NewsInv, Prune
  PROVE  NewsInv'
<1> USE DEF NewsInv
<1>1. log' \subseteq log /\ \A i \in Instances : Polled(i)' = Polled(i)
  BY DEF Prune, listener, Polled
<1>2. Rows' \subseteq Rows
  BY <1>1 DEF Rows
<1>3. BusTypeOK'
  BY <1>1 DEF Prune, listener, BusTypeOK
<1>4. RowsAreFinite'
  BY <1>1, FS_Subset DEF RowsAreFinite
<1>5. UnseenIsNews'
  BY <1>1 DEF Prune, listener, UnseenIsNews, Unseen, IsNews
<1> QED
  BY <1>2, <1>3, <1>4, <1>5, FewerRows
     DEF Prune, listener, GivenWasStored, ListenersComeFirst, DeliveredOnceInOrder

LEMMA DeliverRowsKeeps ==
  ASSUME NewsInv, NEW i \in Instances, DeliverRows(i)
  PROVE  NewsInv'
<1> USE DEF NewsInv
<1> DEFINE rows == polled[i]
           t == Foreign(i, rows)
<1>1. /\ polled' = [polled EXCEPT ![i] = None] /\ polled[i] # None
      /\ lastSeen' = [lastSeen EXCEPT ![i] = Seen(i, rows)]
      /\ got' = [got EXCEPT ![i] = Given(i, t)]
      /\ owed' = [owed EXCEPT ![i] = @ \ {r.event : r \in rows}]
  BY DEF DeliverRows
<1>2. Polled(i) = rows /\ rows \subseteq Rows /\ IsFiniteSet(rows)
  BY <1>1, RowsShape DEF Polled, RowsAreFinite
<1> HIDE DEF rows
<1>3. /\ t \in Seq(Events) /\ Ordered(t)
      /\ \A n \in DOMAIN t : \E r \in rows : r.event = t[n] /\ r.event.source # i
  BY <1>2, ForeignShape
<1>4. /\ Seen(i, rows) \in Nat /\ lastSeen[i] <= Seen(i, rows)
      /\ \A r \in rows : r.id <= Seen(i, rows)
  BY <1>2, SeenIsLast
<1> HIDE DEF t
<1>5. /\ Given(i, t) \in Seq(Events)
      /\ \A n \in DOMAIN Given(i, t) :
           \/ n \in DOMAIN got[i] /\ Given(i, t)[n] = got[i][n]
           \/ \E m \in DOMAIN t : Given(i, t)[n] = t[m]
      /\ i \notin listening => Given(i, t) = got[i]
  BY <1>3, GivenShape
<1>6. /\ got'[i] = Given(i, t) /\ lastSeen'[i] = Seen(i, rows)
      /\ \A j \in Instances : j # i => got'[j] = got[j] /\ lastSeen'[j] = lastSeen[j]
  BY <1>1 DEF BusTypeOK
<1>7. Polled(i)' = {} /\ \A j \in Instances : j # i => Polled(j)' = Polled(j)
  BY <1>1 DEF Polled, BusTypeOK
<1>8. Rows' \subseteq Rows
  BY <1>7 DEF DeliverRows, Rows
<1>9. BusTypeOK'
  <2>1. lastSeen' \in [Instances -> Nat] /\ got' \in [Instances -> Seq(Events)]
    BY <1>1, <1>4, <1>5 DEF BusTypeOK
  <2>2. owed' \in [Instances -> SUBSET Events]
    BY <1>1 DEF BusTypeOK
  <2>3. polled' \in [Instances -> (SUBSET Row) \cup {None}]
    BY <1>1 DEF BusTypeOK
  <2> QED
    BY <2>1, <2>2, <2>3 DEF DeliverRows, BusTypeOK
<1>10. RowsAreFinite'
  BY <1>7, FS_EmptySet DEF DeliverRows, RowsAreFinite
<1>11. \A r \in Rows : r.event.number <= stored[r.event.source]
  BY DEF RowsAreOrdered
<1>12. GivenWasStored'
  <2> SUFFICES ASSUME NEW j \in Instances, NEW n \in DOMAIN got'[j]
               PROVE  got'[j][n].number <=
                        IF got'[j][n].source = j THEN emitted[j] ELSE stored[got'[j][n].source]
    BY DEF DeliverRows, GivenWasStored
  <2>1. CASE j # i \/ (n \in DOMAIN got[i] /\ got'[i][n] = got[i][n])
    BY <1>6, <2>1 DEF GivenWasStored
  <2>2. CASE j = i /\ \E m \in DOMAIN t : got'[i][n] = t[m]
    BY <1>2, <1>3, <1>11, <2>2
  <2> QED
    BY <1>5, <1>6, <2>1, <2>2
<1>13. ListenersComeFirst'
  <2> SUFFICES ASSUME NEW j \in Instances
               PROVE  /\ j \notin listening => got'[j] = <<>>
                      /\ \A u \in tails[j] :
                           u.number = 0 => j \notin listening /\ polled'[j] = None
    BY DEF DeliverRows, ListenersComeFirst
  <2>1. polled'[j] = None \/ polled'[j] = polled[j]
    BY <1>1 DEF BusTypeOK
  <2> QED
    BY <1>5, <1>6, <2>1 DEF ListenersComeFirst
<1>14. \A n \in DOMAIN t : IsNews(i, t[n])
  BY <1>2, <1>3 DEF UnseenIsNews
<1>15. UnseenIsNews'
  <2> SUFFICES ASSUME NEW j \in Instances, NEW r \in (Unseen(j) \cup Polled(j))',
                      r.event.source # j
               PROVE  IsNews(j, r.event)'
    BY DEF UnseenIsNews
  <2>1. CASE j # i
    <3>1. r \in Unseen(j) \cup Polled(j)
      BY <1>6, <1>7, <2>1 DEF DeliverRows, Unseen
    <3> QED
      BY <1>6, <2>1, <3>1 DEF UnseenIsNews, IsNews
  <2>2. CASE j = i
    <3>1. r \in log /\ r \in Rows /\ r.id > Seen(i, rows) /\ r.id \in Nat
      BY <1>6, <1>7, <2>2, RowsShape, RowShape DEF DeliverRows, Unseen
    <3>2. r \in Unseen(i)
      BY <1>4, <3>1 DEF Unseen, BusTypeOK
    <3>3. IsNews(i, r.event)
      BY <2>2, <3>2 DEF UnseenIsNews
    <3>4. ASSUME NEW q \in rows, q.event.source = r.event.source
          PROVE  q.event.number < r.event.number
      <4>1. q \in Rows /\ q.id \in Nat /\ q.id <= Seen(i, rows)
        BY <1>2, <1>4, RowsShape, RowShape
      <4>2. q.id < r.id
        BY <1>4, <3>1, <4>1
      <4> QED
        BY <3>1, <3>4, <4>1, <4>2 DEF RowsAreOrdered
    <3>5. ASSUME NEW n \in DOMAIN Given(i, t), Given(i, t)[n].source = r.event.source
          PROVE  Given(i, t)[n].number < r.event.number
      <4>1. CASE n \in DOMAIN got[i] /\ Given(i, t)[n] = got[i][n]
        BY <3>3, <3>5, <4>1 DEF IsNews
      <4>2. CASE \E m \in DOMAIN t : Given(i, t)[n] = t[m]
        BY <1>3, <3>4, <3>5, <4>2
      <4> QED
        BY <1>5, <4>1, <4>2
    <3> QED
      BY <1>6, <2>2, <3>5 DEF IsNews
  <2> QED
    BY <2>1, <2>2
<1>16. DeliveredOnceInOrder'
  <2>1. Ordered(got[i])
    BY DEF DeliveredOnceInOrder, Ordered
  <2>2. Ordered(Given(i, t))
    BY <1>3, <1>14, <2>1, GivenInOrder
  <2> QED
    BY <1>6, <2>2 DEF DeliveredOnceInOrder, Ordered
<1> QED
  BY <1>8, <1>9, <1>10, <1>12, <1>13, <1>15, <1>16, FewerRows DEF DeliverRows

-----------------------------------------------------------------------------
LEMMA NewsInit == Init => NewsInv
<1> SUFFICES ASSUME Init PROVE NewsInv
  OBVIOUS
<1>1. \A i \in Instances : /\ inserting[i] = None /\ got[i] = <<>> /\ DOMAIN got[i] = {}
                            /\ polled[i] = None /\ Polled(i) = {} /\ Unseen(i) = {}
  BY DEF Init, Polled, Unseen
<1>2. Rows = {} /\ log = {}
  BY <1>1 DEF Init, Rows
<1>3. BusTypeOK
  <2>1. <<>> \in Seq(Events) /\ [number |-> 0, value |-> None] \in TailReads
    BY DEF TailReads
  <2>2. /\ got \in [Instances -> Seq(Events)] /\ tails \in [Instances -> SUBSET TailReads]
    BY <2>1 DEF Init
  <2>3. 0 \in 0 .. MaxFailures
    BY BusAssumption
  <2> QED
    BY <2>2, <2>3 DEF Init, BusTypeOK
<1> QED
  BY <1>1, <1>2, <1>3, FS_EmptySet DEF Init, NewsInv, RowsAreFinite, RowsAreOrdered,
     InsertsAreLast, GivenWasStored, ListenersComeFirst, UnseenIsNews, DeliveredOnceInOrder

LEMMA NewsNext ==
  ASSUME NoLateBoot, NewsInv, [Next]_vars
  PROVE  NewsInv'
<1>1. CASE UNCHANGED vars
  <2>1. Rows' = Rows /\ \A i \in Instances : Polled(i)' = Polled(i)
    BY <1>1 DEF vars, Rows, Polled
  <2>2. BusTypeOK' /\ RowsAreFinite' /\ RowsAreOrdered' /\ InsertsAreLast'
    BY <1>1, <2>1 DEF vars, NewsInv, BusTypeOK, RowsAreFinite, RowsAreOrdered, InsertsAreLast
  <2>3. UnseenIsNews'
    BY <1>1, <2>1 DEF vars, NewsInv, UnseenIsNews, Unseen, IsNews
  <2> QED
    BY <1>1, <2>2, <2>3
       DEF vars, NewsInv, GivenWasStored, ListenersComeFirst, DeliveredOnceInOrder
<1>2. CASE Next
  BY <1>2, EmitKeeps, InsertKeeps, CommitKeeps, FailInsertKeeps, SubscribeKeeps,
     UnsubscribeKeeps, ReadTailKeeps, TailKnownKeeps, FailTailKeeps, PollKeeps,
     DeliverRowsKeeps, FailPollKeeps, PruneKeeps
     DEF Next, Storing, Polling, Tailing
<1> QED
  BY <1>1, <1>2

\* The inductive invariant holds.
THEOREM NewsAlways ==
  ASSUME NoLateBoot
  PROVE  Spec => []NewsInv
<1>1. Init => NewsInv
  BY NewsInit
<1>2. NewsInv /\ [Next]_vars => NewsInv'
  BY NewsNext
<1> QED
  BY <1>1, <1>2, PTL DEF Spec

\* "without local duplicates" (bus.test.ts): a listener is given every event of every
\* source at most once, and in the order in which it was emitted.
THEOREM EventsAreDeliveredOnce ==
  ASSUME NoLateBoot
  PROVE  Spec => []DeliveryInv
<1>1. NewsInv => DeliveryInv
  BY DEF NewsInv, DeliveryInv
<1> QED
  BY <1>1, NewsAlways, PTL
=============================================================================
