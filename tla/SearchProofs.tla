----------------------------- MODULE SearchProofs -----------------------------
(***************************************************************************)
(* That search forgets nothing, for any pages, assets, comments, bounds    *)
(* and batch size.  The outbox: whatever the index of Elasticsearch lacks  *)
(* has an entry, or a comment that is about to make one.  The built-in     *)
(* index: whatever is not current is owed by a request.                    *)
(*                                                                         *)
(* What the first proof asks of a behaviour is Careful.  The run           *)
(* search_outbox_reordered shows what becomes of a page when a request     *)
(* fails and the page is restored before it is tried again.  The second    *)
(* one asks for InOrder.                                                   *)
(***************************************************************************)
EXTENDS SearchOutbox, PageIndex, FiniteSetTheorems, WellFoundedInduction, TLAPS

\* No page is written while the index is rebuilt, and where requests may fail no
\* archived page comes back.
Careful ==
  \A m \in OutboxModes : "busyRebuild" \notin m /\ ~ ("fail" \in m /\ "restore" \in m)

\* The document is the page's, or the page is not done with: another entry of it, or
\* its comment's, is to come.
UpToDate(p, document) ==
  \/ document = source[p]
  \/ \E f \in outbox : f.page = p /\ f.id # Current.id
  \/ p \in commented

\* What the worker has claimed may be claimed still.
BatchIsClaimed ==
  /\ IsFiniteSet(outbox)
  /\ batch \subseteq Claimable
  /\ batch = {} => step = Start

\* What it has loaded, or applied, is up to date.
StepIsUpToDate ==
  /\ step.at = "loaded" =>
       Current.operation = "index" /\ UpToDate(Current.page, step.document)
  /\ step.at = "applied" => UpToDate(Current.page, index[Current.page])

\* A deletion is of a page that is not active, or a later entry says that it came back.
DeletionsHold ==
  \A e \in outbox : e.operation = "delete" =>
    \/ source[e.page] = NoDocument
    \/ \E f \in outbox : f.page = e.page /\ f.id > e.id

\* Without restores a page that was deleted stays so.
DeletedForGood ==
  "restore" \notin outboxMode =>
    \A e \in outbox : e.operation = "delete" => source[e.page] = NoDocument /\ writes[e.page] > 0

\* Without failures the entries are dealt with in the order of their ids.
WorkedInOrder ==
  "fail" \notin outboxMode =>
    /\ \A e \in outbox : e.due /\ e.attempts = 0
    /\ \A e \in batch, f \in outbox : f.id < e.id => f \in batch

\* A rebuild swaps in what the pages are.
RebuiltIsCurrent == rebuilt # NoDocument => rebuilt = source

CatchUpInv ==
  /\ OutboxTypeOK /\ BatchIsClaimed /\ StalePagesHaveWork
  /\ StepIsUpToDate /\ DeletionsHold /\ DeletedForGood /\ WorkedInOrder
  /\ RebuiltIsCurrent

-----------------------------------------------------------------------------
(* The table and the worker keep their shapes.                             *)

LEMMA NatMinimum ==
  ASSUME NEW T, T \subseteq Nat, T # {}
  PROVE  \E n \in T : \A m \in T : n <= m
<1> DEFINE Below == {ss \in Nat \X Nat : ss[1] < ss[2]}
<1>1. IsWellFoundedOn(Below, Nat)
  BY NatLessThanWellFounded DEF OpToRel
<1>2. PICK n \in T : \A m \in T : <<m, n>> \notin Below
  BY <1>1, WFMin
<1>3. ASSUME NEW m \in T
      PROVE  n <= m
  <2>1. <<m, n>> \in Nat \X Nat /\ <<m, n>>[1] = m /\ <<m, n>>[2] = n
    OBVIOUS
  <2>2. ~ (m < n)
    BY <1>2, <2>1 DEF Below
  <2> QED
    BY <2>2
<1> QED
  BY <1>3

LEMMA EntryShape ==
  ASSUME NEW e \in Entry
  PROVE  /\ e.id \in Nat \ {0} /\ e.page \in Pages
         /\ e.operation \in {"index", "delete"}
         /\ e.attempts \in 0 .. MaxAttempts /\ e.due \in BOOLEAN
BY DEF Entry, EntryIds

\* There is a first entry in what the worker has claimed.
LEMMA CurrentIsFirst ==
  ASSUME OutboxTypeOK, batch # {}
  PROVE  /\ Current \in batch /\ Current \in outbox /\ Current \in Entry
         /\ \A f \in batch : Current.id <= f.id
<1> DEFINE Ids == {e.id : e \in batch}
<1>1. \A e \in batch : e \in outbox /\ e \in Entry
  BY DEF OutboxTypeOK
<1>2. Ids \subseteq Nat /\ Ids # {}
  BY <1>1, EntryShape
<1>3. PICK n \in Ids : \A m \in Ids : n <= m
  BY <1>2, NatMinimum
<1>4. PICK e \in batch : e.id = n
  OBVIOUS
<1>5. \A f \in batch : e.id <= f.id
  BY <1>3, <1>4
<1> QED
  BY <1>1, <1>5 DEF Current

\* The row that enqueue inserts.
Added(p, operation) ==
  [id |-> lastEntry + 1, page |-> p, operation |-> operation, attempts |-> 0, due |-> TRUE]

LEMMA EnqueueAdds ==
  ASSUME OutboxTypeOK,
         NEW p \in Pages, NEW operation \in {"index", "delete"}, Enqueue(p, operation)
  PROVE  /\ outbox' = outbox \cup {Added(p, operation)}
         /\ lastEntry' = lastEntry + 1 /\ lastEntry' \in Nat
         /\ Added(p, operation) \in Entry
         /\ \A e \in outbox : e.id < Added(p, operation).id
         /\ Added(p, operation).id = lastEntry'
<1>1. Added(p, operation) \in Entry
  BY OutboxAssumption DEF OutboxTypeOK, Added, Entry, EntryIds
<1>2. \A e \in outbox : e.id \in Nat /\ e.id <= lastEntry
  BY EntryShape DEF OutboxTypeOK
<1> QED
  BY <1>1, <1>2 DEF Enqueue, Added, OutboxTypeOK

LEMMA FailedShape ==
  ASSUME NEW e \in Entry, e.attempts < MaxAttempts
  PROVE  /\ Failed(e) \in Entry /\ Failed(e).id = e.id /\ Failed(e).page = e.page
         /\ Failed(e).operation = e.operation
<1>1. e.attempts + 1 \in 0 .. MaxAttempts
  BY OutboxAssumption, EntryShape
<1> DEFINE Tried == [e EXCEPT !.attempts = e.attempts + 1]
<1>2. /\ Tried \in Entry /\ Tried.id = e.id /\ Tried.page = e.page
      /\ Tried.operation = e.operation
  BY <1>1 DEF Entry
<1>3. Failed(e) = [Tried EXCEPT !.due = FALSE]
  BY DEF Failed
<1> HIDE DEF Tried
<1> QED
  BY <1>2, <1>3 DEF Entry

LEMMA DueShape ==
  ASSUME NEW e \in Entry
  PROVE  LET d == [e EXCEPT !.due = TRUE]
         IN  /\ d \in Entry /\ d.id = e.id /\ d.page = e.page
             /\ d.operation = e.operation
BY DEF Entry

LEMMA OutboxTypeInit == ASSUME OutboxInit PROVE OutboxTypeOK
BY OutboxAssumption DEF OutboxInit, OutboxTypeOK, Documents, Step, Start

LEMMA WriteTypes ==
  ASSUME OutboxTypeOK, NEW p \in Pages, MayWrite(p),
         writes' = [writes EXCEPT ![p] = @ + 1]
  PROVE  /\ writes' \in [Pages -> 0 .. MaxWrites] /\ writes'[p] \in Documents
         /\ writes'[p] = writes[p] + 1
BY OutboxAssumption DEF OutboxTypeOK, MayWrite, Documents

-----------------------------------------------------------------------------
(* Writes: a new entry is the last.                                        *)

\* An entry that is due keeps its place when the batch and the step stay.
LEMMA EnqueueKeeps ==
  ASSUME CatchUpInv,
         NEW p \in Pages, NEW operation \in {"index", "delete"}, Enqueue(p, operation),
         UNCHANGED <<outboxMode, index, batch, step, rebuilt, stops>>,
         source' \in [Pages -> Documents], writes' \in [Pages -> 0 .. MaxWrites],
         commented' \subseteq Pages, commented \subseteq commented' \cup {p},
         \A q \in Pages : q # p => source'[q] = source[q] /\ writes'[q] = writes[q],
         rebuilt # NoDocument => source' = source,
         operation = "delete" => source'[p] = NoDocument /\ writes'[p] > 0,
         "restore" \notin outboxMode /\ source[p] = NoDocument /\ writes[p] > 0 =>
           source'[p] = NoDocument /\ writes'[p] > 0
  PROVE  CatchUpInv'
<1> USE DEF CatchUpInv
<1> DEFINE new == Added(p, operation)
<1>1. /\ outbox' = outbox \cup {new} /\ lastEntry' = lastEntry + 1 /\ lastEntry' \in Nat
      /\ new \in Entry /\ new.id = lastEntry'
      /\ \A e \in outbox : e.id < new.id
  BY EnqueueAdds
<1>2. /\ new.page = p /\ new.operation = operation /\ new.attempts = 0 /\ new.due
  BY DEF Added
<1> HIDE DEF new
<1>3. \A e \in outbox : e \in Entry /\ e.id \in Nat /\ e.page \in Pages
  BY EntryShape DEF OutboxTypeOK
<1>4. Current' = Current
  BY DEF Current
<1>5. OutboxTypeOK'
  <2>1. \A e, f \in outbox' : e.id = f.id => e = f
    BY <1>1, <1>3 DEF OutboxTypeOK
  <2>2. \A e \in outbox' : e.id <= lastEntry'
    BY <1>1, <1>3 DEF OutboxTypeOK
  <2> QED
    BY <1>1, <2>1, <2>2 DEF OutboxTypeOK
<1>6. BatchIsClaimed'
  BY <1>1, FS_AddElement DEF BatchIsClaimed, Claimable
<1>7. StalePagesHaveWork'
  BY <1>1, <1>2 DEF StalePagesHaveWork, Stale, Work
<1>8. StepIsUpToDate'
  <2>1. ASSUME NEW document, batch # {}, UpToDate(Current.page, document)
        PROVE  UpToDate(Current.page, document)'
    <3>1. Current \in outbox /\ Current.page \in Pages /\ Current.id # new.id
      BY <1>1, <1>3, <2>1, CurrentIsFirst
    <3>2. CASE Current.page = p
      BY <1>1, <1>2, <1>4, <3>1, <3>2 DEF UpToDate
    <3>3. CASE Current.page # p
      BY <1>1, <1>4, <2>1, <3>1, <3>3 DEF UpToDate
    <3> QED
      BY <3>2, <3>3
  <2>2. step.at \in {"loaded", "applied"} => batch # {}
    BY DEF BatchIsClaimed, Start
  <2> QED
    BY <1>4, <2>1, <2>2 DEF StepIsUpToDate, UpToDate
<1>9. DeletionsHold'
  <2> SUFFICES ASSUME NEW e \in outbox', e.operation = "delete", source'[e.page] # NoDocument
               PROVE  \E f \in outbox' : f.page = e.page /\ f.id > e.id
    BY DEF DeletionsHold
  <2>1. e \in outbox
    BY <1>1, <1>2
  <2>2. CASE e.page = p
    BY <1>1, <1>2, <2>1, <2>2
  <2>3. CASE e.page # p
    BY <1>1, <1>3, <2>1, <2>3 DEF DeletionsHold
  <2> QED
    BY <2>2, <2>3
<1>10. DeletedForGood'
  BY <1>1, <1>2, <1>3 DEF DeletedForGood
<1>11. WorkedInOrder'
  <2>1. \A e \in batch : e \in outbox
    BY DEF OutboxTypeOK
  <2> QED
    BY <1>1, <1>2, <1>3, <2>1 DEF WorkedInOrder
<1>12. RebuiltIsCurrent'
  BY DEF RebuiltIsCurrent
<1> QED
  BY <1>5, <1>6, <1>7, <1>8, <1>9, <1>10, <1>11, <1>12

\* No write comes between a rebuild's reads and its swap.
LEMMA WritesWait ==
  ASSUME Careful, OutboxTypeOK, NEW p \in Pages, MayWrite(p)
  PROVE  rebuilt = NoDocument
BY DEF Careful, OutboxTypeOK, MayWrite

LEMMA SaveKeeps ==
  ASSUME Careful, CatchUpInv, NEW p \in Pages, SavePage(p)
  PROVE  CatchUpInv'
<1>1. OutboxTypeOK /\ MayWrite(p) /\ writes' = [writes EXCEPT ![p] = @ + 1]
  BY DEF CatchUpInv, SavePage
<1>2. /\ writes' \in [Pages -> 0 .. MaxWrites] /\ writes'[p] \in Documents
      /\ writes'[p] = writes[p] + 1
  BY <1>1, WriteTypes
<1>3. source' \in [Pages -> Documents]
  BY <1>1, <1>2 DEF SavePage, OutboxTypeOK
<1>4. \A q \in Pages : q # p => source'[q] = source[q] /\ writes'[q] = writes[q]
  BY <1>1 DEF SavePage, OutboxTypeOK
<1>5. ~ ("restore" \notin outboxMode /\ source[p] = NoDocument /\ writes[p] > 0)
  BY <1>1 DEF SavePage, OutboxTypeOK
<1>6. rebuilt = NoDocument
  BY <1>1, WritesWait
<1> QED
  BY <1>1, <1>2, <1>3, <1>4, <1>5, <1>6, EnqueueKeeps DEF SavePage, OutboxTypeOK

LEMMA DropKeeps ==
  ASSUME Careful, CatchUpInv, NEW p \in Pages, DropPage(p)
  PROVE  CatchUpInv'
<1>1. OutboxTypeOK /\ MayWrite(p) /\ writes' = [writes EXCEPT ![p] = @ + 1]
  BY DEF CatchUpInv, DropPage
<1>2. /\ writes' \in [Pages -> 0 .. MaxWrites]
      /\ writes'[p] = writes[p] + 1
  BY <1>1, WriteTypes
<1>3. source' \in [Pages -> Documents] /\ source'[p] = NoDocument
  BY <1>1 DEF DropPage, OutboxTypeOK, Documents
<1>4. \A q \in Pages : q # p => source'[q] = source[q] /\ writes'[q] = writes[q]
  BY <1>1 DEF DropPage, OutboxTypeOK
<1>5. writes'[p] > 0
  BY OutboxAssumption, <1>1, <1>2 DEF OutboxTypeOK
<1>6. rebuilt = NoDocument
  BY <1>1, WritesWait
<1> QED
  BY <1>1, <1>2, <1>3, <1>4, <1>5, <1>6, EnqueueKeeps DEF DropPage, OutboxTypeOK

LEMMA CommentEnqueueKeeps ==
  ASSUME CatchUpInv, NEW p \in Pages, CommentEnqueue(p)
  PROVE  CatchUpInv'
<1>1. OutboxTypeOK
  BY DEF CatchUpInv
<1>2. commented' \subseteq Pages /\ commented \subseteq commented' \cup {p}
  BY <1>1 DEF CommentEnqueue, OutboxTypeOK
<1> QED
  BY <1>1, <1>2, EnqueueKeeps DEF CommentEnqueue, OutboxTypeOK

LEMMA CommentKeeps ==
  ASSUME Careful, CatchUpInv, NEW p \in Pages, Comment(p)
  PROVE  CatchUpInv'
<1>1. OutboxTypeOK /\ MayWrite(p) /\ writes' = [writes EXCEPT ![p] = @ + 1]
  BY DEF CatchUpInv, Comment
<1>2. /\ writes' \in [Pages -> 0 .. MaxWrites] /\ writes'[p] \in Documents
      /\ writes'[p] = writes[p] + 1
  BY <1>1, WriteTypes
<1>3. /\ source' \in [Pages -> Documents] /\ source[p] # NoDocument
      /\ \A q \in Pages : q # p => source'[q] = source[q] /\ writes'[q] = writes[q]
  BY <1>1, <1>2 DEF Comment, OutboxTypeOK
<1>4. Current' = Current /\ Claimable' = Claimable
  BY DEF Comment, Current, Claimable
<1>5. rebuilt = NoDocument
  BY <1>1, WritesWait
<1>6. \A e \in outbox : e.page \in Pages
  BY <1>1, EntryShape DEF OutboxTypeOK
<1>7. OutboxTypeOK'
  BY <1>1, <1>2, <1>3 DEF Comment, OutboxTypeOK
<1>8. BatchIsClaimed' /\ WorkedInOrder' /\ RebuiltIsCurrent'
  BY <1>4, <1>5 DEF CatchUpInv, Comment, BatchIsClaimed, WorkedInOrder, RebuiltIsCurrent
<1>9. StalePagesHaveWork'
  BY <1>3 DEF CatchUpInv, Comment, StalePagesHaveWork, Stale, Work
<1>10. StepIsUpToDate'
  <2>1. ASSUME NEW document, batch # {}, UpToDate(Current.page, document)
        PROVE  UpToDate(Current.page, document)'
    <3>1. Current.page \in Pages
      BY <1>1, <1>6, <2>1, CurrentIsFirst
    <3> QED
      BY <1>3, <1>4, <2>1, <3>1 DEF UpToDate, Comment
  <2>2. step.at \in {"loaded", "applied"} => batch # {}
    BY DEF CatchUpInv, BatchIsClaimed, Start
  <2> QED
    BY <1>4, <2>1, <2>2 DEF CatchUpInv, StepIsUpToDate, UpToDate, Comment
<1>11. DeletionsHold' /\ DeletedForGood'
  BY <1>3, <1>6 DEF CatchUpInv, Comment, DeletionsHold, DeletedForGood
<1> QED
  BY <1>7, <1>8, <1>9, <1>10, <1>11 DEF CatchUpInv

-----------------------------------------------------------------------------
(* The worker.                                                             *)

LEMMA ClaimKeeps ==
  ASSUME CatchUpInv, Claim
  PROVE  CatchUpInv'
<1> USE DEF CatchUpInv
<1>1. step = Start
  BY DEF Claim, BatchIsClaimed
<1>2. batch' \subseteq Claimable /\ batch' \subseteq outbox
  BY DEF Claim, Claimable
<1>3. OutboxTypeOK'
  BY <1>2 DEF Claim, OutboxTypeOK
<1>4. /\ BatchIsClaimed' /\ StalePagesHaveWork' /\ StepIsUpToDate' /\ DeletionsHold'
      /\ DeletedForGood' /\ RebuiltIsCurrent'
  BY <1>1, <1>2 DEF Claim, Claimable, BatchIsClaimed, StalePagesHaveWork, Stale, Work,
     StepIsUpToDate, Start, DeletionsHold, DeletedForGood, RebuiltIsCurrent
<1>5. WorkedInOrder'
  <2> SUFFICES ASSUME "fail" \notin outboxMode, NEW e \in batch', NEW f \in outbox, f.id < e.id
               PROVE  f \in batch'
    BY DEF Claim, WorkedInOrder
  <2> DEFINE Before(g) == {h \in Claimable : h.id < g.id}
  <2>1. Claimable = outbox
    BY OutboxAssumption DEF WorkedInOrder, Claimable
  <2>2. e \in outbox /\ \A g \in outbox : g.id \in Nat
    BY <1>2, EntryShape DEF OutboxTypeOK
  <2>3. Before(f) \subseteq Before(e)
    BY <2>1, <2>2
  <2>4. IsFiniteSet(Before(e))
    BY <2>1, FS_Subset DEF BatchIsClaimed
  <2>5. /\ Cardinality(Before(f)) <= Cardinality(Before(e))
        /\ Cardinality(Before(f)) \in Nat /\ Cardinality(Before(e)) \in Nat
    BY <2>3, <2>4, FS_Subset, FS_CardinalityType
  <2>6. Cardinality(Before(e)) < BatchSize
    BY DEF Claim
  <2>7. Cardinality(Before(f)) < BatchSize
    BY OutboxAssumption, <2>5, <2>6
  <2> QED
    BY <2>1, <2>7 DEF Claim
<1> QED
  BY <1>3, <1>4, <1>5

LEMMA LoadSourceKeeps ==
  ASSUME CatchUpInv, LoadSource
  PROVE  CatchUpInv'
<1> USE DEF CatchUpInv
<1>1. Current \in Entry /\ Current.page \in Pages
  BY CurrentIsFirst, EntryShape DEF LoadSource
<1>2. Current' = Current
  BY DEF LoadSource, Current
<1>3. source[Current.page] \in Documents
  BY <1>1 DEF OutboxTypeOK
<1>4. step' \in Step
  BY <1>3 DEF LoadSource, Step
<1>5. OutboxTypeOK'
  BY <1>4 DEF LoadSource, OutboxTypeOK
<1>6. step'.at = "loaded" /\ step'.document = source[Current.page]
  BY DEF LoadSource
<1>7. StepIsUpToDate'
  BY <1>2, <1>6 DEF LoadSource, StepIsUpToDate, UpToDate
<1> QED
  BY <1>5, <1>7 DEF LoadSource, BatchIsClaimed, Claimable, StalePagesHaveWork, Stale, Work,
     DeletionsHold, DeletedForGood, WorkedInOrder, RebuiltIsCurrent

LEMMA ApplyKeeps ==
  ASSUME CatchUpInv, Apply
  PROVE  CatchUpInv'
<1> USE DEF CatchUpInv
<1>1. /\ Current \in outbox /\ Current \in Entry /\ Current.page \in Pages
      /\ Current.id \in Nat
  BY CurrentIsFirst, EntryShape DEF Apply
<1>2. Current' = Current /\ step'.at = "applied"
  BY DEF Apply, Current
<1>3. PICK document \in Documents : /\ index' = [index EXCEPT ![Current.page] = document]
                                    /\ UpToDate(Current.page, document)
  <2>1. CASE step.at = "start" /\ Current.operation = "delete"
    <3>1. index' = [index EXCEPT ![Current.page] = NoDocument]
      BY <2>1 DEF Apply
    <3>2. \/ source[Current.page] = NoDocument
          \/ \E f \in outbox : f.page = Current.page /\ f.id > Current.id
      BY <1>1, <2>1 DEF DeletionsHold
    <3>3. UpToDate(Current.page, NoDocument)
      BY <1>1, <3>2, EntryShape DEF UpToDate, OutboxTypeOK
    <3> QED
      BY <3>1, <3>3 DEF Documents
  <2>2. CASE step.at = "loaded"
    <3>1. step.document \in Documents
      BY <2>2 DEF OutboxTypeOK, Step
    <3> QED
      BY <2>2, <3>1 DEF Apply, StepIsUpToDate
  <2> QED
    BY <2>1, <2>2 DEF Apply
<1>4. OutboxTypeOK'
  BY <1>3 DEF Apply, OutboxTypeOK, Step
<1>5. index'[Current.page] = document
  BY <1>1, <1>3 DEF OutboxTypeOK
<1>6. StepIsUpToDate'
  BY <1>2, <1>3, <1>5 DEF Apply, StepIsUpToDate, UpToDate
<1>7. StalePagesHaveWork'
  <2> SUFFICES ASSUME NEW p \in Pages, Stale(p)'
               PROVE  Work(p) # {} \/ p \in commented
    BY DEF StalePagesHaveWork, Apply, Work
  <2>1. CASE p = Current.page
    BY <1>1, <2>1 DEF Work
  <2>2. CASE p # Current.page
    BY <1>3, <2>2 DEF Apply, StalePagesHaveWork, Stale, OutboxTypeOK
  <2> QED
    BY <2>1, <2>2
<1>8. batch' # {}
  BY DEF Apply
<1> QED
  BY <1>4, <1>6, <1>7, <1>8 DEF Apply, BatchIsClaimed, Claimable, DeletionsHold,
     DeletedForGood, WorkedInOrder, RebuiltIsCurrent

LEMMA CompleteKeeps ==
  ASSUME Careful, CatchUpInv, Complete
  PROVE  CatchUpInv'
<1> USE DEF CatchUpInv
<1>1. /\ Current \in batch /\ Current \in outbox /\ Current \in Entry
      /\ \A f \in batch : Current.id <= f.id
      /\ Current.page \in Pages
  BY CurrentIsFirst, EntryShape DEF Complete
<1>2. /\ outbox' = {e \in outbox : e.id # Current.id} /\ batch' = batch \ {Current}
      /\ step' = Start
  BY DEF Complete, Completed
<1>3. \A e \in outbox : e.id \in Nat /\ (e.id = Current.id => e = Current)
  BY <1>1, EntryShape DEF OutboxTypeOK
<1>4. batch' \subseteq outbox'
  BY <1>2, <1>3 DEF OutboxTypeOK
<1>5. OutboxTypeOK'
  BY <1>2, <1>4 DEF Complete, OutboxTypeOK, Start, Step
<1>6. BatchIsClaimed'
  <2>1. IsFiniteSet(outbox')
    BY <1>2, FS_Subset DEF BatchIsClaimed
  <2> QED
    BY <1>2, <1>4, <2>1 DEF BatchIsClaimed, Claimable
<1>7. StalePagesHaveWork'
  <2> SUFFICES ASSUME NEW p \in Pages, Stale(p)
               PROVE  (\E e \in outbox : e.id # Current.id /\ e.page = p) \/ p \in commented
    BY <1>2 DEF StalePagesHaveWork, Complete, Work, Stale
  <2>1. CASE p = Current.page
    BY <2>1 DEF Complete, StepIsUpToDate, UpToDate, Stale
  <2>2. CASE p # Current.page
    BY <1>3, <2>2 DEF StalePagesHaveWork, Work
  <2> QED
    BY <2>1, <2>2
<1>8. DeletionsHold'
  <2> SUFFICES ASSUME NEW e \in outbox, e.operation = "delete", e.id # Current.id,
                      source[e.page] # NoDocument
               PROVE  \E f \in outbox :
                        f.id # Current.id /\ f.page = e.page /\ f.id > e.id
    BY <1>2 DEF DeletionsHold, Complete
  <2>1. "fail" \notin outboxMode
    BY DEF DeletedForGood, Careful, OutboxTypeOK
  <2>2. ~ (e.id < Current.id)
    BY <1>1, <1>3, <2>1 DEF WorkedInOrder
  <2> QED
    BY <1>1, <1>3, <2>2 DEF DeletionsHold
<1>9. WorkedInOrder'
  BY <1>1, <1>2, <1>3 DEF Complete, WorkedInOrder
<1>10. StepIsUpToDate' /\ DeletedForGood' /\ RebuiltIsCurrent'
  BY <1>2 DEF Complete, StepIsUpToDate, Start, DeletedForGood, RebuiltIsCurrent
<1> QED
  BY <1>5, <1>6, <1>7, <1>8, <1>9, <1>10

-----------------------------------------------------------------------------
(* Failures, the loss of a batch and rebuilds.                             *)

\* An entry that is replaced by one for the same write says what it said.
LEMMA ReplaceKeeps ==
  ASSUME CatchUpInv, "fail" \in outboxMode,
         NEW e \in outbox, NEW d \in Entry,
         d.id = e.id, d.page = e.page, d.operation = e.operation,
         outbox' = (outbox \ {e}) \cup {d},
         batch' \subseteq batch, e \notin batch',
         (batch' = batch /\ step' = step) \/ step' = Start,
         UNCHANGED <<outboxMode, source, writes, lastEntry, index, commented, rebuilt, stops>>
  PROVE  CatchUpInv'
<1> USE DEF CatchUpInv
<1>1. \A f \in outbox : f \in Entry /\ f.id \in Nat /\ f.page \in Pages
  BY EntryShape DEF OutboxTypeOK
<1>2. /\ \A f \in outbox' : \E g \in outbox :
           g.id = f.id /\ g.page = f.page /\ g.operation = f.operation
      /\ \A g \in outbox : \E f \in outbox' :
           g.id = f.id /\ g.page = f.page /\ g.operation = f.operation
  OBVIOUS
<1>3. batch' \subseteq outbox'
  BY DEF OutboxTypeOK
<1>4. OutboxTypeOK'
  <2>1. outbox' \subseteq Entry
    BY <1>1
  <2>2. \A f, g \in outbox' : f.id = g.id => f = g
    BY DEF OutboxTypeOK
  <2>3. \A f \in outbox' : f.id <= lastEntry
    BY DEF OutboxTypeOK
  <2>4. step' \in Step
    BY DEF OutboxTypeOK, Start, Step
  <2> QED
    BY <1>3, <2>1, <2>2, <2>3, <2>4 DEF OutboxTypeOK
<1>5. BatchIsClaimed'
  <2>1. IsFiniteSet(outbox \ {e})
    BY FS_Subset DEF BatchIsClaimed
  <2>2. IsFiniteSet(outbox')
    BY <2>1, FS_AddElement
  <2> QED
    BY <1>3, <2>2 DEF BatchIsClaimed, Claimable
<1>6. StalePagesHaveWork'
  <2> SUFFICES ASSUME NEW p \in Pages, Stale(p)
               PROVE  (\E f \in outbox' : f.page = p) \/ p \in commented
    BY DEF StalePagesHaveWork, Stale, Work
  <2> QED
    BY <1>2 DEF StalePagesHaveWork, Work
<1>7. StepIsUpToDate'
  <2>1. CASE step' = Start
    BY <2>1 DEF StepIsUpToDate, Start
  <2>2. CASE batch' = batch /\ step' = step
    <3>1. Current' = Current
      BY <2>2 DEF Current
    <3> QED
      BY <1>2, <2>2, <3>1 DEF StepIsUpToDate, UpToDate
  <2> QED
    BY <2>1, <2>2
<1>8. DeletionsHold'
  <2> SUFFICES ASSUME NEW f \in outbox', f.operation = "delete", source[f.page] # NoDocument
               PROVE  \E g \in outbox' : g.page = f.page /\ g.id > f.id
    BY DEF DeletionsHold
  <2> PICK h \in outbox : h.id = f.id /\ h.page = f.page /\ h.operation = "delete"
    BY <1>2
  <2>1. PICK k \in outbox : k.page = f.page /\ k.id > f.id
    BY DEF DeletionsHold
  <2> QED
    BY <1>2, <2>1
<1>9. DeletedForGood'
  BY <1>2 DEF DeletedForGood
<1>10. WorkedInOrder' /\ RebuiltIsCurrent'
  BY DEF WorkedInOrder, RebuiltIsCurrent
<1> QED
  BY <1>4, <1>5, <1>6, <1>7, <1>8, <1>9, <1>10

LEMMA FailEntryKeeps ==
  ASSUME CatchUpInv, FailEntry
  PROVE  CatchUpInv'
<1>1. /\ Current \in batch /\ Current \in outbox /\ Current \in Entry
      /\ Current.attempts < MaxAttempts
  BY CurrentIsFirst DEF FailEntry, CatchUpInv, BatchIsClaimed, Claimable
<1>2. /\ Failed(Current) \in Entry /\ Failed(Current).id = Current.id
      /\ Failed(Current).page = Current.page
      /\ Failed(Current).operation = Current.operation
  BY <1>1, FailedShape
<1>3. \A e \in outbox : e.id = Current.id <=> e = Current
  BY <1>1 DEF CatchUpInv, OutboxTypeOK
<1>4. outbox' = (outbox \ {Current}) \cup {Failed(Current)}
  BY <1>1, <1>3 DEF FailEntry
<1> QED
  BY <1>1, <1>2, <1>4, ReplaceKeeps DEF FailEntry

LEMMA BackoffKeeps ==
  ASSUME CatchUpInv, Backoff
  PROVE  CatchUpInv'
<1>1. PICK e \in outbox : /\ ~ e.due
                          /\ outbox' = (outbox \ {e}) \cup {[e EXCEPT !.due = TRUE]}
  BY DEF Backoff
<1> DEFINE d == [e EXCEPT !.due = TRUE]
<1>2. e \in Entry
  BY DEF CatchUpInv, OutboxTypeOK
<1>3. d \in Entry /\ d.id = e.id /\ d.page = e.page /\ d.operation = e.operation
  BY <1>2, DueShape
<1>4. "fail" \in outboxMode
  BY <1>1 DEF CatchUpInv, WorkedInOrder
<1>5. e \notin batch
  BY <1>1 DEF CatchUpInv, BatchIsClaimed, Claimable
<1> HIDE DEF d
<1>6. outbox' = (outbox \ {e}) \cup {d}
  BY <1>1 DEF d
<1> QED
  BY <1>3, <1>4, <1>5, <1>6, ReplaceKeeps DEF Backoff

LEMMA LoseBatchKeeps ==
  ASSUME CatchUpInv, LoseBatch
  PROVE  CatchUpInv'
<1> USE DEF CatchUpInv
<1>1. OutboxTypeOK'
  BY OutboxAssumption DEF LoseBatch, OutboxTypeOK, Start, Step
<1> QED
  BY <1>1 DEF LoseBatch, BatchIsClaimed, Claimable, StalePagesHaveWork, Stale, Work,
     StepIsUpToDate, Start, DeletionsHold, DeletedForGood, WorkedInOrder, RebuiltIsCurrent

LEMMA RebuildKeeps ==
  ASSUME CatchUpInv, RebuildRead \/ RebuildSwap
  PROVE  CatchUpInv'
<1> USE DEF CatchUpInv
<1>1. Current' = Current
  BY DEF RebuildRead, RebuildSwap, Current
<1>2. OutboxTypeOK' /\ RebuiltIsCurrent'
  BY DEF RebuildRead, RebuildSwap, OutboxTypeOK, RebuiltIsCurrent
<1>3. index' = index \/ index' = source
  BY DEF RebuildRead, RebuildSwap, RebuiltIsCurrent
<1>4. StalePagesHaveWork' /\ StepIsUpToDate'
  BY <1>1, <1>3 DEF RebuildRead, RebuildSwap, StalePagesHaveWork, Stale, Work,
     StepIsUpToDate, UpToDate
<1> QED
  BY <1>2, <1>4 DEF RebuildRead, RebuildSwap, BatchIsClaimed, Claimable, DeletionsHold,
     DeletedForGood, WorkedInOrder

-----------------------------------------------------------------------------
LEMMA CatchUpInit == ASSUME OutboxInit PROVE CatchUpInv
BY OutboxTypeInit, FS_EmptySet DEF OutboxInit, CatchUpInv, BatchIsClaimed, StalePagesHaveWork,
   Stale, StepIsUpToDate, Start, DeletionsHold, DeletedForGood, WorkedInOrder,
   RebuiltIsCurrent

LEMMA CatchUpNext ==
  ASSUME Careful, CatchUpInv, [OutboxNext]_outboxVars
  PROVE  CatchUpInv'
<1>1. CASE UNCHANGED outboxVars
  <2>1. Current' = Current
    BY <1>1 DEF outboxVars, Current
  <2> QED
    BY <1>1, <2>1 DEF outboxVars, CatchUpInv, OutboxTypeOK, BatchIsClaimed, Claimable,
       StalePagesHaveWork, Stale, Work, StepIsUpToDate, UpToDate, DeletionsHold,
       DeletedForGood, WorkedInOrder, RebuiltIsCurrent
<1>2. CASE OutboxNext
  BY <1>2, SaveKeeps, DropKeeps, CommentKeeps, CommentEnqueueKeeps, ClaimKeeps,
     LoadSourceKeeps, ApplyKeeps, CompleteKeeps, FailEntryKeeps, BackoffKeeps,
     LoseBatchKeeps, RebuildKeeps
     DEF OutboxNext, Worker
<1> QED
  BY <1>1, <1>2

\* The inductive invariant holds.
THEOREM CatchUpAlways ==
  ASSUME Careful
  PROVE  OutboxSpec => []CatchUpInv
<1>1. OutboxInit => CatchUpInv
  BY CatchUpInit
<1>2. CatchUpInv /\ [OutboxNext]_outboxVars => CatchUpInv'
  BY CatchUpNext
<1> QED
  BY <1>1, <1>2, PTL DEF OutboxSpec

\* "a page save is never lost when Elasticsearch is unavailable" (worker.ts): the table
\* keeps its shape, and whatever the index lacks has an entry.
THEOREM OutboxForgetsNothing ==
  ASSUME Careful
  PROVE  OutboxSpec => []OutboxInv
<1>1. CatchUpInv => OutboxInv
  BY DEF CatchUpInv, OutboxInv
<1> QED
  BY <1>1, CatchUpAlways, PTL

-----------------------------------------------------------------------------
(* The built-in index.  InOrder is what is asked of a behaviour: that the  *)
(* requests of PostgreSQL do not overlap.                                  *)

IndexConstants == MaxIndexOps \in Nat /\ {"none", "deleted"} \cap Docs = {}

InOrder == \A m \in IndexModes : ~ ("postgres" \in m /\ "overlap" \in m)

Doc == {Absent, Purged} \cup [lifecycle : {"active", "shelved"}, uses : SUBSET Assets]
CommentRow == {NoComment, Deleted} \cup [page : Docs, body : {0, 1}]
Row == {NoRow} \cup [text : SUBSET Assets, comments : SUBSET (Comments \X {0, 1}),
                     assets : SUBSET (Assets \X {0, 1})]
Asset == [state : {"absent", "active", "trash", "purged"}, filename : {0, 1}]

\* Where a request of PostgreSQL is with the page it indexes, and where a request is with
\* an asset.
PageStages == {"remove", "drop", "select", "unlink", "link", "comments", "names", "insert"}
AssetStages == {"record", "attach", "refer", "find", "change", "erase", "gone", "affected"}
CommentStages == {"comment", "reword", "uncomment"}

Call == [at : {"waiting", "next"} \cup PageStages \cup AssetStages \cup CommentStages,
         left : SUBSET Docs, page : Docs \cup {"none"}, row : Doc, found : SUBSET Assets,
         said : SUBSET (Comments \X {0, 1}), names : SUBSET (Assets \X {0, 1}),
         comment : Comments \cup {"none"}, asset : Assets \cup {"none"},
         op : {"none", "upload", "update", "remove", "restore", "purge"}]

IndexShape ==
  /\ indexMode \in IndexModes
  /\ docs \in [Docs -> Doc] /\ comments \in [Comments -> CommentRow]
  /\ assets \in [Assets -> Asset]
  /\ stored \subseteq Assets /\ returned \subseteq Assets /\ refs \subseteq Docs \X Assets
  /\ calls \in [Requests -> Call]
  /\ rows \in [Docs -> Row]
  /\ begun \in 0 .. MaxIndexOps

\* The requests of PostgreSQL take turns, and SQLite's have none of its stages.
TakeTurns ==
  /\ Postgres => \A r, q \in Requests : calls[r] # Waiting /\ calls[q] # Waiting => r = q
  /\ ~ Postgres => \A r \in Requests : calls[r].at \notin PageStages

\* A request has what its stage asks for.
HasItsOwn(call) ==
  /\ call.at = "waiting" => call = Waiting
  /\ call.at \in PageStages \cup CommentStages => call.page \in Docs
  /\ call.at \in CommentStages => call.comment \in Comments
  /\ call.at \in AssetStages => call.asset \in Assets
  /\ call.at \in {"record", "attach", "refer"} => call.op = "upload"
  /\ call.at = "find" => call.op = "remove"
  /\ call.at = "change" => call.op \in {"update", "remove", "restore"}
  /\ call.at \in {"erase", "gone"} => call.op = "purge"
  /\ call.at = "remove" => call.left = {}
  /\ call.at \in {"next", "drop"} => call.found = {}
  /\ call.at \in {"select", "link", "comments", "names", "insert"} =>
       call.row.lifecycle = "active"
  /\ call.at = "unlink" /\ call.row.lifecycle # "active" => call.found = {}
CallsHaveTheirs == \A r \in Requests : HasItsOwn(calls[r])

\* A comment that is to be inserted is new, and one that was found is still of its page.
CommentsInv ==
  \A r \in Requests :
    LET comment == calls[r].comment
    IN  /\ calls[r].at = "comment" =>
             /\ comments[comment] = NoComment
             /\ \A q \in Requests : calls[q].at = "comment" /\ calls[q].comment = comment => q = r
        /\ calls[r].at \in {"reword", "uncomment"} =>
             comments[comment] = Deleted \/ comments[comment].page = calls[r].page

\* Only an upload is about an asset that is not there yet; nothing else knows of it.
AssetsInv ==
  /\ \A r \in Requests : calls[r].at \in AssetStages =>
       IF calls[r].at = "record"
       THEN /\ assets[calls[r].asset] = NoAsset
            /\ \A q \in Requests : Handles(q, calls[r].asset) => q = r
       ELSE assets[calls[r].asset].state # "absent"
  /\ \A a \in Assets : assets[a].state = "absent" =>
       /\ assets[a] = NoAsset
       /\ \A d \in Docs : <<d, a>> \notin refs
       /\ \A r \in Requests : calls[r].at \in {"unlink", "link"} => a \notin calls[r].found

\* Restoring and purging exclude each other but in a race.
OneEnds == "race" \notin indexMode => \A r, q \in Requests :
  /\ calls[r].at \in AssetStages /\ calls[q].at \in AssetStages
  /\ calls[r].asset = calls[q].asset
  /\ calls[r].op \in {"restore", "purge"} /\ calls[q].op \in {"restore", "purge"}
  => q = r

\* What is purged is in the trash, unless it was restored meanwhile or another purged it.
Purging(call) ==
  LET a == call.asset
  IN  /\ assets[a].state \in {"trash", "purged", "active"}
      /\ "race" \notin indexMode => assets[a].state = "trash"
      /\ assets[a].state = "active" => a \in returned
      /\ call.at = "gone" => a \notin stored

\* The bytes of an asset are there until a purge has erased them.
BytesOf(a) ==
  /\ assets[a].state = "purged" => a \notin stored
  /\ Exists(a) =>
       \/ a \in stored
       \/ a \in returned /\ indexMode \cap {"race", "stop"} # {}
       \/ /\ assets[a].state = "trash"
          /\ "stop" \in indexMode
             \/ \E r \in Requests : calls[r].at = "gone" /\ calls[r].asset = a
  /\ a \in stored =>
       Exists(a) \/ "stop" \in indexMode
       \/ \E r \in Requests : calls[r].at = "record" /\ calls[r].asset = a

BytesInv ==
  /\ OneEnds
  /\ \A r \in Requests : calls[r].at = "record" => calls[r].asset \in stored
  /\ \A r \in Requests : calls[r].at \in {"erase", "gone"} => Purging(calls[r])
  /\ \A a \in Assets : BytesOf(a)

\* A request is going to index a page.
Owes(call, d) ==
  \/ call.at \in {"next"} \cup PageStages /\ d \in call.left
  \/ call.at \in PageStages /\ d = call.page
  \/ call.at = "affected" /\ <<d, call.asset>> \in refs
Owed(d) == \E r \in Requests : Owes(calls[r], d)

\* A request is going to attach an asset to a page.
Attaches(call, d, a) ==
  call.asset = a /\ (call.at = "attach" \/ (call.at = "refer" /\ d \in call.left))
Attached(d, a) == \E r \in Requests : Attaches(calls[r], d, a)

EntryNow(d) ==
  IF IsActive(d) THEN EntryOf(docs[d].uses, CommentTextForPage(d), AssetTextForPage(d, refs))
  ELSE NoRow

\* What is not current is owed.
RowsInv == \A d \in Docs : rows[d] = EntryNow(d) \/ Owed(d)

LinksInv == \A d \in Docs, a \in Assets :
  IsActive(d) =>
    /\ <<d, a>> \in refs => a \in Referenced(docs[d].uses) \/ Owed(d)
    /\ a \in Referenced(docs[d].uses) =>
         <<d, a>> \in refs \/ a \in returned \/ Owed(d) \/ Attached(d, a)

\* What a request of PostgreSQL has done of a page, and read for it.
Worked(call) ==
  LET d == call.page
  IN  /\ call.at = "remove" => ~ IsActive(d)
      /\ call.at \in PageStages \ {"remove"} => call.row = docs[d]
      /\ call.at \in PageStages \ {"remove", "drop"} => rows[d] = NoRow
      /\ call.at \in PageStages \ {"remove", "drop", "unlink"} => IsActive(d)
      /\ call.at \in {"unlink", "link"} /\ IsActive(d) => call.found = Referenced(docs[d].uses)
      /\ call.at = "link" => \A a \in Assets : <<d, a>> \notin refs
      /\ call.at \in {"comments", "names", "insert"} =>
           \A a \in Assets : <<d, a>> \in refs <=> a \in Referenced(docs[d].uses)
      /\ call.at \in {"names", "insert"} => call.said = CommentTextForPage(d)
      /\ call.at = "insert" => call.names = AssetTextForPage(d, refs)
WorkInv == \A r \in Requests : calls[r].at \in PageStages => Worked(calls[r])

FollowInv == "stop" \notin indexMode => RowsInv /\ LinksInv /\ WorkInv

IndexKeeps ==
  /\ IndexShape /\ TakeTurns /\ CallsHaveTheirs /\ CommentsInv /\ AssetsInv /\ BytesInv
  /\ FollowInv

-----------------------------------------------------------------------------
\* One request goes on, and PostgreSQL's others wait.
Moved(r) ==
  /\ UNCHANGED indexMode /\ begun' \in 0 .. MaxIndexOps
  /\ calls' = [calls EXCEPT ![r] = calls'[r]]
  /\ calls'[r] \in Call /\ HasItsOwn(calls'[r])
  /\ Postgres => \A q \in Requests : q # r => calls[q] = Waiting
  /\ ~ Postgres => calls'[r].at \notin PageStages

LEMMA WaitingIsCall == Waiting \in Call /\ HasItsOwn(Waiting)
BY DEF Waiting, Call, Absent, Doc, HasItsOwn, PageStages, CommentStages, AssetStages

\* What a request begins with has the shape of a request, and what belongs to it.
LEMMA IndexingIsCall ==
  ASSUME NEW left \in SUBSET Docs
  PROVE  /\ Indexing(left) \in Call /\ HasItsOwn(Indexing(left))
         /\ Indexing(left).at = "next" /\ Indexing(left).left = left
         /\ Indexing(left).found = {} /\ "next" \notin PageStages
<1>1. /\ Indexing(left) \in Call
      /\ Indexing(left).at = "next" /\ Indexing(left).left = left
      /\ Indexing(left).found = {}
  BY WaitingIsCall DEF Indexing, Call, Waiting
<1>2. "next" \notin PageStages \cup CommentStages \cup AssetStages
  BY DEF PageStages, CommentStages, AssetStages
<1>3. HasItsOwn(Indexing(left))
  BY <1>1, <1>2 DEF HasItsOwn
<1> QED
  BY <1>1, <1>2, <1>3

LEMMA DropIsCall ==
  ASSUME NEW d \in Docs, NEW doc \in Doc
  PROVE  /\ [Waiting EXCEPT !.at = "drop", !.page = d, !.row = doc] \in Call
         /\ HasItsOwn([Waiting EXCEPT !.at = "drop", !.page = d, !.row = doc])
<1> DEFINE call == [Waiting EXCEPT !.at = "drop", !.page = d, !.row = doc]
<1>1. call \in Call
  BY WaitingIsCall DEF Call, PageStages
<1>2. call.at = "drop" /\ call.page = d /\ call.found = {}
  BY DEF Waiting
<1> HIDE DEF call
<1>3. HasItsOwn(call)
  BY <1>2 DEF HasItsOwn, PageStages, CommentStages, AssetStages
<1> QED
  BY <1>1, <1>3 DEF call

LEMMA RemoveIsCall ==
  ASSUME NEW d \in Docs
  PROVE  /\ [Waiting EXCEPT !.at = "remove", !.page = d] \in Call
         /\ HasItsOwn([Waiting EXCEPT !.at = "remove", !.page = d])
<1> DEFINE call == [Waiting EXCEPT !.at = "remove", !.page = d]
<1>1. call \in Call
  BY WaitingIsCall DEF Call, PageStages
<1>2. call.at = "remove" /\ call.page = d /\ call.left = {}
  BY DEF Waiting
<1> HIDE DEF call
<1>3. HasItsOwn(call)
  BY <1>2 DEF HasItsOwn, PageStages, CommentStages, AssetStages
<1> QED
  BY <1>1, <1>3 DEF call

LEMMA BeginMoves ==
  ASSUME IndexConstants, InOrder, IndexKeeps, NEW r \in Requests, NEW call \in Call,
         HasItsOwn(call), ~ Postgres => call.at \notin PageStages,
         Begin(r, call), UNCHANGED indexMode
  PROVE  Moved(r) /\ calls'[r] = call
<1>1. calls \in [Requests -> Call] /\ begun \in 0 .. MaxIndexOps /\ indexMode \in IndexModes
  BY DEF IndexKeeps, IndexShape
<1>2. calls' = [calls EXCEPT ![r] = call] /\ begun' = begun + 1 /\ begun < MaxIndexOps
  BY DEF Begin
<1>3. begun' \in 0 .. MaxIndexOps
  BY <1>1, <1>2 DEF IndexConstants
<1>4. Postgres => \A q \in Requests : q # r => calls[q] = Waiting
  BY <1>1 DEF Begin, Postgres, InOrder
<1> QED
  BY <1>1, <1>2, <1>3, <1>4 DEF Moved

LEMMA GoMoves ==
  ASSUME IndexKeeps, NEW r \in Requests, NEW call \in Call,
         HasItsOwn(call), ~ Postgres => call.at \notin PageStages,
         calls[r] # Waiting, Go(r, call), UNCHANGED indexMode
  PROVE  Moved(r) /\ calls'[r] = call
<1>1. calls \in [Requests -> Call] /\ begun \in 0 .. MaxIndexOps
  BY DEF IndexKeeps, IndexShape
<1>2. calls' = [calls EXCEPT ![r] = call] /\ begun' = begun
  BY DEF Go
<1>3. Postgres => \A q \in Requests : q # r => calls[q] = Waiting
  BY DEF IndexKeeps, TakeTurns
<1> QED
  BY <1>1, <1>2, <1>3 DEF Moved

LEMMA DoneMoves ==
  ASSUME IndexKeeps, NEW r \in Requests, calls[r] # Waiting, Done(r), UNCHANGED indexMode
  PROVE  Moved(r) /\ calls'[r] = Waiting
<1>1. Waiting \in Call /\ HasItsOwn(Waiting) /\ Waiting.at \notin PageStages
  BY WaitingIsCall DEF Waiting, PageStages
<1> QED
  BY <1>1, GoMoves DEF Go, Done

\* A request that is somewhere does not wait.
LEMMA Somewhere ==
  ASSUME NEW r \in Requests, calls[r].at # "waiting"
  PROVE  calls[r] # Waiting
BY DEF Waiting

LEMMA MovedOthers ==
  ASSUME IndexKeeps, NEW r \in Requests, Moved(r)
  PROVE  /\ calls' \in [Requests -> Call]
         /\ \A q \in Requests : q # r => calls'[q] = calls[q]
         /\ TakeTurns' /\ CallsHaveTheirs'
         /\ \A q \in Requests : q # r => calls'[q].at \notin PageStages
<1>1. calls \in [Requests -> Call]
  BY DEF IndexKeeps, IndexShape
<1>2. calls' \in [Requests -> Call] /\ \A q \in Requests : q # r => calls'[q] = calls[q]
  BY <1>1 DEF Moved
<1>3. TakeTurns'
  BY <1>2 DEF Moved, IndexKeeps, TakeTurns, Postgres
<1>4. CallsHaveTheirs'
  BY <1>2 DEF Moved, IndexKeeps, CallsHaveTheirs
<1>5. \A q \in Requests : q # r => calls'[q].at \notin PageStages
  <2>1. Waiting.at \notin PageStages
    BY DEF Waiting, PageStages
  <2> QED
    BY <1>2, <2>1 DEF Moved, IndexKeeps, TakeTurns
<1> QED
  BY <1>2, <1>3, <1>4, <1>5

\* Comments.  Only the one who inserts a comment may change one that is new.
LEMMA CommentsStay ==
  ASSUME IndexConstants, IndexKeeps, NEW r \in Requests, Moved(r),
         calls'[r].at \notin CommentStages,
         \A c \in Comments :
           \/ comments'[c] = comments[c]
           \/ calls[r].at = "comment" /\ calls[r].comment = c
           \/ /\ comments[c].page \in Docs
              /\ comments'[c] = Deleted \/ comments'[c].page = comments[c].page
  PROVE  CommentsInv'
<1>1. \A q \in Requests : q # r => calls'[q] = calls[q]
  BY MovedOthers
<1> SUFFICES ASSUME NEW q \in Requests, q # r, calls[q].at \in CommentStages
             PROVE  /\ calls[q].at = "comment" =>
                         /\ comments'[calls[q].comment] = NoComment
                         /\ \A s \in Requests :
                              calls'[s].at = "comment" /\ calls'[s].comment = calls[q].comment
                              => s = q
                    /\ calls[q].at \in {"reword", "uncomment"} =>
                         \/ comments'[calls[q].comment] = Deleted
                         \/ comments'[calls[q].comment].page = calls[q].page
  BY <1>1 DEF CommentsInv, CommentStages
<1>2. calls[q].comment \in Comments /\ calls[q].page \in Docs
  BY DEF IndexKeeps, CallsHaveTheirs, HasItsOwn
<1> NoComment.page \notin Docs /\ Deleted.page \notin Docs
  BY DEF IndexConstants, NoComment, Deleted
<1>3. CASE calls[q].at = "comment"
  <2>1. comments[calls[q].comment] = NoComment
    BY <1>3 DEF IndexKeeps, CommentsInv
  <2>2. \A s \in Requests : calls[s].at = "comment" /\ calls[s].comment = calls[q].comment => s = q
    BY <1>3 DEF IndexKeeps, CommentsInv
  <2>3. ~ (calls[r].at = "comment" /\ calls[r].comment = calls[q].comment)
    BY <2>2
  <2>4. comments'[calls[q].comment] = NoComment
    BY <1>2, <2>1, <2>3
  <2>5. ASSUME NEW s \in Requests, calls'[s].at = "comment",
               calls'[s].comment = calls[q].comment
        PROVE  s = q
    <3>1. s # r
      BY <2>5 DEF CommentStages
    <3> QED
      BY <1>1, <2>2, <2>5, <3>1
  <2> QED
    BY <1>3, <2>4, <2>5
<1>4. CASE calls[q].at \in {"reword", "uncomment"}
  <2>1. \/ comments[calls[q].comment] = Deleted
        \/ comments[calls[q].comment].page = calls[q].page
    BY <1>4 DEF IndexKeeps, CommentsInv
  <2>2. calls[r].at = "comment" => comments[calls[r].comment] = NoComment
    BY DEF IndexKeeps, CommentsInv
  <2>3. ~ (calls[r].at = "comment" /\ calls[r].comment = calls[q].comment)
    BY <1>2, <2>1, <2>2 DEF NoComment, Deleted
  <2> QED
    BY <1>2, <1>4, <2>1, <2>3
<1> QED
  BY <1>3, <1>4 DEF CommentStages

\* Assets.  Only the one who uploads an asset may bring it about.
LEMMA AssetsStay ==
  ASSUME IndexKeeps, NEW r \in Requests, Moved(r),
         \A a \in Assets :
           \/ assets'[a] = assets[a]
           \/ /\ assets'[a].state # "absent"
              /\ \/ assets[a].state # "absent"
                 \/ calls[r].at = "record" /\ calls[r].asset = a,
         \A d \in Docs, a \in Assets :
           <<d, a>> \in refs' => <<d, a>> \in refs \/ assets[a].state # "absent",
         calls'[r].at # "record",
         calls'[r].at \in AssetStages => assets'[calls'[r].asset].state # "absent",
         calls'[r].at \in {"unlink", "link"} =>
           \A a \in calls'[r].found : assets[a].state # "absent"
  PROVE  AssetsInv'
<1>1. /\ \A q \in Requests : q # r => calls'[q] = calls[q]
      /\ \A q \in Requests : calls[q].at \in AssetStages => calls[q].asset \in Assets
      /\ calls'[r].at \in AssetStages => calls'[r].asset \in Assets
  BY MovedOthers DEF IndexKeeps, CallsHaveTheirs, HasItsOwn, Moved
<1>2. AssetsInv
  BY DEF IndexKeeps
<1>3. \A a \in Assets : assets[a].state # "absent" => assets'[a].state # "absent"
  OBVIOUS
<1>4. ASSUME NEW q \in Requests, calls'[q].at \in AssetStages, calls'[q].at = "record"
      PROVE  /\ assets'[calls'[q].asset] = NoAsset
             /\ \A s \in Requests : Handles(s, calls[q].asset)' => s = q
  <2> DEFINE a == calls[q].asset
  <2>1. q # r /\ calls'[q] = calls[q] /\ a \in Assets
    BY <1>1, <1>4
  <2>2. assets[a] = NoAsset /\ \A s \in Requests : Handles(s, a) => s = q
    BY <1>2, <1>4, <2>1 DEF AssetsInv
  <2>3. ~ (calls[r].at = "record" /\ calls[r].asset = a)
    BY <2>1, <2>2 DEF Handles
  <2>4. assets'[a] = NoAsset
    BY <2>1, <2>2, <2>3 DEF NoAsset
  <2>5. ASSUME NEW s \in Requests, Handles(s, a)'
        PROVE  s = q
    <3>1. calls'[s].at \in AssetStages /\ calls'[s].asset = a'
      BY <2>5 DEF Handles, AssetStages
    <3>2. a' = a
      BY <2>1
    <3>3. CASE s = r
      BY <3>1, <3>2, <3>3, <2>4 DEF NoAsset
    <3>4. CASE s # r
      BY <1>1, <2>2, <2>5, <3>2, <3>4 DEF Handles
    <3> QED
      BY <3>3, <3>4
  <2> QED
    BY <2>1, <2>4, <2>5
<1>5. ASSUME NEW q \in Requests, calls'[q].at \in AssetStages, calls'[q].at # "record"
      PROVE  assets'[calls'[q].asset].state # "absent"
  <2>1. CASE q = r
    BY <1>5, <2>1
  <2>2. CASE q # r
    BY <1>1, <1>2, <1>3, <1>5, <2>2 DEF AssetsInv
  <2> QED
    BY <2>1, <2>2
<1>6. ASSUME NEW a \in Assets, assets'[a].state = "absent"
      PROVE  /\ assets'[a] = NoAsset
             /\ \A d \in Docs : <<d, a>> \notin refs'
             /\ \A q \in Requests : calls'[q].at \in {"unlink", "link"} => a \notin calls'[q].found
  <2>1. assets'[a] = assets[a] /\ assets[a].state = "absent"
    BY <1>6
  <2>2. /\ assets[a] = NoAsset /\ \A d \in Docs : <<d, a>> \notin refs
        /\ \A q \in Requests : calls[q].at \in {"unlink", "link"} => a \notin calls[q].found
    BY <1>2, <2>1 DEF AssetsInv
  <2> QED
    BY <1>1, <2>1, <2>2
<1> QED
  BY <1>4, <1>5, <1>6 DEF AssetsInv

\* Bytes.  A step that starts no restore or purge.
LEMMA OneEndsStays ==
  ASSUME IndexKeeps, NEW r \in Requests, Moved(r),
         calls'[r].at \in AssetStages =>
           \/ calls'[r].op \notin {"restore", "purge"}
           \/ /\ calls[r].at \in AssetStages
              /\ calls'[r].op = calls[r].op /\ calls'[r].asset = calls[r].asset
  PROVE  OneEnds'
<1>1. /\ \A q \in Requests : q # r => calls'[q] = calls[q]
      /\ OneEnds /\ indexMode' = indexMode
  BY MovedOthers DEF IndexKeeps, Moved, BytesInv
<1>2. ASSUME "race" \notin indexMode, NEW p \in Requests, NEW q \in Requests,
             calls'[p].at \in AssetStages, calls'[q].at \in AssetStages,
             calls'[p].asset = calls'[q].asset,
             calls'[p].op \in {"restore", "purge"}, calls'[q].op \in {"restore", "purge"}
      PROVE  q = p
  <2>1. /\ calls[p].at \in AssetStages /\ calls'[p].op = calls[p].op
        /\ calls'[p].asset = calls[p].asset
    BY <1>1, <1>2
  <2>2. /\ calls[q].at \in AssetStages /\ calls'[q].op = calls[q].op
        /\ calls'[q].asset = calls[q].asset
    BY <1>1, <1>2
  <2> QED
    BY <1>1, <1>2, <2>1, <2>2 DEF OneEnds
<1> QED
  BY <1>1, <1>2 DEF OneEnds

\* A step that leaves assets and bytes alone, too.
LEMMA BytesStay ==
  ASSUME IndexKeeps, NEW r \in Requests, Moved(r), UNCHANGED <<assets, stored, returned>>,
         calls'[r].at \notin {"gone", "record"},
         calls'[r].at = "erase" =>
           calls'[r].asset \in Assets /\ assets[calls'[r].asset].state = "trash",
         calls[r].at \in {"gone", "record"} => "stop" \in indexMode,
         OneEnds'
  PROVE  BytesInv'
<1>1. /\ \A q \in Requests : q # r => calls'[q] = calls[q]
      /\ BytesInv /\ indexMode' = indexMode
  BY MovedOthers DEF IndexKeeps, Moved
<1>2. \A q \in Requests : calls'[q].at = "record" => calls'[q].asset \in stored'
  BY <1>1 DEF BytesInv
<1>3. ASSUME NEW q \in Requests, calls'[q].at \in {"erase", "gone"}
      PROVE  Purging(calls[q])'
  BY <1>1, <1>3 DEF BytesInv, Purging
<1>4. ASSUME NEW a \in Assets, NEW q \in Requests, NEW at \in {"gone", "record"},
             calls[q].at = at, calls[q].asset = a, "stop" \notin indexMode
      PROVE  calls'[q].at = at /\ calls'[q].asset = a
  BY <1>1, <1>4
<1>5. ASSUME NEW a \in Assets
      PROVE  BytesOf(a)'
  <2>1. BytesOf(a) /\ (Exists(a)' <=> Exists(a))
    BY <1>1 DEF Exists, BytesInv
  <2> QED
    BY <1>1, <1>4, <2>1 DEF BytesOf
<1> QED
  BY <1>2, <1>3, <1>5 DEF BytesInv

-----------------------------------------------------------------------------
\* What the requests do to a page: nothing, unless they owe it or have just indexed it.
Undisturbed(d) ==
  /\ docs'[d] = docs[d] /\ rows'[d] = rows[d]
  /\ \A a \in Assets : <<d, a>> \in refs' <=> <<d, a>> \in refs
  /\ CommentTextForPage(d)' = CommentTextForPage(d)
  /\ \A a \in Assets : <<d, a>> \in refs => assets'[a] = assets[a]
  /\ \A a \in Assets : a \in Referenced(docs[d].uses)' =>
       a \in Referenced(docs[d].uses) \/ a \in returned' \/ Attached(d, a)'

CurrentNow(d) ==
  /\ rows[d] = EntryNow(d)
  /\ IsActive(d) => \A a \in Assets : <<d, a>> \in refs <=> a \in Referenced(docs[d].uses)

LEMMA SameNames ==
  ASSUME NEW d, \A a \in Assets : <<d, a>> \in refs' <=> <<d, a>> \in refs,
         \A a \in Assets : <<d, a>> \in refs => assets'[a] = assets[a]
  PROVE  AssetTextForPage(d, refs)' = AssetTextForPage(d, refs)
BY DEF AssetTextForPage, Exists

LEMMA FollowStep ==
  ASSUME IndexKeeps, "stop" \notin indexMode, NEW r \in Requests, Moved(r),
         returned \subseteq returned', calls'[r].at \in PageStages => Worked(calls[r])',
         \A d \in Docs :
           \/ Owes(calls[r], d)'
           \/ CurrentNow(d)'
           \/ /\ Undisturbed(d) /\ ~ Owes(calls[r], d)
              /\ \A a \in Assets :
                   Attaches(calls[r], d, a) /\ IsActive(d) /\ a \in Referenced(docs[d].uses) =>
                     Attaches(calls[r], d, a)'
  PROVE  FollowInv'
<1>1. RowsInv /\ LinksInv /\ WorkInv
  BY DEF IndexKeeps, FollowInv
<1>2. /\ \A q \in Requests : q # r => calls'[q] = calls[q]
      /\ \A q \in Requests : q # r => calls'[q].at \notin PageStages
  BY MovedOthers
<1>3. WorkInv'
  BY <1>2 DEF WorkInv
<1>4. ASSUME NEW d \in Docs, Owes(calls[r], d)'
      PROVE  Owed(d)'
  BY <1>4 DEF Owed
<1>5. ASSUME NEW d \in Docs, Undisturbed(d), ~ Owes(calls[r], d), Owed(d)
      PROVE  Owed(d)'
  <2>1. PICK q \in Requests : Owes(calls[q], d)
    BY <1>5 DEF Owed
  <2>2. q # r /\ calls'[q] = calls[q]
    BY <1>2, <1>5, <2>1
  <2>3. calls[q].at = "affected" => calls[q].asset \in Assets
    BY DEF IndexKeeps, CallsHaveTheirs, HasItsOwn, AssetStages
  <2>4. Owes(calls[q], d)'
    BY <1>5, <2>1, <2>2, <2>3 DEF Owes, Undisturbed
  <2> QED
    BY <2>4 DEF Owed
<1>6. ASSUME NEW d \in Docs, Undisturbed(d)
      PROVE  EntryNow(d)' = EntryNow(d) /\ (IsActive(d)' <=> IsActive(d))
  <2>1. AssetTextForPage(d, refs)' = AssetTextForPage(d, refs)
    BY <1>6, SameNames DEF Undisturbed
  <2> QED
    BY <1>6, <2>1 DEF Undisturbed, EntryNow, IsActive
<1>7. RowsInv'
  <2> SUFFICES ASSUME NEW d \in Docs
               PROVE  rows'[d] = EntryNow(d)' \/ Owed(d)'
    BY DEF RowsInv
  <2>1. CASE CurrentNow(d)'
    BY <2>1 DEF CurrentNow
  <2>2. CASE Undisturbed(d) /\ ~ Owes(calls[r], d)
    BY <1>1, <1>5, <1>6, <2>2 DEF RowsInv, Undisturbed
  <2> QED
    BY <1>4, <2>1, <2>2
<1>8. LinksInv'
  <2> SUFFICES ASSUME NEW d \in Docs, NEW a \in Assets, IsActive(d)'
               PROVE  /\ <<d, a>> \in refs' => a \in Referenced(docs[d].uses)' \/ Owed(d)'
                      /\ a \in Referenced(docs[d].uses)' =>
                           <<d, a>> \in refs' \/ a \in returned' \/ Owed(d)' \/ Attached(d, a)'
    BY DEF LinksInv
  <2>1. CASE CurrentNow(d)'
    BY <2>1 DEF CurrentNow
  <2>2. CASE /\ Undisturbed(d) /\ ~ Owes(calls[r], d)
             /\ \A x \in Assets :
                  Attaches(calls[r], d, x) /\ IsActive(d) /\ x \in Referenced(docs[d].uses) =>
                    Attaches(calls[r], d, x)'
    <3>1. IsActive(d) /\ docs'[d] = docs[d]
      BY <1>6, <2>2 DEF Undisturbed
    <3>2. /\ <<d, a>> \in refs => a \in Referenced(docs[d].uses) \/ Owed(d)
          /\ a \in Referenced(docs[d].uses) =>
               <<d, a>> \in refs \/ a \in returned \/ Owed(d) \/ Attached(d, a)
      BY <1>1, <3>1 DEF LinksInv
    <3>3. Owed(d) => Owed(d)'
      BY <1>5, <2>2
    <3>4. <<d, a>> \in refs /\ a \in Referenced(docs[d].uses) => a \in Referenced(docs[d].uses)'
      BY <2>2, <3>1 DEF Undisturbed, Referenced
    <3>5. Attached(d, a) /\ a \in Referenced(docs[d].uses) => Attached(d, a)'
      <4> SUFFICES ASSUME NEW q \in Requests, Attaches(calls[q], d, a),
                          a \in Referenced(docs[d].uses)
                   PROVE  Attached(d, a)'
        BY DEF Attached
      <4>1. Attaches(calls[q], d, a)'
        BY <1>2, <2>2, <3>1 DEF Attaches
      <4> QED
        BY <4>1 DEF Attached
    <3>6. /\ <<d, a>> \in refs' <=> <<d, a>> \in refs
          /\ a \in Referenced(docs[d].uses)' =>
               a \in Referenced(docs[d].uses) \/ a \in returned' \/ Attached(d, a)'
      BY <2>2 DEF Undisturbed
    <3> QED
      BY <3>2, <3>3, <3>4, <3>5, <3>6
  <2> QED
    BY <1>4, <2>1, <2>2
<1> QED
  BY <1>3, <1>7, <1>8 DEF FollowInv

LEMMA CommentsOf ==
  ASSUME NEW d, \A c \in Comments :
                  \/ comments'[c] = comments[c]
                  \/ comments[c].page # d /\ comments'[c].page # d
  PROVE  CommentTextForPage(d)' = CommentTextForPage(d)
BY DEF CommentTextForPage

LEMMA NothingDisturbed ==
  ASSUME NEW d, UNCHANGED <<docs, rows, refs, comments, assets>>
  PROVE  Undisturbed(d)
BY DEF Undisturbed, CommentTextForPage, Referenced

\* What is read for an entry.
LEMMA NamesType ==
  ASSUME IndexShape, NEW d, NEW links
  PROVE  AssetTextForPage(d, links) \in SUBSET (Assets \X {0, 1})
<1>1. \A a \in Assets : assets[a].filename \in {0, 1}
  BY DEF IndexShape, Asset
<1> SUFFICES ASSUME NEW v \in AssetTextForPage(d, links)
             PROVE  v \in Assets \X {0, 1}
  OBVIOUS
<1>2. PICK a \in Assets : v = <<a, assets[a].filename>>
  BY DEF AssetTextForPage
<1> QED
  BY <1>1, <1>2

LEMMA TextTypes ==
  ASSUME IndexConstants, IndexShape, NEW d \in Docs
  PROVE  /\ CommentTextForPage(d) \in SUBSET (Comments \X {0, 1})
         /\ AssetTextForPage(d, refs) \in SUBSET (Assets \X {0, 1})
         /\ docs[d] \in Doc /\ docs[d].uses \in SUBSET Assets
<1>1. \A c \in Comments : comments[c].page = d => comments[c].body \in {0, 1}
  <2> SUFFICES ASSUME NEW c \in Comments, comments[c].page = d
               PROVE  comments[c].body \in {0, 1}
    OBVIOUS
  <2>1. comments[c] \in CommentRow
    BY DEF IndexShape
  <2>2. comments[c] # NoComment /\ comments[c] # Deleted
    BY DEF IndexConstants, NoComment, Deleted
  <2> QED
    BY <2>1, <2>2 DEF CommentRow
<1>3. docs[d] \in Doc
  BY DEF IndexShape
<1>4. docs[d].uses \in SUBSET Assets
  BY <1>3 DEF Doc, Absent, Purged
<1>5. CommentTextForPage(d) \in SUBSET (Comments \X {0, 1})
  BY <1>1 DEF CommentTextForPage
<1>6. AssetTextForPage(d, refs) \in SUBSET (Assets \X {0, 1})
  BY NamesType
<1> QED
  BY <1>3, <1>4, <1>5, <1>6

\* A step about pages and comments.
LEMMA IndexerKeeps ==
  ASSUME IndexConstants, IndexKeeps, NEW r \in Requests, Moved(r),
         UNCHANGED <<assets, stored, returned>>,
         docs' \in [Docs -> Doc], comments' \in [Comments -> CommentRow],
         rows' \in [Docs -> Row],
         refs' \subseteq Docs \X Assets,
         calls'[r].at \in {"waiting", "next"} \cup PageStages,
         calls[r].at \notin {"gone", "record"},
         \A c \in Comments :
           \/ comments'[c] = comments[c]
           \/ calls[r].at = "comment" /\ calls[r].comment = c
           \/ /\ comments[c].page \in Docs
              /\ comments'[c] = Deleted \/ comments'[c].page = comments[c].page,
         \A d \in Docs, a \in Assets :
           <<d, a>> \in refs' => <<d, a>> \in refs \/ assets[a].state # "absent",
         calls'[r].at \in {"unlink", "link"} =>
           \A a \in calls'[r].found : assets[a].state # "absent",
         "stop" \notin indexMode =>
           /\ calls'[r].at \in PageStages => Worked(calls[r])'
           /\ \A d \in Docs :
                \/ Owes(calls[r], d)'
                \/ CurrentNow(d)'
                \/ /\ Undisturbed(d) /\ ~ Owes(calls[r], d)
                   /\ calls[r].at \notin {"attach", "refer"}
  PROVE  IndexKeeps'
<1>1. /\ calls'[r].at \notin CommentStages /\ calls'[r].at \notin AssetStages
      /\ calls'[r].at # "record" /\ calls'[r].at \notin {"erase", "gone", "record"}
  BY DEF CommentStages, AssetStages, PageStages
<1>2. CommentsInv'
  BY <1>1, CommentsStay
<1>3. AssetsInv'
  BY <1>1, AssetsStay
<1>4. BytesInv'
  BY <1>1, OneEndsStays, BytesStay
<1>5. FollowInv'
  <2>1. CASE "stop" \in indexMode
    BY <2>1 DEF Moved, FollowInv
  <2>2. CASE "stop" \notin indexMode
    <3>1. \A d \in Docs, a \in Assets :
            Attaches(calls[r], d, a) => calls[r].at \in {"attach", "refer"}
      BY DEF Attaches
    <3> QED
      BY <2>2, <3>1, FollowStep
  <2> QED
    BY <2>1, <2>2
<1>6. IndexShape'
  BY MovedOthers DEF IndexKeeps, IndexShape, Moved
<1> QED
  BY <1>2, <1>3, <1>4, <1>5, <1>6, MovedOthers DEF IndexKeeps

\* SQLite's indexPage leaves the page current, and the others alone.
LEMMA AtOnce ==
  ASSUME IndexConstants, IndexShape, AssetsInv, NEW d \in Docs, NEW doc \in Doc,
         IndexedAtOnce(d, doc), docs'[d] = doc, UNCHANGED <<comments, assets>>
  PROVE  /\ CurrentNow(d)'
         /\ \A e \in Docs : e # d =>
              /\ rows'[e] = rows[e]
              /\ \A a \in Assets : <<e, a>> \in refs' <=> <<e, a>> \in refs
         /\ refs' \subseteq Docs \X Assets
         /\ rows' \in [Docs -> Row]
         /\ \A e \in Docs, a \in Assets :
              <<e, a>> \in refs' => <<e, a>> \in refs \/ assets[a].state # "absent"
<1>1. /\ refs \subseteq Docs \X Assets /\ rows \in [Docs -> Row] /\ doc.uses \in SUBSET Assets
  BY DEF IndexShape, Doc, Absent, Purged
<1>2. CASE doc.lifecycle = "active"
  <2>1. refs' = Linked(d, Referenced(doc.uses))
    BY <1>2 DEF IndexedAtOnce
  <2>2. \A e \in Docs, a \in Assets :
          <<e, a>> \in refs' <=> IF e = d THEN a \in Referenced(doc.uses) ELSE <<e, a>> \in refs
    BY <1>1, <2>1 DEF Linked, Unlinked, Referenced
  <2>3. refs' \subseteq Docs \X Assets
    BY <1>1, <2>1 DEF Linked, Unlinked, Referenced
  <2>4. rows' = [rows EXCEPT ![d] =
                  EntryOf(doc.uses, CommentTextForPage(d), AssetTextForPage(d, refs'))]
    BY <1>2 DEF IndexedAtOnce
  <2>5. AssetTextForPage(d, refs') = AssetTextForPage(d, refs)'
    BY DEF AssetTextForPage, Exists
  <2>6. CommentTextForPage(d)' = CommentTextForPage(d)
    BY DEF CommentTextForPage
  <2>7. rows'[d] = EntryNow(d)'
    BY <1>1, <1>2, <2>4, <2>5, <2>6 DEF EntryNow, IsActive
  <2>8. Referenced(docs[d].uses)' = Referenced(doc.uses)
    BY DEF Referenced
  <2>9. CurrentNow(d)'
    BY <2>2, <2>7, <2>8 DEF CurrentNow
  <2>10. \A a \in Referenced(doc.uses) : assets[a].state # "absent"
    BY DEF Referenced
  <2>11. EntryOf(doc.uses, CommentTextForPage(d), AssetTextForPage(d, refs')) \in Row
    BY <1>1, TextTypes, NamesType DEF EntryOf, Row
  <2>12. rows' \in [Docs -> Row] /\ \A e \in Docs : e # d => rows'[e] = rows[e]
    BY <1>1, <2>4, <2>11
  <2> QED
    BY <2>2, <2>3, <2>9, <2>10, <2>12
<1>3. CASE doc.lifecycle # "active"
  <2>1. refs' = Unlinked(d) /\ rows' = [rows EXCEPT ![d] = NoRow]
    BY <1>3 DEF IndexedAtOnce
  <2>2. \A e \in Docs, a \in Assets : <<e, a>> \in refs' <=> e # d /\ <<e, a>> \in refs
    BY <1>1, <2>1 DEF Unlinked
  <2>3. refs' \subseteq Docs \X Assets
    BY <1>1, <2>1 DEF Unlinked
  <2>4. CurrentNow(d)'
    BY <1>1, <1>3, <2>1 DEF CurrentNow, EntryNow, IsActive
  <2>5. rows' \in [Docs -> Row] /\ \A e \in Docs : e # d => rows'[e] = rows[e]
    BY <1>1, <2>1 DEF Row
  <2> QED
    BY <2>2, <2>3, <2>4, <2>5
<1> QED
  BY <1>2, <1>3

-----------------------------------------------------------------------------
\* Writes of pages.
LEMMA WriteDocKeeps ==
  ASSUME IndexConstants, InOrder, IndexKeeps, NEW r \in Requests,
         NEW d \in Docs, NEW uses \in SUBSET Assets, WriteDoc(r, d, uses)
  PROVE  IndexKeeps'
<1> DEFINE doc == [lifecycle |-> "active", uses |-> uses]
           call == [Waiting EXCEPT !.at = "drop", !.page = d, !.row = doc]
<1>1. /\ docs' = [docs EXCEPT ![d] = doc] /\ doc \in Doc
      /\ UNCHANGED <<indexMode, comments, assets, stored, returned>>
      /\ docs \in [Docs -> Doc] /\ comments \in [Comments -> CommentRow]
      /\ IndexShape /\ AssetsInv
  BY DEF WriteDoc, Doc, IndexKeeps, IndexShape
<1>2. docs' \in [Docs -> Doc] /\ docs'[d] = doc /\ \A e \in Docs : e # d => docs'[e] = docs[e]
  BY <1>1
<1>3. calls[r] = Waiting
  BY DEF WriteDoc, Begin
<1>4. \A e \in Docs : ~ Owes(calls[r], e)
  BY <1>3 DEF Owes, Waiting, PageStages
<1>5. CASE Postgres
  <2>1. call \in Call /\ HasItsOwn(call)
    BY <1>1, DropIsCall
  <2>2. Begin(r, call) /\ UNCHANGED <<refs, rows>>
    BY <1>5 DEF WriteDoc
  <2>3. Moved(r) /\ calls'[r] = call
    BY <1>1, <1>5, <2>1, <2>2, BeginMoves
  <2>4. calls'[r].at = "drop" /\ calls'[r].page = d /\ calls'[r].row = doc
    BY <2>3 DEF Waiting
  <2>5. Worked(calls[r])'
    BY <1>2, <2>4 DEF Worked, PageStages
  <2>6. Owes(calls[r], d)'
    BY <2>4 DEF Owes, PageStages
  <2>7. \A e \in Docs : e # d => Undisturbed(e)
    BY <1>1, <1>2, <2>2 DEF Undisturbed, CommentTextForPage, Referenced
  <2>8. \A e \in Docs :
          \/ Owes(calls[r], e)' \/ CurrentNow(e)'
          \/ /\ Undisturbed(e) /\ ~ Owes(calls[r], e)
             /\ calls[r].at \notin {"attach", "refer"}
    <3> SUFFICES ASSUME NEW e \in Docs, e # d
                 PROVE  /\ Undisturbed(e) /\ ~ Owes(calls[r], e)
                        /\ calls[r].at \notin {"attach", "refer"}
      BY <2>6
    <3>1. calls[r].at \notin {"attach", "refer"}
      BY <1>3 DEF Waiting
    <3> QED
      BY <3>1, <1>4, <2>6, <2>7
  <2>9. /\ calls'[r].at \in {"waiting", "next"} \cup PageStages
        /\ calls'[r].at \notin {"unlink", "link"}
        /\ calls[r].at \notin {"gone", "record", "comment"}
    BY <1>3, <2>4 DEF PageStages, Waiting
  <2> QED
    BY <1>1, <1>2, <2>2, <2>3, <2>5, <2>8, <2>9, IndexerKeeps DEF IndexShape
<1>6. CASE ~ Postgres
  <2>1. Begin(r, Indexing({})) /\ IndexedAtOnce(d, doc)
    BY <1>6 DEF WriteDoc
  <2>2. Indexing({}) \in Call /\ HasItsOwn(Indexing({})) /\ Indexing({}).at = "next"
    BY IndexingIsCall
  <2>3. Moved(r) /\ calls'[r].at = "next"
    BY <1>1, <2>1, <2>2, BeginMoves DEF PageStages
  <2>4. /\ CurrentNow(d)'
        /\ \A e \in Docs : e # d =>
             /\ rows'[e] = rows[e]
             /\ \A a \in Assets : <<e, a>> \in refs' <=> <<e, a>> \in refs
        /\ refs' \subseteq Docs \X Assets
        /\ rows' \in [Docs -> Row]
        /\ \A e \in Docs, a \in Assets :
             <<e, a>> \in refs' => <<e, a>> \in refs \/ assets[a].state # "absent"
    BY <1>1, <1>2, <2>1, AtOnce
  <2>5. \A e \in Docs : e # d => Undisturbed(e)
    BY <1>1, <1>2, <2>4 DEF Undisturbed, CommentTextForPage, Referenced
  <2>8. \A e \in Docs :
          \/ Owes(calls[r], e)' \/ CurrentNow(e)'
          \/ /\ Undisturbed(e) /\ ~ Owes(calls[r], e)
             /\ calls[r].at \notin {"attach", "refer"}
    <3> SUFFICES ASSUME NEW e \in Docs, e # d
                 PROVE  /\ Undisturbed(e) /\ ~ Owes(calls[r], e)
                        /\ calls[r].at \notin {"attach", "refer"}
      BY <2>4
    <3>1. calls[r].at \notin {"attach", "refer"}
      BY <1>3 DEF Waiting
    <3> QED
      BY <3>1, <1>4, <2>4, <2>5
  <2>9. /\ calls'[r].at \in {"waiting", "next"} \cup PageStages
        /\ calls'[r].at \notin {"unlink", "link"}
        /\ calls[r].at \notin {"gone", "record", "comment"}
        /\ calls'[r].at \notin PageStages
    BY <1>3, <2>3 DEF PageStages, Waiting
  <2> QED
    BY <1>1, <1>2, <2>3, <2>4, <2>8, <2>9, IndexerKeeps
<1> QED
  BY <1>5, <1>6

\* A page that leaves the active ones, with the references it keeps.
LEMMA RemovalKeeps ==
  ASSUME IndexConstants, InOrder, IndexKeeps, NEW r \in Requests, NEW d \in Docs,
         docs' \in [Docs -> Doc], docs'[d].lifecycle # "active",
         \A e \in Docs : e # d => docs'[e] = docs[e],
         comments' \in [Comments -> CommentRow],
         \A c \in Comments :
           \/ comments'[c] = comments[c]
           \/ comments[c].page = d /\ comments'[c] = Deleted,
         refs' \subseteq refs,
         \A e \in Docs, a \in Assets : e # d => (<<e, a>> \in refs' <=> <<e, a>> \in refs),
         IF Postgres
         THEN Begin(r, [Waiting EXCEPT !.at = "remove", !.page = d]) /\ rows' = rows
         ELSE Begin(r, Indexing({})) /\ rows' = [rows EXCEPT ![d] = NoRow],
         UNCHANGED <<indexMode, assets, stored, returned>>
  PROVE  IndexKeeps'
<1> DEFINE call == [Waiting EXCEPT !.at = "remove", !.page = d]
<1>1. /\ IndexShape /\ refs \subseteq Docs \X Assets /\ rows \in [Docs -> Row]
      /\ NoRow \in Row
  BY DEF IndexKeeps, IndexShape, Row
<1>2. calls[r] = Waiting
  BY DEF Begin
<1>3. \A e \in Docs : ~ Owes(calls[r], e)
  BY <1>2 DEF Owes, Waiting, PageStages
<1>4. ~ IsActive(d)'
  BY DEF IsActive
<1>5. ASSUME NEW e \in Docs, e # d, rows'[e] = rows[e]
      PROVE  Undisturbed(e)
  <2>1. \A c \in Comments :
          \/ comments'[c] = comments[c]
          \/ comments[c].page # e /\ comments'[c].page # e
    BY <1>5 DEF Deleted, IndexConstants
  <2>2. CommentTextForPage(e)' = CommentTextForPage(e)
    BY <2>1, CommentsOf
  <2> QED
    BY <1>5, <2>2 DEF Undisturbed, Referenced
<1>8. /\ refs' \subseteq Docs \X Assets
      /\ \A e \in Docs, a \in Assets :
           <<e, a>> \in refs' => <<e, a>> \in refs \/ assets[a].state # "absent"
      /\ \A c \in Comments :
           \/ comments'[c] = comments[c]
           \/ /\ comments[c].page \in Docs
              /\ comments'[c] = Deleted \/ comments'[c].page = comments[c].page
  BY <1>1
<1>6. CASE Postgres
  <2>1. call \in Call /\ HasItsOwn(call)
    BY RemoveIsCall
  <2>2. Begin(r, call) /\ rows' = rows
    BY <1>6
  <2>3. Moved(r) /\ calls'[r] = call
    BY <1>6, <2>1, <2>2, BeginMoves
  <2>4. calls'[r].at = "remove" /\ calls'[r].page = d
    BY <2>3 DEF Waiting
  <2>5. Worked(calls[r])'
    BY <1>4, <2>4 DEF Worked, PageStages
  <2>6. Owes(calls[r], d)'
    BY <2>4 DEF Owes, PageStages
  <2>8. \A e \in Docs :
          \/ Owes(calls[r], e)' \/ CurrentNow(e)'
          \/ /\ Undisturbed(e) /\ ~ Owes(calls[r], e)
             /\ calls[r].at \notin {"attach", "refer"}
    <3> SUFFICES ASSUME NEW e \in Docs, e # d
                 PROVE  /\ Undisturbed(e) /\ ~ Owes(calls[r], e)
                        /\ calls[r].at \notin {"attach", "refer"}
      BY <2>6
    <3>1. calls[r].at \notin {"attach", "refer"}
      BY <1>2 DEF Waiting
    <3> QED
      BY <3>1, <1>3, <1>5, <2>2, <2>6
  <2>9. /\ calls'[r].at \in {"waiting", "next"} \cup PageStages
        /\ calls'[r].at \notin {"unlink", "link"}
        /\ calls[r].at \notin {"gone", "record", "comment"}
    BY <1>2, <2>4 DEF PageStages, Waiting
  <2> QED
    BY <1>1, <1>8, <2>2, <2>3, <2>5, <2>8, <2>9, IndexerKeeps
<1>7. CASE ~ Postgres
  <2>1. Begin(r, Indexing({})) /\ rows' = [rows EXCEPT ![d] = NoRow]
    BY <1>7
  <2>2. Indexing({}) \in Call /\ HasItsOwn(Indexing({})) /\ Indexing({}).at = "next"
    BY IndexingIsCall
  <2>3. Moved(r) /\ calls'[r].at = "next"
    BY <2>1, <2>2, BeginMoves DEF PageStages
  <2>4. CurrentNow(d)'
    BY <1>1, <1>4, <2>1 DEF CurrentNow, EntryNow
  <2>5. /\ rows' \in [Docs -> Row]
        /\ \A e \in Docs : e # d => rows'[e] = rows[e]
    BY <1>1, <2>1
  <2>8. \A e \in Docs :
          \/ Owes(calls[r], e)' \/ CurrentNow(e)'
          \/ /\ Undisturbed(e) /\ ~ Owes(calls[r], e)
             /\ calls[r].at \notin {"attach", "refer"}
    <3> SUFFICES ASSUME NEW e \in Docs, e # d
                 PROVE  /\ Undisturbed(e) /\ ~ Owes(calls[r], e)
                        /\ calls[r].at \notin {"attach", "refer"}
      BY <2>4
    <3>1. calls[r].at \notin {"attach", "refer"}
      BY <1>2 DEF Waiting
    <3> QED
      BY <3>1, <1>3, <1>5, <2>4, <2>5
  <2>9. /\ calls'[r].at \in {"waiting", "next"} \cup PageStages
        /\ calls'[r].at \notin {"unlink", "link"}
        /\ calls[r].at \notin {"gone", "record", "comment"}
        /\ calls'[r].at \notin PageStages
    BY <1>2, <2>3 DEF PageStages, Waiting
  <2> QED
    BY <1>1, <1>8, <2>3, <2>5, <2>8, <2>9, IndexerKeeps
<1> QED
  BY <1>6, <1>7

LEMMA ShelveDocKeeps ==
  ASSUME IndexConstants, InOrder, IndexKeeps, NEW r \in Requests, NEW d \in Docs,
         ShelveDoc(r, d) \/ PurgeDoc(r, d)
  PROVE  IndexKeeps'
<1>1. /\ docs \in [Docs -> Doc] /\ comments \in [Comments -> CommentRow]
      /\ refs \subseteq Docs \X Assets
  BY DEF IndexKeeps, IndexShape
<1>2. CASE ShelveDoc(r, d)
  <2>1. [docs[d] EXCEPT !.lifecycle = "shelved"] \in Doc
    BY <1>1, <1>2 DEF ShelveDoc, IsActive, Doc, Absent, Purged
  <2>2. /\ docs' \in [Docs -> Doc] /\ docs'[d].lifecycle = "shelved"
        /\ \A e \in Docs : e # d => docs'[e] = docs[e]
    BY <1>1, <1>2, <2>1 DEF ShelveDoc, Doc, Absent, Purged
  <2> QED
    BY <1>1, <1>2, <2>2, RemovalKeeps DEF ShelveDoc
<1>3. CASE PurgeDoc(r, d)
  <2>1. /\ docs' \in [Docs -> Doc] /\ docs'[d].lifecycle = "purged"
        /\ \A e \in Docs : e # d => docs'[e] = docs[e]
    BY <1>1, <1>3 DEF PurgeDoc, Doc, Purged
  <2>2. /\ comments' \in [Comments -> CommentRow]
        /\ \A c \in Comments :
             \/ comments'[c] = comments[c]
             \/ comments[c].page = d /\ comments'[c] = Deleted
    BY <1>1, <1>3 DEF PurgeDoc, CommentRow
  <2>3. /\ refs' \subseteq refs
        /\ \A e \in Docs, a \in Assets : e # d => (<<e, a>> \in refs' <=> <<e, a>> \in refs)
    BY <1>1, <1>3 DEF PurgeDoc, Unlinked
  <2> QED
    BY <1>3, <2>1, <2>2, <2>3, RemovalKeeps DEF PurgeDoc
<1> QED
  BY <1>2, <1>3

-----------------------------------------------------------------------------
\* Indexing.  A step of the request that indexes page d, which disturbs no other page.
LEMMA StageKeeps ==
  ASSUME IndexConstants, IndexKeeps, NEW r \in Requests, Moved(r), NEW d \in Docs,
         UNCHANGED <<docs, comments, assets, stored, returned>>,
         calls[r].at \in {"next"} \cup PageStages,
         calls'[r].at \in {"waiting", "next"} \cup PageStages,
         rows' \in [Docs -> Row], refs' \subseteq Docs \X Assets,
         \A e \in Docs : e # d =>
           rows'[e] = rows[e] /\ \A a \in Assets : <<e, a>> \in refs' <=> <<e, a>> \in refs,
         \A a \in Assets : <<d, a>> \in refs' => <<d, a>> \in refs \/ assets[a].state # "absent",
         calls'[r].at \in {"unlink", "link"} =>
           \A a \in calls'[r].found : assets[a].state # "absent",
         "stop" \notin indexMode =>
           /\ calls'[r].at \in PageStages => Worked(calls[r])'
           /\ Owes(calls[r], d)' \/ CurrentNow(d)'
           /\ \A e \in Docs : e # d /\ Owes(calls[r], e) => Owes(calls[r], e)'
  PROVE  IndexKeeps'
<1>1. /\ docs' \in [Docs -> Doc] /\ comments' \in [Comments -> CommentRow]
      /\ \A c \in Comments : comments'[c] = comments[c]
  BY DEF IndexKeeps, IndexShape
<1>2. calls[r].at \notin {"gone", "record", "comment", "attach", "refer"}
  BY DEF PageStages
<1>3. \A e \in Docs : e # d => Undisturbed(e)
  BY DEF Undisturbed, CommentTextForPage, Referenced
<1>4. "stop" \notin indexMode => \A e \in Docs :
        \/ Owes(calls[r], e)'
        \/ CurrentNow(e)'
        \/ Undisturbed(e) /\ ~ Owes(calls[r], e) /\ calls[r].at \notin {"attach", "refer"}
  <2> SUFFICES ASSUME "stop" \notin indexMode, NEW e \in Docs, e # d
               PROVE  \/ Owes(calls[r], e)'
                      \/ /\ Undisturbed(e) /\ ~ Owes(calls[r], e)
                         /\ calls[r].at \notin {"attach", "refer"}
    OBVIOUS
  <2> QED
    BY <1>2, <1>3
<1>5. \A e \in Docs, a \in Assets :
        <<e, a>> \in refs' => <<e, a>> \in refs \/ assets[a].state # "absent"
  OBVIOUS
<1> QED
  BY <1>1, <1>2, <1>4, <1>5, IndexerKeeps

\* What is known of the request that is at one of PostgreSQL's stages.
LEMMA AtStage ==
  ASSUME IndexKeeps, NEW r \in Requests, calls[r].at \in PageStages
  PROVE  /\ calls[r] \in Call /\ calls[r].page \in Docs /\ Postgres /\ calls[r] # Waiting
         /\ calls[r].row \in Doc /\ calls[r].left \subseteq Docs
         /\ HasItsOwn(calls[r])
         /\ "stop" \notin indexMode => Worked(calls[r])
         /\ rows \in [Docs -> Row] /\ refs \subseteq Docs \X Assets /\ NoRow \in Row
<1>1. calls[r] \in Call /\ calls[r].page \in Docs /\ Postgres /\ HasItsOwn(calls[r])
  BY DEF IndexKeeps, IndexShape, CallsHaveTheirs, HasItsOwn, TakeTurns
<1>2. calls[r] # Waiting
  BY DEF Waiting, PageStages
<1>3. calls[r].row \in Doc /\ calls[r].left \subseteq Docs
  BY <1>1 DEF Call
<1> QED
  BY <1>1, <1>2, <1>3 DEF IndexKeeps, FollowInv, WorkInv, IndexShape, Row

\* A request at one stage is at another one, with what it knows.
LEMMA NextStage ==
  ASSUME IndexKeeps, NEW r \in Requests, calls[r].at \in PageStages \ {"remove"},
         UNCHANGED indexMode,
         NEW call \in Call, call.at \in {"next"} \cup (PageStages \ {"remove"}),
         call.page = calls[r].page, call.left = calls[r].left,
         call.at = "next" => call.found = {}, call.at # "drop",
         call.at = "unlink" /\ call.row.lifecycle # "active" => call.found = {},
         call.at \in {"select", "link", "comments", "names", "insert"} =>
           call.row.lifecycle = "active",
         Go(r, call)
  PROVE  /\ Moved(r) /\ calls'[r] = call
         /\ calls'[r].at \in {"waiting", "next"} \cup PageStages
         /\ \A e \in Docs : e # calls[r].page => (Owes(calls[r], e) => Owes(calls[r], e)')
<1>1. calls[r] \in Call /\ calls[r].page \in Docs /\ Postgres /\ calls[r] # Waiting
  BY AtStage
<1>4. HasItsOwn(call)
  BY <1>1 DEF HasItsOwn, PageStages, CommentStages, AssetStages
<1>5. Moved(r) /\ calls'[r] = call
  BY <1>1, <1>4, GoMoves
<1>6. \A e \in Docs : e # calls[r].page => (Owes(calls[r], e) => Owes(calls[r], e)')
  BY <1>5 DEF Owes, PageStages
<1> QED
  BY <1>5, <1>6

\* One of PostgreSQL's statements for the page that is indexed.
LEMMA StatementKeeps ==
  ASSUME IndexConstants, IndexKeeps, NEW r \in Requests, calls[r].at \in PageStages \ {"remove"},
         UNCHANGED <<indexMode, docs, comments, assets, stored, returned>>,
         NEW call \in Call, call.at \in PageStages \ {"remove", "drop"},
         call.page = calls[r].page, call.left = calls[r].left,
         call.at = "unlink" /\ call.row.lifecycle # "active" => call.found = {},
         call.at \in {"select", "link", "comments", "names", "insert"} =>
           call.row.lifecycle = "active",
         Go(r, call),
         rows' \in [Docs -> Row], refs' \subseteq Docs \X Assets,
         \A e \in Docs : e # calls[r].page =>
           rows'[e] = rows[e] /\ \A a \in Assets : <<e, a>> \in refs' <=> <<e, a>> \in refs,
         \A a \in Assets : <<calls[r].page, a>> \in refs' =>
           <<calls[r].page, a>> \in refs \/ assets[a].state # "absent",
         call.at \in {"unlink", "link"} => \A a \in call.found : assets[a].state # "absent",
         "stop" \notin indexMode => Worked(calls[r])'
  PROVE  IndexKeeps'
<1>1. calls[r] \in Call /\ calls \in [Requests -> Call] /\ calls[r].page \in Docs
  BY AtStage DEF IndexKeeps, IndexShape
<1>2. /\ call.at \in {"next"} \cup (PageStages \ {"remove"})
      /\ call.at \notin {"next", "drop"}
  BY DEF PageStages
<1>3. /\ Moved(r) /\ calls'[r] = call
      /\ calls'[r].at \in {"waiting", "next"} \cup PageStages
      /\ \A e \in Docs : e # calls[r].page => (Owes(calls[r], e) => Owes(calls[r], e)')
  BY <1>2, NextStage
<1>4. \A e \in Docs : e = calls[r].page => Owes(calls[r], e)'
  BY <1>3 DEF Owes
<1>5. /\ calls[r].at \in {"next"} \cup PageStages
      /\ calls'[r].at \in {"unlink", "link"} =>
           \A a \in calls'[r].found : assets[a].state # "absent"
  BY <1>3
<1> DEFINE d == calls[r].page
<1> HIDE DEF d
<1>6. d = calls[r].page
  BY DEF d
<1>7. /\ d \in Docs
      /\ \A e \in Docs : e # d =>
           rows'[e] = rows[e] /\ \A a \in Assets : <<e, a>> \in refs' <=> <<e, a>> \in refs
      /\ \A a \in Assets : <<d, a>> \in refs' => <<d, a>> \in refs \/ assets[a].state # "absent"
      /\ "stop" \notin indexMode =>
           /\ calls'[r].at \in PageStages => Worked(calls[r])'
           /\ \A e \in Docs : e # d /\ Owes(calls[r], e) => Owes(calls[r], e)'
  BY <1>1, <1>3, <1>6
<1>8. UNCHANGED <<docs, comments, assets, stored, returned>>
  OBVIOUS
<1> QED
  BY <1>1, <1>3, <1>4, <1>5, <1>6, <1>7, <1>8, StageKeeps

LEMMA DropRowKeeps ==
  ASSUME IndexConstants, IndexKeeps, NEW r \in Requests, DropRow(r)
  PROVE  IndexKeeps'
<1> DEFINE call == [calls[r] EXCEPT !.at =
                      IF calls[r].row.lifecycle = "active" THEN "select" ELSE "unlink"]
<1>1. calls[r].at = "drop" /\ calls[r].at \in PageStages \ {"remove"} /\ "drop" \in PageStages
  BY DEF DropRow, PageStages
<1>2. /\ calls[r] \in Call /\ calls[r].page \in Docs /\ HasItsOwn(calls[r])
      /\ "stop" \notin indexMode => Worked(calls[r])
      /\ rows \in [Docs -> Row] /\ refs \subseteq Docs \X Assets /\ NoRow \in Row
  BY <1>1, AtStage
<1>3. /\ call \in Call /\ call.page = calls[r].page /\ call.left = calls[r].left
      /\ call.row = calls[r].row /\ call.found = calls[r].found
      /\ call.at = IF calls[r].row.lifecycle = "active" THEN "select" ELSE "unlink"
  BY <1>2 DEF Call, PageStages
<1>4. calls[r].found = {}
  BY <1>1, <1>2 DEF HasItsOwn
<1>5. /\ call.at \in PageStages \ {"remove", "drop"}
      /\ call.at = "unlink" /\ call.row.lifecycle # "active" => call.found = {}
      /\ call.at \in {"unlink", "link"} => \A a \in call.found : assets[a].state # "absent"
      /\ call.at \in {"select", "link", "comments", "names", "insert"} =>
           call.row.lifecycle = "active"
  BY <1>3, <1>4 DEF PageStages
<1>6. /\ rows' = [rows EXCEPT ![calls[r].page] = NoRow] /\ Go(r, call)
      /\ UNCHANGED <<indexMode, docs, comments, assets, stored, refs, returned>>
  BY DEF DropRow
<1>7. /\ rows' \in [Docs -> Row]
      /\ \A e \in Docs : e # calls[r].page => rows'[e] = rows[e]
  BY <1>2, <1>6
<1>8. ASSUME "stop" \notin indexMode
      PROVE  Worked(calls[r])'
  <2>1. calls'[r] = call
    BY <1>6 DEF Go, IndexKeeps, IndexShape
  <2>2. calls[r].row = docs[calls[r].page] /\ rows'[calls[r].page] = NoRow
    BY <1>1, <1>2, <1>6, <1>8 DEF Worked
  <2> QED
    BY <1>3, <1>6, <2>1, <2>2 DEF Worked, IsActive
<1> HIDE DEF call
<1> QED
  BY <1>1, <1>2, <1>3, <1>5, <1>6, <1>7, <1>8, StatementKeeps

LEMMA SelectAssetsKeeps ==
  ASSUME IndexConstants, IndexKeeps, NEW r \in Requests, SelectAssets(r)
  PROVE  IndexKeeps'
<1> DEFINE call == [calls[r] EXCEPT !.at = "unlink", !.found = Referenced(calls[r].row.uses)]
<1>1. calls[r].at = "select" /\ calls[r].at \in PageStages \ {"remove"}
  BY DEF SelectAssets, PageStages
<1>2. /\ calls[r] \in Call /\ calls[r].page \in Docs /\ calls[r].row \in Doc
      /\ HasItsOwn(calls[r])
      /\ "stop" \notin indexMode => Worked(calls[r])
      /\ rows \in [Docs -> Row] /\ refs \subseteq Docs \X Assets
  BY <1>1, AtStage
<1>3. /\ Referenced(calls[r].row.uses) \in SUBSET Assets
      /\ \A a \in Referenced(calls[r].row.uses) : assets[a].state # "absent"
  BY <1>2 DEF Referenced, Doc, Absent, Purged
<1>4. /\ call \in Call /\ call.page = calls[r].page /\ call.left = calls[r].left
      /\ call.row = calls[r].row /\ call.found = Referenced(calls[r].row.uses)
      /\ call.at = "unlink"
  BY <1>2, <1>3 DEF Call, PageStages
<1>5. /\ Go(r, call)
      /\ UNCHANGED <<indexMode, docs, comments, assets, stored, refs, rows, returned>>
  BY DEF SelectAssets
<1>6. /\ call.at \in PageStages \ {"remove", "drop"}
      /\ call.row.lifecycle = "active"
      /\ call.at \in {"unlink", "link"} => \A a \in call.found : assets[a].state # "absent"
  BY <1>1, <1>2, <1>3, <1>4 DEF HasItsOwn, PageStages
<1>7. ASSUME "stop" \notin indexMode
      PROVE  Worked(calls[r])'
  <2>1. calls'[r] = call
    BY <1>5 DEF Go, IndexKeeps, IndexShape
  <2>2. /\ calls[r].row = docs[calls[r].page] /\ rows[calls[r].page] = NoRow
        /\ IsActive(calls[r].page)
    BY <1>1, <1>2, <1>7 DEF Worked, PageStages
  <2>3. Referenced(docs[calls[r].page].uses)' = call.found
    BY <1>4, <1>5, <2>1, <2>2 DEF Referenced
  <2> QED
    BY <1>4, <1>5, <2>1, <2>2, <2>3 DEF Worked, IsActive
<1> HIDE DEF call
<1> QED
  BY <1>1, <1>2, <1>4, <1>5, <1>6, <1>7, StatementKeeps

LEMMA UnlinkKeeps ==
  ASSUME IndexConstants, IndexKeeps, NEW r \in Requests, Unlink(r)
  PROVE  IndexKeeps'
<1> DEFINE call == [calls[r] EXCEPT !.at =
                      IF calls[r].row.lifecycle = "active" THEN "link" ELSE "next"]
<1>1. calls[r].at = "unlink" /\ calls[r].at \in PageStages \ {"remove"}
  BY DEF Unlink, PageStages
<1>2. /\ calls[r] \in Call /\ calls[r].page \in Docs /\ HasItsOwn(calls[r])
      /\ "stop" \notin indexMode => Worked(calls[r])
      /\ rows \in [Docs -> Row] /\ refs \subseteq Docs \X Assets
  BY <1>1, AtStage
<1>3. /\ call \in Call /\ call.page = calls[r].page /\ call.left = calls[r].left
      /\ call.row = calls[r].row /\ call.found = calls[r].found
      /\ call.at = IF calls[r].row.lifecycle = "active" THEN "link" ELSE "next"
  BY <1>2 DEF Call, PageStages
<1>4. /\ refs' = Unlinked(calls[r].page) /\ Go(r, call)
      /\ UNCHANGED <<indexMode, docs, comments, assets, stored, rows, returned>>
  BY DEF Unlink
<1>5. /\ refs' \subseteq Docs \X Assets
      /\ \A e \in Docs : e # calls[r].page =>
           \A a \in Assets : <<e, a>> \in refs' <=> <<e, a>> \in refs
      /\ \A a \in Assets : <<calls[r].page, a>> \notin refs'
  BY <1>2, <1>4 DEF Unlinked
<1>6. \A a \in call.found : assets[a].state # "absent"
  BY <1>1, <1>2, <1>3 DEF IndexKeeps, AssetsInv, Call
<1>7. calls'[r] = call
  BY <1>4 DEF Go, IndexKeeps, IndexShape
<1>8. ASSUME "stop" \notin indexMode
      PROVE  /\ calls[r].row = docs[calls[r].page] /\ rows[calls[r].page] = NoRow
             /\ IsActive(calls[r].page) => calls[r].found = Referenced(docs[calls[r].page].uses)
  BY <1>1, <1>2, <1>8 DEF Worked, PageStages
<1>9. CASE calls[r].row.lifecycle = "active"
  <2>1. ASSUME "stop" \notin indexMode
        PROVE  Worked(calls[r])'
    <3>1. IsActive(calls[r].page)
      BY <1>8, <1>9, <2>1 DEF IsActive
    <3>2. Referenced(docs[calls[r].page].uses)' = Referenced(docs[calls[r].page].uses)
      BY <1>3, <1>4, <1>7 DEF Referenced
    <3> QED
      BY <1>3, <1>4, <1>5, <1>7, <1>8, <1>9, <2>1, <3>1, <3>2 DEF Worked, IsActive
  <2>2. /\ call.at \in PageStages \ {"remove", "drop"}
        /\ call.at = "unlink" /\ call.row.lifecycle # "active" => call.found = {}
        /\ call.row.lifecycle = "active"
    BY <1>3, <1>9 DEF PageStages
  <2> HIDE DEF call
  <2> QED
    BY <1>1, <1>2, <1>3, <1>4, <1>5, <1>6, <2>1, <2>2, StatementKeeps
<1>10. CASE calls[r].row.lifecycle # "active"
  <2>1. call.at = "next" /\ call.found = {}
    BY <1>1, <1>2, <1>3, <1>10 DEF HasItsOwn
  <2>2. call.at \in {"next"} \cup (PageStages \ {"remove"}) /\ call.at \notin PageStages
    BY <2>1 DEF PageStages
  <2> HIDE DEF call
  <2>3. /\ Moved(r)
        /\ calls'[r].at \in {"waiting", "next"} \cup PageStages
        /\ \A e \in Docs : e # calls[r].page => (Owes(calls[r], e) => Owes(calls[r], e)')
    BY <1>1, <1>3, <1>4, <2>1, <2>2, NextStage
  <2>4. PICK d \in Docs : d = calls[r].page
    BY <1>2
  <2>5. ASSUME "stop" \notin indexMode
        PROVE  CurrentNow(d)'
    <3>1. docs'[d].lifecycle # "active" /\ rows'[d] = NoRow
      BY <1>4, <1>8, <1>10, <2>4, <2>5
    <3> QED
      BY <3>1 DEF CurrentNow, EntryNow, IsActive
  <2>6. /\ calls[r].at \in {"next"} \cup PageStages
        /\ calls'[r].at \notin PageStages /\ calls'[r].at \notin {"unlink", "link"}
    BY <1>1, <1>7, <2>1, <2>2
  <2>7. /\ \A e \in Docs : e # d =>
             rows'[e] = rows[e] /\ \A a \in Assets : <<e, a>> \in refs' <=> <<e, a>> \in refs
        /\ \A a \in Assets : <<d, a>> \notin refs'
        /\ rows' \in [Docs -> Row]
        /\ \A e \in Docs : e # d /\ Owes(calls[r], e) => Owes(calls[r], e)'
    BY <1>2, <1>4, <1>5, <2>3, <2>4
  <2>8. UNCHANGED <<docs, comments, assets, stored, returned>>
    BY <1>4
  <2> QED
    BY <1>5, <2>3, <2>5, <2>6, <2>7, <2>8, StageKeeps
<1> QED
  BY <1>9, <1>10

LEMMA LinkKeeps ==
  ASSUME IndexConstants, IndexKeeps, NEW r \in Requests, Link(r)
  PROVE  IndexKeeps'
<1> DEFINE call == [calls[r] EXCEPT !.at = "comments"]
<1>1. calls[r].at = "link" /\ calls[r].at \in PageStages \ {"remove"}
  BY DEF Link, PageStages
<1>2. /\ calls[r] \in Call /\ calls[r].page \in Docs /\ HasItsOwn(calls[r])
      /\ "stop" \notin indexMode => Worked(calls[r])
      /\ rows \in [Docs -> Row] /\ refs \subseteq Docs \X Assets
  BY <1>1, AtStage
<1>3. /\ call \in Call /\ call.page = calls[r].page /\ call.left = calls[r].left
      /\ call.row = calls[r].row /\ call.at = "comments"
  BY <1>2 DEF Call, PageStages
<1>4. /\ refs' = refs \cup ({calls[r].page} \X calls[r].found) /\ Go(r, call)
      /\ UNCHANGED <<indexMode, docs, comments, assets, stored, rows, returned>>
  BY DEF Link
<1>5. calls[r].found \subseteq Assets /\ \A a \in calls[r].found : assets[a].state # "absent"
  BY <1>1, <1>2 DEF IndexKeeps, AssetsInv, Call
<1>6. /\ refs' \subseteq Docs \X Assets
      /\ \A e \in Docs : e # calls[r].page =>
           \A a \in Assets : <<e, a>> \in refs' <=> <<e, a>> \in refs
      /\ \A a \in Assets : <<calls[r].page, a>> \in refs' <=>
           <<calls[r].page, a>> \in refs \/ a \in calls[r].found
  BY <1>2, <1>4, <1>5
<1>7. ASSUME "stop" \notin indexMode
      PROVE  Worked(calls[r])'
  <2>1. calls'[r] = call
    BY <1>4 DEF Go, IndexKeeps, IndexShape
  <2>2. /\ calls[r].row = docs[calls[r].page] /\ rows[calls[r].page] = NoRow
        /\ IsActive(calls[r].page) /\ calls[r].found = Referenced(docs[calls[r].page].uses)
        /\ \A a \in Assets : <<calls[r].page, a>> \notin refs
    BY <1>1, <1>2, <1>7 DEF Worked, PageStages
  <2>3. Referenced(docs[calls[r].page].uses)' = Referenced(docs[calls[r].page].uses)
    BY <1>3, <1>4, <2>1 DEF Referenced
  <2>4. /\ calls'[r].page = calls[r].page /\ calls'[r].row = calls[r].row
        /\ calls'[r].at = "comments" /\ UNCHANGED <<docs, rows>>
    BY <1>3, <1>4, <2>1
  <2>5. IsActive(calls[r].page)' /\ calls'[r].row = docs'[calls'[r].page]
    BY <2>2, <2>4 DEF IsActive
  <2> QED
    BY <1>6, <2>2, <2>3, <2>4, <2>5 DEF Worked
<1>8. /\ call.at \in PageStages \ {"remove", "drop"}
      /\ call.row.lifecycle = "active" /\ call.at \notin {"unlink", "link"}
  BY <1>1, <1>2, <1>3 DEF PageStages, HasItsOwn
<1> HIDE DEF call
<1> QED
  BY <1>1, <1>2, <1>3, <1>4, <1>5, <1>6, <1>7, <1>8, StatementKeeps

\* A statement that reads something for the entry.
LEMMA ReadKeeps ==
  ASSUME IndexConstants, IndexKeeps, NEW r \in Requests, calls[r].at \in {"comments", "names"},
         UNCHANGED <<indexMode, docs, comments, assets, stored, refs, rows, returned>>,
         NEW call \in Call, call.page = calls[r].page, call.left = calls[r].left,
         call.row = calls[r].row, call.at \in {"names", "insert"}, Go(r, call),
         call.said = CommentTextForPage(calls[r].page)
           \/ (calls[r].at = "names" /\ call.said = calls[r].said),
         call.at = "insert" => call.names = AssetTextForPage(calls[r].page, refs)
  PROVE  IndexKeeps'
<1>1. calls[r].at \in PageStages \ {"remove"} /\ calls[r].at \notin {"remove", "drop", "unlink"}
  BY DEF PageStages
<1>2. /\ calls[r] \in Call /\ calls[r].page \in Docs /\ HasItsOwn(calls[r])
      /\ "stop" \notin indexMode => Worked(calls[r])
      /\ rows \in [Docs -> Row] /\ refs \subseteq Docs \X Assets
  BY <1>1, AtStage
<1>3. calls'[r] = call
  BY DEF Go, IndexKeeps, IndexShape
<1>4. PICK d \in Docs : d = calls[r].page
  BY <1>2
<1>5. ASSUME "stop" \notin indexMode
      PROVE  Worked(calls[r])'
  <2>1. /\ calls[r].row = docs[d] /\ rows[d] = NoRow /\ IsActive(d)
        /\ \A a \in Assets : <<d, a>> \in refs <=> a \in Referenced(docs[d].uses)
        /\ calls[r].at = "names" => calls[r].said = CommentTextForPage(d)
    BY <1>1, <1>2, <1>4, <1>5 DEF Worked
  <2>2. /\ Referenced(docs[d].uses)' = Referenced(docs[d].uses)
        /\ CommentTextForPage(d)' = CommentTextForPage(d)
        /\ AssetTextForPage(d, refs)' = AssetTextForPage(d, refs)
        /\ IsActive(d)' = IsActive(d)
    BY DEF Referenced, CommentTextForPage, AssetTextForPage, Exists, IsActive
  <2>3. /\ calls'[r].page = d /\ calls'[r].row = docs'[d] /\ rows'[d] = NoRow /\ IsActive(d)'
        /\ calls'[r].at \in {"names", "insert"}
        /\ \A a \in Assets : <<d, a>> \in refs' <=> a \in Referenced(docs[d].uses)'
        /\ calls'[r].said = CommentTextForPage(d)'
        /\ calls'[r].at = "insert" => calls'[r].names = AssetTextForPage(d, refs)'
    BY <1>3, <1>4, <2>1, <2>2
  <2> QED
    BY <2>3 DEF Worked
<1>6. /\ call.at \in PageStages \ {"remove", "drop"} /\ call.at \notin {"unlink", "link"}
      /\ call.row.lifecycle = "active"
  BY <1>1, <1>2 DEF PageStages, HasItsOwn
<1>7. rows' \in [Docs -> Row] /\ refs' \subseteq Docs \X Assets
  BY <1>2
<1> QED
  BY <1>1, <1>5, <1>6, <1>7, StatementKeeps

LEMMA ReadCommentsKeeps ==
  ASSUME IndexConstants, IndexKeeps, NEW r \in Requests, ReadComments(r)
  PROVE  IndexKeeps'
<1> DEFINE call == [calls[r] EXCEPT !.at = "names", !.said = CommentTextForPage(calls[r].page)]
<1>1. calls[r].at = "comments" /\ calls[r].at \in PageStages
  BY DEF ReadComments, PageStages
<1>2. calls[r] \in Call /\ calls[r].page \in Docs
  BY <1>1, AtStage
<1>3. CommentTextForPage(calls[r].page) \in SUBSET (Comments \X {0, 1})
  BY <1>2, TextTypes DEF IndexKeeps
<1>4. /\ call \in Call /\ call.page = calls[r].page /\ call.left = calls[r].left
      /\ call.row = calls[r].row /\ call.at = "names"
      /\ call.said = CommentTextForPage(calls[r].page)
  BY <1>2, <1>3 DEF Call, PageStages
<1>5. /\ Go(r, call)
      /\ UNCHANGED <<indexMode, docs, comments, assets, stored, refs, rows, returned>>
  BY DEF ReadComments
<1> HIDE DEF call
<1> QED
  BY <1>1, <1>4, <1>5, ReadKeeps

LEMMA ReadNamesKeeps ==
  ASSUME IndexConstants, IndexKeeps, NEW r \in Requests, ReadNames(r)
  PROVE  IndexKeeps'
<1> DEFINE call == [calls[r] EXCEPT !.at = "insert",
                      !.names = AssetTextForPage(calls[r].page, refs)]
<1>1. calls[r].at = "names" /\ calls[r].at \in PageStages
  BY DEF ReadNames, PageStages
<1>2. calls[r] \in Call /\ calls[r].page \in Docs
  BY <1>1, AtStage
<1>3. AssetTextForPage(calls[r].page, refs) \in SUBSET (Assets \X {0, 1})
  BY NamesType DEF IndexKeeps
<1>4. /\ call \in Call /\ call.page = calls[r].page /\ call.left = calls[r].left
      /\ call.row = calls[r].row /\ call.at = "insert" /\ call.said = calls[r].said
      /\ call.names = AssetTextForPage(calls[r].page, refs)
  BY <1>2, <1>3 DEF Call, PageStages
<1>5. /\ Go(r, call)
      /\ UNCHANGED <<indexMode, docs, comments, assets, stored, refs, rows, returned>>
  BY DEF ReadNames
<1> HIDE DEF call
<1> QED
  BY <1>1, <1>4, <1>5, ReadKeeps

\* A request that is going to index pages owes just those.
LEMMA OwesNext ==
  ASSUME NEW r \in Requests
  PROVE  /\ calls[r].at = "next" => \A d : Owes(calls[r], d) <=> d \in calls[r].left
         /\ calls'[r].at = "next" => \A d : Owes(calls[r], d)' <=> d \in calls'[r].left
BY DEF Owes, PageStages

LEMMA InsertRowKeeps ==
  ASSUME IndexConstants, IndexKeeps, NEW r \in Requests, InsertRow(r)
  PROVE  IndexKeeps'
<1>1. /\ calls[r].at = "insert" /\ calls[r].at \in PageStages
      /\ UNCHANGED <<indexMode, docs, comments, assets, stored, refs, returned>>
  BY DEF InsertRow, PageStages
<1>2. /\ calls[r] \in Call /\ calls[r].page \in Docs /\ calls[r] # Waiting
      /\ calls[r].row \in Doc /\ calls[r].left \subseteq Docs
      /\ "stop" \notin indexMode => Worked(calls[r])
      /\ rows \in [Docs -> Row] /\ refs \subseteq Docs \X Assets
  BY <1>1, AtStage
<1>3. PICK d \in Docs : d = calls[r].page
  BY <1>2
<1>4. ASSUME "stop" \notin indexMode
      PROVE  /\ calls[r].row = docs[d] /\ rows[d] = NoRow /\ IsActive(d)
             /\ \A a \in Assets : <<d, a>> \in refs <=> a \in Referenced(docs[d].uses)
             /\ calls[r].said = CommentTextForPage(d)
             /\ calls[r].names = AssetTextForPage(d, refs)
  BY <1>1, <1>2, <1>3, <1>4 DEF Worked
<1>5. CASE rows[d] # NoRow
  <2>1. Done(r) /\ rows' = rows
    BY <1>3, <1>5 DEF InsertRow
  <2>2. Moved(r) /\ calls'[r] = Waiting
    BY <1>1, <1>2, <2>1, DoneMoves
  <2>3. calls'[r].at = "waiting"
    BY <2>2 DEF Waiting
  <2>4. rows' \in [Docs -> Row] /\ refs' \subseteq Docs \X Assets
    BY <1>1, <1>2, <2>1
  <2> QED
    BY <1>1, <1>4, <1>5, <2>1, <2>2, <2>3, <2>4, StageKeeps
<1>6. CASE rows[d] = NoRow
  <2>1. /\ rows' = [rows EXCEPT ![d] = EntryOf(calls[r].row.uses, calls[r].said, calls[r].names)]
        /\ Go(r, Indexing(calls[r].left))
    BY <1>3, <1>6 DEF InsertRow
  <2>2. /\ Indexing(calls[r].left) \in Call /\ HasItsOwn(Indexing(calls[r].left))
        /\ Indexing(calls[r].left).at = "next" /\ Indexing(calls[r].left).left = calls[r].left
        /\ "next" \notin PageStages
    BY <1>2, IndexingIsCall
  <2>3. Moved(r) /\ calls'[r] = Indexing(calls[r].left)
    BY <1>1, <1>2, <2>1, <2>2, GoMoves
  <2>4. EntryOf(calls[r].row.uses, calls[r].said, calls[r].names) \in Row
    BY <1>2 DEF EntryOf, Row, Call, Doc, Absent, Purged
  <2>5. rows' \in [Docs -> Row] /\ \A e \in Docs : e # d => rows'[e] = rows[e]
    BY <1>2, <2>1, <2>4
  <2>6. ASSUME "stop" \notin indexMode
        PROVE  CurrentNow(d)'
    <3>1. /\ Referenced(docs[d].uses)' = Referenced(docs[d].uses)
          /\ CommentTextForPage(d)' = CommentTextForPage(d)
          /\ AssetTextForPage(d, refs)' = AssetTextForPage(d, refs)
          /\ IsActive(d)' = IsActive(d)
      BY <1>1 DEF Referenced, CommentTextForPage, AssetTextForPage, Exists, IsActive
    <3>2. rows'[d] = EntryOf(docs[d].uses, CommentTextForPage(d), AssetTextForPage(d, refs))
      BY <1>2, <1>4, <2>1, <2>6
    <3> QED
      BY <1>1, <1>4, <2>6, <3>1, <3>2 DEF CurrentNow, EntryNow
  <2>7. \A e \in Docs : e # d /\ Owes(calls[r], e) => Owes(calls[r], e)'
    <3> SUFFICES ASSUME NEW e \in Docs, e # d, Owes(calls[r], e)
                 PROVE  e \in calls[r].left
      BY <1>2, <2>2, <2>3, OwesNext
    <3> QED
      BY <1>1, <1>3 DEF Owes
  <2>8. /\ calls'[r].at \in {"waiting", "next"} \cup PageStages
        /\ calls'[r].at \notin PageStages /\ calls'[r].at \notin {"unlink", "link"}
        /\ calls[r].at \in {"next"} \cup PageStages
        /\ refs' \subseteq Docs \X Assets
    BY <1>1, <1>2, <2>2, <2>3
  <2> QED
    BY <1>1, <2>3, <2>5, <2>6, <2>7, <2>8, StageKeeps
<1> QED
  BY <1>5, <1>6

LEMMA RemovePageKeeps ==
  ASSUME IndexConstants, IndexKeeps, NEW r \in Requests, RemovePage(r)
  PROVE  IndexKeeps'
<1>1. /\ calls[r].at = "remove" /\ calls[r].at \in PageStages
      /\ UNCHANGED <<indexMode, docs, comments, assets, stored, refs, returned>>
      /\ Done(r) /\ rows' = [rows EXCEPT ![calls[r].page] = NoRow]
  BY DEF RemovePage, PageStages
<1>2. /\ calls[r] \in Call /\ calls[r].page \in Docs /\ calls[r] # Waiting
      /\ HasItsOwn(calls[r])
      /\ "stop" \notin indexMode => Worked(calls[r])
      /\ rows \in [Docs -> Row] /\ refs \subseteq Docs \X Assets /\ NoRow \in Row
  BY <1>1, AtStage
<1>3. PICK d \in Docs : d = calls[r].page
  BY <1>2
<1>4. Moved(r) /\ calls'[r] = Waiting
  BY <1>1, <1>2, DoneMoves
<1>5. calls'[r].at = "waiting" /\ "waiting" \notin PageStages
  BY <1>4 DEF Waiting, PageStages
<1>6. rows' \in [Docs -> Row] /\ rows'[d] = NoRow /\ \A e \in Docs : e # d => rows'[e] = rows[e]
  BY <1>1, <1>2, <1>3
<1>7. ASSUME "stop" \notin indexMode
      PROVE  CurrentNow(d)'
  <2>1. ~ IsActive(d)'
    BY <1>1, <1>2, <1>3, <1>7 DEF Worked, IsActive
  <2> QED
    BY <1>6, <2>1 DEF CurrentNow, EntryNow
<1>8. \A e \in Docs : e # d => ~ Owes(calls[r], e)
  BY <1>1, <1>2, <1>3 DEF HasItsOwn, Owes
<1>9. refs' \subseteq Docs \X Assets
  BY <1>1, <1>2
<1> QED
  BY <1>1, <1>4, <1>5, <1>6, <1>7, <1>8, <1>9, StageKeeps

\* indexPageById.
LEMMA ReadPageKeeps ==
  ASSUME IndexConstants, IndexKeeps, NEW r \in Requests, ReadPage(r)
  PROVE  IndexKeeps'
<1>1. /\ calls[r].at = "next" /\ calls[r] # Waiting /\ Postgres
      /\ UNCHANGED <<indexMode, docs, comments, assets, stored, refs, rows, returned>>
  BY Somewhere DEF ReadPage
<1>2. /\ calls[r] \in Call /\ HasItsOwn(calls[r]) /\ docs \in [Docs -> Doc]
      /\ rows \in [Docs -> Row] /\ refs \subseteq Docs \X Assets
  BY DEF IndexKeeps, IndexShape, CallsHaveTheirs
<1>3. calls[r].left \subseteq Docs
  BY <1>2 DEF Call
<1>4. PICK d \in calls[r].left :
        Go(r, [calls[r] EXCEPT !.at = "drop", !.left = @ \ {d}, !.page = d, !.row = docs[d]])
  BY DEF ReadPage
<1> DEFINE call == [calls[r] EXCEPT !.at = "drop", !.left = @ \ {d}, !.page = d, !.row = docs[d]]
<1>5. d \in Docs
  BY <1>3, <1>4
<1>6. /\ call \in Call /\ call.at = "drop" /\ call.left = calls[r].left \ {d} /\ call.page = d
      /\ call.row = docs[d] /\ call.found = calls[r].found
  BY <1>2, <1>3, <1>5 DEF Call, PageStages
<1>7. calls[r].found = {}
  BY <1>1, <1>2 DEF HasItsOwn
<1>8. HasItsOwn(call)
  BY <1>5, <1>6, <1>7 DEF HasItsOwn, PageStages, CommentStages, AssetStages
<1>9. Go(r, call)
  BY <1>4
<1> HIDE DEF call
<1>10. Moved(r) /\ calls'[r] = call
  BY <1>1, <1>6, <1>8, <1>9, GoMoves
<1>11. call.at \in PageStages /\ call.at \notin {"unlink", "link"}
  BY <1>6 DEF PageStages
<1>12. Worked(calls[r])' /\ Owes(calls[r], d)'
  BY <1>1, <1>6, <1>10, <1>11 DEF Worked, Owes
<1>13. \A e \in Docs : e # d /\ Owes(calls[r], e) => Owes(calls[r], e)'
  <2> SUFFICES ASSUME NEW e \in Docs, e # d, Owes(calls[r], e)
               PROVE  Owes(calls[r], e)'
    OBVIOUS
  <2>1. e \in calls[r].left
    BY <1>1, OwesNext
  <2> QED
    BY <1>6, <1>10, <1>11, <2>1 DEF Owes
<1>14. rows' \in [Docs -> Row] /\ refs' \subseteq Docs \X Assets
  BY <1>1, <1>2
<1> QED
  BY <1>1, <1>5, <1>10, <1>11, <1>12, <1>13, <1>14, StageKeeps

LEMMA IndexPageByIdKeeps ==
  ASSUME IndexConstants, IndexKeeps, NEW r \in Requests, IndexPageById(r)
  PROVE  IndexKeeps'
<1>1. /\ calls[r].at = "next" /\ calls[r] # Waiting
      /\ UNCHANGED <<indexMode, docs, comments, assets, stored, returned>>
  BY Somewhere DEF IndexPageById
<1>2. /\ calls[r] \in Call /\ docs \in [Docs -> Doc] /\ IndexShape /\ AssetsInv
  BY DEF IndexKeeps, IndexShape
<1>3. calls[r].left \subseteq Docs
  BY <1>2 DEF Call
<1>4. PICK d \in calls[r].left :
        IndexedAtOnce(d, docs[d]) /\ Go(r, Indexing(calls[r].left \ {d}))
  BY DEF IndexPageById
<1>5. PICK doc \in Doc : doc = docs[d]
  BY <1>2, <1>3, <1>4
<1>6. /\ CurrentNow(d)'
      /\ \A e \in Docs : e # d =>
           /\ rows'[e] = rows[e]
           /\ \A a \in Assets : <<e, a>> \in refs' <=> <<e, a>> \in refs
      /\ refs' \subseteq Docs \X Assets
      /\ rows' \in [Docs -> Row]
      /\ \A e \in Docs, a \in Assets :
           <<e, a>> \in refs' => <<e, a>> \in refs \/ assets[a].state # "absent"
  BY <1>1, <1>2, <1>3, <1>4, <1>5, AtOnce
<1>7. calls[r].left \ {d} \in SUBSET Docs
  BY <1>3
<1>8. /\ Moved(r) /\ calls'[r] = Indexing(calls[r].left \ {d})
      /\ calls'[r].at = "next" /\ "next" \notin PageStages
      /\ calls'[r].left = calls[r].left \ {d}
  BY <1>1, <1>4, <1>7, IndexingIsCall, GoMoves
<1>9. \A e \in Docs : e # d /\ Owes(calls[r], e) => Owes(calls[r], e)'
  BY <1>1, <1>8, OwesNext
<1>10. /\ d \in Docs /\ calls'[r].at \notin {"unlink", "link"} /\ calls'[r].at \notin PageStages
       /\ calls'[r].at \in {"waiting", "next"} \cup PageStages
       /\ \A a \in Assets : <<d, a>> \in refs' => <<d, a>> \in refs \/ assets[a].state # "absent"
  BY <1>3, <1>4, <1>6, <1>8
<1> QED
  BY <1>1, <1>6, <1>8, <1>9, <1>10, StageKeeps

LEMMA ReturnKeeps ==
  ASSUME IndexConstants, IndexKeeps, NEW r \in Requests, Return(r)
  PROVE  IndexKeeps'
<1>1. /\ calls[r].at = "next" /\ calls[r].left = {} /\ Done(r)
      /\ UNCHANGED <<indexMode, docs, comments, assets, stored, refs, rows, returned>>
  BY DEF Return
<1>2. calls[r] # Waiting
  BY <1>1, Somewhere
<1>3. Moved(r) /\ calls'[r] = Waiting
  BY <1>1, <1>2, DoneMoves
<1>4. calls'[r].at = "waiting" /\ "waiting" \notin PageStages
  BY <1>3 DEF Waiting, PageStages
<1>5. \A d \in Docs : Undisturbed(d) /\ ~ Owes(calls[r], d)
  BY <1>1, NothingDisturbed, OwesNext
<1>6. /\ docs' \in [Docs -> Doc] /\ comments' \in [Comments -> CommentRow]
      /\ rows' \in [Docs -> Row] /\ refs' \subseteq Docs \X Assets
  BY <1>1 DEF IndexKeeps, IndexShape
<1> QED
  BY <1>1, <1>3, <1>4, <1>5, <1>6, IndexerKeeps

\* The pages with references to an asset are the ones that its change made stale.
LEMMA RefreshPagesForAssetKeeps ==
  ASSUME IndexConstants, IndexKeeps, NEW r \in Requests, RefreshPagesForAsset(r)
  PROVE  IndexKeeps'
<1> DEFINE left == {d \in Docs : <<d, calls[r].asset>> \in refs}
<1>1. /\ calls[r].at = "affected" /\ Go(r, Indexing(left))
      /\ UNCHANGED <<indexMode, docs, comments, assets, stored, refs, rows, returned>>
  BY DEF RefreshPagesForAsset
<1>2. calls[r] # Waiting
  BY <1>1, Somewhere
<1>3. /\ Moved(r) /\ calls'[r].at = "next" /\ calls'[r].left = left /\ "next" \notin PageStages
  <2>1. left \in SUBSET Docs
    OBVIOUS
  <2> HIDE DEF left
  <2> QED
    BY <1>1, <1>2, <2>1, IndexingIsCall, GoMoves
<1>4. ASSUME NEW d \in Docs
      PROVE  Owes(calls[r], d)' \/ (Undisturbed(d) /\ ~ Owes(calls[r], d))
  <2>1. Undisturbed(d)
    BY <1>1, NothingDisturbed
  <2>2. Owes(calls[r], d) => <<d, calls[r].asset>> \in refs
    BY <1>1 DEF Owes, PageStages
  <2>3. d \in calls'[r].left => Owes(calls[r], d)'
    BY <1>3, OwesNext
  <2> QED
    BY <1>3, <2>1, <2>2, <2>3
<1>5. /\ docs' \in [Docs -> Doc] /\ comments' \in [Comments -> CommentRow]
      /\ rows' \in [Docs -> Row] /\ refs' \subseteq Docs \X Assets
  BY <1>1 DEF IndexKeeps, IndexShape
<1>6. /\ calls'[r].at \in {"waiting", "next"} \cup PageStages
      /\ calls'[r].at \notin {"unlink", "link"} /\ calls'[r].at \notin PageStages
      /\ calls[r].at \notin {"gone", "record", "attach", "refer"}
  BY <1>1, <1>3
<1> HIDE DEF left
<1> QED
  BY <1>1, <1>3, <1>4, <1>5, <1>6, IndexerKeeps

\* rebuild makes every entry current, or takes on what is not.
LEMMA RebuildIndexKeeps ==
  ASSUME IndexConstants, InOrder, IndexKeeps, NEW r \in Requests, Rebuild(r)
  PROVE  IndexKeeps'
<1> DEFINE active == {d \in Docs : IsActive(d)}
<1>1. UNCHANGED <<indexMode, docs, comments, assets, stored, returned>> /\ active \in SUBSET Docs
  BY DEF Rebuild
<1>2. /\ IndexShape /\ docs' \in [Docs -> Doc] /\ comments' \in [Comments -> CommentRow]
      /\ rows \in [Docs -> Row] /\ refs \subseteq Docs \X Assets /\ NoRow \in Row
  BY <1>1 DEF IndexKeeps, IndexShape, Row
<1>3. \A d \in Docs : IsActive(d)' <=> d \in active
  BY <1>1 DEF IsActive
<1>4. CASE Postgres
  <2>1. rows' = [d \in Docs |-> NoRow] /\ refs' = refs /\ Begin(r, Indexing(active))
    BY <1>4 DEF Rebuild
  <2> HIDE DEF active
  <2>2. /\ Moved(r) /\ calls'[r].at = "next" /\ calls'[r].left = active /\ "next" \notin PageStages
    BY <1>1, <2>1, IndexingIsCall, BeginMoves
  <2>3. rows' \in [Docs -> Row] /\ refs' \subseteq Docs \X Assets
    BY <1>2, <2>1
  <2>4. ASSUME NEW d \in Docs
        PROVE  Owes(calls[r], d)' \/ CurrentNow(d)'
    <3>1. CASE d \in active
      BY <2>2, <3>1, OwesNext
    <3>2. CASE d \notin active
      BY <1>3, <2>1, <3>2 DEF CurrentNow, EntryNow
    <3> QED
      BY <3>1, <3>2
  <2>5. calls[r].at = "waiting"
    BY <2>1 DEF Begin, Waiting
  <2>6. /\ calls'[r].at \in {"waiting", "next"} \cup PageStages
        /\ calls'[r].at \notin {"unlink", "link"} /\ calls'[r].at \notin PageStages
        /\ calls[r].at \notin {"gone", "record", "comment"}
    BY <2>2, <2>5
  <2> QED
    BY <1>1, <1>2, <2>1, <2>2, <2>3, <2>4, <2>6, IndexerKeeps
<1>5. CASE ~ Postgres
  <2>1. /\ refs' = (refs \ (active \X Assets))
                   \cup UNION {{d} \X Referenced(docs[d].uses) : d \in active}
        /\ rows' = [d \in Docs |->
                      IF d \in active
                      THEN EntryOf(docs[d].uses, CommentTextForPage(d), AssetTextForPage(d, refs'))
                      ELSE NoRow]
        /\ Begin(r, Indexing({}))
    BY <1>5 DEF Rebuild
  <2> HIDE DEF active
  <2>2. /\ Moved(r) /\ calls'[r].at = "next" /\ calls'[r].left = {} /\ "next" \notin PageStages
    BY <1>1, <2>1, IndexingIsCall, BeginMoves
  <2>3. \A d \in Docs : Referenced(docs[d].uses) \subseteq Assets
    BY <1>2, TextTypes DEF Referenced
  <2>4. /\ refs' \subseteq Docs \X Assets
        /\ \A d \in Docs, a \in Assets : <<d, a>> \in refs' <=>
             IF d \in active THEN a \in Referenced(docs[d].uses) ELSE <<d, a>> \in refs
    BY <1>1, <1>2, <2>1, <2>3
  <2>5. rows' \in [Docs -> Row]
    <3> SUFFICES ASSUME NEW d \in Docs, d \in active
                 PROVE  EntryOf(docs[d].uses, CommentTextForPage(d), AssetTextForPage(d, refs'))
                          \in Row
      BY <1>2, <2>1
    <3> QED
      BY <1>2, TextTypes, NamesType DEF EntryOf, Row
  <2>6. ASSUME NEW d \in Docs
        PROVE  CurrentNow(d)'
    <3>1. /\ Referenced(docs[d].uses)' = Referenced(docs[d].uses)
          /\ CommentTextForPage(d)' = CommentTextForPage(d)
          /\ AssetTextForPage(d, refs)' = AssetTextForPage(d, refs')
      BY <1>1 DEF Referenced, CommentTextForPage, AssetTextForPage, Exists
    <3>2. rows'[d] = EntryNow(d)'
      BY <1>1, <1>3, <2>1, <3>1 DEF EntryNow
    <3> QED
      BY <1>3, <2>4, <3>1, <3>2 DEF CurrentNow
  <2>7. calls[r].at = "waiting"
    BY <2>1 DEF Begin, Waiting
  <2>8. /\ calls'[r].at \in {"waiting", "next"} \cup PageStages
        /\ calls'[r].at \notin {"unlink", "link"} /\ calls'[r].at \notin PageStages
        /\ calls[r].at \notin {"gone", "record", "comment"}
    BY <2>2, <2>7
  <2>9. \A d \in Docs, a \in Assets :
          <<d, a>> \in refs' => <<d, a>> \in refs \/ assets[a].state # "absent"
    BY <2>4 DEF Referenced
  <2> QED
    BY <1>1, <1>2, <2>2, <2>4, <2>5, <2>6, <2>8, <2>9, IndexerKeeps
<1> QED
  BY <1>4, <1>5

-----------------------------------------------------------------------------
\* Comments: the page of the comment is owed from then on.
LEMMA CommentedKeeps ==
  ASSUME IndexConstants, IndexKeeps, NEW r \in Requests, calls[r].at \in CommentStages,
         UNCHANGED <<indexMode, docs, assets, stored, refs, rows, returned>>,
         Go(r, Indexing({calls[r].page})),
         NEW comment \in CommentRow,
         comments' = [comments EXCEPT ![calls[r].comment] = comment],
         comment = Deleted \/ comment.page = calls[r].page,
         calls[r].at # "comment" => comments[calls[r].comment].page = calls[r].page
  PROVE  IndexKeeps'
<1>1. /\ calls[r] \in Call /\ calls[r].comment \in Comments /\ calls[r].page \in Docs
      /\ calls[r] # Waiting
  BY Somewhere DEF IndexKeeps, IndexShape, CallsHaveTheirs, HasItsOwn, CommentStages
<1>2. /\ {calls[r].page} \in SUBSET Docs /\ comments \in [Comments -> CommentRow]
      /\ docs' \in [Docs -> Doc] /\ comments' \in [Comments -> CommentRow]
      /\ rows' \in [Docs -> Row] /\ refs' \subseteq Docs \X Assets
  BY <1>1 DEF IndexKeeps, IndexShape
<1>3. /\ Moved(r) /\ calls'[r].at = "next" /\ calls'[r].left = {calls[r].page}
      /\ "next" \notin PageStages
  BY <1>1, <1>2, IndexingIsCall, GoMoves
<1>4. calls[r].at = "comment" => comments[calls[r].comment] = NoComment
  BY DEF IndexKeeps, CommentsInv
<1>5. \A c \in Comments :
        \/ comments'[c] = comments[c]
        \/ /\ c = calls[r].comment /\ comments'[c] = comment
  BY <1>1, <1>2
<1>6. ASSUME NEW d \in Docs
      PROVE  Owes(calls[r], d)' \/ (Undisturbed(d) /\ ~ Owes(calls[r], d))
  <2>1. CASE d = calls[r].page
    BY <1>3, <2>1, OwesNext
  <2>2. CASE d # calls[r].page
    <3>1. NoComment.page # d /\ Deleted.page # d
      BY DEF NoComment, Deleted, IndexConstants
    <3>2. \A c \in Comments :
            \/ comments'[c] = comments[c]
            \/ comments[c].page # d /\ comments'[c].page # d
      BY <1>4, <1>5, <2>2, <3>1
    <3>3. CommentTextForPage(d)' = CommentTextForPage(d)
      BY <3>2, CommentsOf
    <3>4. ~ Owes(calls[r], d)
      BY DEF Owes, PageStages, CommentStages
    <3> QED
      BY <3>3, <3>4 DEF Undisturbed, Referenced
  <2> QED
    BY <2>1, <2>2
<1>7. /\ calls'[r].at \in {"waiting", "next"} \cup PageStages
      /\ calls'[r].at \notin {"unlink", "link"} /\ calls'[r].at \notin PageStages
      /\ calls[r].at \notin {"gone", "record", "attach", "refer"}
  BY <1>3 DEF CommentStages
<1>8. \A c \in Comments :
        \/ comments'[c] = comments[c]
        \/ calls[r].at = "comment" /\ calls[r].comment = c
        \/ /\ comments[c].page \in Docs
           /\ comments'[c] = Deleted \/ comments'[c].page = comments[c].page
  BY <1>1, <1>5
<1> QED
  BY <1>2, <1>3, <1>6, <1>7, <1>8, IndexerKeeps

LEMMA InsertCommentKeeps ==
  ASSUME IndexConstants, IndexKeeps, NEW r \in Requests, InsertComment(r)
  PROVE  IndexKeeps'
<1>1. /\ calls[r].at = "comment" /\ calls[r].at \in CommentStages
      /\ comments' = [comments EXCEPT ![calls[r].comment] = [page |-> calls[r].page, body |-> 0]]
      /\ Go(r, Indexing({calls[r].page}))
      /\ UNCHANGED <<indexMode, docs, assets, stored, refs, rows, returned>>
  BY DEF InsertComment, CommentStages
<1>2. calls[r].page \in Docs
  BY <1>1 DEF IndexKeeps, CallsHaveTheirs, HasItsOwn
<1>3. [page |-> calls[r].page, body |-> 0] \in CommentRow
  BY <1>2 DEF CommentRow
<1> QED
  BY <1>1, <1>3, CommentedKeeps

LEMMA ChangeCommentKeeps ==
  ASSUME IndexConstants, IndexKeeps, NEW r \in Requests, ChangeComment(r)
  PROVE  IndexKeeps'
<1>1. /\ calls[r].at \in {"reword", "uncomment"} /\ calls[r].at \in CommentStages
      /\ calls[r].at # "waiting"
      /\ UNCHANGED <<indexMode, docs, assets, stored, refs, rows, returned>>
  BY DEF ChangeComment, CommentStages
<1>2. /\ calls[r] # Waiting /\ calls[r].comment \in Comments /\ calls[r].page \in Docs
      /\ comments \in [Comments -> CommentRow]
  BY <1>1, Somewhere DEF IndexKeeps, IndexShape, CallsHaveTheirs, HasItsOwn
<1>3. CASE comments[calls[r].comment] = Deleted
  <2>1. Done(r) /\ comments' = comments
    BY <1>3 DEF ChangeComment
  <2>2. Moved(r) /\ calls'[r] = Waiting
    BY <1>1, <1>2, <2>1, DoneMoves
  <2>3. calls'[r].at = "waiting" /\ "waiting" \notin PageStages
    BY <2>2 DEF Waiting, PageStages
  <2>4. \A d \in Docs : Undisturbed(d) /\ ~ Owes(calls[r], d)
    BY <1>1, <2>1, NothingDisturbed DEF Owes, PageStages
  <2>5. /\ docs' \in [Docs -> Doc] /\ comments' \in [Comments -> CommentRow]
        /\ rows' \in [Docs -> Row] /\ refs' \subseteq Docs \X Assets
    BY <1>1, <2>1 DEF IndexKeeps, IndexShape
  <2>6. /\ calls[r].at \notin {"gone", "record", "attach", "refer"}
        /\ calls'[r].at \in {"waiting", "next"} \cup PageStages
        /\ calls'[r].at \notin {"unlink", "link"}
    BY <1>1, <2>3
  <2> QED
    BY <1>1, <2>1, <2>2, <2>3, <2>4, <2>5, <2>6, IndexerKeeps
<1>4. CASE comments[calls[r].comment] # Deleted
  <2> DEFINE comment == IF calls[r].at = "uncomment" THEN Deleted
                        ELSE [comments[calls[r].comment] EXCEPT !.body = 1]
  <2>1. /\ comments' = [comments EXCEPT ![calls[r].comment] = comment]
        /\ Go(r, Indexing({calls[r].page}))
    BY <1>2, <1>4 DEF ChangeComment
  <2>2. comments[calls[r].comment].page = calls[r].page
    BY <1>1, <1>4 DEF IndexKeeps, CommentsInv
  <2>3. comments[calls[r].comment] \in [page : Docs, body : {0, 1}]
    BY <1>2, <1>4, <2>2 DEF CommentRow, NoComment, IndexConstants
  <2>4. comment \in CommentRow /\ (comment = Deleted \/ comment.page = calls[r].page)
    BY <2>2, <2>3 DEF CommentRow
  <2> HIDE DEF comment
  <2> QED
    BY <1>1, <2>1, <2>2, <2>4, CommentedKeeps
<1> QED
  BY <1>3, <1>4

\* A step that leaves pages, comments and entries alone.
LEMMA PartsKeep ==
  ASSUME IndexConstants, IndexKeeps, NEW r \in Requests, Moved(r),
         UNCHANGED <<docs, comments, rows>>,
         assets' \in [Assets -> Asset], stored' \subseteq Assets, returned' \subseteq Assets,
         returned \subseteq returned', refs' \subseteq Docs \X Assets,
         calls'[r].at \notin PageStages,
         CommentsInv', AssetsInv', BytesInv',
         "stop" \notin indexMode => \A d \in Docs :
           \/ Owes(calls[r], d)'
           \/ /\ Undisturbed(d) /\ ~ Owes(calls[r], d)
              /\ \A a \in Assets :
                   Attaches(calls[r], d, a) /\ IsActive(d) /\ a \in Referenced(docs[d].uses) =>
                     Attaches(calls[r], d, a)'
  PROVE  IndexKeeps'
<1>1. FollowInv'
  <2>1. CASE "stop" \in indexMode
    BY <2>1 DEF Moved, FollowInv
  <2>2. CASE "stop" \notin indexMode
    BY <2>2, FollowStep
  <2> QED
    BY <2>1, <2>2
<1>2. IndexShape'
  BY MovedOthers DEF IndexKeeps, IndexShape, Moved
<1> QED
  BY <1>1, <1>2, MovedOthers DEF IndexKeeps

\* A request that goes on without having changed anything.
LEMMA MovedKeeps ==
  ASSUME IndexConstants, IndexKeeps, NEW r \in Requests, Moved(r),
         UNCHANGED <<docs, comments, assets, stored, refs, rows, returned>>,
         calls'[r].at \notin PageStages,
         CommentsInv', AssetsInv', BytesInv',
         "stop" \notin indexMode => \A d \in Docs : ~ Owes(calls[r], d),
         "stop" \notin indexMode => \A d \in Docs, a \in Assets :
           Attaches(calls[r], d, a) /\ IsActive(d) /\ a \in Referenced(docs[d].uses) =>
             Attaches(calls[r], d, a)'
  PROVE  IndexKeeps'
<1>1. \A d \in Docs : Undisturbed(d)
  BY NothingDisturbed
<1>2. /\ assets' \in [Assets -> Asset] /\ stored' \subseteq Assets /\ returned' \subseteq Assets
      /\ returned \subseteq returned' /\ refs' \subseteq Docs \X Assets
  BY DEF IndexKeeps, IndexShape
<1> QED
  BY <1>1, <1>2, PartsKeep

\* A comment is taken on: it is new, and nobody else's, or still of the page it was found with.
LEMMA CommentTakenKeeps ==
  ASSUME IndexConstants, InOrder, IndexKeeps, NEW r \in Requests,
         NEW c \in Comments, NEW d \in Docs, NEW at \in CommentStages,
         Begin(r, [Waiting EXCEPT !.at = at, !.comment = c, !.page = d]),
         UNCHANGED <<indexMode, docs, comments, assets, stored, refs, rows, returned>>,
         IF at = "comment"
         THEN /\ comments[c] = NoComment
              /\ \A q \in Requests : calls[q].at = "comment" => calls[q].comment # c
         ELSE comments[c].page = d
  PROVE  IndexKeeps'
<1> DEFINE call == [Waiting EXCEPT !.at = at, !.comment = c, !.page = d]
<1>1. /\ call.at = at /\ call.comment = c /\ call.page = d /\ call.found = {}
      /\ call.left = {} /\ call \in Call
  BY WaitingIsCall DEF Waiting, Call
<1>2. at \notin PageStages /\ at \notin AssetStages /\ at # "waiting" /\ at # "next"
  BY DEF CommentStages, PageStages, AssetStages
<1>3. HasItsOwn(call)
  BY <1>1, <1>2 DEF HasItsOwn, AssetStages, PageStages
<1>4. Begin(r, call)
  OBVIOUS
<1> HIDE DEF call
<1>5. Moved(r) /\ calls'[r] = call
  BY <1>1, <1>2, <1>3, <1>4, BeginMoves
<1>6. calls[r].at = "waiting"
  BY <1>4 DEF Begin, Waiting
<1>7. CommentsInv'
  <2>1. /\ \A q \in Requests : q # r => calls'[q] = calls[q]
        /\ CommentsInv
    BY <1>5, MovedOthers DEF IndexKeeps
  <2>2. ASSUME NEW q \in Requests, calls'[q].at = "comment"
        PROVE  /\ comments'[calls'[q].comment] = NoComment
               /\ \A s \in Requests :
                    calls'[s].at = "comment" /\ calls'[s].comment = calls'[q].comment => s = q
    <3>1. CASE q = r
      BY <1>1, <1>5, <2>1, <2>2, <3>1
    <3>2. CASE q # r
      BY <1>1, <1>5, <2>1, <2>2, <3>2 DEF CommentsInv
    <3> QED
      BY <3>1, <3>2
  <2>3. ASSUME NEW q \in Requests, calls'[q].at \in {"reword", "uncomment"}
        PROVE  \/ comments'[calls'[q].comment] = Deleted
               \/ comments'[calls'[q].comment].page = calls'[q].page
    <3>1. CASE q = r
      BY <1>1, <1>5, <2>1, <2>3, <3>1
    <3>2. CASE q # r
      BY <2>1, <2>3, <3>2 DEF CommentsInv
    <3> QED
      BY <3>1, <3>2
  <2> QED
    BY <2>2, <2>3 DEF CommentsInv
<1>8. /\ calls'[r].at \notin {"unlink", "link"} /\ calls'[r].at # "record"
      /\ calls'[r].at \notin {"erase", "gone", "record"} /\ calls'[r].at \notin AssetStages
      /\ calls'[r].at \notin PageStages
  BY <1>1, <1>2, <1>5 DEF AssetStages, PageStages
<1>9. AssetsInv'
  BY <1>5, <1>8, AssetsStay
<1>10. BytesInv'
  BY <1>5, <1>6, <1>8, OneEndsStays, BytesStay
<1>11. \A e \in Docs : ~ Owes(calls[r], e) /\ \A a \in Assets : ~ Attaches(calls[r], e, a)
  BY <1>6 DEF Owes, Attaches, PageStages
<1> QED
  BY <1>5, <1>7, <1>8, <1>9, <1>10, <1>11, MovedKeeps

LEMMA FindPageToCommentKeeps ==
  ASSUME IndexConstants, InOrder, IndexKeeps, NEW r \in Requests,
         NEW c \in Comments, NEW d \in Docs, FindPageToComment(r, c, d)
  PROVE  IndexKeeps'
<1>1. "comment" \in CommentStages
  BY DEF CommentStages
<1> QED
  BY <1>1, CommentTakenKeeps DEF FindPageToComment

LEMMA FindCommentKeeps ==
  ASSUME IndexConstants, InOrder, IndexKeeps, NEW r \in Requests,
         NEW c \in Comments, NEW at \in {"reword", "uncomment"}, FindComment(r, c, at)
  PROVE  IndexKeeps'
<1>1. at \in CommentStages /\ at # "comment"
  BY DEF CommentStages
<1>2. PICK d \in Docs : d = comments[c].page
  BY DEF FindComment
<1>3. /\ Begin(r, [Waiting EXCEPT !.at = at, !.comment = c, !.page = d])
      /\ UNCHANGED <<indexMode, docs, comments, assets, stored, refs, rows, returned>>
  BY <1>2 DEF FindComment
<1> QED
  BY <1>1, <1>2, <1>3, CommentTakenKeeps

-----------------------------------------------------------------------------
\* Assets.  A request goes on with its asset.
LEMMA AssetMoves ==
  ASSUME IndexKeeps, NEW r \in Requests, calls[r].at \in AssetStages,
         UNCHANGED indexMode, NEW call \in Call, Go(r, call),
         call.at \in AssetStages \ {"record", "find"},
         call.asset = calls[r].asset, call.op = calls[r].op,
         call.at \in {"attach", "refer"} => call.op = "upload",
         call.at = "change" => call.op \in {"update", "remove", "restore"},
         call.at \in {"erase", "gone"} => call.op = "purge"
  PROVE  /\ Moved(r) /\ calls'[r] = call /\ calls[r].asset \in Assets
         /\ calls'[r].at \notin PageStages /\ calls'[r].at \notin CommentStages
         /\ calls'[r].at # "record" /\ calls'[r].at \notin {"unlink", "link"}
<1>1. calls[r].asset \in Assets /\ calls[r].at # "waiting"
  BY DEF IndexKeeps, CallsHaveTheirs, HasItsOwn, AssetStages
<1>2. /\ call.at \notin PageStages /\ call.at \notin CommentStages /\ call.at \notin {"unlink", "link"}
      /\ call.at # "waiting" /\ call.at # "next" /\ call.at # "record"
  BY DEF AssetStages, PageStages, CommentStages
<1>3. HasItsOwn(call)
  BY <1>1, <1>2 DEF HasItsOwn, PageStages, CommentStages
<1>4. calls[r] # Waiting
  BY <1>1, Somewhere
<1>5. Moved(r) /\ calls'[r] = call
  BY <1>2, <1>3, <1>4, GoMoves
<1> QED
  BY <1>1, <1>2, <1>5

\* What a request with an asset has.
LEMMA AtAsset ==
  ASSUME IndexKeeps, NEW r \in Requests, calls[r].at \in AssetStages
  PROVE  /\ calls[r] \in Call /\ calls[r].asset \in Assets /\ HasItsOwn(calls[r])
         /\ calls[r] # Waiting /\ calls[r].left \subseteq Docs
         /\ assets \in [Assets -> Asset]
         /\ calls[r].at # "record" => assets[calls[r].asset].state # "absent"
         /\ \A d \in Docs : Owes(calls[r], d) => calls[r].at = "affected"
<1>1. /\ calls[r] \in Call /\ calls[r].asset \in Assets /\ HasItsOwn(calls[r])
      /\ assets \in [Assets -> Asset]
  BY DEF IndexKeeps, IndexShape, CallsHaveTheirs, HasItsOwn
<1>2. calls[r] # Waiting
  BY Somewhere DEF AssetStages
<1>3. calls[r].left \subseteq Docs
  BY <1>1 DEF Call
<1>4. calls[r].at # "record" => assets[calls[r].asset].state # "absent"
  BY DEF IndexKeeps, AssetsInv
<1>5. \A d \in Docs : Owes(calls[r], d) => calls[r].at = "affected"
  BY DEF Owes, AssetStages, PageStages
<1> QED
  BY <1>1, <1>2, <1>3, <1>4, <1>5

LEMMA AttachExistingPagesKeeps ==
  ASSUME IndexConstants, IndexKeeps, NEW r \in Requests, AttachExistingPages(r)
  PROVE  IndexKeeps'
<1> DEFINE left == {d \in Docs : IsActive(d) /\ calls[r].asset \in docs[d].uses}
           call == [calls[r] EXCEPT !.at = "refer", !.left = left]
<1>1. /\ calls[r].at = "attach" /\ calls[r].at \in AssetStages /\ Go(r, call)
      /\ UNCHANGED <<indexMode, docs, comments, assets, stored, refs, rows, returned>>
  BY DEF AttachExistingPages, AssetStages
<1>2. /\ calls[r] \in Call /\ HasItsOwn(calls[r])
      /\ assets[calls[r].asset].state # "absent"
  BY <1>1, AtAsset
<1>3. /\ call \in Call /\ call.at = "refer" /\ call.left = left /\ call.asset = calls[r].asset
      /\ call.op = calls[r].op /\ call.found = calls[r].found
  BY <1>2 DEF Call, AssetStages
<1>4. call.op = "upload" /\ call.at \in AssetStages \ {"record", "find"}
  BY <1>1, <1>2, <1>3 DEF HasItsOwn, AssetStages
<1>5. /\ Moved(r) /\ calls'[r] = call /\ calls[r].asset \in Assets
      /\ calls'[r].at \notin PageStages /\ calls'[r].at \notin CommentStages
      /\ calls'[r].at # "record" /\ calls'[r].at \notin {"unlink", "link"}
  BY <1>1, <1>3, <1>4, AssetMoves
<1>6. CommentsInv'
  BY <1>1, <1>5, CommentsStay
<1>7. AssetsInv'
  BY <1>1, <1>2, <1>3, <1>5, AssetsStay
<1>8. BytesInv'
  <2>1. /\ calls'[r].at \notin {"erase", "gone", "record"}
        /\ calls'[r].op \notin {"restore", "purge"}
        /\ calls[r].at \notin {"gone", "record"}
    BY <1>1, <1>3, <1>4, <1>5
  <2> QED
    BY <1>1, <1>5, <2>1, OneEndsStays, BytesStay
<1>9. \A d \in Docs : ~ Owes(calls[r], d)
  BY <1>1, AtAsset
<1>10. \A d \in Docs, a \in Assets :
         Attaches(calls[r], d, a) /\ IsActive(d) /\ a \in Referenced(docs[d].uses) =>
           Attaches(calls[r], d, a)'
  BY <1>3, <1>5 DEF Attaches, Referenced
<1> QED
  BY <1>1, <1>5, <1>6, <1>7, <1>8, <1>9, <1>10, MovedKeeps

LEMMA InsertReferencesKeeps ==
  ASSUME IndexConstants, IndexKeeps, NEW r \in Requests, InsertReferences(r)
  PROVE  IndexKeeps'
<1> DEFINE call == [calls[r] EXCEPT !.at = "affected"]
<1>1. /\ calls[r].at = "refer" /\ calls[r].at \in AssetStages /\ Go(r, call)
      /\ refs' = refs \cup (calls[r].left \X {calls[r].asset})
      /\ UNCHANGED <<indexMode, docs, comments, assets, stored, rows, returned>>
  BY DEF InsertReferences, AssetStages
<1>2. /\ calls[r] \in Call /\ HasItsOwn(calls[r]) /\ calls[r].left \subseteq Docs
      /\ assets[calls[r].asset].state # "absent"
  BY <1>1, AtAsset
<1>3. /\ call \in Call /\ call.at = "affected" /\ call.asset = calls[r].asset
      /\ call.op = calls[r].op
  BY <1>2 DEF Call, AssetStages
<1>4. call.op = "upload" /\ call.at \in AssetStages \ {"record", "find"}
  BY <1>1, <1>2, <1>3 DEF HasItsOwn, AssetStages
<1>5. /\ Moved(r) /\ calls'[r] = call /\ calls[r].asset \in Assets
      /\ calls'[r].at \notin PageStages /\ calls'[r].at \notin CommentStages
      /\ calls'[r].at # "record" /\ calls'[r].at \notin {"unlink", "link"}
  BY <1>1, <1>3, <1>4, AssetMoves
<1>6. CommentsInv'
  BY <1>1, <1>5, CommentsStay
<1>7. /\ refs' \subseteq Docs \X Assets
      /\ \A d \in Docs, a \in Assets : <<d, a>> \in refs' <=>
           <<d, a>> \in refs \/ (d \in calls[r].left /\ a = calls[r].asset)
  BY <1>1, <1>2, <1>5 DEF IndexKeeps, IndexShape
<1>8. AssetsInv'
  BY <1>1, <1>2, <1>3, <1>5, <1>7, AssetsStay
<1>9. BytesInv'
  <2>1. /\ calls'[r].at \notin {"erase", "gone", "record"}
        /\ calls'[r].op \notin {"restore", "purge"}
        /\ calls[r].at \notin {"gone", "record"}
    BY <1>1, <1>3, <1>4, <1>5
  <2> QED
    BY <1>1, <1>5, <2>1, OneEndsStays, BytesStay
<1>10. ASSUME NEW d \in Docs
       PROVE  \/ Owes(calls[r], d)'
              \/ /\ Undisturbed(d) /\ ~ Owes(calls[r], d)
                 /\ \A a \in Assets : ~ Attaches(calls[r], d, a)
  <2>1. CASE d \in calls[r].left
    BY <1>3, <1>5, <1>7, <2>1 DEF Owes
  <2>2. CASE d \notin calls[r].left
    <3>1. Undisturbed(d)
      BY <1>1, <1>7, <2>2 DEF Undisturbed, CommentTextForPage, Referenced
    <3>2. ~ Owes(calls[r], d) /\ \A a \in Assets : ~ Attaches(calls[r], d, a)
      BY <1>1, <2>2, AtAsset DEF Attaches
    <3> QED
      BY <3>1, <3>2
  <2> QED
    BY <2>1, <2>2
<1>11. /\ assets' \in [Assets -> Asset] /\ stored' \subseteq Assets /\ returned' \subseteq Assets
       /\ returned \subseteq returned'
  BY <1>1 DEF IndexKeeps, IndexShape
<1> QED
  BY <1>1, <1>5, <1>6, <1>7, <1>8, <1>9, <1>10, <1>11, PartsKeep

\* An asset that is there is taken on.
LEMMA TakenMoves ==
  ASSUME IndexConstants, InOrder, IndexKeeps, NEW r \in Requests, NEW call \in Call,
         call.at \in {"record", "find", "change", "erase"}, call.asset \in Assets,
         call.at = "record" => call.op = "upload", call.at = "find" => call.op = "remove",
         call.at = "change" => call.op \in {"update", "remove", "restore"},
         call.at = "erase" => call.op = "purge",
         Begin(r, call), UNCHANGED indexMode
  PROVE  /\ Moved(r) /\ calls'[r] = call
         /\ calls[r].at = "waiting" /\ call.at \in AssetStages
         /\ call.at \notin PageStages /\ call.at \notin CommentStages
         /\ \A d \in Docs : ~ Owes(calls[r], d)
         /\ \A d \in Docs, x \in Assets : ~ Attaches(calls[r], d, x)
<1>1. /\ call.at \in AssetStages /\ call.at \notin PageStages \cup CommentStages
      /\ call.at # "waiting" /\ call.at # "next"
  BY DEF AssetStages, PageStages, CommentStages
<1>2. HasItsOwn(call)
  BY <1>1 DEF HasItsOwn, PageStages, CommentStages
<1>3. Moved(r) /\ calls'[r] = call
  BY <1>1, <1>2, BeginMoves
<1>4. calls[r].at = "waiting"
  BY DEF Begin, Waiting
<1>5. /\ \A d \in Docs : ~ Owes(calls[r], d)
      /\ \A d \in Docs, x \in Assets : ~ Attaches(calls[r], d, x)
  BY <1>4 DEF Owes, Attaches, PageStages
<1> QED
  BY <1>1, <1>3, <1>4, <1>5

LEMMA RemoveOrphanKeeps ==
  ASSUME IndexConstants, InOrder, IndexKeeps, NEW r \in Requests, NEW a \in Assets,
         RemoveOrphan(r, a)
  PROVE  IndexKeeps'
<1> DEFINE call == [Waiting EXCEPT !.at = "find", !.op = "remove", !.asset = a]
<1>1. /\ assets[a].state = "active"
      /\ Begin(r, [Waiting EXCEPT !.at = "find", !.op = "remove", !.asset = a])
      /\ UNCHANGED <<indexMode, docs, comments, assets, stored, refs, rows, returned>>
  BY DEF RemoveOrphan
<1>6. /\ call \in Call /\ call.at = "find" /\ call.asset = a /\ call.op = "remove" /\ call.found = {}
  BY WaitingIsCall DEF Waiting, Call, AssetStages
<1>7. Begin(r, call) /\ UNCHANGED indexMode
  BY <1>1
<1> HIDE DEF call
<1>2. /\ Moved(r) /\ calls'[r].at = "find" /\ calls'[r].asset = a /\ calls'[r].op = "remove"
      /\ calls'[r].found = {}
      /\ calls[r].at = "waiting"
      /\ calls'[r].at \notin PageStages /\ calls'[r].at \notin CommentStages
      /\ \A d \in Docs : ~ Owes(calls[r], d)
      /\ \A d \in Docs, x \in Assets : ~ Attaches(calls[r], d, x)
  BY <1>6, <1>7, TakenMoves
<1>3. CommentsInv'
  BY <1>1, <1>2, CommentsStay
<1>4. AssetsInv'
  BY <1>1, <1>2, AssetsStay
<1>5. BytesInv'
  BY <1>1, <1>2, OneEndsStays, BytesStay
<1> QED
  BY <1>1, <1>2, <1>3, <1>4, <1>5, MovedKeeps

LEMMA FindActiveKeeps ==
  ASSUME IndexConstants, IndexKeeps, NEW r \in Requests, FindActive(r)
  PROVE  IndexKeeps'
<1> DEFINE call == [calls[r] EXCEPT !.at = "change"]
<1>1. /\ calls[r].at = "find" /\ calls[r].at \in AssetStages
      /\ UNCHANGED <<indexMode, docs, comments, assets, stored, refs, rows, returned>>
      /\ Go(r, call) \/ Done(r)
  BY DEF FindActive, AssetStages
<1>2. /\ calls[r] \in Call /\ HasItsOwn(calls[r]) /\ calls[r] # Waiting
      /\ assets[calls[r].asset].state # "absent"
      /\ \A d \in Docs : ~ Owes(calls[r], d)
  BY <1>1, AtAsset
<1>3. /\ call \in Call /\ call.at = "change" /\ call.asset = calls[r].asset
      /\ call.op = calls[r].op
  BY <1>2 DEF Call, AssetStages
<1>4. call.op = "remove" /\ call.at \in AssetStages \ {"record", "find"}
  BY <1>1, <1>2, <1>3 DEF HasItsOwn, AssetStages
<1>5. \A d \in Docs, a \in Assets : ~ Attaches(calls[r], d, a)
  BY <1>1 DEF Attaches
<1>6. CASE Go(r, call)
  <2>1. /\ Moved(r) /\ calls'[r] = call /\ calls[r].asset \in Assets
        /\ calls'[r].at \notin PageStages /\ calls'[r].at \notin CommentStages
        /\ calls'[r].at # "record" /\ calls'[r].at \notin {"unlink", "link"}
    BY <1>1, <1>3, <1>4, <1>6, AssetMoves
  <2>2. CommentsInv'
    BY <1>1, <2>1, CommentsStay
  <2>3. AssetsInv'
    BY <1>1, <1>2, <1>3, <2>1, AssetsStay
  <2>4. BytesInv'
    <3>1. /\ calls'[r].at \notin {"erase", "gone", "record"}
          /\ calls'[r].op \notin {"restore", "purge"}
          /\ calls[r].at \notin {"gone", "record"}
      BY <1>1, <1>3, <1>4, <2>1
    <3> QED
      BY <1>1, <2>1, <3>1, OneEndsStays, BytesStay
  <2> QED
    BY <1>1, <1>2, <1>5, <2>1, <2>2, <2>3, <2>4, MovedKeeps
<1>7. CASE Done(r)
  <2>1. Moved(r) /\ calls'[r] = Waiting
    BY <1>1, <1>2, <1>7, DoneMoves
  <2>2. /\ calls'[r].at = "waiting" /\ calls'[r].at \notin PageStages
        /\ calls'[r].at \notin CommentStages /\ calls'[r].at \notin AssetStages
    BY <2>1 DEF Waiting, PageStages, CommentStages, AssetStages
  <2>3. CommentsInv'
    BY <1>1, <2>1, <2>2, CommentsStay
  <2>4. AssetsInv'
    BY <1>1, <2>1, <2>2, AssetsStay
  <2>5. BytesInv'
    BY <1>1, <2>1, <2>2, OneEndsStays, BytesStay
  <2> QED
    BY <1>1, <1>2, <1>5, <2>1, <2>2, <2>3, <2>4, <2>5, MovedKeeps
<1> QED
  BY <1>1, <1>6, <1>7

LEMMA LoseKeeps ==
  ASSUME IndexConstants, IndexKeeps, NEW r \in Requests, Lose(r)
  PROVE  IndexKeeps'
<1>1. /\ "stop" \in indexMode /\ calls[r] # Waiting /\ Done(r)
      /\ UNCHANGED <<indexMode, docs, comments, assets, stored, refs, rows, returned>>
  BY DEF Lose
<1>2. Moved(r) /\ calls'[r] = Waiting
  BY <1>1, DoneMoves
<1>3. /\ calls'[r].at = "waiting" /\ calls'[r].at \notin PageStages
      /\ calls'[r].at \notin CommentStages /\ calls'[r].at \notin AssetStages
  BY <1>2 DEF Waiting, PageStages, CommentStages, AssetStages
<1>4. CommentsInv'
  BY <1>1, <1>2, <1>3, CommentsStay
<1>5. AssetsInv'
  BY <1>1, <1>2, <1>3, AssetsStay
<1>6. BytesInv'
  BY <1>1, <1>2, <1>3, OneEndsStays, BytesStay
<1> QED
  BY <1>1, <1>2, <1>3, <1>4, <1>5, <1>6, MovedKeeps

LEMMA FindAssetKeeps ==
  ASSUME IndexConstants, InOrder, IndexKeeps, NEW r \in Requests, NEW a \in Assets,
         NEW op \in DOMAIN Needs, FindAsset(r, a, op)
  PROVE  IndexKeeps'
<1> DEFINE at == IF op = "purge" THEN "erase" ELSE "change"
<1>1. /\ op \in {"update", "remove", "restore", "purge"}
      /\ at \in {"record", "find", "change", "erase"}
      /\ at = "change" => op \in {"update", "remove", "restore"}
      /\ at = "erase" => op = "purge"
      /\ at # "record" /\ at # "find" /\ at # "gone"
      /\ assets[a].state # "absent"
      /\ op = "purge" => assets[a].state = "trash"
  BY DEF Needs, FindAsset
<1>2. /\ Begin(r, [Waiting EXCEPT !.at = at, !.op = op, !.asset = a])
      /\ UNCHANGED <<indexMode, docs, comments, assets, stored, refs, rows, returned>>
      /\ "race" \notin indexMode /\ op \in {"restore", "purge"} =>
           \A other \in Requests :
             Handles(other, a) => calls[other].op \notin {"restore", "purge"}
  BY DEF FindAsset
<1> HIDE DEF at
<1> DEFINE call == [Waiting EXCEPT !.at = at, !.op = op, !.asset = a]
<1>8. /\ call \in Call /\ call.at = at /\ call.asset = a /\ call.op = op /\ call.found = {}
  BY <1>1, WaitingIsCall DEF Waiting, Call, AssetStages
<1>9. Begin(r, call) /\ UNCHANGED indexMode
  BY <1>2
<1> HIDE DEF call
<1>3. /\ Moved(r) /\ calls'[r].at = at /\ calls'[r].asset = a /\ calls'[r].op = op
      /\ calls'[r].found = {}
      /\ calls[r].at = "waiting" /\ at \in AssetStages
      /\ calls'[r].at \notin PageStages /\ calls'[r].at \notin CommentStages
      /\ \A d \in Docs : ~ Owes(calls[r], d)
      /\ \A d \in Docs, x \in Assets : ~ Attaches(calls[r], d, x)
  BY <1>1, <1>8, <1>9, TakenMoves
<1>4. CommentsInv'
  BY <1>2, <1>3, CommentsStay
<1>5. AssetsInv'
  BY <1>1, <1>2, <1>3, AssetsStay
<1>6. OneEnds'
  <2>1. /\ \A q \in Requests : q # r => calls'[q] = calls[q]
        /\ OneEnds /\ indexMode' = indexMode
    BY <1>2, <1>3, MovedOthers DEF IndexKeeps, BytesInv
  <2>2. ASSUME "race" \notin indexMode, NEW q \in Requests, q # r, calls[q].at \in AssetStages,
               calls[q].asset = a, op \in {"restore", "purge"},
               calls[q].op \in {"restore", "purge"}
        PROVE  FALSE
    <3>1. Handles(q, a)
      BY <2>2 DEF Handles, AssetStages
    <3> QED
      BY <1>2, <2>2, <3>1
  <2>3. ASSUME "race" \notin indexMode, NEW p \in Requests, NEW q \in Requests, p # q,
               calls'[p].at \in AssetStages, calls'[q].at \in AssetStages,
               calls'[p].asset = calls'[q].asset,
               calls'[p].op \in {"restore", "purge"}, calls'[q].op \in {"restore", "purge"}
        PROVE  FALSE
    <3>1. CASE p = r
      BY <1>3, <2>1, <2>2, <2>3, <3>1
    <3>2. CASE q = r
      BY <1>3, <2>1, <2>2, <2>3, <3>2
    <3>3. CASE p # r /\ q # r
      BY <2>1, <2>3, <3>3 DEF OneEnds
    <3> QED
      BY <3>1, <3>2, <3>3
  <2> QED
    BY <2>1, <2>3 DEF OneEnds
<1>7. BytesInv'
  BY <1>1, <1>2, <1>3, <1>6, BytesStay
<1> QED
  BY <1>2, <1>3, <1>4, <1>5, <1>7, MovedKeeps

LEMMA UploadKeeps ==
  ASSUME IndexConstants, InOrder, IndexKeeps, NEW r \in Requests, NEW a \in Assets,
         Upload(r, a)
  PROVE  IndexKeeps'
<1> DEFINE call == [Waiting EXCEPT !.at = "record", !.op = "upload", !.asset = a]
<1>1. /\ assets[a] = NoAsset /\ \A q \in Requests : ~ Handles(q, a)
      /\ Begin(r, [Waiting EXCEPT !.at = "record", !.op = "upload", !.asset = a])
      /\ stored' = stored \cup {a}
      /\ UNCHANGED <<indexMode, docs, comments, assets, refs, rows, returned>>
  <2>1. \A q \in Requests : q # r => ~ Handles(q, a)
    BY DEF Upload
  <2>2. ~ Handles(r, a)
    BY DEF Upload, Begin, Handles, Waiting
  <2> QED
    BY <2>1, <2>2 DEF Upload
<1>8. /\ call \in Call /\ call.at = "record" /\ call.asset = a /\ call.op = "upload" /\ call.found = {}
  BY WaitingIsCall DEF Waiting, Call, AssetStages
<1>9. Begin(r, call) /\ UNCHANGED indexMode
  BY <1>1
<1> HIDE DEF call
<1>2. /\ Moved(r) /\ calls'[r].at = "record" /\ calls'[r].asset = a
      /\ calls'[r].op = "upload" /\ calls'[r].found = {}
      /\ calls[r].at = "waiting"
      /\ calls'[r].at \notin PageStages /\ calls'[r].at \notin CommentStages
      /\ \A d \in Docs : ~ Owes(calls[r], d)
      /\ \A d \in Docs, x \in Assets : ~ Attaches(calls[r], d, x)
  BY <1>8, <1>9, TakenMoves
<1>3. /\ \A q \in Requests : q # r => calls'[q] = calls[q]
      /\ \A q \in Requests : calls[q].at \in AssetStages =>
           calls[q].asset \in Assets /\ calls[q].asset # a
  <2>1. \A q \in Requests : calls[q].at \in AssetStages => calls[q].asset \in Assets
    BY AtAsset
  <2>2. \A q \in Requests : calls[q].at \in AssetStages => calls[q].asset # a
    BY <1>1 DEF Handles, AssetStages
  <2> QED
    BY <1>2, <2>1, <2>2, MovedOthers
<1>4. CommentsInv'
  BY <1>1, <1>2, CommentsStay
<1>5. AssetsInv'
  <2>1. AssetsInv
    BY DEF IndexKeeps
  <2>2. ASSUME NEW q \in Requests, calls'[q].at \in AssetStages
        PROVE  IF calls'[q].at = "record"
               THEN /\ assets'[calls'[q].asset] = NoAsset
                    /\ \A s \in Requests : Handles(s, calls[q].asset)' => s = q
               ELSE assets'[calls'[q].asset].state # "absent"
    <3>1. CASE q = r
      <4>1. \A s \in Requests : calls'[s].at \in AssetStages /\ calls'[s].asset = a => s = r
        BY <1>2, <1>3
      <4>2. \A s \in Requests : Handles(s, calls[r].asset)' => s = r
        BY <1>2, <4>1 DEF Handles, AssetStages
      <4> QED
        BY <1>1, <1>2, <3>1, <4>2
    <3>2. CASE q # r
      <4>1. calls'[q] = calls[q] /\ calls[q].asset # a
        BY <1>3, <2>2, <3>2
      <4>2. \A s \in Requests : Handles(s, calls[q].asset)' => Handles(s, calls[q].asset)
        BY <1>2, <1>3, <4>1 DEF Handles
      <4> QED
        BY <1>1, <2>1, <2>2, <4>1, <4>2 DEF AssetsInv
    <3> QED
      BY <3>1, <3>2
  <2>3. ASSUME NEW x \in Assets, assets'[x].state = "absent"
        PROVE  /\ assets'[x] = NoAsset
               /\ \A d \in Docs : <<d, x>> \notin refs'
               /\ \A q \in Requests :
                    calls'[q].at \in {"unlink", "link"} => x \notin calls'[q].found
    BY <1>1, <1>2, <1>3, <2>1, <2>3 DEF AssetsInv
  <2> QED
    BY <2>2, <2>3 DEF AssetsInv
<1>6. BytesInv'
  <2>1. BytesInv
    BY DEF IndexKeeps
  <2>2. OneEnds'
    BY <1>2, OneEndsStays
  <2>3. ASSUME NEW q \in Requests, calls'[q].at = "record"
        PROVE  calls'[q].asset \in stored'
    BY <1>1, <1>2, <1>3, <2>1, <2>3 DEF BytesInv
  <2>4. ASSUME NEW q \in Requests, calls'[q].at \in {"erase", "gone"}
        PROVE  Purging(calls[q])'
    <3>1. q # r /\ calls'[q] = calls[q] /\ calls[q].at \in AssetStages
      BY <1>2, <1>3, <2>4 DEF AssetStages
    <3>2. Purging(calls[q]) /\ calls[q].asset # a
      BY <1>3, <2>1, <2>4, <3>1 DEF BytesInv
    <3> QED
      BY <1>1, <3>1, <3>2 DEF Purging
  <2>5. ASSUME NEW x \in Assets
        PROVE  BytesOf(x)'
    <3>1. BytesOf(x) /\ (Exists(x)' <=> Exists(x))
      BY <1>1, <2>1 DEF BytesInv, Exists
    <3>2. assets[a].state = "absent" /\ ~ Exists(a)
      BY <1>1 DEF NoAsset, Exists
    <3>3. \A q \in Requests : calls[q].at \in {"gone", "record"} => calls'[q] = calls[q]
      BY <1>2, <1>3
    <3>4. CASE x = a
      BY <1>1, <1>2, <3>1, <3>2, <3>4 DEF BytesOf
    <3>5. CASE x # a
      <4>1. (x \in stored' <=> x \in stored) /\ indexMode' = indexMode
        BY <1>1, <3>5
      <4> QED
        BY <1>1, <3>1, <3>3, <4>1 DEF BytesOf
    <3> QED
      BY <3>4, <3>5
  <2> QED
    BY <2>2, <2>3, <2>4, <2>5 DEF BytesInv
<1>7. /\ \A d \in Docs : Undisturbed(d)
      /\ assets' \in [Assets -> Asset] /\ stored' \subseteq Assets /\ returned' \subseteq Assets
      /\ returned \subseteq returned' /\ refs' \subseteq Docs \X Assets
  BY <1>1, NothingDisturbed DEF IndexKeeps, IndexShape
<1> QED
  BY <1>1, <1>2, <1>4, <1>5, <1>6, <1>7, PartsKeep

LEMMA RecordKeeps ==
  ASSUME IndexConstants, IndexKeeps, NEW r \in Requests, Record(r)
  PROVE  IndexKeeps'
<1> DEFINE call == [calls[r] EXCEPT !.at = "attach"]
           made == [state |-> "active", filename |-> 0]
<1>1. /\ calls[r].at = "record" /\ calls[r].at \in AssetStages /\ Go(r, call)
      /\ assets' = [assets EXCEPT ![calls[r].asset] = made]
      /\ UNCHANGED <<indexMode, docs, comments, stored, refs, rows, returned>>
  BY DEF Record, AssetStages
<1>2. PICK a \in Assets : a = calls[r].asset
  BY <1>1, AtAsset
<1>3. /\ calls[r] \in Call /\ HasItsOwn(calls[r]) /\ assets \in [Assets -> Asset]
      /\ \A d \in Docs : ~ Owes(calls[r], d)
  BY <1>1, AtAsset
<1>4. /\ call \in Call /\ call.at = "attach" /\ call.asset = a /\ call.op = calls[r].op
  BY <1>2, <1>3 DEF Call, AssetStages
<1>5. call.op = "upload" /\ call.at \in AssetStages \ {"record", "find"}
  BY <1>1, <1>3, <1>4 DEF HasItsOwn, AssetStages
<1>6. /\ Moved(r) /\ calls'[r] = call
      /\ calls'[r].at \notin PageStages /\ calls'[r].at \notin CommentStages
      /\ calls'[r].at # "record" /\ calls'[r].at \notin {"unlink", "link"}
  BY <1>1, <1>2, <1>4, <1>5, AssetMoves
<1>7. /\ assets' \in [Assets -> Asset] /\ assets'[a] = made
      /\ \A x \in Assets : x # a => assets'[x] = assets[x]
  BY <1>1, <1>2, <1>3 DEF Asset
<1>8. /\ assets[a] = NoAsset /\ assets[a].state = "absent"
      /\ \A q \in Requests : Handles(q, a) => q = r
      /\ \A d \in Docs : <<d, a>> \notin refs
      /\ a \in stored
  BY <1>1, <1>2 DEF IndexKeeps, AssetsInv, BytesInv, NoAsset
<1>9. CommentsInv'
  BY <1>1, <1>6, CommentsStay
<1>10. AssetsInv'
  <2>1. \A x \in Assets :
          \/ assets'[x] = assets[x]
          \/ assets'[x].state # "absent" /\ calls[r].at = "record" /\ calls[r].asset = x
    BY <1>1, <1>2, <1>7
  <2>2. assets'[calls'[r].asset].state # "absent"
    BY <1>4, <1>6, <1>7
  <2> QED
    BY <1>1, <1>6, <2>1, <2>2, AssetsStay
<1>11. BytesInv'
  <2>1. BytesInv /\ \A q \in Requests : q # r => calls'[q] = calls[q]
    BY <1>6, MovedOthers DEF IndexKeeps
  <2>2. OneEnds'
    BY <1>4, <1>5, <1>6, OneEndsStays
  <2>3. ASSUME NEW q \in Requests, calls'[q].at = "record"
        PROVE  calls'[q].asset \in stored'
    BY <1>1, <1>6, <2>1, <2>3 DEF BytesInv
  <2>4. ASSUME NEW q \in Requests, calls'[q].at \in {"erase", "gone"}
        PROVE  Purging(calls[q])'
    <3>1. q # r /\ calls'[q] = calls[q] /\ Purging(calls[q]) /\ calls[q].at \in AssetStages
      BY <1>4, <1>6, <2>1, <2>4 DEF BytesInv, AssetStages
    <3>2. calls[q].asset # a /\ calls[q].asset \in Assets
      BY <1>8, <2>4, <3>1, AtAsset DEF Handles
    <3> QED
      BY <1>1, <1>7, <3>1, <3>2 DEF Purging
  <2>5. ASSUME NEW x \in Assets
        PROVE  BytesOf(x)'
    <3>1. BytesOf(x)
      BY <2>1 DEF BytesInv
    <3>2. CASE x = a
      BY <1>1, <1>7, <1>8, <3>2 DEF BytesOf, Exists
    <3>3. CASE x # a
      <4>1. assets'[x] = assets[x] /\ (Exists(x)' <=> Exists(x))
        BY <1>7, <3>3 DEF Exists
      <4>2. \A q \in Requests : calls[q].at \in {"gone", "record"} /\ calls[q].asset = x =>
              calls'[q] = calls[q]
        BY <1>1, <1>2, <2>1, <3>3
      <4> QED
        BY <1>1, <3>1, <4>1, <4>2 DEF BytesOf
    <3> QED
      BY <3>2, <3>3
  <2> QED
    BY <2>2, <2>3, <2>4, <2>5 DEF BytesInv
<1>12. ASSUME NEW d \in Docs
       PROVE  Undisturbed(d)
  <2>1. \A x \in Assets : <<d, x>> \in refs => assets'[x] = assets[x]
    BY <1>7, <1>8
  <2>2. \A x \in Assets : x \in Referenced(docs[d].uses)' =>
          x \in Referenced(docs[d].uses) \/ Attached(d, x)'
    <3> SUFFICES ASSUME NEW x \in Assets, x \in Referenced(docs[d].uses)',
                        x \notin Referenced(docs[d].uses)
                 PROVE  Attached(d, x)'
      OBVIOUS
    <3>1. x = a
      BY <1>1, <1>7 DEF Referenced
    <3>2. calls'[r].asset = x /\ calls'[r].at = "attach"
      BY <1>4, <1>6, <3>1
    <3> QED
      BY <3>2 DEF Attached, Attaches
  <2> QED
    BY <1>1, <2>1, <2>2 DEF Undisturbed, CommentTextForPage
<1>13. \A d \in Docs, x \in Assets : ~ Attaches(calls[r], d, x)
  BY <1>1 DEF Attaches
<1>14. /\ stored' \subseteq Assets /\ returned' \subseteq Assets
       /\ returned \subseteq returned' /\ refs' \subseteq Docs \X Assets
  BY <1>1 DEF IndexKeeps, IndexShape
<1> QED
  BY <1>1, <1>3, <1>6, <1>7, <1>9, <1>10, <1>11, <1>12, <1>13, <1>14, PartsKeep

LEMMA EraseBytesKeeps ==
  ASSUME IndexConstants, IndexKeeps, NEW r \in Requests, EraseBytes(r)
  PROVE  IndexKeeps'
<1> DEFINE call == [calls[r] EXCEPT !.at = "gone"]
<1>1. /\ calls[r].at = "erase" /\ calls[r].at \in AssetStages /\ Go(r, call)
      /\ stored' = stored \ {calls[r].asset}
      /\ UNCHANGED <<indexMode, docs, comments, assets, refs, rows, returned>>
  BY DEF EraseBytes, AssetStages
<1>2. PICK a \in Assets : a = calls[r].asset
  BY <1>1, AtAsset
<1>3. /\ calls[r] \in Call /\ HasItsOwn(calls[r]) /\ assets \in [Assets -> Asset]
      /\ assets[a].state # "absent"
      /\ \A d \in Docs : ~ Owes(calls[r], d)
  BY <1>1, <1>2, AtAsset
<1>4. /\ call \in Call /\ call.at = "gone" /\ call.asset = a /\ call.op = calls[r].op
  BY <1>2, <1>3 DEF Call, AssetStages
<1>5. call.op = "purge" /\ call.at \in AssetStages \ {"record", "find"}
  BY <1>1, <1>3, <1>4 DEF HasItsOwn, AssetStages
<1>6. /\ Moved(r) /\ calls'[r] = call
      /\ calls'[r].at \notin PageStages /\ calls'[r].at \notin CommentStages
      /\ calls'[r].at # "record" /\ calls'[r].at \notin {"unlink", "link"}
  BY <1>1, <1>2, <1>4, <1>5, AssetMoves
<1>7. CommentsInv'
  BY <1>1, <1>6, CommentsStay
<1>8. AssetsInv'
  BY <1>1, <1>3, <1>4, <1>6, AssetsStay
<1>9. BytesInv'
  <2>1. BytesInv /\ Purging(calls[r]) /\ \A q \in Requests : q # r => calls'[q] = calls[q]
    BY <1>1, <1>6, MovedOthers DEF IndexKeeps, BytesInv
  <2>2. OneEnds'
    BY <1>1, <1>2, <1>4, <1>6, OneEndsStays
  <2>3. ASSUME NEW q \in Requests, calls'[q].at = "record"
        PROVE  calls'[q].asset \in stored'
    <3>1. q # r /\ calls'[q] = calls[q] /\ calls[q].at \in AssetStages
      BY <1>4, <1>6, <2>1, <2>3 DEF AssetStages
    <3>2. assets[calls[q].asset] = NoAsset
      BY <2>3, <3>1 DEF IndexKeeps, AssetsInv
    <3>3. calls[q].asset # a
      BY <1>3, <3>2 DEF NoAsset
    <3> QED
      BY <1>1, <1>2, <2>1, <2>3, <3>1, <3>3 DEF BytesInv
  <2>4. ASSUME NEW q \in Requests, calls'[q].at \in {"erase", "gone"}
        PROVE  Purging(calls[q])'
    <3>1. CASE q = r
      BY <1>1, <1>2, <1>4, <1>6, <2>1, <3>1 DEF Purging
    <3>2. CASE q # r
      BY <1>1, <2>1, <2>4, <3>2 DEF BytesInv, Purging
    <3> QED
      BY <3>1, <3>2
  <2>5. ASSUME NEW x \in Assets
        PROVE  BytesOf(x)'
    <3>1. BytesOf(x) /\ (Exists(x)' <=> Exists(x))
      BY <1>1, <2>1 DEF BytesInv, Exists
    <3>2. CASE x = a
      <4>1. assets[a].state = "active" => a \in returned /\ "race" \in indexMode
        BY <1>2, <2>1 DEF Purging
      <4>2. \E q \in Requests : calls'[q].at = "gone" /\ calls'[q].asset = a
        BY <1>4, <1>6
      <4> QED
        BY <1>1, <1>2, <3>1, <3>2, <4>1, <4>2 DEF BytesOf, Exists
    <3>3. CASE x # a
      <4>1. x \in stored' <=> x \in stored
        BY <1>1, <1>2, <3>3
      <4>2. \A q \in Requests : calls[q].at \in {"gone", "record"} => calls'[q] = calls[q]
        BY <1>1, <2>1
      <4> QED
        BY <1>1, <3>1, <4>1, <4>2 DEF BytesOf
    <3> QED
      BY <3>2, <3>3
  <2> QED
    BY <2>2, <2>3, <2>4, <2>5 DEF BytesInv
<1>10. /\ \A d \in Docs : Undisturbed(d)
       /\ \A d \in Docs, x \in Assets : ~ Attaches(calls[r], d, x)
  BY <1>1, NothingDisturbed DEF Attaches
<1>11. /\ assets' \in [Assets -> Asset] /\ stored' \subseteq Assets /\ returned' \subseteq Assets
       /\ returned \subseteq returned' /\ refs' \subseteq Docs \X Assets
  BY <1>1 DEF IndexKeeps, IndexShape
<1> QED
  BY <1>1, <1>3, <1>6, <1>7, <1>8, <1>9, <1>10, <1>11, PartsKeep

LEMMA PurgeAssetKeeps ==
  ASSUME IndexConstants, IndexKeeps, NEW r \in Requests, PurgeAsset(r)
  PROVE  IndexKeeps'
<1> DEFINE call == [calls[r] EXCEPT !.at = "affected"]
<1>1. /\ calls[r].at = "gone" /\ calls[r].at \in AssetStages
      /\ UNCHANGED <<indexMode, docs, comments, stored, refs, rows, returned>>
  BY DEF PurgeAsset, AssetStages
<1>2. PICK a \in Assets : a = calls[r].asset
  BY <1>1, AtAsset
<1>3. /\ calls[r] \in Call /\ HasItsOwn(calls[r]) /\ assets \in [Assets -> Asset]
      /\ calls[r] # Waiting
      /\ \A d \in Docs : ~ Owes(calls[r], d)
  BY <1>1, AtAsset
<1>4. /\ call \in Call /\ call.at = "affected" /\ call.asset = a /\ call.op = calls[r].op
  BY <1>2, <1>3 DEF Call, AssetStages
<1>5. calls[r].op = "purge" /\ call.at \in AssetStages \ {"record", "find"}
  BY <1>1, <1>3, <1>4 DEF HasItsOwn, AssetStages
<1>6. BytesInv /\ Purging(calls[r])
  BY <1>1 DEF IndexKeeps, BytesInv
<1>7. \A d \in Docs, x \in Assets : ~ Attaches(calls[r], d, x)
  BY <1>1 DEF Attaches
<1>8. /\ stored' \subseteq Assets /\ returned' \subseteq Assets
      /\ returned \subseteq returned' /\ refs' \subseteq Docs \X Assets
  BY <1>1 DEF IndexKeeps, IndexShape
<1>9. CASE assets[a].state # "trash"
  <2>1. Done(r) /\ UNCHANGED assets
    BY <1>2, <1>9 DEF PurgeAsset
  <2>2. Moved(r) /\ calls'[r] = Waiting
    BY <1>1, <1>3, <2>1, DoneMoves
  <2>3. /\ calls'[r].at = "waiting" /\ calls'[r].at \notin PageStages
        /\ calls'[r].at \notin CommentStages /\ calls'[r].at \notin AssetStages
    BY <2>2 DEF Waiting, PageStages, CommentStages, AssetStages
  <2>4. CommentsInv'
    BY <1>1, <2>2, <2>3, CommentsStay
  <2>5. AssetsInv'
    BY <1>1, <2>1, <2>2, <2>3, AssetsStay
  <2>6. BytesInv'
    <3>1. \A q \in Requests : q # r => calls'[q] = calls[q]
      BY <2>2, MovedOthers
    <3>2. OneEnds'
      BY <2>2, <2>3, OneEndsStays
    <3>3. ASSUME NEW q \in Requests, calls'[q].at = "record"
          PROVE  calls'[q].asset \in stored'
      BY <1>1, <1>6, <2>3, <3>1, <3>3 DEF BytesInv
    <3>4. ASSUME NEW q \in Requests, calls'[q].at \in {"erase", "gone"}
          PROVE  Purging(calls[q])'
      BY <1>1, <1>6, <2>1, <2>3, <3>1, <3>4 DEF BytesInv, Purging
    <3>5. ASSUME NEW x \in Assets
          PROVE  BytesOf(x)'
      <4>1. BytesOf(x) /\ (Exists(x)' <=> Exists(x))
        BY <1>6, <2>1 DEF BytesInv, Exists
      <4>2. assets[x].state = "trash" =>
              \A q \in Requests : calls[q].at = "gone" /\ calls[q].asset = x => calls'[q] = calls[q]
        BY <1>2, <1>9, <3>1
      <4>3. \A q \in Requests : calls[q].at = "record" => calls'[q] = calls[q]
        BY <1>1, <3>1
      <4> QED
        BY <1>1, <2>1, <4>1, <4>2, <4>3 DEF BytesOf
    <3> QED
      BY <3>2, <3>3, <3>4, <3>5 DEF BytesInv
  <2>7. assets' \in [Assets -> Asset]
    BY <1>3, <2>1
  <2> QED
    BY <1>1, <1>3, <1>7, <2>1, <2>2, <2>3, <2>4, <2>5, <2>6, MovedKeeps
<1>10. CASE assets[a].state = "trash"
  <2>1. assets' = [assets EXCEPT ![a].state = "purged"] /\ Go(r, call)
    BY <1>2, <1>10 DEF PurgeAsset
  <2>2. /\ Moved(r) /\ calls'[r] = call
        /\ calls'[r].at \notin PageStages /\ calls'[r].at \notin CommentStages
        /\ calls'[r].at # "record" /\ calls'[r].at \notin {"unlink", "link"}
    BY <1>1, <1>2, <1>4, <1>5, <2>1, AssetMoves
  <2>3. /\ assets' \in [Assets -> Asset] /\ assets'[a].state = "purged"
        /\ \A x \in Assets : x # a => assets'[x] = assets[x]
    BY <1>3, <2>1 DEF Asset
  <2>4. CommentsInv'
    BY <1>1, <2>2, CommentsStay
  <2>5. AssetsInv'
    <3>1. \A x \in Assets :
            \/ assets'[x] = assets[x]
            \/ assets'[x].state # "absent" /\ assets[x].state # "absent"
      BY <1>10, <2>3
    <3>2. assets'[calls'[r].asset].state # "absent"
      BY <1>4, <2>2, <2>3
    <3> QED
      BY <1>1, <2>2, <3>1, <3>2, AssetsStay
  <2>6. BytesInv'
    <3>1. \A q \in Requests : q # r => calls'[q] = calls[q]
      BY <2>2, MovedOthers
    <3>2. OneEnds'
      BY <1>1, <1>2, <1>4, <2>2, OneEndsStays
    <3>3. ASSUME NEW q \in Requests, calls'[q].at = "record"
          PROVE  calls'[q].asset \in stored'
      BY <1>1, <1>6, <2>2, <3>1, <3>3 DEF BytesInv
    <3>4. ASSUME NEW q \in Requests, calls'[q].at \in {"erase", "gone"}
          PROVE  Purging(calls[q])'
      <4>1. /\ q # r /\ calls'[q] = calls[q] /\ Purging(calls[q])
            /\ calls[q].at \in AssetStages /\ calls[q].at \in {"erase", "gone"}
        BY <1>4, <1>6, <2>2, <3>1, <3>4 DEF BytesInv, AssetStages
      <4>2. calls[q].asset \in Assets /\ calls[q].op = "purge"
        BY <4>1, AtAsset DEF HasItsOwn
      <4>3. calls[q].asset = a => "race" \in indexMode
        BY <1>1, <1>2, <1>5, <1>6, <4>1, <4>2 DEF BytesInv, OneEnds
      <4>4. CASE calls[q].asset = a
        BY <1>1, <1>2, <1>6, <2>3, <4>1, <4>3, <4>4 DEF Purging
      <4>5. CASE calls[q].asset # a
        BY <1>1, <2>3, <4>1, <4>2, <4>5 DEF Purging
      <4> QED
        BY <4>4, <4>5
    <3>5. ASSUME NEW x \in Assets
          PROVE  BytesOf(x)'
      <4>1. BytesOf(x)
        BY <1>6 DEF BytesInv
      <4>2. CASE x = a
        BY <1>1, <1>2, <1>6, <2>3, <4>2 DEF BytesOf, Exists, Purging
      <4>3. CASE x # a
        <5>1. assets'[x] = assets[x] /\ (Exists(x)' <=> Exists(x))
          BY <2>3, <4>3 DEF Exists
        <5>2. \A q \in Requests : calls[q].at \in {"gone", "record"} /\ calls[q].asset = x =>
                calls'[q] = calls[q]
          BY <1>2, <3>1, <4>3
        <5> QED
          BY <1>1, <4>1, <5>1, <5>2 DEF BytesOf
      <4> QED
        BY <4>2, <4>3
    <3> QED
      BY <3>2, <3>3, <3>4, <3>5 DEF BytesInv
  <2>7. ASSUME NEW d \in Docs
        PROVE  Owes(calls[r], d)' \/ Undisturbed(d)
    <3>1. CASE <<d, a>> \in refs
      BY <1>1, <1>4, <2>2, <3>1 DEF Owes
    <3>2. CASE <<d, a>> \notin refs
      <4>1. \A x \in Assets : <<d, x>> \in refs => assets'[x] = assets[x]
        BY <2>3, <3>2
      <4>2. \A x \in Assets : x \in Referenced(docs[d].uses)' => x \in Referenced(docs[d].uses)
        BY <1>1, <2>3 DEF Referenced
      <4> QED
        BY <1>1, <4>1, <4>2 DEF Undisturbed, CommentTextForPage
    <3> QED
      BY <3>1, <3>2
  <2> QED
    BY <1>1, <1>3, <1>7, <1>8, <2>2, <2>3, <2>4, <2>5, <2>6, <2>7, PartsKeep
<1> QED
  BY <1>9, <1>10

\* What a change of an asset does to its row.
LEMMA Changes ==
  ASSUME IndexKeeps, NEW r \in Requests, ChangeAsset(r), NEW a \in Assets, a = calls[r].asset
  PROVE  /\ calls[r].op \in {"update", "remove", "restore"} /\ assets[a].state # "absent"
         /\ assets' \in [Assets -> Asset]
         /\ \A x \in Assets : x # a => assets'[x] = assets[x]
         /\ assets'[a].state # "absent" /\ (Exists(a)' <=> Exists(a))
         /\ assets'[a].state = "purged" <=> assets[a].state = "purged"
         /\ calls[r].op # "restore" =>
              (assets[a].state = "trash" => assets'[a].state = "trash")
              /\ (assets'[a].state = "active" => assets[a].state = "active")
         /\ returned' = IF calls[r].op = "restore" THEN returned \cup {a} ELSE returned
<1> DEFINE op == calls[r].op
<1>1. calls[r].at = "change" /\ calls[r].at \in AssetStages /\ calls[r].at # "record"
  BY DEF ChangeAsset, AssetStages
<1>2. /\ assets \in [Assets -> Asset] /\ op \in {"update", "remove", "restore"}
      /\ assets[a].state # "absent"
  BY <1>1, AtAsset DEF HasItsOwn
<1>3. returned' = IF op = "restore" THEN returned \cup {a} ELSE returned
  BY DEF ChangeAsset
<1>4. CASE ~ Exists(a)
  <2>1. assets' = assets
    BY <1>4 DEF ChangeAsset
  <2> QED
    BY <1>2, <1>3, <1>4, <2>1 DEF Exists
<1>5. CASE Exists(a)
  <2>1. CASE op = "update"
    <3>1. assets' = [assets EXCEPT ![a] = [@ EXCEPT !.filename = 1]]
      BY <1>5, <2>1 DEF ChangeAsset
    <3>2. assets' \in [Assets -> Asset] /\ assets'[a].state = assets[a].state
      BY <1>2, <3>1 DEF Asset
    <3> QED
      BY <1>2, <1>3, <2>1, <3>1, <3>2 DEF Exists
  <2>2. CASE op = "remove"
    <3>1. assets' = [assets EXCEPT ![a] = [@ EXCEPT !.state = "trash"]]
      BY <1>5, <2>2 DEF ChangeAsset
    <3>2. assets' \in [Assets -> Asset] /\ assets'[a].state = "trash"
      BY <1>2, <3>1 DEF Asset
    <3> QED
      BY <1>2, <1>3, <1>5, <2>2, <3>1, <3>2 DEF Exists
  <2>3. CASE op = "restore"
    <3>1. assets' = [assets EXCEPT ![a] = [@ EXCEPT !.state = "active"]]
      BY <1>5, <2>3 DEF ChangeAsset
    <3>2. assets' \in [Assets -> Asset] /\ assets'[a].state = "active"
      BY <1>2, <3>1 DEF Asset
    <3> QED
      BY <1>2, <1>3, <1>5, <2>3, <3>1, <3>2 DEF Exists
  <2> QED
    BY <1>2, <2>1, <2>2, <2>3
<1> QED
  BY <1>4, <1>5

LEMMA ChangeAssetKeeps ==
  ASSUME IndexConstants, IndexKeeps, NEW r \in Requests, ChangeAsset(r)
  PROVE  IndexKeeps'
<1> DEFINE call == [calls[r] EXCEPT !.at = "affected"]
<1>1. /\ calls[r].at = "change" /\ calls[r].at \in AssetStages /\ Go(r, call)
      /\ UNCHANGED <<indexMode, docs, comments, stored, refs, rows>>
  BY DEF ChangeAsset, AssetStages
<1>2. PICK a \in Assets : a = calls[r].asset
  BY <1>1, AtAsset
<1>3. /\ calls[r] \in Call /\ calls[r] # Waiting
      /\ \A d \in Docs : ~ Owes(calls[r], d)
  BY <1>1, AtAsset
<1>4. /\ call \in Call /\ call.at = "affected" /\ call.asset = a /\ call.op = calls[r].op
      /\ call.at \in AssetStages \ {"record", "find"}
  BY <1>2, <1>3 DEF Call, AssetStages
<1>5. /\ Moved(r) /\ calls'[r] = call
      /\ calls'[r].at \notin PageStages /\ calls'[r].at \notin CommentStages
      /\ calls'[r].at # "record" /\ calls'[r].at \notin {"unlink", "link"}
  BY <1>1, <1>2, <1>4, AssetMoves
<1>6. /\ calls[r].op \in {"update", "remove", "restore"} /\ assets[a].state # "absent"
      /\ assets' \in [Assets -> Asset]
      /\ \A x \in Assets : x # a => assets'[x] = assets[x]
      /\ assets'[a].state # "absent" /\ (Exists(a)' <=> Exists(a))
      /\ assets'[a].state = "purged" <=> assets[a].state = "purged"
      /\ calls[r].op # "restore" =>
           (assets[a].state = "trash" => assets'[a].state = "trash")
           /\ (assets'[a].state = "active" => assets[a].state = "active")
      /\ returned' = IF calls[r].op = "restore" THEN returned \cup {a} ELSE returned
  BY <1>2, Changes
<1>7. CommentsInv'
  BY <1>1, <1>5, CommentsStay
<1>8. AssetsInv'
  <2>1. \A x \in Assets :
          \/ assets'[x] = assets[x]
          \/ assets'[x].state # "absent" /\ assets[x].state # "absent"
    BY <1>6
  <2>2. assets'[calls'[r].asset].state # "absent"
    BY <1>4, <1>5, <1>6
  <2> QED
    BY <1>1, <1>5, <2>1, <2>2, AssetsStay
<1>9. BytesInv'
  <2>1. BytesInv /\ \A q \in Requests : q # r => calls'[q] = calls[q]
    BY <1>5, MovedOthers DEF IndexKeeps
  <2>2. OneEnds'
    BY <1>1, <1>2, <1>4, <1>5, OneEndsStays
  <2>3. ASSUME NEW q \in Requests, calls'[q].at = "record"
        PROVE  calls'[q].asset \in stored'
    BY <1>1, <1>5, <2>1, <2>3 DEF BytesInv
  \* Who restores an asset does so in a race with those who purge it.
  <2>4. ASSUME NEW q \in Requests, calls[q].at \in {"erase", "gone"}, calls[q].asset = a,
               calls[r].op = "restore"
        PROVE  "race" \in indexMode
    <3>1. calls[q].at \in AssetStages
      BY <2>4 DEF AssetStages
    <3>2. calls[q].op = "purge"
      BY <2>4, <3>1, AtAsset DEF HasItsOwn
    <3> QED
      BY <1>1, <1>2, <2>1, <2>4, <3>1, <3>2 DEF BytesInv, OneEnds
  <2>5. ASSUME NEW q \in Requests, calls'[q].at \in {"erase", "gone"}
        PROVE  Purging(calls[q])'
    <3>1. /\ q # r /\ calls'[q] = calls[q] /\ Purging(calls[q])
          /\ calls[q].at \in AssetStages /\ calls[q].at \in {"erase", "gone"}
      BY <1>4, <1>5, <2>1, <2>5 DEF BytesInv, AssetStages
    <3>2. calls[q].asset \in Assets
      BY <3>1, AtAsset
    <3>3. CASE calls[q].asset # a
      BY <1>1, <1>6, <3>1, <3>2, <3>3 DEF Purging
    <3>4. CASE calls[q].asset = a
      <4>1. assets'[a].state \in {"trash", "purged", "active"}
        BY <1>6 DEF Asset
      <4>2. "race" \notin indexMode => assets'[a].state = "trash"
        BY <1>6, <2>4, <3>1, <3>4 DEF Purging
      <4>3. assets'[a].state = "active" => a \in returned'
        BY <1>6, <3>1, <3>4 DEF Purging
      <4>4. calls'[q].at = "gone" => a \notin stored'
        BY <1>1, <3>1, <3>4 DEF Purging
      <4> QED
        BY <1>1, <3>1, <3>4, <4>1, <4>2, <4>3, <4>4 DEF Purging
    <3> QED
      BY <3>3, <3>4
  <2>6. ASSUME NEW x \in Assets
        PROVE  BytesOf(x)'
    <3>1. BytesOf(x) /\ (Exists(x)' <=> Exists(x))
      BY <1>6, <2>1 DEF BytesInv, Exists
    <3>2. \A q \in Requests : calls[q].at \in {"gone", "record"} => calls'[q] = calls[q]
      BY <1>1, <2>1
    <3>3. CASE x # a
      BY <1>1, <1>6, <3>1, <3>2, <3>3 DEF BytesOf
    <3>4. CASE x = a
      <4>1. assets'[a].state = "purged" => a \notin stored'
        BY <1>1, <1>6, <3>1, <3>4 DEF BytesOf
      <4>2. ASSUME Exists(a)', a \notin stored'
            PROVE  \/ a \in returned' /\ indexMode \cap {"race", "stop"} # {}
                   \/ /\ assets'[a].state = "trash"
                      /\ "stop" \in indexMode
                         \/ \E q \in Requests : calls'[q].at = "gone" /\ calls'[q].asset = a
        <5>1. \/ a \in returned /\ indexMode \cap {"race", "stop"} # {}
              \/ /\ assets[a].state = "trash"
                 /\ "stop" \in indexMode
                    \/ \E q \in Requests : calls[q].at = "gone" /\ calls[q].asset = a
          BY <1>1, <3>1, <3>4, <4>2 DEF BytesOf
        <5>2. CASE calls[r].op = "restore"
          BY <1>6, <2>4, <5>1, <5>2
        <5>3. CASE calls[r].op # "restore"
          BY <1>6, <3>2, <5>1, <5>3
        <5> QED
          BY <5>2, <5>3
      <4>3. a \in stored' =>
              Exists(a)' \/ "stop" \in indexMode
              \/ \E q \in Requests : calls'[q].at = "record" /\ calls'[q].asset = a
        BY <1>1, <3>1, <3>2, <3>4 DEF BytesOf
      <4> QED
        BY <1>1, <3>4, <4>1, <4>2, <4>3 DEF BytesOf
    <3> QED
      BY <3>3, <3>4
  <2> QED
    BY <2>2, <2>3, <2>5, <2>6 DEF BytesInv
<1>10. ASSUME NEW d \in Docs
       PROVE  Owes(calls[r], d)' \/ Undisturbed(d)
  <2>1. CASE <<d, a>> \in refs
    BY <1>1, <1>4, <1>5, <2>1 DEF Owes
  <2>2. CASE <<d, a>> \notin refs
    <3>1. \A x \in Assets : <<d, x>> \in refs => assets'[x] = assets[x]
      BY <1>6, <2>2
    <3>2. \A x \in Assets : x \in Referenced(docs[d].uses)' =>
            x \in Referenced(docs[d].uses) \/ x \in returned'
      BY <1>1, <1>6 DEF Referenced
    <3> QED
      BY <1>1, <3>1, <3>2 DEF Undisturbed, CommentTextForPage
  <2> QED
    BY <2>1, <2>2
<1>11. \A d \in Docs, x \in Assets : ~ Attaches(calls[r], d, x)
  BY <1>1 DEF Attaches
<1>12. /\ stored' \subseteq Assets /\ returned' \subseteq Assets
       /\ returned \subseteq returned' /\ refs' \subseteq Docs \X Assets
  BY <1>1, <1>6 DEF IndexKeeps, IndexShape
<1> QED
  BY <1>1, <1>3, <1>5, <1>6, <1>7, <1>8, <1>9, <1>10, <1>11, <1>12, PartsKeep

-----------------------------------------------------------------------------
LEMMA IndexStart == IndexConstants /\ IndexInit => IndexKeeps
<1> SUFFICES ASSUME IndexConstants, IndexInit
             PROVE  IndexKeeps
  OBVIOUS
<1>1. /\ indexMode \in IndexModes /\ docs = [d \in Docs |-> Absent]
      /\ comments = [c \in Comments |-> NoComment] /\ assets = [a \in Assets |-> NoAsset]
      /\ stored = {} /\ refs = {} /\ rows = [d \in Docs |-> NoRow]
      /\ calls = [r \in Requests |-> Waiting] /\ begun = 0 /\ returned = {}
  BY DEF IndexInit
<1>2. \A r \in Requests : calls[r] = Waiting /\ calls[r].at = "waiting" /\ calls[r].found = {}
  BY <1>1 DEF Waiting
<1>3. "waiting" \notin PageStages \cup CommentStages \cup AssetStages
  BY DEF PageStages, CommentStages, AssetStages
<1>4. IndexShape
  <2>1. NoAsset \in Asset /\ Absent \in Doc /\ NoComment \in CommentRow /\ NoRow \in Row
    BY DEF NoAsset, Asset, Doc, CommentRow, Row
  <2>2. 0 \in 0 .. MaxIndexOps
    BY DEF IndexConstants
  <2> QED
    BY <1>1, <2>1, <2>2, WaitingIsCall DEF IndexShape
<1>5. TakeTurns /\ CallsHaveTheirs
  BY <1>2, <1>3, WaitingIsCall DEF TakeTurns, CallsHaveTheirs
<1>6. CommentsInv /\ AssetsInv
  <2>1. \A a \in Assets : assets[a] = NoAsset /\ \A d \in Docs : <<d, a>> \notin refs
    BY <1>1
  <2> QED
    BY <1>2, <1>3, <2>1 DEF CommentsInv, AssetsInv
<1>7. BytesInv
  <2>1. OneEnds
    BY <1>2, <1>3 DEF OneEnds
  <2>2. \A a \in Assets : assets[a].state = "absent"
    BY <1>1 DEF NoAsset
  <2>3. \A a \in Assets : BytesOf(a)
    BY <1>1, <2>2 DEF BytesOf, Exists
  <2> QED
    BY <1>2, <2>1, <2>3 DEF BytesInv
<1>8. FollowInv
  <2>1. \A d \in Docs : ~ IsActive(d) /\ rows[d] = NoRow
    BY <1>1 DEF IsActive, Absent
  <2> QED
    BY <1>2, <1>3, <2>1 DEF FollowInv, RowsInv, LinksInv, WorkInv, EntryNow
<1> QED
  BY <1>4, <1>5, <1>6, <1>7, <1>8 DEF IndexKeeps

LEMMA IndexStep ==
  IndexConstants /\ InOrder /\ IndexKeeps /\ [IndexNext]_indexVars => IndexKeeps'
<1> SUFFICES ASSUME IndexConstants, InOrder, IndexKeeps, [IndexNext]_indexVars
             PROVE  IndexKeeps'
  OBVIOUS
<1>1. CASE UNCHANGED indexVars
  <2>1. /\ IndexShape' /\ TakeTurns' /\ CallsHaveTheirs' /\ CommentsInv' /\ AssetsInv'
    BY <1>1 DEF indexVars, IndexKeeps, IndexShape, TakeTurns, Postgres, CallsHaveTheirs,
                CommentsInv, AssetsInv, Handles
  <2>2. BytesInv'
    BY <1>1 DEF indexVars, IndexKeeps, BytesInv, OneEnds, Purging, BytesOf, Exists
  <2>3. FollowInv'
    <3>1. RowsInv => RowsInv'
      BY <1>1 DEF indexVars, RowsInv, EntryNow, IsActive, CommentTextForPage,
                  AssetTextForPage, Exists, Owed, Owes
    <3>2. LinksInv => LinksInv'
      BY <1>1 DEF indexVars, LinksInv, IsActive, Referenced, Owed, Owes, Attached, Attaches
    <3>3. WorkInv => WorkInv'
      <4> SUFFICES ASSUME NEW r \in Requests, Worked(calls[r])
                   PROVE  Worked(calls[r])'
        BY <1>1 DEF indexVars, WorkInv
      <4>1. /\ calls' = calls /\ docs' = docs /\ rows' = rows /\ refs' = refs
            /\ \A d : IsActive(d)' = IsActive(d)
            /\ \A d : CommentTextForPage(d)' = CommentTextForPage(d)
            /\ \A d : AssetTextForPage(d, refs)' = AssetTextForPage(d, refs)
            /\ \A uses : Referenced(uses)' = Referenced(uses)
        BY <1>1 DEF indexVars, IsActive, Referenced, CommentTextForPage, AssetTextForPage, Exists
      <4> QED
        BY <4>1 DEF Worked
    <3> QED
      BY <1>1, <3>1, <3>2, <3>3 DEF indexVars, IndexKeeps, FollowInv
  <2> QED
    BY <2>1, <2>2, <2>3 DEF IndexKeeps
<1>2. ASSUME NEW r \in Requests, NEW d \in Docs,
             \/ \E uses \in SUBSET Assets : WriteDoc(r, d, uses)
             \/ ShelveDoc(r, d) \/ PurgeDoc(r, d)
             \/ \E c \in Comments : FindPageToComment(r, c, d)
      PROVE  IndexKeeps'
  BY <1>2, WriteDocKeeps, ShelveDocKeeps, FindPageToCommentKeeps
<1>3. ASSUME NEW r \in Requests,
             \/ RemovePage(r) \/ IndexPageById(r) \/ Return(r)
             \/ ReadPage(r) \/ DropRow(r) \/ SelectAssets(r) \/ Unlink(r) \/ Link(r)
             \/ ReadComments(r) \/ ReadNames(r) \/ InsertRow(r) \/ Rebuild(r)
      PROVE  IndexKeeps'
  BY <1>3, RemovePageKeeps, IndexPageByIdKeeps, ReturnKeeps, ReadPageKeeps, DropRowKeeps,
     SelectAssetsKeeps, UnlinkKeeps, LinkKeeps, ReadCommentsKeeps, ReadNamesKeeps,
     InsertRowKeeps, RebuildIndexKeeps
<1>4. ASSUME NEW r \in Requests, NEW c \in Comments,
             FindComment(r, c, "reword") \/ FindComment(r, c, "uncomment")
      PROVE  IndexKeeps'
  BY <1>4, FindCommentKeeps
<1>5. ASSUME NEW r \in Requests, NEW a \in Assets,
             Upload(r, a) \/ RemoveOrphan(r, a) \/ \E op \in DOMAIN Needs : FindAsset(r, a, op)
      PROVE  IndexKeeps'
  BY <1>5, UploadKeeps, RemoveOrphanKeeps, FindAssetKeeps
<1>6. ASSUME NEW r \in Requests,
             \/ InsertComment(r) \/ ChangeComment(r)
             \/ Record(r) \/ AttachExistingPages(r) \/ InsertReferences(r)
             \/ RefreshPagesForAsset(r) \/ FindActive(r) \/ ChangeAsset(r)
             \/ EraseBytes(r) \/ PurgeAsset(r) \/ Lose(r)
      PROVE  IndexKeeps'
  BY <1>6, InsertCommentKeeps, ChangeCommentKeeps, RecordKeeps, AttachExistingPagesKeeps,
     InsertReferencesKeeps, RefreshPagesForAssetKeeps, FindActiveKeeps, ChangeAssetKeeps,
     EraseBytesKeeps, PurgeAssetKeeps, LoseKeeps
<1> QED
  BY <1>1, <1>2, <1>3, <1>4, <1>5, <1>6 DEF IndexNext

\* The built-in index follows the pages, the comments and the assets: what is not current
\* is owed by a request that has not come to it yet.  Assumed is that ids are no markers,
\* and that the requests of PostgreSQL do not overlap (when they do, it is refuted).
THEOREM IndexAlwaysKeeps == IndexConstants /\ InOrder => (IndexSpec => []IndexKeeps)
<1> SUFFICES ASSUME IndexConstants, InOrder
             PROVE  IndexSpec => []IndexKeeps
  OBVIOUS
<1>1. IndexInit => IndexKeeps
  BY IndexStart
<1>2. IndexKeeps /\ [IndexNext]_indexVars => IndexKeeps'
  BY IndexStep
<1> QED
  BY <1>1, <1>2, PTL DEF IndexSpec

\* When nothing is under way, nothing is owed: entries and references are current, and an
\* asset has its bytes (db/postgres/repositories/search.ts indexPage, services/assets.ts).
THEOREM BuiltInIndexFollows == IndexConstants /\ InOrder => (IndexSpec => []IndexInv)
<1> SUFFICES ASSUME IndexConstants, InOrder
             PROVE  IndexSpec => []IndexInv
  OBVIOUS
<1>1. IndexKeeps => IndexInv
  <2> SUFFICES ASSUME IndexKeeps
               PROVE  IndexInv
    OBVIOUS
  <2>1. IndexTypeOK
    BY DEF IndexKeeps, IndexShape, IndexTypeOK, Doc, CommentRow, Asset
  <2>2. ASSUME QuietIndex
        PROVE  /\ \A d \in Docs : ~ Owed(d)
               /\ \A d \in Docs, a \in Assets : ~ Attached(d, a)
               /\ \A r \in Requests : calls[r].at \notin {"gone", "record"}
               /\ RowsInv /\ LinksInv
    <3>1. \A r \in Requests : calls[r].at = "waiting"
      BY <2>2 DEF QuietIndex, Waiting
    <3> QED
      BY <2>2, <3>1 DEF Owed, Owes, Attached, Attaches, PageStages, QuietIndex, IndexKeeps, FollowInv
  <2>3. EntriesAreCurrent
    BY <2>2 DEF EntriesAreCurrent, RowsInv, EntryNow
  <2>4. ReferencesFollowContent
    BY <2>2 DEF ReferencesFollowContent, LinksInv
  <2>5. AssetsHaveTheirBytes
    <3>1. \A a \in Assets : BytesOf(a) /\ stored \subseteq Assets
      BY DEF IndexKeeps, BytesInv, IndexShape
    <3>2. ASSUME NEW a \in Assets, assets[a].state = "active"
          PROVE  a \in stored \/ (a \in returned /\ indexMode \cap {"race", "stop"} # {})
      BY <3>1, <3>2 DEF BytesOf, Exists
    <3>3. ASSUME QuietIndex, NEW a \in stored
          PROVE  Exists(a)
      BY <2>2, <3>1, <3>3 DEF BytesOf, QuietIndex, IndexKeeps, IndexShape
    <3> QED
      BY <3>2, <3>3 DEF AssetsHaveTheirBytes
  <2> QED
    BY <2>1, <2>3, <2>4, <2>5 DEF IndexInv
<1> QED
  BY <1>1, IndexAlwaysKeeps, PTL

=============================================================================
