-------------------------- MODULE PageStoreProofs --------------------------
(***************************************************************************)
(* Proofs about PageStore, for any paths, ids, contents and number of      *)
(* requests in flight.                                                     *)
(***************************************************************************)
EXTENDS PageStore, TLAPS

USE DEF Times

-----------------------------------------------------------------------------
(* Type correctness.                                                       *)

LEMMA IdleIsRequest == Idle \in Request
BY DEF Idle, Request

LEMMA RowFields ==
  ASSUME NEW r \in Row
  PROVE  /\ r # None => r \in Row
         /\ r.path \in Paths /\ r.content \in Content
         /\ r.lifecycle \in Lifecycles /\ r.updatedAt \in Times
BY DEF Row

LEMMA RewriteType ==
  ASSUME NEW c \in Content, NEW from \in Paths, NEW to \in Paths
  PROVE  RewriteLinks(c, from, to) \in Content
BY DEF RewriteLinks, Content

LEMMA RevisionType ==
  ASSUME NEW i \in Ids, NEW r \in Row
  PROVE  RevisionFor(i, r) \in Revision
BY DEF RevisionFor, Revision, Row

LEMMA IndexEntryType ==
  ASSUME NEW r \in Row \cup {None}
  PROVE  IndexEntry(r) \in Content \cup {None}
BY DEF IndexEntry, Row

\* A step that only changes what a request is doing keeps the types.
LEMMA PlanType ==
  ASSUME TypeOK, NEW p \in Procs, NEW r \in Request, Plan(p, r)
  PROVE  TypeOK'
BY DEF TypeOK, Plan

\* Refreshing the index keeps the types of the index and of the requests.
LEMMA IndexPagesType ==
  ASSUME TypeOK, NEW p \in Procs, NEW touched \in SUBSET Ids,
         pages' \in [Ids -> Row \cup {None}], IndexPages(p, touched)
  PROVE  /\ index' \in [Ids -> Content \cup {None}]
         /\ req' \in [Procs -> Request]
<1>1. \A i \in Ids : IndexEntry(pages'[i]) \in Content \cup {None}
  BY IndexEntryType
<1>2. CASE IndexMode = "transaction" /\ req' = [req EXCEPT ![p] = Idle]
           /\ index' = [i \in Ids |-> IF i \in touched THEN IndexEntry(pages'[i])
                                      ELSE index[i]]
  BY <1>1, <1>2, IdleIsRequest DEF TypeOK
<1>3. CASE /\ UNCHANGED index
           /\ req' = [req EXCEPT ![p] =
                [op |-> "index",
                 todo |-> {[page |-> i, entry |-> IndexEntry(pages'[i])] : i \in touched}]]
  <2>1. {[page |-> i, entry |-> IndexEntry(pages'[i])] : i \in touched}
          \in SUBSET [page : Ids, entry : Content \cup {None}]
    BY <1>1
  <2>2. [op |-> "index",
         todo |-> {[page |-> i, entry |-> IndexEntry(pages'[i])] : i \in touched}]
          \in Request
    BY <2>1 DEF Request
  <2> QED
    BY <1>3, <2>2 DEF TypeOK
<1> QED
  BY <1>2, <1>3 DEF IndexPages

\* A write to one existing row keeps the type of the pages table.
PutsContent(i, c, now) ==
  pages' = IF pages[i] = None THEN pages
           ELSE [pages EXCEPT ![i].content = c, ![i].updatedAt = now]
PutsLifecycle(i, l, now) ==
  pages' = IF pages[i] = None THEN pages
           ELSE [pages EXCEPT ![i].lifecycle = l, ![i].updatedAt = now]

LEMMA ContentWriteType ==
  ASSUME TypeOK, NEW i \in Ids, NEW now \in Times, NEW c \in Content, PutsContent(i, c, now)
  PROVE  /\ pages' \in [Ids -> Row \cup {None}]
         /\ pages[i] = None => pages' = pages
         /\ pages[i] # None => pages'[i] \in Row /\ pages'[i].path = pages[i].path
         /\ \A j \in Ids : j # i => pages'[j] = pages[j]
<1>1. CASE pages[i] = None
  BY <1>1 DEF TypeOK, PutsContent
<1>2. CASE pages[i] # None
  <2> DEFINE row == [[pages[i] EXCEPT !.content = c] EXCEPT !.updatedAt = now]
  <2>1. pages[i] \in Row
    BY <1>2 DEF TypeOK
  <2>2. row \in Row /\ row.path = pages[i].path
    BY <2>1 DEF Row
  <2>3. pages' = [pages EXCEPT ![i] = row]
    BY <1>2 DEF PutsContent, TypeOK
  <2> HIDE DEF row
  <2> QED
    BY <1>2, <2>2, <2>3 DEF TypeOK
<1> QED
  BY <1>1, <1>2

LEMMA LifecycleWriteType ==
  ASSUME TypeOK, NEW i \in Ids, NEW now \in Times, NEW l \in Lifecycles, PutsLifecycle(i, l, now)
  PROVE  /\ pages' \in [Ids -> Row \cup {None}]
         /\ pages[i] = None => pages' = pages
         /\ pages[i] # None => pages'[i] \in Row /\ pages'[i].path = pages[i].path
         /\ \A j \in Ids : j # i => pages'[j] = pages[j]
<1>1. CASE pages[i] = None
  BY <1>1 DEF TypeOK, PutsLifecycle
<1>2. CASE pages[i] # None
  <2> DEFINE row == [[pages[i] EXCEPT !.lifecycle = l] EXCEPT !.updatedAt = now]
  <2>1. pages[i] \in Row
    BY <1>2 DEF TypeOK
  <2>2. row \in Row /\ row.path = pages[i].path
    BY <2>1 DEF Row
  <2>3. pages' = [pages EXCEPT ![i] = row]
    BY <1>2 DEF PutsLifecycle, TypeOK
  <2> HIDE DEF row
  <2> QED
    BY <1>2, <2>2, <2>3 DEF TypeOK
<1> QED
  BY <1>1, <1>2

\* A move keeps the type of every row.
LEMMA MovedType ==
  ASSUME TypeOK, NEW p \in Procs, CommitMove(p), NEW i \in Ids, pages[i] # None
  PROVE  pages'[i] \in Row
<1> DEFINE m == req[p]
           moved == [pages[i] EXCEPT
                       !.path = IF i = m.id THEN m.to ELSE @,
                       !.content = IF m.rewritten[i] = None THEN @
                                   ELSE RewriteLinks(m.rewritten[i].content,
                                                     m.row.path, m.to),
                       !.updatedAt = IF i = m.id \/ m.rewritten[i] # None
                                     THEN m.at ELSE @]
<1>1. /\ m.id \in Ids /\ m.row \in Row /\ m.to \in Paths /\ m.at \in Times
      /\ m.rewritten \in [Ids -> Revision \cup {None}]
  BY DEF CommitMove, TypeOK, Request
<1>2. pages'[i] = moved
  BY DEF CommitMove
<1>3. pages[i] \in Row
  BY DEF TypeOK
<1>4. m.row.path \in Paths
  BY <1>1 DEF Row
<1>5. m.rewritten[i] # None => m.rewritten[i].content \in Content
  BY <1>1 DEF Revision
<1>6. m.rewritten[i] # None =>
        RewriteLinks(m.rewritten[i].content, m.row.path, m.to) \in Content
  BY <1>1, <1>4, <1>5, RewriteType
<1> HIDE DEF m
<1> QED
  BY <1>1, <1>2, <1>3, <1>6 DEF Row

\* The service's reads keep the types.
LEMMA ServiceType ==
  ASSUME TypeOK, NEW p \in Procs, Service(p)
  PROVE  TypeOK'
<1> USE PageStoreAssumption
<1>1. \A i \in Ids : pages[i] # None => pages[i] \in Row
  BY DEF TypeOK
<1>2. \A x \in Paths : ActiveAt(x) \subseteq At(x) /\ At(x) \subseteq Ids
  BY DEF ActiveAt, At
<1>3. \A x \in Paths : \A i \in At(x) : pages[i] \in Row
  BY <1>1 DEF At
<1>4. ASSUME NEW i \in Ids, pages[i] \in Row, NEW next \in Content,
             NEW recorded \in BOOLEAN, NEW expected \in Times \cup {None},
             PlanWrite(p, i, next, recorded, expected)
      PROVE  TypeOK'
  <2>1. [op |-> "write", id |-> i, row |-> pages[i], next |-> next,
         recorded |-> recorded, expected |-> expected, at |-> clock] \in Request
    BY <1>4 DEF Request, TypeOK
  <2> QED
    BY <1>4, <2>1, PlanType DEF PlanWrite
<1>5. ASSUME NEW i \in Ids, pages[i] \in Row, NEW to \in Lifecycles,
             PlanLifecycle(p, i, to)
      PROVE  TypeOK'
  <2>1. [op |-> "lifecycle", id |-> i, row |-> pages[i], to |-> to, at |-> clock]
          \in Request
    BY <1>5 DEF Request, TypeOK
  <2> QED
    BY <1>5, <2>1, PlanType DEF PlanLifecycle
<1>6. ASSUME NEW x \in Paths, NEW c \in Content, PlanCreate(p, x, c)
      PROVE  TypeOK'
  <2>1. [op |-> "create", path |-> x, content |-> c, at |-> clock] \in Request
    BY DEF Request, TypeOK
  <2> QED
    BY <1>6, <2>1, PlanType DEF PlanCreate
<1>7. CASE Create(p)
  BY <1>6, <1>7 DEF Create
<1>8. CASE Copy(p)
  <2>0. PICK x \in Paths, y \in Paths : \E i \in ActiveAt(x) :
          Plan(p, [op |-> "copy", path |-> y, content |-> pages[i].content,
                   at |-> clock])
    BY <1>8 DEF Copy
  <2>1. PICK i \in ActiveAt(x) :
          Plan(p, [op |-> "copy", path |-> y, content |-> pages[i].content,
                   at |-> clock])
    BY <2>0
  <2>2. pages[i].content \in Content
    BY <1>2, <1>3 DEF Row
  <2>3. [op |-> "copy", path |-> y, content |-> pages[i].content, at |-> clock]
          \in Request
    BY <2>2 DEF Request, TypeOK
  <2> QED
    BY <2>1, <2>3, PlanType
<1>9. CASE CopyCreate(p)
  <2>1. req[p].path \in Paths /\ req[p].content \in Content
    BY <1>9 DEF CopyCreate, TypeOK, Request
  <2> QED
    BY <1>6, <1>9, <2>1 DEF CopyCreate
<1>10. CASE Update(p)
  <2>5. PICK x \in Paths : \E i \in ActiveAt(x) :
          \E next \in Drafts \cup {pages[i].content},
             expected \in {None, pages[i].updatedAt} :
            PlanWrite(p, i, next, TRUE, expected)
    BY <1>10 DEF Update
  <2>0. PICK i \in ActiveAt(x) :
          \E next \in Drafts \cup {pages[i].content},
             expected \in {None, pages[i].updatedAt} :
            PlanWrite(p, i, next, TRUE, expected)
    BY <2>5
  <2>1. PICK next \in Drafts \cup {pages[i].content},
             expected \in {None, pages[i].updatedAt} :
          PlanWrite(p, i, next, TRUE, expected)
    BY <2>0
  <2>2. i \in Ids /\ pages[i] \in Row
    BY <1>2, <1>3
  <2>3. next \in Content /\ expected \in Times \cup {None}
    BY <2>2 DEF Row
  <2> QED
    BY <1>4, <2>1, <2>2, <2>3
<1>11. CASE SaveContent(p)
  <2>5. PICK x \in Paths : \E i \in ActiveAt(x) :
          \E next \in Drafts, expected \in {None, pages[i].updatedAt} :
            PlanWrite(p, i, next, FALSE, expected)
    BY <1>11 DEF SaveContent
  <2>0. PICK i \in ActiveAt(x) :
          \E next \in Drafts, expected \in {None, pages[i].updatedAt} :
            PlanWrite(p, i, next, FALSE, expected)
    BY <2>5
  <2>1. PICK next \in Drafts, expected \in {None, pages[i].updatedAt} :
          PlanWrite(p, i, next, FALSE, expected)
    BY <2>0
  <2>2. i \in Ids /\ pages[i] \in Row
    BY <1>2, <1>3
  <2>3. next \in Content /\ expected \in Times \cup {None}
    BY <2>2 DEF Row
  <2> QED
    BY <1>4, <2>1, <2>2, <2>3
<1>12. CASE RestoreRevision(p)
  <2>5. PICK x \in Paths : \E i \in ActiveAt(x) : \E r \in RevisionsOf(i) :
          PlanWrite(p, i, r.content, TRUE, None)
    BY <1>12 DEF RestoreRevision
  <2>0. PICK i \in ActiveAt(x) : \E r \in RevisionsOf(i) :
          PlanWrite(p, i, r.content, TRUE, None)
    BY <2>5
  <2>1. PICK r \in RevisionsOf(i) : PlanWrite(p, i, r.content, TRUE, None)
    BY <2>0
  <2>2. i \in Ids /\ pages[i] \in Row
    BY <1>2, <1>3
  <2>3. r.content \in Content
    BY DEF RevisionsOf, TypeOK, Revision
  <2> QED
    BY <1>4, <2>1, <2>2, <2>3
<1>13. CASE Archive(p)
  BY <1>2, <1>3, <1>5, <1>13 DEF Archive, Lifecycles
<1>14. CASE Restore(p)
  BY <1>2, <1>3, <1>5, <1>14 DEF Restore, Lifecycles
<1>15. CASE Move(p)
  <2>0. PICK x \in Paths, y \in Paths : \E i \in ActiveAt(x) :
          Plan(p, [op |-> "moving", id |-> i, row |-> pages[i], to |-> y,
                   at |-> clock])
    BY <1>15 DEF Move
  <2>1. PICK i \in ActiveAt(x) :
          Plan(p, [op |-> "moving", id |-> i, row |-> pages[i], to |-> y,
                   at |-> clock])
    BY <2>0
  <2>2. [op |-> "moving", id |-> i, row |-> pages[i], to |-> y, at |-> clock]
          \in Request
    BY <1>2, <1>3 DEF Request, TypeOK
  <2> QED
    BY <2>1, <2>2, PlanType
<1>16. CASE MoveRewrites(p)
  <2> DEFINE m == req[p]
             rewrites(i) == /\ Active(i)
                            /\ RewriteLinks(pages[i].content, m.row.path, m.to)
                                 # pages[i].content
             rewritten == [i \in Ids |->
                IF rewrites(i) THEN RevisionFor(i, pages[i]) ELSE None]
  <2>1. m \in Request /\ m.op = "moving"
    BY <1>16 DEF MoveRewrites, TypeOK
  <2>2. m.id \in Ids /\ m.row \in Row /\ m.to \in Paths /\ m.at \in Times
    BY <2>1 DEF Request
  <2>3. PICK now \in m.at .. clock :
          Plan(p, [op |-> "move", id |-> m.id, row |-> m.row, to |-> m.to,
                   at |-> now, rewritten |-> rewritten])
    BY <1>16 DEF MoveRewrites
  <2>4. rewritten \in [Ids -> Revision \cup {None}]
    BY <1>1, RevisionType DEF Active
  <2>5. now \in Times
    BY <2>2 DEF TypeOK
  <2> HIDE DEF m, rewritten
  <2>6. [op |-> "move", id |-> m.id, row |-> m.row, to |-> m.to, at |-> now,
         rewritten |-> rewritten] \in Request
    BY <2>2, <2>4, <2>5 DEF Request
  <2> QED
    BY <2>3, <2>6, PlanType
<1>17. CASE Remove(p)
  <2>0. PICK x \in Paths : \E i \in ActiveAt(x) :
          Plan(p, [op |-> "remove", id |-> i, row |-> pages[i], at |-> clock])
    BY <1>17 DEF Remove
  <2>1. PICK i \in ActiveAt(x) :
          Plan(p, [op |-> "remove", id |-> i, row |-> pages[i], at |-> clock])
    BY <2>0
  <2>2. [op |-> "remove", id |-> i, row |-> pages[i], at |-> clock] \in Request
    BY <1>2, <1>3 DEF Request, TypeOK
  <2> QED
    BY <2>1, <2>2, PlanType
<1>18. CASE Purge(p)
  <2>0. PICK x \in Paths : \E i \in At(x) :
          Plan(p, [op |-> "purge", id |-> i, path |-> x])
    BY <1>18 DEF Purge
  <2>1. PICK i \in At(x) : Plan(p, [op |-> "purge", id |-> i, path |-> x])
    BY <2>0
  <2>2. [op |-> "purge", id |-> i, path |-> x] \in Request
    BY <1>2 DEF Request
  <2> QED
    BY <2>1, <2>2, PlanType
<1>19. CASE CreateRedirect(p)
  <2>1. PICK from \in Paths, to \in Paths, i \in {j \in Ids : Active(j)} :
          Plan(p, [op |-> "addRedirect", from |-> from, to |-> pages[i].path])
    BY <1>19 DEF CreateRedirect
  <2>2. pages[i].path \in Paths
    BY <1>1 DEF Active, Row
  <2>3. [op |-> "addRedirect", from |-> from, to |-> pages[i].path] \in Request
    BY <2>2 DEF Request
  <2> QED
    BY <2>1, <2>3, PlanType
<1>20. CASE DeleteRedirect(p)
  <2>1. PICK x \in Paths : Plan(p, [op |-> "dropRedirect", from |-> x])
    BY <1>20 DEF DeleteRedirect
  <2>2. [op |-> "dropRedirect", from |-> x] \in Request
    BY DEF Request
  <2> QED
    BY <2>1, <2>2, PlanType
<1>21. CASE Abandon(p)
  BY <1>21, PlanType, IdleIsRequest DEF Abandon
<1> QED
  BY <1>7, <1>8, <1>9, <1>10, <1>11, <1>12, <1>13, <1>14, <1>15, <1>16, <1>17,
     <1>18, <1>19, <1>20, <1>21 DEF Service

\* The transactions keep the types.
LEMMA TransactionType ==
  ASSUME TypeOK, NEW p \in Procs, Transaction(p)
  PROVE  TypeOK'
<1> USE PageStoreAssumption
<1>1. \A r \in Request : r.op \in {"write", "lifecycle", "remove"} =>
        /\ r.id \in Ids /\ r.row \in Row
        /\ r.at \in Times
  BY DEF Request
<1>2. req[p] \in Request
  BY DEF TypeOK
<1>3. ASSUME NEW new \in SUBSET Revision, Record(new)
      PROVE  revisions' \subseteq Revision
  BY <1>3 DEF Record, TypeOK
<1>4. CASE CommitCreate(p)
  <2>1. req[p].path \in Paths /\ req[p].content \in Content /\ req[p].at \in Times
    BY <1>2, <1>4 DEF CommitCreate, Request
  <2>2. PICK i \in Ids, now \in req[p].at .. clock :
          /\ pages' = [pages EXCEPT ![i] =
               [path |-> req[p].path, content |-> req[p].content,
                lifecycle |-> "active", updatedAt |-> now]]
          /\ Record({RevisionFor(i, pages'[i])})
          /\ IndexPages(p, {i})
    BY <1>4 DEF CommitCreate
  <2>3. now \in Times
    BY <2>1 DEF TypeOK
  <2>4. [path |-> req[p].path, content |-> req[p].content,
         lifecycle |-> "active", updatedAt |-> now] \in Row
    BY <2>1, <2>3 DEF Row, Lifecycles
  <2>5. pages' \in [Ids -> Row \cup {None}] /\ pages'[i] \in Row
    BY <2>2, <2>4 DEF TypeOK
  <2>6. revisions' \subseteq Revision
    BY <1>3, <2>2, <2>5, RevisionType
  <2>7. redirects' \in [Paths -> Paths \cup {None}] /\ clock' \in Times
    BY <1>4 DEF CommitCreate, TypeOK
  <2> QED
    BY <2>2, <2>5, <2>6, <2>7, IndexPagesType DEF TypeOK
<1>5. CASE WriteExisting(p)
  <2> DEFINE i == req[p].id
  <2>1. i \in Ids /\ req[p].row \in Row /\ req[p].at \in Times
        /\ req[p].next \in Content
    BY <1>2, <1>5 DEF WriteExisting, Request
  <2>2. PICK now \in req[p].at .. clock :
          PutsContent(i, req[p].next, now)
    BY <1>5 DEF WriteExisting, PutsContent
  <2>3. now \in Times
    BY <2>1 DEF TypeOK
  <2>4. pages' \in [Ids -> Row \cup {None}]
    BY <2>1, <2>2, <2>3, ContentWriteType
  <2>5. revisions' \subseteq Revision
    BY <1>3, <1>5, <2>1, RevisionType DEF WriteExisting
  <2>6. IndexPages(p, Existing({i})) /\ Existing({i}) \in SUBSET Ids
    BY <1>5, <2>1 DEF WriteExisting, Existing
  <2>7. redirects' \in [Paths -> Paths \cup {None}] /\ clock' \in Times
    BY <1>5 DEF WriteExisting, TypeOK
  <2> QED
    BY <2>4, <2>5, <2>6, <2>7, IndexPagesType DEF TypeOK
<1>6. CASE SetLifecycle(p)
  <2> DEFINE i == req[p].id
  <2>1. i \in Ids /\ req[p].row \in Row /\ req[p].at \in Times
        /\ req[p].to \in Lifecycles
    BY <1>2, <1>6 DEF SetLifecycle, Request
  <2>2. PICK now \in req[p].at .. clock :
          PutsLifecycle(i, req[p].to, now)
    BY <1>6 DEF SetLifecycle, PutsLifecycle
  <2>3. now \in Times
    BY <2>1 DEF TypeOK
  <2>4. pages' \in [Ids -> Row \cup {None}]
    BY <2>1, <2>2, <2>3, LifecycleWriteType
  <2>5. revisions' \subseteq Revision
    BY <1>3, <1>6, <2>1, RevisionType DEF SetLifecycle
  <2>6. IndexPages(p, {i})
    BY <1>6 DEF SetLifecycle
  <2>7. redirects' \in [Paths -> Paths \cup {None}] /\ clock' \in Times
    BY <1>6 DEF SetLifecycle, TypeOK
  <2> QED
    BY <2>1, <2>4, <2>5, <2>6, <2>7, IndexPagesType DEF TypeOK
<1>7. CASE CommitMove(p)
  <2> DEFINE m == req[p]
             rewrites == {i \in Ids : m.rewritten[i] # None}
  <2>1. /\ m.id \in Ids /\ m.row \in Row /\ m.to \in Paths /\ m.at \in Times
        /\ m.rewritten \in [Ids -> Revision \cup {None}]
    BY <1>2, <1>7 DEF CommitMove, Request
  <2>2. /\ pages' \in [Ids -> {pages'[i] : i \in Ids}]
        /\ \A i \in Ids : pages[i] = None => pages'[i] = None
        /\ Record({RevisionFor(m.id, m.row)} \cup {m.rewritten[i] : i \in rewrites})
        /\ redirects' = MovedRedirects(m.row.path, m.to)
        /\ IndexPages(p, Existing({m.id} \cup rewrites))
        /\ UNCHANGED clock
    BY <1>7 DEF CommitMove
  <2>3. \A i \in Ids : pages[i] # None => pages'[i] \in Row
    BY <1>7, MovedType
  <2>4. pages' \in [Ids -> Row \cup {None}]
    BY <2>2, <2>3
  <2>5. revisions' \subseteq Revision
    <3>1. {m.rewritten[i] : i \in rewrites} \subseteq Revision
      BY <2>1
    <3>2. RevisionFor(m.id, m.row) \in Revision
      BY <2>1, RevisionType
    <3> QED
      BY <1>3, <2>2, <3>1, <3>2
  <2>6. redirects' \in [Paths -> Paths \cup {None}]
    BY <2>1, <2>2 DEF MovedRedirects, TypeOK
  <2>7. Existing({m.id} \cup rewrites) \in SUBSET Ids
    BY <2>1 DEF Existing
  <2> HIDE DEF m, rewrites
  <2> QED
    BY <2>2, <2>4, <2>5, <2>6, <2>7, IndexPagesType DEF TypeOK
<1>8. CASE CommitRemove(p)
  <2> DEFINE i == req[p].id
  <2>1. i \in Ids /\ req[p].row \in Row /\ req[p].at \in Times
    BY <1>2, <1>8 DEF CommitRemove, Request
  <2>2. PICK now \in req[p].at .. clock :
          PutsLifecycle(i, "deleted", now)
    BY <1>8 DEF CommitRemove, PutsLifecycle
  <2>3. now \in Times
    BY <2>1 DEF TypeOK
  <2>4. pages' \in [Ids -> Row \cup {None}]
    BY <2>1, <2>2, <2>3, LifecycleWriteType DEF Lifecycles
  <2>5. revisions' \subseteq Revision
    BY <1>3, <1>8, <2>1, RevisionType DEF CommitRemove
  <2>6. IndexPages(p, {i})
    BY <1>8 DEF CommitRemove
  <2>7. redirects' \in [Paths -> Paths \cup {None}] /\ clock' \in Times
    BY <1>8 DEF CommitRemove, TypeOK
  <2> QED
    BY <2>1, <2>4, <2>5, <2>6, <2>7, IndexPagesType DEF TypeOK
<1>9. CASE CommitPurge(p)
  <2> DEFINE i == req[p].id
  <2>1. i \in Ids
    BY <1>2, <1>9 DEF CommitPurge, Request
  <2>2. pages' \in [Ids -> Row \cup {None}] /\ revisions' \subseteq Revision
    BY <1>9 DEF CommitPurge, TypeOK
  <2>3. redirects' \in [Paths -> Paths \cup {None}] /\ clock' \in Times
    BY <1>9 DEF CommitPurge, TypeOK
  <2>4. IndexPages(p, {i})
    BY <1>9 DEF CommitPurge
  <2> QED
    BY <2>1, <2>2, <2>3, <2>4, IndexPagesType DEF TypeOK
<1>10. CASE InsertRedirect(p)
  <2>1. req[p].to \in Paths
    BY <1>2, <1>10 DEF InsertRedirect, Request
  <2> QED
    BY <1>10, <2>1, IdleIsRequest DEF InsertRedirect, TypeOK
<1>11. CASE DropRedirect(p)
  BY <1>11, IdleIsRequest DEF DropRedirect, TypeOK
<1>12. CASE Conflict(p)
  BY <1>12, PlanType, IdleIsRequest DEF Conflict
<1>13. CASE IndexPage(p)
  <2>1. req[p].todo \in SUBSET [page : Ids, entry : Content \cup {None}]
    BY <1>2, <1>13 DEF IndexPage, Request
  <2>2. PICK t \in req[p].todo :
          /\ index' = [index EXCEPT ![t.page] = t.entry]
          /\ req' = [req EXCEPT ![p].todo = @ \ {t}]
    BY <1>13 DEF IndexPage
  <2>3. [req[p] EXCEPT !.todo = @ \ {t}] \in Request
    BY <1>2, <1>13, <2>1 DEF IndexPage, Request
  <2>4. req' \in [Procs -> Request]
    BY <2>2, <2>3 DEF TypeOK
  <2>5. index' \in [Ids -> Content \cup {None}]
    BY <2>1, <2>2 DEF TypeOK
  <2> QED
    BY <1>13, <2>4, <2>5 DEF IndexPage, TypeOK
<1>14. CASE Respond(p)
  BY <1>14, PlanType, IdleIsRequest DEF Respond
<1> QED
  BY <1>4, <1>5, <1>6, <1>7, <1>8, <1>9, <1>10, <1>11, <1>12, <1>13, <1>14
     DEF Transaction

LEMMA InitType == Init => TypeOK
BY PageStoreAssumption, IdleIsRequest DEF Init, TypeOK

LEMMA NextType == TypeOK /\ [Next]_vars => TypeOK'
<1> SUFFICES ASSUME TypeOK, [Next]_vars
             PROVE  TypeOK'
  OBVIOUS
<1>1. CASE Tick
  BY <1>1, PageStoreAssumption DEF Tick, TypeOK
<1>2. ASSUME NEW p \in Procs, Service(p) \/ Transaction(p)
      PROVE  TypeOK'
  BY <1>2, ServiceType, TransactionType
<1>3. CASE UNCHANGED vars
  BY <1>3 DEF vars, TypeOK
<1> QED
  BY <1>1, <1>2, <1>3 DEF Next

\* Every table keeps the shape of its schema, and every request in flight
\* carries what its transaction needs, however requests interleave.
THEOREM TypeCorrect == Spec => []TypeOK
<1>1. Init => TypeOK
  BY InitType
<1>2. TypeOK /\ [Next]_vars => TypeOK'
  BY NextType
<1> QED
  BY <1>1, <1>2, PTL DEF Spec

-----------------------------------------------------------------------------
(* The index, where it is written in the transaction.                      *)

\* No request waits to index: every write did it in its transaction.
NothingLeftToIndex == \A p \in Procs : req[p].op # "index"

IndexInv == TypeOK /\ IndexMatchesPages /\ NothingLeftToIndex

LEMMA IndexMatchesEntries ==
  TypeOK => (IndexMatchesPages <=> \A i \in Ids : index[i] = IndexEntry(pages[i]))
BY DEF TypeOK, IndexMatchesPages, IndexEntry, Active

\* A transaction that refreshes every page whose entry it may have changed
\* keeps the index right and leaves nothing to do.
LEMMA IndexPagesMatches ==
  ASSUME IndexInv, TypeOK', IndexMode = "transaction", NEW p \in Procs,
         NEW touched \in SUBSET Ids, IndexPages(p, touched),
         \A i \in Ids \ touched : IndexEntry(pages'[i]) = IndexEntry(pages[i])
  PROVE  IndexInv'
<1>1. /\ index' = [i \in Ids |-> IF i \in touched THEN IndexEntry(pages'[i])
                                 ELSE index[i]]
      /\ req' = [req EXCEPT ![p] = Idle]
  BY DEF IndexPages
<1>2. \A i \in Ids : index'[i] = IndexEntry(pages'[i])
  BY <1>1, IndexMatchesEntries DEF IndexInv
<1>3. IndexMatchesPages'
  BY <1>2 DEF TypeOK, IndexMatchesPages, IndexEntry, Active
<1>4. NothingLeftToIndex'
  BY <1>1 DEF IndexInv, NothingLeftToIndex, TypeOK, Idle
<1> QED
  BY <1>3, <1>4 DEF IndexInv

LEMMA PlanMatches ==
  ASSUME IndexInv, TypeOK', NEW p \in Procs, NEW r, r.op # "index", Plan(p, r)
  PROVE  IndexInv'
BY DEF IndexInv, IndexMatchesPages, NothingLeftToIndex, Plan, Active, TypeOK

\* The service's reads change nothing but the request that reads.
LEMMA ServiceOnlyReads ==
  ASSUME TypeOK, NEW p \in Procs, Service(p)
  PROVE  /\ UNCHANGED <<pages, revisions, redirects, index, clock>>
         /\ \A q \in Procs \ {p} : req'[q] = req[q]
BY DEF Service, Create, Copy, CopyCreate, Update, SaveContent, RestoreRevision,
       Archive, Restore, Move, MoveRewrites, Remove, Purge, CreateRedirect,
       DeleteRedirect, Abandon, PlanCreate, PlanWrite, PlanLifecycle, Plan, TypeOK

LEMMA ServiceMatches ==
  ASSUME IndexInv, TypeOK', NEW p \in Procs, Service(p)
  PROVE  IndexInv'
<1>1. UNCHANGED <<pages, index>> /\ \A q \in Procs \ {p} : req'[q] = req[q]
  BY ServiceOnlyReads DEF IndexInv
<1>2. req'[p].op # "index"
  <2> USE DEF Plan, IndexInv, TypeOK
  <2>1. CASE Create(p) \/ CopyCreate(p)
    BY <2>1 DEF Create, CopyCreate, PlanCreate
  <2>2. CASE Copy(p)
    BY <2>2 DEF Copy
  <2>3. CASE Update(p)
    BY <2>3 DEF Update, PlanWrite
  <2>4. CASE SaveContent(p) \/ RestoreRevision(p)
    BY <2>4 DEF SaveContent, RestoreRevision, PlanWrite
  <2>5. CASE Archive(p) \/ Restore(p)
    BY <2>5 DEF Archive, Restore, PlanLifecycle
  <2>6. CASE Move(p)
    BY <2>6 DEF Move
  <2>7. CASE MoveRewrites(p)
    BY <2>7 DEF MoveRewrites
  <2>8. CASE Remove(p) \/ Purge(p)
    BY <2>8 DEF Remove, Purge
  <2>9. CASE CreateRedirect(p) \/ DeleteRedirect(p)
    BY <2>9 DEF CreateRedirect, DeleteRedirect
  <2>10. CASE Abandon(p)
    BY <2>10 DEF Abandon, Idle
  <2> QED
    BY <2>1, <2>2, <2>3, <2>4, <2>5, <2>6, <2>7, <2>8, <2>9, <2>10 DEF Service
<1> QED
  BY <1>1, <1>2 DEF IndexInv, IndexMatchesPages, NothingLeftToIndex, Active, TypeOK

\* A commit refreshes the index of every page that it changes.
LEMMA CommitsTouch ==
  ASSUME TypeOK, NEW p \in Procs,
         \/ CommitCreate(p) \/ WriteExisting(p) \/ SetLifecycle(p)
         \/ CommitMove(p) \/ CommitRemove(p) \/ CommitPurge(p)
  PROVE  \E touched \in SUBSET Ids :
           /\ IndexPages(p, touched)
           /\ \A i \in Ids \ touched : pages'[i] = pages[i]
<1>1. req[p] \in Request /\ pages \in [Ids -> Row \cup {None}]
  BY DEF TypeOK
<1>2. CASE CommitCreate(p)
  <2>1. PICK i \in Ids :
          /\ \E row : pages' = [pages EXCEPT ![i] = row]
          /\ IndexPages(p, {i})
    BY <1>2 DEF CommitCreate
  <2>2. \A j \in Ids \ {i} : pages'[j] = pages[j]
    BY <1>1, <2>1
  <2> QED
    BY <2>1, <2>2
<1>3. CASE WriteExisting(p)
  <2> DEFINE i == req[p].id
  <2>1. i \in Ids
    BY <1>1, <1>3 DEF WriteExisting, Request
  <2>2. \A j \in Ids \ Existing({i}) : pages'[j] = pages[j]
    BY <1>1, <1>3, <2>1 DEF WriteExisting, Existing
  <2>3. Existing({i}) \in SUBSET Ids /\ IndexPages(p, Existing({i}))
    BY <1>3, <2>1 DEF WriteExisting, Existing
  <2> QED
    BY <2>2, <2>3
<1>4. CASE SetLifecycle(p) \/ CommitRemove(p) \/ CommitPurge(p)
  <2> DEFINE i == req[p].id
  <2>1. i \in Ids
    BY <1>1, <1>4 DEF SetLifecycle, CommitRemove, CommitPurge, Request
  <2>2. \A j \in Ids \ {i} : pages'[j] = pages[j]
    BY <1>1, <1>4, <2>1 DEF SetLifecycle, CommitRemove, CommitPurge
  <2>3. IndexPages(p, {i})
    BY <1>4 DEF SetLifecycle, CommitRemove, CommitPurge
  <2> QED
    BY <2>1, <2>2, <2>3
<1>5. CASE CommitMove(p)
  <2> DEFINE m == req[p]
             rewrites == {i \in Ids : m.rewritten[i] # None}
             touched == Existing({m.id} \cup rewrites)
  <2>1. m.id \in Ids
    BY <1>1, <1>5 DEF CommitMove, Request
  <2>2. ASSUME NEW j \in Ids \ touched
        PROVE  pages'[j] = pages[j]
    <3>1. CASE pages[j] = None
      BY <1>5, <3>1 DEF CommitMove
    <3>2. CASE pages[j] # None
      <4>1. pages[j] \in Row
        BY <1>1, <3>2
      <4>2. j # m.id /\ m.rewritten[j] = None
        BY <2>1, <3>2 DEF Existing
      <4>3. pages'[j] = [pages[j] EXCEPT !.path = pages[j].path,
                                         !.content = pages[j].content,
                                         !.updatedAt = pages[j].updatedAt]
        BY <1>5, <3>2, <4>2 DEF CommitMove
      <4> QED
        BY <4>1, <4>3 DEF Row
    <3> QED
      BY <3>1, <3>2
  <2>3. touched \in SUBSET Ids /\ IndexPages(p, touched)
    BY <1>5, <2>1 DEF CommitMove, Existing
  <2> HIDE DEF touched
  <2> QED
    BY <2>2, <2>3
<1> QED
  BY <1>2, <1>3, <1>4, <1>5

LEMMA TransactionMatches ==
  ASSUME IndexInv, TypeOK', IndexMode = "transaction", NEW p \in Procs,
         Transaction(p)
  PROVE  IndexInv'
<1>1. CASE \/ CommitCreate(p) \/ WriteExisting(p) \/ SetLifecycle(p)
           \/ CommitMove(p) \/ CommitRemove(p) \/ CommitPurge(p)
  <2>1. PICK touched \in SUBSET Ids :
          /\ IndexPages(p, touched)
          /\ \A i \in Ids \ touched : pages'[i] = pages[i]
    BY <1>1, CommitsTouch DEF IndexInv
  <2> QED
    BY <2>1, IndexPagesMatches
<1>2. CASE InsertRedirect(p) \/ DropRedirect(p)
  BY <1>2 DEF InsertRedirect, DropRedirect, IndexInv, IndexMatchesPages,
              NothingLeftToIndex, Active, TypeOK, Idle
<1>3. CASE Conflict(p)
  BY <1>3, PlanMatches DEF Conflict, Idle
<1>4. CASE IndexPage(p) \/ Respond(p)
  BY <1>4 DEF IndexPage, Respond, IndexInv, NothingLeftToIndex
<1> QED
  BY <1>1, <1>2, <1>3, <1>4 DEF Transaction

\* Where the index is written in the transaction, it holds exactly the current
\* content of the active pages: the searchable pages are never out of date,
\* however the requests of any number of servers interleave.
THEOREM IndexAlwaysMatches ==
  IndexMode = "transaction" => (Spec => []IndexMatchesPages)
<1> SUFFICES ASSUME IndexMode = "transaction"
             PROVE  Spec => []IndexMatchesPages
  OBVIOUS
<1>1. Init => IndexInv
  BY InitType DEF Init, IndexInv, IndexMatchesPages, NothingLeftToIndex, Active, Idle
<1>2. IndexInv /\ [Next]_vars => IndexInv'
  <2> SUFFICES ASSUME IndexInv, [Next]_vars
               PROVE  IndexInv'
    OBVIOUS
  <2>1. TypeOK'
    BY NextType DEF IndexInv
  <2>2. CASE Tick \/ UNCHANGED vars
    BY <2>1, <2>2 DEF Tick, vars, IndexInv, IndexMatchesPages, NothingLeftToIndex,
                      Active
  <2>3. ASSUME NEW p \in Procs, Service(p) \/ Transaction(p)
        PROVE  IndexInv'
    BY <2>1, <2>3, ServiceMatches, TransactionMatches
  <2> QED
    BY <2>2, <2>3 DEF Next
<1>3. IndexInv => IndexMatchesPages
  BY DEF IndexInv
<1> QED
  BY <1>1, <1>2, <1>3, PTL DEF Spec

-----------------------------------------------------------------------------
(* Paths.                                                                  *)

\* A transaction leaves every page where it was, or moves one page to a path
\* that no other page owns.
LEMMA TransactionPaths ==
  ASSUME TypeOK, PathsAreUnique, NEW p \in Procs, Transaction(p)
  PROVE  PathsAreUnique'
<1>1. req[p] \in Request /\ pages \in [Ids -> Row \cup {None}]
  BY DEF TypeOK
<1>2. ASSUME \A i \in Ids : pages'[i] # None =>
               pages[i] # None /\ pages'[i].path = pages[i].path
      PROVE  PathsAreUnique'
  BY <1>2 DEF PathsAreUnique
<1>3. CASE CommitCreate(p)
  <2>1. PICK i \in Ids : \E now \in req[p].at .. clock :
          pages' = [pages EXCEPT ![i] =
            [path |-> req[p].path, content |-> req[p].content,
             lifecycle |-> "active", updatedAt |-> now]]
    BY <1>3 DEF CommitCreate
  <2>2. pages'[i].path = req[p].path /\ \A j \in Ids \ {i} : pages'[j] = pages[j]
    BY <1>1, <2>1
  <2>3. \A j \in Ids : pages[j] # None => pages[j].path # req[p].path
    BY <1>3 DEF CommitCreate, At
  <2> QED
    BY <2>2, <2>3 DEF PathsAreUnique
<1>4. CASE WriteExisting(p) \/ SetLifecycle(p) \/ CommitRemove(p)
  <2>1. req[p].id \in Ids
    BY <1>1, <1>4 DEF WriteExisting, SetLifecycle, CommitRemove, Request
  <2>2. req[p].at \in Times /\ req[p].at .. clock \subseteq Times
    <3>1. req[p].at \in Times
      BY <1>1, <1>4 DEF WriteExisting, SetLifecycle, CommitRemove, Request
    <3> QED
      BY <3>1, PageStoreAssumption DEF TypeOK
  <2>3. CASE WriteExisting(p)
    <3>1. PICK now \in req[p].at .. clock : PutsContent(req[p].id, req[p].next, now)
      BY <2>3 DEF WriteExisting, PutsContent
    <3>2. now \in Times
      BY <2>2
    <3>3. req[p].next \in Content
      BY <1>1, <2>3 DEF WriteExisting, Request
    <3> QED
      BY <1>2, <2>1, <3>1, <3>2, <3>3, ContentWriteType
  <2>4. CASE SetLifecycle(p)
    <3>1. PICK now \in req[p].at .. clock : PutsLifecycle(req[p].id, req[p].to, now)
      BY <2>4 DEF SetLifecycle, PutsLifecycle
    <3>2. now \in Times
      BY <2>2
    <3>3. req[p].to \in Lifecycles
      BY <1>1, <2>4 DEF SetLifecycle, Request
    <3> QED
      BY <1>2, <2>1, <3>1, <3>2, <3>3, LifecycleWriteType
  <2>5. CASE CommitRemove(p)
    <3>1. PICK now \in req[p].at .. clock : PutsLifecycle(req[p].id, "deleted", now)
      BY <2>5 DEF CommitRemove, PutsLifecycle
    <3>2. now \in Times
      BY <2>2
    <3>3. "deleted" \in Lifecycles
      BY DEF Lifecycles
    <3> QED
      BY <1>2, <2>1, <3>1, <3>2, <3>3, LifecycleWriteType
  <2> QED
    BY <1>4, <2>3, <2>4, <2>5
<1>5. CASE CommitMove(p)
  <2> DEFINE m == req[p]
  <2>1. m.id \in Ids
    BY <1>1, <1>5 DEF CommitMove, Request
  <2>2. ASSUME NEW i \in Ids
        PROVE  /\ pages[i] = None => pages'[i] = None
               /\ pages[i] # None =>
                    pages'[i].path = IF i = m.id THEN m.to ELSE pages[i].path
    <3>1. CASE pages[i] = None
      BY <1>5, <3>1 DEF CommitMove
    <3>2. CASE pages[i] # None
      <4>1. pages[i] \in Row
        BY <1>1, <3>2
      <4>2. pages'[i] = [pages[i] EXCEPT
              !.path = IF i = m.id THEN m.to ELSE @,
              !.content = IF m.rewritten[i] = None THEN @
                          ELSE RewriteLinks(m.rewritten[i].content,
                                            m.row.path, m.to),
              !.updatedAt = IF i = m.id \/ m.rewritten[i] # None THEN m.at ELSE @]
        BY <1>5, <3>2 DEF CommitMove
      <4> HIDE DEF m
      <4> QED
        BY <3>2, <4>1, <4>2 DEF Row
    <3> QED
      BY <3>1, <3>2
  <2>3. pages[m.id] # None =>
          \A j \in Ids \ {m.id} : pages[j] # None => pages[j].path # m.to
    BY <1>5 DEF CommitMove, At
  <2> HIDE DEF m
  <2> QED
    BY <2>1, <2>2, <2>3 DEF PathsAreUnique
<1>6. CASE CommitPurge(p)
  BY <1>1, <1>2, <1>6 DEF CommitPurge
<1>7. CASE \/ InsertRedirect(p) \/ DropRedirect(p) \/ Conflict(p)
           \/ IndexPage(p) \/ Respond(p)
  BY <1>2, <1>7 DEF InsertRedirect, DropRedirect, Conflict, IndexPage, Respond, Plan
<1> QED
  BY <1>3, <1>4, <1>5, <1>6, <1>7 DEF Transaction

\* A path names one page, in the trash or not, whatever creates, copies and
\* moves race for it.
THEOREM PathsStayUnique == Spec => []PathsAreUnique
<1> DEFINE Inv == TypeOK /\ PathsAreUnique
<1>1. Init => Inv
  BY InitType DEF Init, PathsAreUnique
<1>2. Inv /\ [Next]_vars => Inv'
  <2> SUFFICES ASSUME Inv, [Next]_vars
               PROVE  Inv'
    OBVIOUS
  <2>1. TypeOK'
    BY NextType
  <2>2. CASE Tick \/ UNCHANGED vars
    BY <2>1, <2>2 DEF Tick, vars, PathsAreUnique
  <2>3. ASSUME NEW p \in Procs, Service(p)
        PROVE  Inv'
    BY <2>1, <2>3, ServiceOnlyReads DEF PathsAreUnique
  <2>4. ASSUME NEW p \in Procs, Transaction(p)
        PROVE  Inv'
    BY <2>1, <2>4, TransactionPaths
  <2> QED
    BY <2>2, <2>3, <2>4 DEF Next
<1>3. Inv => PathsAreUnique
  OBVIOUS
<1> HIDE DEF Inv
<1> QED
  BY <1>1, <1>2, <1>3, PTL DEF Spec

-----------------------------------------------------------------------------
(* Redirects.                                                              *)

\* Removing redirects closes no loop.
LEMMA FewerRedirectsNoLoop ==
  ASSUME PageStoreAssumption, NoRedirectLoop,
         \A x \in Paths : redirects'[x] \in {redirects[x], None}
  PROVE  NoRedirectLoop'
<1> SUFFICES ASSUME NEW S \in (SUBSET Paths) \ {{}}
             PROVE  \E x \in S : redirects'[x] \notin S
  BY DEF NoRedirectLoop
<1>1. PICK x \in S : redirects[x] \notin S
  BY DEF NoRedirectLoop
<1> QED
  BY <1>1 DEF PageStoreAssumption

\* The redirects of a move close no loop: those that now lead to the new path
\* stop there.
LEMMA MovedRedirectsNoLoop ==
  ASSUME PageStoreAssumption, NoRedirectLoop,
         NEW old \in Paths, NEW new \in Paths, old # new,
         redirects' = MovedRedirects(old, new)
  PROVE  NoRedirectLoop'
<1> SUFFICES ASSUME NEW S \in (SUBSET Paths) \ {{}}
             PROVE  \E x \in S : redirects'[x] \notin S
  BY DEF NoRedirectLoop
<1>1. CASE new \in S
  <2>1. redirects'[new] = None
    BY DEF MovedRedirects
  <2> QED
    BY <1>1, <2>1 DEF PageStoreAssumption
<1>2. CASE new \notin S /\ old \in S
  <2>1. redirects'[old] = new
    BY DEF MovedRedirects
  <2> QED
    BY <1>2, <2>1
<1>3. CASE new \notin S /\ old \notin S
  <2>1. PICK x \in S : redirects[x] \notin S
    BY DEF NoRedirectLoop
  <2>2. redirects'[x] \in {new, None, redirects[x]}
    BY <2>1 DEF MovedRedirects
  <2> QED
    BY <1>3, <2>1, <2>2 DEF PageStoreAssumption
<1> QED
  BY <1>1, <1>2, <1>3

\* A page is never moved to the path it was read at.
MovesGoElsewhere ==
  \A p \in Procs : req[p].op \in {"moving", "move"} => req[p].to # req[p].row.path

LEMMA TransactionForgets ==
  ASSUME TypeOK, NEW p \in Procs, Transaction(p)
  PROVE  /\ \A q \in Procs \ {p} : req'[q] = req[q]
         /\ req'[p].op \in {"idle", "index"}
<1>1. CASE \/ CommitCreate(p) \/ WriteExisting(p) \/ SetLifecycle(p)
           \/ CommitMove(p) \/ CommitRemove(p) \/ CommitPurge(p)
  <2>1. PICK touched : IndexPages(p, touched)
    BY <1>1 DEF CommitCreate, WriteExisting, SetLifecycle, CommitMove, CommitRemove,
                CommitPurge
  <2> QED
    BY <2>1 DEF IndexPages, Idle, TypeOK
<1>2. CASE InsertRedirect(p) \/ DropRedirect(p) \/ Conflict(p) \/ Respond(p)
  BY <1>2 DEF InsertRedirect, DropRedirect, Conflict, Respond, Plan, Idle, TypeOK
<1>3. CASE IndexPage(p)
  BY <1>3 DEF IndexPage, TypeOK, Request
<1> QED
  BY <1>1, <1>2, <1>3 DEF Transaction

LEMMA MovesGoElsewhereStep ==
  ASSUME TypeOK, MovesGoElsewhere, [Next]_vars
  PROVE  MovesGoElsewhere'
<1>1. CASE Tick \/ UNCHANGED vars
  BY <1>1 DEF Tick, vars, MovesGoElsewhere
<1>2. ASSUME NEW p \in Procs, Transaction(p)
      PROVE  MovesGoElsewhere'
  BY <1>2, TransactionForgets DEF MovesGoElsewhere
<1>3. ASSUME NEW p \in Procs, Service(p)
      PROVE  MovesGoElsewhere'
  <2>1. \A q \in Procs \ {p} : req'[q] = req[q]
    BY <1>3, ServiceOnlyReads
  <2>2. req'[p].op \in {"moving", "move"} => req'[p].to # req'[p].row.path
    <3> USE DEF Plan, TypeOK
    <3>1. CASE Create(p) \/ CopyCreate(p)
      BY <3>1 DEF Create, CopyCreate, PlanCreate
    <3>2. CASE Copy(p)
      BY <3>2 DEF Copy
    <3>3. CASE Update(p)
      BY <3>3 DEF Update, PlanWrite
    <3>4. CASE SaveContent(p) \/ RestoreRevision(p)
      BY <3>4 DEF SaveContent, RestoreRevision, PlanWrite
    <3>5. CASE Archive(p) \/ Restore(p)
      BY <3>5 DEF Archive, Restore, PlanLifecycle
    <3>6. CASE Move(p)
      BY <3>6 DEF Move, ActiveAt, At
    <3>7. CASE MoveRewrites(p)
      BY <3>7 DEF MoveRewrites, MovesGoElsewhere
    <3>8. CASE Remove(p) \/ Purge(p)
      BY <3>8 DEF Remove, Purge
    <3>9. CASE CreateRedirect(p) \/ DeleteRedirect(p)
      BY <3>9 DEF CreateRedirect, DeleteRedirect
    <3>10. CASE Abandon(p)
      BY <3>10 DEF Abandon, Idle
    <3> QED
      BY <1>3, <3>1, <3>2, <3>3, <3>4, <3>5, <3>6, <3>7, <3>8, <3>9, <3>10
         DEF Service
  <2> QED
    BY <2>1, <2>2 DEF MovesGoElsewhere
<1> QED
  BY <1>1, <1>2, <1>3 DEF Next

\* No page operation closes a loop of redirects, from whatever stale rows it
\* was planned; only the insertion of a redirect made by hand can.
THEOREM OnlyInsertsCloseLoopsHolds == Spec => OnlyInsertsCloseLoops
<1> DEFINE Inv == TypeOK /\ MovesGoElsewhere
           Keeps == NoRedirectLoop /\ (\A p \in Procs : ~ InsertRedirect(p))
                      => NoRedirectLoop'
<1>1. Init => Inv
  BY InitType DEF Init, MovesGoElsewhere, Idle
<1>2. Inv /\ [Next]_vars => Inv'
  BY NextType, MovesGoElsewhereStep
<1>3. Inv /\ [Next]_vars => [Keeps]_vars
  <2> SUFFICES ASSUME Inv, Next, NoRedirectLoop, \A p \in Procs : ~ InsertRedirect(p)
               PROVE  NoRedirectLoop'
    OBVIOUS
  <2> USE PageStoreAssumption
  <2>1. CASE UNCHANGED redirects
    BY <2>1 DEF NoRedirectLoop
  <2>2. ASSUME NEW p \in Procs, Transaction(p)
        PROVE  NoRedirectLoop'
    <3>1. CASE CommitCreate(p) \/ CommitRemove(p) \/ CommitPurge(p) \/ DropRedirect(p)
      <4>1. \A x \in Paths : redirects'[x] \in {redirects[x], None}
        BY <3>1 DEF CommitCreate, CommitRemove, CommitPurge, DropRedirect, TypeOK
      <4> QED
        BY <4>1, FewerRedirectsNoLoop
    <3>2. CASE CommitMove(p)
      <4>1. /\ req[p].row.path \in Paths /\ req[p].to \in Paths
            /\ req[p].to # req[p].row.path
        BY <3>2 DEF CommitMove, TypeOK, Request, Row, MovesGoElsewhere
      <4>2. redirects' = MovedRedirects(req[p].row.path, req[p].to)
        BY <3>2 DEF CommitMove
      <4> QED
        BY <4>1, <4>2, MovedRedirectsNoLoop
    <3>3. CASE \/ WriteExisting(p) \/ SetLifecycle(p) \/ Conflict(p)
               \/ IndexPage(p) \/ Respond(p)
      BY <2>1, <3>3 DEF WriteExisting, SetLifecycle, Conflict, IndexPage, Respond, Plan
    <3> QED
      BY <2>2, <3>1, <3>2, <3>3 DEF Transaction
  <2>3. ASSUME NEW p \in Procs, Service(p)
        PROVE  NoRedirectLoop'
    BY <2>1, <2>3, ServiceOnlyReads
  <2>4. CASE Tick
    BY <2>1, <2>4 DEF Tick
  <2> QED
    BY <2>2, <2>3, <2>4 DEF Next
<1> HIDE DEF Inv, Keeps
<1>4. Spec => [][Keeps]_vars
  BY <1>1, <1>2, <1>3, PTL DEF Spec
<1> QED
  BY <1>4 DEF Keeps, OnlyInsertsCloseLoops

-----------------------------------------------------------------------------
(* One request at a time.                                                  *)

Alone == \A p, q \in Procs : p = q

\* The request in flight works on rows that are still there: nothing wrote since
\* it read them.
Current(r) ==
  /\ r.op \in {"write", "lifecycle", "moving", "move", "remove"} => pages[r.id] = r.row
  /\ r.op \in {"write", "moving", "move", "remove"} => r.row.lifecycle = "active"
  /\ r.op = "lifecycle" => r.to # "deleted"
  /\ r.op = "purge" => pages[r.id] # None /\ pages[r.id].path = r.path
  /\ r.op = "move" =>
       \A i \in Ids : r.rewritten[i] # None =>
         Active(i) /\ r.rewritten[i] = RevisionFor(i, pages[i])
  /\ r.op = "addRedirect" => \E i \in At(r.to) : Active(i)

RequestsAreCurrent == \A p \in Procs : Current(req[p])

\* Every page has its entry in the index, or a request is about to write it.
IndexFollows ==
  \A i \in Ids :
    \/ index[i] = IndexEntry(pages[i])
    \/ \E p \in Procs :
         /\ req[p].op = "index"
         /\ [page |-> i, entry |-> IndexEntry(pages[i])] \in req[p].todo

EntriesAreCurrent ==
  \A p \in Procs : req[p].op = "index" =>
    \A t \in req[p].todo : t.entry = IndexEntry(pages[t.page])

AloneInv ==
  /\ TypeOK
  /\ RequestsAreCurrent
  /\ IndexFollows /\ EntriesAreCurrent
  /\ NoOrphanRevisions
  /\ RedirectsLeadToPages

\* What a request has read is there when it has just read it.
LEMMA ServiceIsCurrent ==
  ASSUME TypeOK, RequestsAreCurrent, NEW p \in Procs, Service(p)
  PROVE  Current(req'[p]) /\ req'[p].op # "index" /\ req[p].op # "index"
<1> USE PageStoreAssumption DEF Plan, TypeOK
<1>1. \A x \in Paths : \A i \in At(x) : i \in Ids /\ pages[i] # None /\ pages[i].path = x
  BY DEF At
<1>2. \A x \in Paths : \A i \in ActiveAt(x) :
        i \in Ids /\ pages[i] # None /\ pages[i].lifecycle = "active"
  BY DEF ActiveAt, At, Active
<1>3. CASE Create(p) \/ CopyCreate(p)
  BY <1>3 DEF Create, CopyCreate, PlanCreate, Current, Idle
<1>4. CASE Copy(p)
  BY <1>4 DEF Copy, Current, Idle
<1>5. CASE Update(p) \/ SaveContent(p) \/ RestoreRevision(p)
  <2>1. PICK x \in Paths : \E i \in ActiveAt(x) : \E next, recorded, expected :
          PlanWrite(p, i, next, recorded, expected)
    BY <1>5 DEF Update, SaveContent, RestoreRevision
  <2>2. PICK i \in ActiveAt(x) : \E next, recorded, expected :
          PlanWrite(p, i, next, recorded, expected)
    BY <2>1
  <2>3. PICK next, recorded, expected : PlanWrite(p, i, next, recorded, expected)
    BY <2>2
  <2> QED
    BY <1>2, <1>5, <2>3
      DEF PlanWrite, Current, Update, SaveContent, RestoreRevision, Idle
<1>6. CASE Archive(p) \/ Restore(p)
  <2>1. PICK x \in Paths : \E i \in At(x) : \E to \in {"active", "archived"} :
          PlanLifecycle(p, i, to)
    BY <1>6 DEF Archive, Restore, ActiveAt
  <2> QED
    BY <1>1, <1>6, <2>1 DEF PlanLifecycle, Current, Archive, Restore, Idle
<1>7. CASE Move(p)
  BY <1>2, <1>7 DEF Move, Current, Idle
<1>8. CASE MoveRewrites(p)
  <2> DEFINE m == req[p]
             rewrites(i) == /\ Active(i)
                            /\ RewriteLinks(pages[i].content, m.row.path, m.to)
                                 # pages[i].content
             rewritten == [i \in Ids |->
                IF rewrites(i) THEN RevisionFor(i, pages[i]) ELSE None]
  <2>1. m.op = "moving" /\ pages[m.id] = m.row /\ m.row.lifecycle = "active"
    BY <1>8 DEF MoveRewrites, RequestsAreCurrent, Current
  <2>2. PICK now \in m.at .. clock :
          Plan(p, [op |-> "move", id |-> m.id, row |-> m.row, to |-> m.to,
                   at |-> now, rewritten |-> rewritten])
    BY <1>8 DEF MoveRewrites
  <2>3. \A i \in Ids : rewritten[i] # None =>
          Active(i) /\ rewritten[i] = RevisionFor(i, pages[i])
    OBVIOUS
  <2> HIDE DEF rewritten
  <2> QED
    BY <2>1, <2>2, <2>3 DEF Current
<1>9. CASE Remove(p)
  BY <1>2, <1>9 DEF Remove, Current, Idle
<1>10. CASE Purge(p)
  BY <1>1, <1>10 DEF Purge, Current, Idle
<1>11. CASE CreateRedirect(p)
  <2>1. PICK from \in Paths, to \in Paths, i \in {j \in Ids : Active(j)} :
          Plan(p, [op |-> "addRedirect", from |-> from, to |-> pages[i].path])
    BY <1>11 DEF CreateRedirect
  <2>2. i \in At(pages[i].path) /\ Active(i)
    BY <2>1 DEF At, Active
  <2> QED
    BY <1>11, <2>1, <2>2 DEF Current, CreateRedirect, Idle
<1>12. CASE DeleteRedirect(p)
  BY <1>12 DEF DeleteRedirect, Current, Idle
<1>13. CASE Abandon(p)
  BY <1>13 DEF Abandon, Idle, Current
<1> QED
  BY <1>3, <1>4, <1>5, <1>6, <1>7, <1>8, <1>9, <1>10, <1>11, <1>12, <1>13 DEF Service

\* What a write does to the row of a page that is still there.
LEMMA ContentWritten ==
  ASSUME TypeOK, NEW p \in Procs, WriteExisting(p), pages[req[p].id] # None
  PROVE  /\ pages'[req[p].id].path = pages[req[p].id].path
         /\ pages'[req[p].id].lifecycle = pages[req[p].id].lifecycle
         /\ \A j \in Ids \ {req[p].id} : pages'[j] = pages[j]
<1> DEFINE i == req[p].id
<1>1. i \in Ids
  BY DEF TypeOK, WriteExisting, Request
<1>2. pages[i] \in Row
  BY <1>1 DEF TypeOK
<1>3. PICK now : pages' = [pages EXCEPT ![i].content = req[p].next, ![i].updatedAt = now]
  BY DEF WriteExisting
<1>4. pages'[i] = [pages[i] EXCEPT !.content = req[p].next, !.updatedAt = now]
      /\ \A j \in Ids \ {i} : pages'[j] = pages[j]
  BY <1>1, <1>3 DEF TypeOK
<1> HIDE DEF i
<1>5. pages'[i].path = pages[i].path /\ pages'[i].lifecycle = pages[i].lifecycle
  BY <1>2, <1>4 DEF Row
<1> QED
  BY <1>4, <1>5 DEF i

LEMMA LifecycleWritten ==
  ASSUME TypeOK, NEW p \in Procs, SetLifecycle(p) \/ CommitRemove(p),
         pages[req[p].id] # None
  PROVE  /\ pages'[req[p].id].path = pages[req[p].id].path
         /\ pages'[req[p].id].content = pages[req[p].id].content
         /\ SetLifecycle(p) => pages'[req[p].id].lifecycle = req[p].to
         /\ \A j \in Ids \ {req[p].id} : pages'[j] = pages[j]
<1> DEFINE i == req[p].id
<1>1. i \in Ids
  BY DEF TypeOK, SetLifecycle, CommitRemove, Request
<1>2. pages[i] \in Row
  BY <1>1 DEF TypeOK
<1>3. PICK l, now : /\ pages' = [pages EXCEPT ![i].lifecycle = l, ![i].updatedAt = now]
                    /\ SetLifecycle(p) => l = req[p].to
  BY DEF SetLifecycle, CommitRemove
<1>4. pages'[i] = [pages[i] EXCEPT !.lifecycle = l, !.updatedAt = now]
      /\ \A j \in Ids \ {i} : pages'[j] = pages[j]
  BY <1>1, <1>3 DEF TypeOK
<1> HIDE DEF i
<1>5. /\ pages'[i].path = pages[i].path /\ pages'[i].content = pages[i].content
      /\ pages'[i].lifecycle = l
  BY <1>2, <1>4 DEF Row
<1> QED
  BY <1>3, <1>4, <1>5 DEF i

\* A move changes the path of one page, and the contents of those that link to it.
LEMMA Moved ==
  ASSUME TypeOK, NEW p \in Procs, CommitMove(p), NEW i \in Ids
  PROVE  /\ pages[i] = None => pages'[i] = None
         /\ pages[i] # None =>
              /\ pages'[i].lifecycle = pages[i].lifecycle
              /\ pages'[i].path = IF i = req[p].id THEN req[p].to ELSE pages[i].path
              /\ req[p].rewritten[i] = None => pages'[i].content = pages[i].content
<1> DEFINE m == req[p]
<1>1. CASE pages[i] = None
  BY <1>1 DEF CommitMove
<1>2. CASE pages[i] # None
  <2>1. pages[i] \in Row
    BY <1>2 DEF TypeOK
  <2>2. pages'[i] = [pages[i] EXCEPT
          !.path = IF i = m.id THEN m.to ELSE @,
          !.content = IF m.rewritten[i] = None THEN @
                      ELSE RewriteLinks(m.rewritten[i].content, m.row.path, m.to),
          !.updatedAt = IF i = m.id \/ m.rewritten[i] # None THEN m.at ELSE @]
    BY <1>2 DEF CommitMove
  <2> HIDE DEF m
  <2>3. /\ pages'[i].lifecycle = pages[i].lifecycle
        /\ pages'[i].path = IF i = m.id THEN m.to ELSE pages[i].path
        /\ m.rewritten[i] = None => pages'[i].content = pages[i].content
    BY <2>1, <2>2 DEF Row
  <2> QED
    BY <1>2, <2>3 DEF m
<1> QED
  BY <1>1, <1>2

\* A new row is a row.
LEMMA CreatedRow ==
  ASSUME TypeOK, NEW p \in Procs, CommitCreate(p)
  PROVE  \E i \in Ids :
           /\ pages[i] = None /\ pages'[i] # None
           /\ pages'[i].path = req[p].path /\ pages'[i].lifecycle = "active"
           /\ \A j \in Ids \ {i} : pages'[j] = pages[j]
           /\ revisions' = revisions \cup {RevisionFor(i, pages'[i])}
<1>1. req[p].path \in Paths /\ req[p].content \in Content /\ req[p].at .. clock \subseteq Times
  <2>1. /\ req[p].path \in Paths /\ req[p].content \in Content
        /\ req[p].at \in Times /\ clock \in Times
    BY DEF CommitCreate, TypeOK, Request
  <2> QED
    BY <2>1, PageStoreAssumption
<1>2. PICK i \in Ids, now \in req[p].at .. clock :
        /\ pages[i] = None
        /\ pages' = [pages EXCEPT ![i] =
             [path |-> req[p].path, content |-> req[p].content,
              lifecycle |-> "active", updatedAt |-> now]]
        /\ revisions' = revisions \cup {RevisionFor(i, pages'[i])}
  BY DEF CommitCreate, Record, Fresh
<1>3. [path |-> req[p].path, content |-> req[p].content,
       lifecycle |-> "active", updatedAt |-> now] \in Row
  BY <1>1 DEF Row, Lifecycles
<1>4. pages'[i] \in Row /\ pages'[i].path = req[p].path /\ pages'[i].lifecycle = "active"
      /\ \A j \in Ids \ {i} : pages'[j] = pages[j]
  BY <1>2, <1>3 DEF TypeOK
<1> QED
  BY <1>2, <1>4, PageStoreAssumption

\* A row that was there before the commit of a write, a lifecycle change, a move or
\* a deletion is there after it.
LEMMA RowsStay ==
  ASSUME TypeOK, NEW p \in Procs,
         \/ WriteExisting(p) \/ SetLifecycle(p) \/ CommitMove(p) \/ CommitRemove(p),
         NEW i \in Ids, pages[i] # None
  PROVE  pages'[i] # None
<1> USE PageStoreAssumption
<1>1. req[p] \in Request /\ pages[i] \in Row /\ pages \in [Ids -> Row \cup {None}]
  BY DEF TypeOK
<1>2. req[p].op \in {"write", "lifecycle", "remove"} =>
        req[p].id \in Ids /\ req[p].at .. clock \subseteq Times
  BY <1>1 DEF Request, TypeOK
<1>3. CASE WriteExisting(p)
  <2>1. PICK now \in req[p].at .. clock :
          PutsContent(req[p].id, req[p].next, now)
    BY <1>3 DEF WriteExisting, PutsContent
  <2>2. req[p].next \in Content /\ req[p].id \in Ids /\ now \in Times
    BY <1>1, <1>2, <1>3 DEF WriteExisting, Request
  <2> QED
    BY <1>1, <2>1, <2>2, ContentWriteType, PageStoreAssumption
<1>4. ASSUME NEW l \in Lifecycles, NEW now \in Times, req[p].id \in Ids,
             PutsLifecycle(req[p].id, l, now)
      PROVE  pages'[i] # None
  BY <1>1, <1>4, LifecycleWriteType, PageStoreAssumption
<1>5. CASE SetLifecycle(p)
  <2>1. req[p].to \in Lifecycles
    BY <1>1, <1>5 DEF SetLifecycle, Request
  <2> QED
    BY <1>2, <1>4, <1>5, <2>1 DEF SetLifecycle, PutsLifecycle
<1>6. CASE CommitRemove(p)
  BY <1>2, <1>4, <1>6 DEF CommitRemove, Lifecycles, PutsLifecycle
<1>7. CASE CommitMove(p)
  BY <1>7, MovedType
<1> QED
  BY <1>3, <1>5, <1>6, <1>7

\* Refreshing the index of every page that changed leaves each with its entry, or
\* with a request that is about to write it.
LEMMA IndexPagesFollows ==
  ASSUME Alone, TypeOK, TypeOK', IndexFollows, NEW p \in Procs, req[p].op # "index",
         NEW touched \in SUBSET Ids, IndexPages(p, touched),
         \A i \in Ids \ touched : pages'[i] = pages[i]
  PROVE  IndexFollows' /\ EntriesAreCurrent'
<1>1. \A i \in Ids : index[i] = IndexEntry(pages[i])
  BY DEF Alone, IndexFollows
<1>2. CASE /\ index' = [i \in Ids |-> IF i \in touched THEN IndexEntry(pages'[i])
                                      ELSE index[i]]
           /\ req' = [req EXCEPT ![p] = Idle]
  BY <1>1, <1>2 DEF IndexFollows, EntriesAreCurrent, Alone, TypeOK, Idle
<1>3. CASE /\ UNCHANGED index
           /\ req' = [req EXCEPT ![p] =
                [op |-> "index",
                 todo |-> {[page |-> i, entry |-> IndexEntry(pages'[i])] : i \in touched}]]
  <2> DEFINE todo == {[page |-> i, entry |-> IndexEntry(pages'[i])] : i \in touched}
  <2>1. req'[p].op = "index" /\ req'[p].todo = todo
    BY <1>3 DEF TypeOK
  <2>2. \A t \in todo : t.entry = IndexEntry(pages'[t.page])
    OBVIOUS
  <2>3. \A i \in touched : [page |-> i, entry |-> IndexEntry(pages'[i])] \in todo
    OBVIOUS
  <2> HIDE DEF todo
  <2>4. IndexFollows'
    BY <1>1, <1>3, <2>1, <2>3 DEF IndexFollows
  <2>5. EntriesAreCurrent'
    BY <2>1, <2>2 DEF EntriesAreCurrent, Alone
  <2> QED
    BY <2>4, <2>5
<1> QED
  BY <1>2, <1>3 DEF IndexPages

LEMMA AloneIndex ==
  ASSUME Alone, AloneInv, TypeOK', NEW p \in Procs, Service(p) \/ Transaction(p)
  PROVE  IndexFollows' /\ EntriesAreCurrent'
<1> USE DEF AloneInv
<1>1. CASE \/ CommitCreate(p) \/ WriteExisting(p) \/ SetLifecycle(p)
           \/ CommitMove(p) \/ CommitRemove(p) \/ CommitPurge(p)
  <2>1. req[p].op # "index"
    BY <1>1 DEF CommitCreate, WriteExisting, SetLifecycle, CommitMove, CommitRemove,
                CommitPurge
  <2> QED
    BY <1>1, <2>1, CommitsTouch, IndexPagesFollows
<1>2. ASSUME req[p].op # "index", req'[p].op # "index", UNCHANGED <<pages, index>>
      PROVE  IndexFollows' /\ EntriesAreCurrent'
  BY <1>2 DEF IndexFollows, EntriesAreCurrent, Alone
<1>3. CASE Service(p)
  BY <1>2, <1>3, ServiceIsCurrent, ServiceOnlyReads
<1>4. CASE InsertRedirect(p) \/ DropRedirect(p) \/ Conflict(p)
  BY <1>2, <1>4 DEF InsertRedirect, DropRedirect, Conflict, Plan, Idle, TypeOK
<1>5. CASE IndexPage(p)
  <2>1. PICK t \in req[p].todo :
          /\ index' = [index EXCEPT ![t.page] = t.entry]
          /\ req' = [req EXCEPT ![p].todo = @ \ {t}]
    BY <1>5 DEF IndexPage
  <2>2. /\ req[p].op = "index" /\ UNCHANGED pages
        /\ req[p].todo \in SUBSET [page : Ids, entry : Content \cup {None}]
    BY <1>5 DEF IndexPage, TypeOK, Request
  <2>3. req'[p].op = "index" /\ req'[p].todo = req[p].todo \ {t}
    BY <2>1, <2>2 DEF TypeOK, Request
  <2>4. EntriesAreCurrent'
    BY <2>2, <2>3 DEF EntriesAreCurrent, Alone
  <2>5. t.page \in Ids /\ t.entry = IndexEntry(pages[t.page])
    BY <2>2 DEF EntriesAreCurrent
  <2>6. ASSUME NEW i \in Ids
        PROVE  \/ index'[i] = IndexEntry(pages[i])
               \/ [page |-> i, entry |-> IndexEntry(pages[i])] \in req'[p].todo
    <3>1. CASE i = t.page
      BY <2>1, <2>5, <3>1 DEF TypeOK
    <3>2. CASE i # t.page
      <4>1. index'[i] = index[i]
        BY <2>1, <3>2 DEF TypeOK
      <4>2. [page |-> i, entry |-> IndexEntry(pages[i])] # t
        BY <3>2
      <4> QED
        BY <2>3, <4>1, <4>2 DEF IndexFollows, Alone
    <3> QED
      BY <3>1, <3>2
  <2>7. IndexFollows'
    BY <2>2, <2>3, <2>6 DEF IndexFollows
  <2> QED
    BY <2>4, <2>7
<1>6. CASE Respond(p)
  BY <1>6 DEF Respond, Plan, Idle, TypeOK, IndexFollows, EntriesAreCurrent, Alone
<1> QED
  BY <1>1, <1>3, <1>4, <1>5, <1>6 DEF Transaction

LEMMA AloneRequests ==
  ASSUME Alone, AloneInv, NEW p \in Procs, Service(p) \/ Transaction(p)
  PROVE  RequestsAreCurrent'
<1>1. CASE Transaction(p)
  <2>1. req'[p].op \in {"idle", "index"}
    BY <1>1, TransactionForgets DEF AloneInv
  <2> QED
    BY <2>1 DEF Alone, RequestsAreCurrent, Current
<1>2. CASE Service(p)
  <2>1. Current(req'[p]) /\ UNCHANGED pages
    BY <1>2, ServiceIsCurrent, ServiceOnlyReads DEF AloneInv
  <2> QED
    BY <2>1 DEF Alone, RequestsAreCurrent, Current, At, Active
<1> QED
  BY <1>1, <1>2

\* Every revision that a transaction records is of a page that is there.
LEMMA AloneRevisions ==
  ASSUME Alone, AloneInv, TypeOK', NEW p \in Procs, Service(p) \/ Transaction(p)
  PROVE  NoOrphanRevisions'
<1> USE PageStoreAssumption DEF AloneInv, NoOrphanRevisions
<1>1. req[p] \in Request /\ Current(req[p]) /\ \A r \in Row : r # None
  BY DEF TypeOK, RequestsAreCurrent
<1>2. \A r \in revisions : r.page \in Ids
  BY DEF TypeOK, Revision
<1>3. CASE CommitCreate(p)
  <2>1. PICK i \in Ids :
          /\ pages'[i] # None
          /\ \A j \in Ids \ {i} : pages'[j] = pages[j]
          /\ revisions' = revisions \cup {RevisionFor(i, pages'[i])}
    BY <1>3, CreatedRow
  <2> QED
    BY <1>2, <2>1 DEF RevisionFor
<1>4. CASE WriteExisting(p) \/ SetLifecycle(p) \/ CommitRemove(p)
  <2>1. req[p].id \in Ids /\ pages[req[p].id] # None
    BY <1>1, <1>4 DEF WriteExisting, SetLifecycle, CommitRemove, Request, Current
  <2>2. revisions' \subseteq revisions \cup {RevisionFor(req[p].id, req[p].row)}
    BY <1>4 DEF WriteExisting, SetLifecycle, CommitRemove, Record
  <2>3. \A r \in revisions' : r.page \in Ids /\ pages[r.page] # None
    BY <1>2, <2>1, <2>2 DEF RevisionFor
  <2> QED
    BY <1>4, <2>3, RowsStay
<1>5. CASE CommitMove(p)
  <2>1. req[p].op = "move" /\ req[p].id \in Ids /\ pages[req[p].id] # None
    BY <1>1, <1>5 DEF CommitMove, Request, Current
  <2>2. revisions' \subseteq revisions \cup {RevisionFor(req[p].id, req[p].row)}
                      \cup {req[p].rewritten[i] : i \in {j \in Ids : req[p].rewritten[j] # None}}
    BY <1>5 DEF CommitMove, Record
  <2>3. \A i \in Ids : req[p].rewritten[i] # None =>
          req[p].rewritten[i].page = i /\ pages[i] # None
    <3>1. \A i \in Ids : req[p].rewritten[i] # None =>
            Active(i) /\ req[p].rewritten[i] = RevisionFor(i, pages[i])
      BY <1>1, <2>1 DEF Current
    <3>2. \A i \in Ids : RevisionFor(i, pages[i]).page = i
      BY DEF RevisionFor
    <3>3. \A i \in Ids : Active(i) => pages[i] # None
      BY DEF Active
    <3> HIDE DEF NoOrphanRevisions
    <3> QED
      BY <3>1, <3>2, <3>3
  <2>4. \A r \in revisions' : r.page \in Ids /\ pages[r.page] # None
    BY <1>2, <2>1, <2>2, <2>3 DEF RevisionFor
  <2> QED
    BY <1>5, <2>4, RowsStay
<1>6. CASE CommitPurge(p)
  <2>1. \A i \in Ids \ {req[p].id} : pages'[i] = pages[i]
    BY <1>6 DEF CommitPurge, TypeOK
  <2> QED
    BY <1>2, <1>6, <2>1 DEF CommitPurge, RevisionsOf
<1>7. CASE UNCHANGED <<pages, revisions>>
  BY <1>7
<1>8. CASE Service(p)
  BY <1>7, <1>8, ServiceOnlyReads
<1> QED
  BY <1>3, <1>4, <1>5, <1>6, <1>7, <1>8
    DEF Transaction, InsertRedirect, DropRedirect, Conflict, IndexPage, Respond, Plan

\* A page of the table that is not deleted has the path x.
Reached(table, x) ==
  \E i \in Ids : table[i] # None /\ table[i].path = x /\ table[i].lifecycle # "deleted"

LEMMA AloneRedirects ==
  ASSUME Alone, AloneInv, TypeOK', NEW p \in Procs, Service(p) \/ Transaction(p)
  PROVE  RedirectsLeadToPages'
<1> USE PageStoreAssumption DEF AloneInv
<1>1. req[p] \in Request /\ Current(req[p]) /\ redirects \in [Paths -> Paths \cup {None}]
  BY DEF TypeOK, RequestsAreCurrent
<1>2. \A x \in Paths : redirects[x] # None => Reached(pages, redirects[x])
  BY DEF RedirectsLeadToPages, Reached, At
<1>3. ASSUME \A x \in Paths : redirects'[x] # None => Reached(pages', redirects'[x])
      PROVE  RedirectsLeadToPages'
  BY <1>3 DEF RedirectsLeadToPages, Reached, At
<1>4. \A r \in Row : r # None
  OBVIOUS
<1>5. CASE CommitCreate(p)
  <2>1. PICK i \in Ids : pages[i] = None /\ \A j \in Ids \ {i} : pages'[j] = pages[j]
    BY <1>5, CreatedRow
  <2>2. \A x \in Paths : redirects'[x] # None => redirects'[x] = redirects[x]
    BY <1>1, <1>5 DEF CommitCreate
  <2>3. \A y : Reached(pages, y) => Reached(pages', y)
    BY <2>1 DEF Reached, At
  <2> QED
    BY <1>2, <1>3, <2>2, <2>3
<1>6. CASE WriteExisting(p)
  <2>1. req[p].id \in Ids /\ pages[req[p].id] # None
    BY <1>1, <1>4, <1>6 DEF WriteExisting, Request, Current
  <2>3. /\ pages'[req[p].id].path = pages[req[p].id].path
        /\ pages'[req[p].id].lifecycle = pages[req[p].id].lifecycle
        /\ \A j \in Ids \ {req[p].id} : pages'[j] = pages[j]
    BY <1>6, <2>1, ContentWritten
  <2>4. \A i \in Ids : pages[i] # None => pages'[i] # None
    BY <1>6, RowsStay
  <2>5. \A y : Reached(pages, y) => Reached(pages', y)
    BY <2>3, <2>4 DEF Reached, At
  <2> QED
    BY <1>2, <1>3, <1>6, <2>5 DEF WriteExisting
<1>7. CASE SetLifecycle(p)
  <2>1. req[p].id \in Ids /\ pages[req[p].id] # None /\ req[p].to # "deleted"
    BY <1>1, <1>4, <1>7 DEF SetLifecycle, Request, Current
  <2>3. /\ pages'[req[p].id].path = pages[req[p].id].path
        /\ pages'[req[p].id].lifecycle = req[p].to
        /\ \A j \in Ids \ {req[p].id} : pages'[j] = pages[j]
    BY <1>7, <2>1, LifecycleWritten
  <2>4. \A i \in Ids : pages[i] # None => pages'[i] # None
    BY <1>7, RowsStay
  <2>5. \A y : Reached(pages, y) => Reached(pages', y)
    BY <2>1, <2>3, <2>4 DEF Reached, At
  <2> QED
    BY <1>2, <1>3, <1>7, <2>5 DEF SetLifecycle
<1>8. CASE CommitMove(p)
  <2>1. /\ req[p].op = "move" /\ req[p].id \in Ids /\ pages[req[p].id] # None
        /\ pages[req[p].id] = req[p].row /\ req[p].row.lifecycle = "active"
        /\ req[p].to \in Paths /\ req[p].row.path \in Paths
    BY <1>1, <1>4, <1>8 DEF CommitMove, Request, Current, Row
  <2>2. \A i \in Ids : pages[i] # None => pages'[i] # None
    BY <1>8, RowsStay
  <2>3. \A i \in Ids : pages[i] # None =>
          /\ pages'[i].lifecycle = pages[i].lifecycle
          /\ pages'[i].path = IF i = req[p].id THEN req[p].to ELSE pages[i].path
    BY <1>8, Moved
  <2>4. Reached(pages', req[p].to)
    BY <2>1, <2>2, <2>3 DEF Reached, At
  <2>5. \A y : y # req[p].row.path /\ Reached(pages, y) => Reached(pages', y)
    BY <2>1, <2>2, <2>3 DEF Reached, At
  <2>6. \A x \in Paths : redirects'[x] # None =>
          \/ redirects'[x] = req[p].to
          \/ redirects'[x] = redirects[x] /\ redirects[x] # req[p].row.path
    BY <1>1, <1>8 DEF CommitMove, MovedRedirects
  <2> QED
    BY <1>2, <1>3, <2>4, <2>5, <2>6
<1>9. CASE CommitRemove(p) \/ CommitPurge(p)
  <2> DEFINE gone == pages[req[p].id].path
  <2>1. req[p].id \in Ids /\ \A j \in Ids \ {req[p].id} : pages'[j] = pages[j]
    <3>1. req[p].id \in Ids
      BY <1>1, <1>9 DEF CommitRemove, CommitPurge, Request
    <3>2. CASE CommitRemove(p)
      BY <3>1, <3>2 DEF CommitRemove, TypeOK
    <3>3. CASE CommitPurge(p)
      BY <3>1, <3>3 DEF CommitPurge, TypeOK
    <3> QED
      BY <1>9, <3>1, <3>2, <3>3
  <2>2. \A y : y # gone /\ Reached(pages, y) => Reached(pages', y)
    BY <2>1 DEF Reached, At
  <2>3. \A x \in Paths : redirects'[x] # None =>
          redirects'[x] = redirects[x] /\ redirects[x] # gone
    <3>1. CASE CommitRemove(p)
      BY <1>1, <3>1 DEF CommitRemove, Current
    <3>2. CASE CommitPurge(p)
      BY <1>1, <3>2 DEF CommitPurge, Current
    <3> QED
      BY <1>9, <3>1, <3>2
  <2> QED
    BY <1>2, <1>3, <2>2, <2>3
<1>10. CASE InsertRedirect(p)
  <2>1. req[p].to \in Paths /\ Reached(pages, req[p].to)
    BY <1>1, <1>10 DEF InsertRedirect, Request, Current, Reached, At, Active
  <2>2. \A x \in Paths : redirects'[x] # None =>
          redirects'[x] = redirects[x] \/ redirects'[x] = req[p].to
    BY <1>1, <1>10 DEF InsertRedirect
  <2>3. \A y : Reached(pages, y) => Reached(pages', y)
    BY <1>10 DEF InsertRedirect, Reached, At
  <2> QED
    BY <1>2, <1>3, <2>1, <2>2, <2>3
<1>11. CASE DropRedirect(p)
  <2>1. \A x \in Paths : redirects'[x] # None => redirects'[x] = redirects[x]
    BY <1>1, <1>11 DEF DropRedirect
  <2>2. \A y : Reached(pages, y) => Reached(pages', y)
    BY <1>11 DEF DropRedirect, Reached, At
  <2> QED
    BY <1>2, <1>3, <2>1, <2>2
<1>12. CASE UNCHANGED <<pages, redirects>>
  BY <1>12 DEF RedirectsLeadToPages, At
<1>13. CASE Service(p)
  BY <1>12, <1>13, ServiceOnlyReads
<1> QED
  BY <1>5, <1>6, <1>7, <1>8, <1>9, <1>10, <1>11, <1>12, <1>13
    DEF Transaction, Conflict, IndexPage, Respond, Plan

LEMMA AloneNext ==
  ASSUME Alone, AloneInv, [Next]_vars
  PROVE  AloneInv'
<1>1. TypeOK'
  BY NextType DEF AloneInv
<1>2. CASE Tick \/ UNCHANGED vars
  BY <1>1, <1>2 DEF Tick, vars, AloneInv, RequestsAreCurrent, Current, At, Active,
       IndexFollows, EntriesAreCurrent, NoOrphanRevisions, RedirectsLeadToPages
<1>3. ASSUME NEW p \in Procs, Service(p) \/ Transaction(p)
      PROVE  AloneInv'
  BY <1>1, <1>3, AloneIndex, AloneRequests, AloneRevisions, AloneRedirects DEF AloneInv
<1> QED
  BY <1>2, <1>3 DEF Next

\* One request at a time, a request finds what it read, the index and the redirects
\* follow the pages, and no revision outlives its page: the inductive invariant.
THEOREM AloneAlways ==
  ASSUME Alone
  PROVE  Spec => []AloneInv
<1>1. Init => AloneInv
  BY InitType, PageStoreAssumption
    DEF Init, AloneInv, RequestsAreCurrent, Current, Idle, IndexFollows, IndexEntry,
        EntriesAreCurrent, NoOrphanRevisions, RedirectsLeadToPages
<1>2. AloneInv /\ [Next]_vars => AloneInv'
  BY AloneNext
<1> QED
  BY <1>1, <1>2, PTL DEF Spec

\* One request at a time, every redirect leads to the path of a page that exists and
\* is not deleted, through any moves, deletions, purges and redirects made by hand.
THEOREM RedirectsLeadToPagesAlone ==
  ASSUME Alone
  PROVE  Spec => []RedirectsLeadToPages
<1>1. AloneInv => RedirectsLeadToPages
  BY DEF AloneInv
<1> QED
  BY <1>1, AloneAlways, PTL

\* One request at a time, a purge leaves no revision of its page, and the index has
\* caught up whenever no request is in flight, wherever it is written.
THEOREM TablesFollowPagesAlone ==
  ASSUME Alone
  PROVE  Spec => [](NoOrphanRevisions /\ QuiescentIndexMatchesPages)
<1>1. AloneInv => NoOrphanRevisions
  BY DEF AloneInv
<1>2. AloneInv => QuiescentIndexMatchesPages
  <2> SUFFICES ASSUME AloneInv, \A p \in Procs : req[p] = Idle
               PROVE  IndexMatchesPages
    BY DEF QuiescentIndexMatchesPages
  <2> QED
    <3>1. \A p \in Procs : req[p].op # "index"
      BY DEF Idle
    <3>2. TypeOK /\ \A i \in Ids : index[i] = IndexEntry(pages[i])
      BY <3>1 DEF AloneInv, IndexFollows
    <3> QED
      BY <3>2, IndexMatchesEntries
<1> QED
  BY <1>1, <1>2, AloneAlways, PTL

-----------------------------------------------------------------------------
(* What a step does to the contents, one request at a time.                *)

\* The pages whose path or content a step changes were active.
LEMMA ActivePagesChange ==
  ASSUME Alone, AloneInv, [Next]_vars
  PROVE  StepFreezesInactive
<1> USE PageStoreAssumption DEF AloneInv
<1> SUFFICES ASSUME NEW i \in Ids, pages[i] # None, ~ Active(i), pages'[i] # None
             PROVE  pages'[i].content = pages[i].content /\ pages'[i].path = pages[i].path
  BY DEF StepFreezesInactive
<1>1. pages[i].lifecycle # "active" /\ \A r \in Row : r # None
  BY DEF Active
<1>2. CASE UNCHANGED pages
  BY <1>2
<1>3. ASSUME NEW p \in Procs, Transaction(p)
      PROVE  pages'[i].content = pages[i].content /\ pages'[i].path = pages[i].path
  <2>1. req[p] \in Request /\ Current(req[p])
    BY DEF TypeOK, RequestsAreCurrent
  <2>2. CASE CommitCreate(p)
    BY <2>2, CreatedRow
  <2>3. CASE WriteExisting(p)
    <3>1. i # req[p].id
      BY <1>1, <2>1, <2>3 DEF WriteExisting, Current
    <3> QED
      BY <2>3, <3>1 DEF WriteExisting, TypeOK
  <2>4. CASE SetLifecycle(p)
    <3>1. req[p].id \in Ids /\ pages[req[p].id] # None
      BY <1>1, <2>1, <2>4 DEF SetLifecycle, Request, Current
    <3>3. /\ pages'[req[p].id].path = pages[req[p].id].path
          /\ pages'[req[p].id].content = pages[req[p].id].content
          /\ \A j \in Ids \ {req[p].id} : pages'[j] = pages[j]
      BY <2>4, <3>1, LifecycleWritten
    <3> QED
      BY <3>3
  <2>5. CASE CommitMove(p)
    <3>1. req[p].op = "move" /\ i # req[p].id /\ req[p].rewritten[i] = None
      BY <1>1, <2>1, <2>5 DEF CommitMove, Current, Active
    <3> QED
      BY <2>5, <3>1, Moved
  <2>6. CASE CommitRemove(p)
    <3>1. i # req[p].id
      BY <1>1, <2>1, <2>6 DEF CommitRemove, Current
    <3> QED
      BY <2>6, <3>1 DEF CommitRemove, TypeOK
  <2>7. CASE CommitPurge(p)
    BY <2>7 DEF CommitPurge, TypeOK
  <2> QED
    BY <1>2, <1>3, <2>2, <2>3, <2>4, <2>5, <2>6, <2>7
      DEF Transaction, InsertRedirect, DropRedirect, Conflict, IndexPage, Respond, Plan
<1> QED
  BY <1>2, <1>3, ServiceOnlyReads DEF Next, Tick, vars

\* The revisions that a step records have the contents that it replaces.
LEMMA ReplacedContentsAreKept ==
  ASSUME Alone, AloneInv, [Next]_vars
  PROVE  StepRecordsContent
<1> USE PageStoreAssumption DEF AloneInv
<1> SUFFICES ASSUME NEW i \in Ids, pages[i] # None, pages'[i] # None,
                    pages'[i].content # pages[i].content,
                    \A p \in Procs : ~ (WriteExisting(p) /\ ~ req[p].recorded)
             PROVE  \E r \in revisions' : r.page = i /\ r.content = pages[i].content
  BY DEF StepRecordsContent
<1>1. RevisionFor(i, pages[i]).page = i /\ RevisionFor(i, pages[i]).content = pages[i].content
  BY DEF RevisionFor
<1>2. PICK p \in Procs : Transaction(p)
  BY ServiceOnlyReads DEF Next, Tick, vars
<1>3. req[p] \in Request /\ Current(req[p])
  BY DEF TypeOK, RequestsAreCurrent
<1>4. CASE CommitCreate(p)
  BY <1>4, CreatedRow
<1>5. CASE WriteExisting(p)
  <2>1. i = req[p].id
    BY <1>5 DEF WriteExisting, TypeOK
  <2>2. req[p].recorded /\ pages[i] = req[p].row
    BY <1>3, <1>5, <2>1 DEF WriteExisting, Current
  <2>3. RevisionFor(i, pages[i]) \in revisions'
    BY <1>5, <2>1, <2>2 DEF WriteExisting, Record
  <2> QED
    BY <1>1, <2>3
<1>6. CASE SetLifecycle(p) \/ CommitRemove(p)
  <2>1. req[p].id \in Ids
    BY <1>3, <1>6 DEF SetLifecycle, CommitRemove, Request
  <2>2. CASE pages[req[p].id] = None
    BY <1>6, <2>2 DEF SetLifecycle, CommitRemove
  <2>3. CASE pages[req[p].id] # None
    BY <1>6, <2>1, <2>3, LifecycleWritten
  <2> QED
    BY <2>2, <2>3
<1>7. CASE CommitMove(p)
  <2>1. req[p].op = "move" /\ req[p].rewritten[i] # None
    <3>1. req[p].rewritten[i] = None => pages'[i].content = pages[i].content
      BY <1>7, Moved
    <3>2. req[p].op = "move"
      BY <1>7 DEF CommitMove
    <3> QED
      BY <3>1, <3>2
  <2>2. req[p].rewritten[i] = RevisionFor(i, pages[i])
    BY <1>3, <2>1 DEF Current
  <2>3. req[p].rewritten[i] \in revisions'
    BY <1>7, <2>1 DEF CommitMove, Record
  <2> QED
    BY <1>1, <2>2, <2>3
<1>8. CASE CommitPurge(p)
  BY <1>8 DEF CommitPurge, TypeOK
<1> QED
  BY <1>2, <1>4, <1>5, <1>6, <1>7, <1>8
    DEF Transaction, InsertRedirect, DropRedirect, Conflict, IndexPage, Respond, Plan

\* One request at a time, a content that a write replaces is among the page's
\* revisions, unless the collaborative autosave replaced it ("snapshots the previous
\* version into page_revisions", DESIGN.md).
THEOREM ContentIsRecordedAlone ==
  ASSUME Alone
  PROVE  Spec => ReplacedContentIsRecorded
<1>1. AloneInv /\ [Next]_vars => [StepRecordsContent]_vars
  BY ReplacedContentsAreKept
<1> QED
  BY <1>1, AloneAlways, PTL DEF Spec, ReplacedContentIsRecorded

\* One request at a time, no step changes the path or the content of an archived or
\* deleted page, not even the link rewriting of another page's move.
THEOREM InactivePagesAreFrozenAlone ==
  ASSUME Alone
  PROVE  Spec => [][StepFreezesInactive]_vars
<1>1. AloneInv /\ [Next]_vars => [StepFreezesInactive]_vars
  BY ActivePagesChange
<1> QED
  BY <1>1, AloneAlways, PTL DEF Spec

=============================================================================
