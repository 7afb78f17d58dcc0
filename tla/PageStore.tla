------------------------------ MODULE PageStore ------------------------------
(***************************************************************************)
(* The page store: the page service (services/pages.ts) over the write     *)
(* repositories of the SQL drivers (db/repositories/pages.ts,              *)
(* db/postgres/repositories/pages.ts).                                     *)
(*                                                                         *)
(* A request first reads (permission, existence and version checks work on *)
(* those rows) and later runs one transaction built from what it read.  No *)
(* row is locked in between, so the requests in flight interleave at that  *)
(* point; several server processes may share one database.                 *)
(*                                                                         *)
(* A page's content is a text and at most one internal link: the link is   *)
(* what a move rewrites, the text is everything else that an edit replaces.*)
(***************************************************************************)
EXTENDS Naturals, FiniteSets

CONSTANTS
  Paths,         \* normalised page paths
  Ids,           \* page ids; the code draws fresh UUIDs, see Fresh
  Texts,         \* bodies of pages, links aside
  Drafts,        \* the contents a client submits
  Procs,         \* requests that may be in flight at the same time
  None,
  IndexMode,     \* "transaction" (SQLite FTS5) or "afterCommit" (the others)
  MaxClock,      \* bound on Date.now()
  MaxRevisions   \* bound on the rows of page_revisions

Content == [text : Texts, link : Paths \cup {None}]

Times == 0 .. MaxClock

Lifecycles == {"active", "archived", "deleted"}

Row == [path : Paths, content : Content, lifecycle : Lifecycles,
        updatedAt : Times]

ASSUME PageStoreAssumption ==
  /\ Drafts \subseteq Content
  /\ MaxClock \in Nat
  /\ MaxRevisions \in Nat
  /\ IndexMode \in {"transaction", "afterCommit"}
  /\ None \notin Paths \cup Ids \cup Content \cup Row

Revision == [page : Ids, path : Paths, content : Content]

\* What one request carries from its reads to its transaction.  `row' is the
\* row read, `at' the time of the reading.
Request ==
       [op : {"idle"}]
  \cup [op : {"copy", "create"}, path : Paths, content : Content, at : Times]
  \cup [op : {"write"}, id : Ids, row : Row, next : Content,
        recorded : BOOLEAN, expected : Times \cup {None}, at : Times]
  \cup [op : {"lifecycle"}, id : Ids, row : Row, to : Lifecycles, at : Times]
  \cup [op : {"moving"}, id : Ids, row : Row, to : Paths, at : Times]
  \cup [op : {"move"}, id : Ids, row : Row, to : Paths, at : Times,
        rewritten : [Ids -> Revision \cup {None}]]
  \cup [op : {"remove"}, id : Ids, row : Row, at : Times]
  \cup [op : {"purge"}, id : Ids, path : Paths]
  \cup [op : {"addRedirect"}, from : Paths, to : Paths]
  \cup [op : {"dropRedirect"}, from : Paths]
  \cup [op : {"index"}, todo : SUBSET [page : Ids, entry : Content \cup {None}]]

VARIABLES
  pages,      \* the pages table: a row, or None, for every id
  revisions,  \* the page_revisions table
  redirects,  \* the page_redirects table: from_path is its primary key
  index,      \* what the search index holds for every page id
  clock,      \* Date.now()
  req         \* the requests in flight

vars == <<pages, revisions, redirects, index, clock, req>>

Idle == [op |-> "idle"]

Init ==
  /\ pages = [i \in Ids |-> None]
  /\ revisions = {}
  /\ redirects = [x \in Paths |-> None]
  /\ index = [i \in Ids |-> None]
  /\ clock = 0
  /\ req = [p \in Procs |-> Idle]

-----------------------------------------------------------------------------
(* Reading.                                                                *)

\* Faulty: a lookup that skips the trash.
AtIgnoringTrash(x) ==
  {i \in Ids : pages[i] # None /\ pages[i].path = x /\ pages[i].lifecycle = "active"}

\* findByPath: the page that owns a path, whatever its lifecycle.
At(x) == {i \in Ids : pages[i] # None /\ pages[i].path = x}

Active(i) == pages[i] # None /\ pages[i].lifecycle = "active"

\* Faulty: the lifecycle check is forgotten.
ActiveAtAnyLifecycle(x) == At(x)

ActiveAt(x) == {i \in At(x) : Active(i)}

MaxHops == 10

\* resolvePath: the active page a path leads to, or None.  A chain that loops
\* and one that is too long are both refused, so both give None.
Resolve(x) ==
  LET hop[n \in 0 .. MaxHops, y \in Paths] ==
        IF n = 0 THEN None
        ELSE IF ActiveAt(y) # {} THEN CHOOSE i \in ActiveAt(y) : TRUE
        ELSE IF redirects[y] = None THEN None
        ELSE hop[n - 1, redirects[y]]
  IN  hop[MaxHops, x]

\* Faulty: a rewritten link is left as plain text.
RewriteLinksUnlinking(c, from, to) ==
  IF c.link = from THEN [c EXCEPT !.link = None] ELSE c

\* rewritePageLinks: the content with its links to `from' pointing to `to'.
RewriteLinks(c, from, to) ==
  IF c.link = from THEN [c EXCEPT !.link = to] ELSE c

\* revisionFor: the row of page_revisions that records what was read.
RevisionFor(i, row) == [page |-> i, path |-> row.path, content |-> row.content]

\* Faulty: only the revisions made at the page's present path.
RevisionsAtPresentPath(i) ==
  {r \in revisions : r.page = i /\ pages[i] # None /\ r.path = pages[i].path}

RevisionsOf(i) == {r \in revisions : r.page = i}

Mentions(r, i) ==
  \/ r.op \in {"write", "lifecycle", "moving", "move", "remove", "purge"} /\ r.id = i
  \/ r.op = "move" /\ r.rewritten[i] # None
  \/ r.op = "index" /\ \E t \in r.todo : t.page = i

\* crypto.randomUUID: an id that nothing remembers.
Fresh(i) ==
  /\ pages[i] = None
  /\ index[i] = None
  /\ RevisionsOf(i) = {}
  /\ \A p \in Procs : ~ Mentions(req[p], i)

-----------------------------------------------------------------------------
(* The service's reads and checks: what a request does before it writes.   *)

Plan(p, r) ==
  /\ req' = [req EXCEPT ![p] = r]
  /\ UNCHANGED <<pages, revisions, redirects, index, clock>>

\* create refuses a path that any page owns, a deleted one included.
PlanCreate(p, x, c) ==
  /\ At(x) = {}
  /\ Plan(p, [op |-> "create", path |-> x, content |-> c, at |-> clock])

Create(p) ==
  /\ req[p] = Idle
  /\ \E x \in Paths, c \in Drafts : PlanCreate(p, x, c)

\* copy reads its source and then goes through create.
Copy(p) ==
  /\ req[p] = Idle
  /\ \E x, y \in Paths : \E i \in ActiveAt(x) :
       Plan(p, [op |-> "copy", path |-> y, content |-> pages[i].content,
                at |-> clock])

CopyCreate(p) ==
  /\ req[p].op = "copy"
  /\ PlanCreate(p, req[p].path, req[p].content)

\* The common shape of update, saveContent and restoreRevision.
PlanWrite(p, i, next, recorded, expected) ==
  Plan(p, [op |-> "write", id |-> i, row |-> pages[i], next |-> next,
           recorded |-> recorded, expected |-> expected, at |-> clock])

\* update: a patch without content writes the content that was read; a patch
\* with expectedUpdatedAt is refused unless the row read has that version.
Update(p) ==
  /\ req[p] = Idle
  /\ \E x \in Paths : \E i \in ActiveAt(x) :
       \E next \in Drafts \cup {pages[i].content},
          expected \in {None, pages[i].updatedAt} :
         PlanWrite(p, i, next, TRUE, expected)

\* saveContent, the collaborative autosave: no revision.
SaveContent(p) ==
  /\ req[p] = Idle
  /\ \E x \in Paths : \E i \in ActiveAt(x) :
       \E next \in Drafts, expected \in {None, pages[i].updatedAt} :
         PlanWrite(p, i, next, FALSE, expected)

RestoreRevision(p) ==
  /\ req[p] = Idle
  /\ \E x \in Paths : \E i \in ActiveAt(x) :
       \E r \in RevisionsOf(i) :
         PlanWrite(p, i, r.content, TRUE, None)

PlanLifecycle(p, i, to) ==
  Plan(p, [op |-> "lifecycle", id |-> i, row |-> pages[i], to |-> to,
           at |-> clock])

Archive(p) ==
  /\ req[p] = Idle
  /\ \E x \in Paths : \E i \in ActiveAt(x) : PlanLifecycle(p, i, "archived")

\* restore accepts archived and deleted pages; an active one is left alone.
Restore(p) ==
  /\ req[p] = Idle
  /\ \E x \in Paths : \E i \in At(x) \ ActiveAt(x) : PlanLifecycle(p, i, "active")

\* move reads the page and the target path, and then the pages to rewrite.
Move(p) ==
  /\ req[p] = Idle
  /\ \E x, y \in Paths : \E i \in ActiveAt(x) :
       /\ y # x
       /\ At(y) = {}
       /\ Plan(p, [op |-> "moving", id |-> i, row |-> pages[i], to |-> y,
                   at |-> clock])

MoveRewrites(p) ==
  /\ req[p].op = "moving"
  /\ LET m == req[p]
         rewrites(i) == /\ Active(i)
                        /\ RewriteLinks(pages[i].content, m.row.path, m.to)
                             # pages[i].content
     IN  \E now \in m.at .. clock :
           Plan(p, [op |-> "move", id |-> m.id, row |-> m.row, to |-> m.to,
                    at |-> now,
                    rewritten |-> [i \in Ids |->
                      IF rewrites(i) THEN RevisionFor(i, pages[i]) ELSE None]])

Remove(p) ==
  /\ req[p] = Idle
  /\ \E x \in Paths : \E i \in ActiveAt(x) :
       Plan(p, [op |-> "remove", id |-> i, row |-> pages[i], at |-> clock])

Purge(p) ==
  /\ req[p] = Idle
  /\ \E x \in Paths : \E i \in At(x) :
       Plan(p, [op |-> "purge", id |-> i, path |-> x])

\* createRedirect stores the path of the active page its target leads to.
CreateRedirect(p) ==
  /\ req[p] = Idle
  /\ \E from, to \in Paths : \E i \in {j \in Ids : Active(j)} :
       /\ from # to
       /\ ActiveAt(from) = {}
       /\ redirects[from] = None
       /\ Resolve(to) = i
       /\ pages[i].path # from
       /\ Plan(p, [op |-> "addRedirect", from |-> from, to |-> pages[i].path])

DeleteRedirect(p) ==
  /\ req[p] = Idle
  /\ \E x \in Paths :
       /\ redirects[x] # None
       /\ Plan(p, [op |-> "dropRedirect", from |-> x])

\* A later check fails (permission, validation), or the server stops.
Abandon(p) ==
  /\ req[p].op \notin {"idle", "index"}
  /\ Plan(p, Idle)

-----------------------------------------------------------------------------
(* The transactions of the write repository.                               *)

\* Faulty: archived pages stay searchable.
IndexEntryAnyLifecycle(row) == IF row # None THEN row.content ELSE None

\* Faulty: the row is indexed unrendered.
IndexEntryWholeRow(row) == row

IndexEntry(row) ==
  IF row # None /\ row.lifecycle = "active" THEN row.content ELSE None

\* The pages whose index entry the write refreshes, in its transaction
\* (indexPage, removePage under SQLite) or, one by one, after the commit.
IndexPages(p, touched) ==
  \/ /\ IndexMode = "transaction"
     /\ index' = [i \in Ids |-> IF i \in touched THEN IndexEntry(pages'[i])
                                ELSE index[i]]
     /\ req' = [req EXCEPT ![p] = Idle]
  \/ /\ IndexMode = "afterCommit"
     /\ UNCHANGED index
     /\ req' = [req EXCEPT ![p] =
          [op |-> "index",
           todo |-> {[page |-> i, entry |-> IndexEntry(pages'[i])] : i \in touched}]]

Existing(S) == {i \in S : pages[i] # None}

\* Faulty: only the first revision of a page is kept.
RecordFirst(new) ==
  /\ revisions' = revisions \cup {r \in new : RevisionsOf(r.page) = {}}
  /\ Cardinality(revisions') <= MaxRevisions

Record(new) ==
  /\ revisions' = revisions \cup new
  /\ Cardinality(revisions') <= MaxRevisions

CommitCreate(p) ==
  /\ req[p].op = "create"
  /\ At(req[p].path) = {}
  /\ \E i \in Ids, now \in req[p].at .. clock :
       /\ Fresh(i)
       /\ pages' = [pages EXCEPT ![i] =
            [path |-> req[p].path, content |-> req[p].content,
             lifecycle |-> "active", updatedAt |-> now]]
       /\ Record({RevisionFor(i, pages'[i])})
       /\ IndexPages(p, {i})
  /\ redirects' = [redirects EXCEPT ![req[p].path] = None]
  /\ UNCHANGED clock

\* UPDATE ... WHERE id: nothing compares the row with the one that was read.
WriteExisting(p) ==
  /\ req[p].op = "write"
  /\ LET i == req[p].id
     IN  /\ \E now \in req[p].at .. clock :
              pages' = IF pages[i] = None THEN pages
                       ELSE [pages EXCEPT ![i].content = req[p].next,
                                          ![i].updatedAt = now]
         /\ Record(IF req[p].recorded THEN {RevisionFor(i, req[p].row)} ELSE {})
         /\ IndexPages(p, Existing({i}))
  /\ UNCHANGED <<redirects, clock>>

SetLifecycle(p) ==
  /\ req[p].op = "lifecycle"
  /\ LET i == req[p].id
     IN  /\ \E now \in req[p].at .. clock :
              pages' = IF pages[i] = None THEN pages
                       ELSE [pages EXCEPT ![i].lifecycle = req[p].to,
                                          ![i].updatedAt = now]
         /\ Record({RevisionFor(i, req[p].row)})
         /\ IndexPages(p, {i})
  /\ UNCHANGED <<redirects, clock>>

\* Faulty: a redirect that leaves the new path survives the move.
MovedRedirectsKeepingNew(old, new) ==
  [x \in Paths |-> IF x = old \/ redirects[x] = old THEN new ELSE redirects[x]]

\* Faulty: redirects to the old path are left as they are.
MovedRedirectsChaining(old, new) ==
  [x \in Paths |-> IF x = old THEN new ELSE IF x = new THEN None ELSE redirects[x]]

\* The redirects after a page moved: none leaves the new path, those to the old
\* path now lead to the new one, and the old path leads there too.
MovedRedirects(old, new) ==
  [x \in Paths |-> IF x = old THEN new
                   ELSE IF x = new THEN None
                   ELSE IF redirects[x] = old THEN new
                   ELSE redirects[x]]

CommitMove(p) ==
  /\ req[p].op = "move"
  /\ LET m == req[p]
         moved(i) ==
           [pages[i] EXCEPT
              !.path = IF i = m.id THEN m.to ELSE @,
              !.content = IF m.rewritten[i] = None THEN @
                          ELSE RewriteLinks(m.rewritten[i].content,
                                            m.row.path, m.to),
              !.updatedAt = IF i = m.id \/ m.rewritten[i] # None THEN m.at ELSE @]
         rewrites == {i \in Ids : m.rewritten[i] # None}
     IN  /\ pages[m.id] = None \/ At(m.to) \subseteq {m.id}
         /\ pages' = [i \in Ids |-> IF pages[i] = None THEN None ELSE moved(i)]
         /\ Record({RevisionFor(m.id, m.row)} \cup {m.rewritten[i] : i \in rewrites})
         /\ redirects' = MovedRedirects(m.row.path, m.to)
         /\ IndexPages(p, Existing({m.id} \cup rewrites))
  /\ UNCHANGED clock

CommitRemove(p) ==
  /\ req[p].op = "remove"
  /\ LET i == req[p].id
         x == req[p].row.path
     IN  /\ \E now \in req[p].at .. clock :
              pages' = IF pages[i] = None THEN pages
                       ELSE [pages EXCEPT ![i].lifecycle = "deleted",
                                          ![i].updatedAt = now]
         /\ Record({RevisionFor(i, req[p].row)})
         /\ redirects' = [y \in Paths |-> IF y = x \/ redirects[y] = x THEN None
                                          ELSE redirects[y]]
         /\ IndexPages(p, {i})
  /\ UNCHANGED clock

\* Drops the redirects from and to every path the page was ever recorded at.
CommitPurge(p) ==
  /\ req[p].op = "purge"
  /\ LET i == req[p].id
         owned == {req[p].path} \cup {r.path : r \in RevisionsOf(i)}
     IN  /\ pages' = [pages EXCEPT ![i] = None]
         /\ revisions' = revisions \ RevisionsOf(i)
         /\ redirects' = [y \in Paths |->
              IF y \in owned \/ redirects[y] \in owned THEN None ELSE redirects[y]]
         /\ IndexPages(p, {i})
  /\ UNCHANGED clock

InsertRedirect(p) ==
  /\ req[p].op = "addRedirect"
  /\ redirects[req[p].from] = None
  /\ redirects' = [redirects EXCEPT ![req[p].from] = req[p].to]
  /\ req' = [req EXCEPT ![p] = Idle]
  /\ UNCHANGED <<pages, revisions, index, clock>>

DropRedirect(p) ==
  /\ req[p].op = "dropRedirect"
  /\ redirects' = [redirects EXCEPT ![req[p].from] = None]
  /\ req' = [req EXCEPT ![p] = Idle]
  /\ UNCHANGED <<pages, revisions, index, clock>>

\* A unique key (pages.path, page_redirects.from_path) is taken: the
\* transaction rolls back and the request fails.
Conflict(p) ==
  /\ \/ req[p].op = "create" /\ At(req[p].path) # {}
     \/ /\ req[p].op = "move"
        /\ pages[req[p].id] # None
        /\ ~ At(req[p].to) \subseteq {req[p].id}
     \/ req[p].op = "addRedirect" /\ redirects[req[p].from] # None
  /\ Plan(p, Idle)

\* afterCommit only: indexPage or removePage with the snapshot of the commit.
IndexPage(p) ==
  /\ req[p].op = "index"
  /\ \E t \in req[p].todo :
       /\ index' = [index EXCEPT ![t.page] = t.entry]
       /\ req' = [req EXCEPT ![p].todo = @ \ {t}]
  /\ UNCHANGED <<pages, revisions, redirects, clock>>

Respond(p) ==
  /\ req[p].op = "index"
  /\ req[p].todo = {}
  /\ Plan(p, Idle)

-----------------------------------------------------------------------------
Tick ==
  /\ clock < MaxClock
  /\ clock' = clock + 1
  /\ UNCHANGED <<pages, revisions, redirects, index, req>>

Service(p) ==
  \/ Create(p) \/ Copy(p) \/ CopyCreate(p)
  \/ Update(p) \/ SaveContent(p) \/ RestoreRevision(p)
  \/ Archive(p) \/ Restore(p)
  \/ Move(p) \/ MoveRewrites(p)
  \/ Remove(p) \/ Purge(p)
  \/ CreateRedirect(p) \/ DeleteRedirect(p)
  \/ Abandon(p)

Transaction(p) ==
  \/ CommitCreate(p) \/ WriteExisting(p) \/ SetLifecycle(p)
  \/ CommitMove(p) \/ CommitRemove(p) \/ CommitPurge(p)
  \/ InsertRedirect(p) \/ DropRedirect(p) \/ Conflict(p)
  \/ IndexPage(p) \/ Respond(p)

Next == Tick \/ \E p \in Procs : Service(p) \/ Transaction(p)

Spec == Init /\ [][Next]_vars

-----------------------------------------------------------------------------
(* What the store promises.                                                *)

\* Every table, and every request in flight, keeps the shape of its schema.
TypeOK ==
  /\ pages \in [Ids -> Row \cup {None}]
  /\ revisions \subseteq Revision
  /\ redirects \in [Paths -> Paths \cup {None}]
  /\ index \in [Ids -> Content \cup {None}]
  /\ clock \in Times
  /\ req \in [Procs -> Request]

\* No two pages share a path, archived and deleted ones included, whatever
\* creates and moves race: resolvePath and the index rely on it.
PathsAreUnique ==
  \A i, j \in Ids :
    pages[i] # None /\ pages[j] # None /\ pages[i].path = pages[j].path => i = j

\* The index holds exactly the current content of the active pages, whatever
\* transactions interleave: "indexed the instant it returns" (pages.ts).
IndexMatchesPages ==
  \A i \in Ids : index[i] = IF Active(i) THEN pages[i].content ELSE None

\* The same where the index is written after the commit: it has caught up
\* whenever no request is in flight.
QuiescentIndexMatchesPages == (\A p \in Procs : req[p] = Idle) => IndexMatchesPages

\* Following redirects ends: no set of paths is closed under them.
NoRedirectLoop ==
  \A S \in (SUBSET Paths) \ {{}} : \E x \in S : redirects[x] \notin S

\* No path sends its reader round in circles: the loops that createRedirect
\* refuses ("Redirect would create a loop", pages.ts) never arise.
NoReaderLoops ==
  \A S \in (SUBSET Paths) \ {{}} :
    \E x \in S : redirects[x] \notin S \/ ActiveAt(x) # {}

\* No page operation ever closes a loop of redirects, from whatever stale rows
\* it was planned: only a redirect made by hand (createRedirect) could.
OnlyInsertsCloseLoops ==
  [][NoRedirectLoop /\ (\A p \in Procs : ~ InsertRedirect(p)) => NoRedirectLoop']_vars

\* One request at a time: a redirect leads to the path of a page that exists
\* and is not deleted, through any moves, deletions and purges.
RedirectsLeadToPages ==
  \A x \in Paths : redirects[x] # None =>
    \E i \in At(redirects[x]) : pages[i].lifecycle # "deleted"

\* One request at a time: every path that led readers to a page before a move
\* still leads to it, through however many earlier moves and redirects.
MoveKeepsReaders ==
  \A p \in Procs : CommitMove(p) =>
    \A x \in Paths : Resolve(x) = req[p].id => Resolve(x)' = req[p].id

\* One request at a time: the links of active pages that reached the moved page,
\* through redirects or not, still reach it.
MoveKeepsLinks ==
  \A p \in Procs : CommitMove(p) =>
    \A j \in Ids :
      (Active(j) /\ pages[j].content.link # None) =>
        (Resolve(pages[j].content.link) = req[p].id =>
           \E y \in Paths : /\ y = pages'[j].content.link
                            /\ Resolve(y)' = req[p].id)

\* "snapshots the previous version into page_revisions" (DESIGN.md): a content
\* that a write replaces is among the page's revisions.  The autosave of the
\* collaborative editor is the documented exception.
StepRecordsContent ==
  \A i \in Ids :
    (/\ pages[i] # None /\ pages'[i] # None
     /\ pages'[i].content # pages[i].content
     /\ \A p \in Procs : ~ (WriteExisting(p) /\ ~ req[p].recorded))
    => \E r \in revisions' : r.page = i /\ r.content = pages[i].content

ReplacedContentIsRecorded == [][StepRecordsContent]_vars

\* One request at a time: an archived or deleted page is frozen.  Neither an
\* edit nor the link rewriting of another page's move changes it.
StepFreezesInactive ==
  \A i \in Ids :
    (pages[i] # None /\ ~ Active(i) /\ pages'[i] # None) =>
      /\ pages'[i].content = pages[i].content
      /\ pages'[i].path = pages[i].path

\* One request at a time: a purge leaves no trace of the page's content, and no
\* later request writes one.
NoOrphanRevisions == \A r \in revisions : pages[r.page] # None

=============================================================================
