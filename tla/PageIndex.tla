------------------------------ MODULE PageIndex ------------------------------
(***************************************************************************)
(* What the built-in search index and page_asset_refs know about pages,    *)
(* comments and assets: the indexers of SQLite and PostgreSQL              *)
(* (db/repositories/search.ts, db/postgres/repositories/search.ts,         *)
(* asset-references.ts), comments (services/comments.ts), assets           *)
(* (services/assets.ts, http/routes/assets.ts, storage/assets.ts).         *)
(*                                                                         *)
(* A request is a list of statements, and requests interleave between any  *)
(* two.  SQLite indexes a page in one go, PostgreSQL statement after       *)
(* statement.  The text of a page is the set of the assets it mentions.    *)
(***************************************************************************)
EXTENDS Naturals, FiniteSets

CONSTANTS
  Docs,            \* pages
  Assets,
  Comments,
  Requests,
  MaxIndexOps,     \* bound on requests
  IndexModes       \* sets of the things that may happen, see IndexActs

\* "postgres": the indexer of PostgreSQL and not SQLite's.  "overlap": PostgreSQL's
\* requests overlap.  "race": an asset is restored while it is purged.  "stop": a
\* request fails or is lost between two statements.
IndexActs == {"postgres", "overlap", "race", "stop"}

VARIABLES
  indexMode,
  docs,       \* lifecycle, and the assets that the content mentions
  comments,   \* page and body, or NoComment
  assets,     \* state and filename
  stored,     \* the assets whose bytes are in the storage
  refs,       \* page_asset_refs
  rows,       \* pages_fts or page_search
  calls,      \* the requests
  begun,
  returned    \* the assets that came back from the trash

indexVars == <<indexMode, docs, comments, assets, stored, refs, rows, calls, begun, returned>>

\* Ids are not used again.
NoComment == [page |-> "none"]
Deleted == [page |-> "deleted"]
NoRow == [text |-> "none"]
NoAsset == [state |-> "absent", filename |-> 0]
Absent == [lifecycle |-> "absent", uses |-> {}]
Purged == [lifecycle |-> "purged", uses |-> {}]

\* A request: where it is, the pages it has left to index, and what it was asked or read.
Waiting == [at |-> "waiting", left |-> {}, page |-> "none", row |-> Absent, found |-> {},
            said |-> {}, names |-> {}, comment |-> "none", asset |-> "none", op |-> "none"]

IndexInit ==
  /\ indexMode \in IndexModes
  /\ docs = [d \in Docs |-> Absent]
  /\ comments = [c \in Comments |-> NoComment]
  /\ assets = [a \in Assets |-> NoAsset]
  /\ stored = {} /\ refs = {}
  /\ rows = [d \in Docs |-> NoRow]
  /\ calls = [r \in Requests |-> Waiting]
  /\ begun = 0 /\ returned = {}

Postgres == "postgres" \in indexMode

\* A request starts; PostgreSQL's wait for each other unless they may overlap.
Begin(r, call) ==
  /\ calls[r] = Waiting
  /\ Postgres /\ "overlap" \notin indexMode => \A other \in Requests : calls[other] = Waiting
  /\ begun < MaxIndexOps /\ begun' = begun + 1
  /\ calls' = [calls EXCEPT ![r] = call]

Go(r, call) == calls' = [calls EXCEPT ![r] = call] /\ UNCHANGED begun
Done(r) == calls' = [calls EXCEPT ![r] = Waiting] /\ UNCHANGED begun

\* What is left to do when pages are to be indexed by their ids.
Indexing(left) == [Waiting EXCEPT !.at = "next", !.left = left]

-----------------------------------------------------------------------------
(* What an index entry is made of.                                         *)

Exists(a) == assets[a].state \in {"active", "trash"}
IsActive(d) == docs[d].lifecycle = "active"

\* assetStorageNamesFromContent, and the assets of those names that are not deleted.
Referenced(uses) == {a \in uses : assets[a].state = "active"}
Unlinked(d) == refs \ ({d} \X Assets)
\* Faulty: the references of the content before stay.
LinkedKeeping(d, found) == refs \cup ({d} \X found)
Linked(d, found) == Unlinked(d) \cup ({d} \X found)

\* commentTextForPage, assetTextForPage: the join takes assets in the trash too.
CommentTextForPage(d) ==
  {<<c, comments[c].body>> : c \in {x \in Comments : comments[x].page = d}}
AssetTextForPage(d, links) ==
  {<<a, assets[a].filename>> : a \in {x \in Assets : <<d, x>> \in links /\ Exists(x)}}

EntryOf(uses, said, names) == [text |-> uses, comments |-> said, assets |-> names]

\* indexPage of SQLite, with the row that was just written or read.
IndexedAtOnce(d, doc) ==
  IF doc.lifecycle = "active"
  THEN /\ refs' = Linked(d, Referenced(doc.uses))
       /\ rows' = [rows EXCEPT ![d] =
                     EntryOf(doc.uses, CommentTextForPage(d), AssetTextForPage(d, refs'))]
  ELSE refs' = Unlinked(d) /\ rows' = [rows EXCEPT ![d] = NoRow]

-----------------------------------------------------------------------------
(* Writes of pages: SQLite indexes in the transaction, PostgreSQL after it *)
(* with the row it has written.                                            *)

\* create, update, restore and unarchive.
WriteDoc(r, d, uses) ==
  LET doc == [lifecycle |-> "active", uses |-> uses]
  IN  /\ docs[d] \notin {doc, Purged}
      /\ docs' = [docs EXCEPT ![d] = doc]
      /\ IF Postgres
         THEN /\ Begin(r, [Waiting EXCEPT !.at = "drop", !.page = d, !.row = doc])
              /\ UNCHANGED <<refs, rows>>
         ELSE Begin(r, Indexing({})) /\ IndexedAtOnce(d, doc)
      /\ UNCHANGED <<indexMode, comments, assets, stored, returned>>

\* remove and archive keep the references, removePage takes the entry away.
ShelveDoc(r, d) ==
  /\ IsActive(d)
  /\ docs' = [docs EXCEPT ![d].lifecycle = "shelved"]
  /\ IF Postgres
     THEN Begin(r, [Waiting EXCEPT !.at = "remove", !.page = d]) /\ rows' = rows
     ELSE Begin(r, Indexing({})) /\ rows' = [rows EXCEPT ![d] = NoRow]
  /\ UNCHANGED <<indexMode, comments, assets, stored, refs, returned>>

PurgeDoc(r, d) ==
  /\ docs[d].lifecycle = "shelved"
  /\ docs' = [docs EXCEPT ![d] = Purged]
  /\ comments' = [c \in Comments |-> IF comments[c].page = d THEN Deleted ELSE comments[c]]
  /\ refs' = Unlinked(d)
  /\ IF Postgres
     THEN Begin(r, [Waiting EXCEPT !.at = "remove", !.page = d]) /\ rows' = rows
     ELSE Begin(r, Indexing({})) /\ rows' = [rows EXCEPT ![d] = NoRow]
  /\ UNCHANGED <<indexMode, assets, stored, returned>>

\* removePage of PostgreSQL.
RemovePage(r) ==
  /\ calls[r].at = "remove"
  /\ rows' = [rows EXCEPT ![calls[r].page] = NoRow]
  /\ Done(r)
  /\ UNCHANGED <<indexMode, docs, comments, assets, stored, refs, returned>>

-----------------------------------------------------------------------------
(* indexPageById.                                                          *)

\* SQLite: the row is read and indexed without an await.
IndexPageById(r) ==
  /\ ~ Postgres
  /\ calls[r].at = "next"
  /\ \E d \in calls[r].left :
       /\ IndexedAtOnce(d, docs[d])
       /\ Go(r, Indexing(calls[r].left \ {d}))
  /\ UNCHANGED <<indexMode, docs, comments, assets, stored, returned>>

Return(r) ==
  /\ calls[r].at = "next" /\ calls[r].left = {}
  /\ Done(r)
  /\ UNCHANGED <<indexMode, docs, comments, assets, stored, refs, rows, returned>>

ReadPage(r) ==
  /\ Postgres
  /\ calls[r].at = "next"
  /\ \E d \in calls[r].left :
       Go(r, [calls[r] EXCEPT !.at = "drop", !.left = @ \ {d}, !.page = d, !.row = docs[d]])
  /\ UNCHANGED <<indexMode, docs, comments, assets, stored, refs, rows, returned>>

\* writePage: the old entry goes first.
DropRow(r) ==
  /\ calls[r].at = "drop"
  /\ rows' = [rows EXCEPT ![calls[r].page] = NoRow]
  /\ Go(r, [calls[r] EXCEPT !.at =
              IF calls[r].row.lifecycle = "active" THEN "select" ELSE "unlink"])
  /\ UNCHANGED <<indexMode, docs, comments, assets, stored, refs, returned>>

\* syncPostgresPageAssetReferences selects the assets of the content, deletes the
\* references of the page and inserts the new ones.
SelectAssets(r) ==
  /\ calls[r].at = "select"
  /\ Go(r, [calls[r] EXCEPT !.at = "unlink", !.found = Referenced(calls[r].row.uses)])
  /\ UNCHANGED <<indexMode, docs, comments, assets, stored, refs, rows, returned>>

Unlink(r) ==
  /\ calls[r].at = "unlink"
  /\ refs' = Unlinked(calls[r].page)
  /\ Go(r, [calls[r] EXCEPT !.at = IF calls[r].row.lifecycle = "active" THEN "link" ELSE "next"])
  /\ UNCHANGED <<indexMode, docs, comments, assets, stored, rows, returned>>

Link(r) ==
  /\ calls[r].at = "link"
  /\ refs' = refs \cup ({calls[r].page} \X calls[r].found)
  /\ Go(r, [calls[r] EXCEPT !.at = "comments"])
  /\ UNCHANGED <<indexMode, docs, comments, assets, stored, rows, returned>>

ReadComments(r) ==
  /\ calls[r].at = "comments"
  /\ Go(r, [calls[r] EXCEPT !.at = "names", !.said = CommentTextForPage(calls[r].page)])
  /\ UNCHANGED <<indexMode, docs, comments, assets, stored, refs, rows, returned>>

ReadNames(r) ==
  /\ calls[r].at = "names"
  /\ Go(r, [calls[r] EXCEPT !.at = "insert", !.names = AssetTextForPage(calls[r].page, refs)])
  /\ UNCHANGED <<indexMode, docs, comments, assets, stored, refs, rows, returned>>

\* page_id is the primary key: another entry makes the request fail.
InsertRow(r) ==
  LET call == calls[r]
  IN  /\ call.at = "insert"
      /\ IF rows[call.page] # NoRow THEN Done(r) /\ rows' = rows
         ELSE /\ rows' = [rows EXCEPT ![call.page] =
                            EntryOf(call.row.uses, call.said, call.names)]
              /\ Go(r, Indexing(call.left))
      /\ UNCHANGED <<indexMode, docs, comments, assets, stored, refs, returned>>

\* rebuild: SQLite builds a new table in a transaction, PostgreSQL empties its own and
\* indexes the pages that are active then.
Rebuild(r) ==
  LET active == {d \in Docs : IsActive(d)}
  IN  /\ IF Postgres
         THEN /\ rows' = [d \in Docs |-> NoRow] /\ refs' = refs
              /\ Begin(r, Indexing(active))
         ELSE /\ refs' = (refs \ (active \X Assets))
                         \cup UNION {{d} \X Referenced(docs[d].uses) : d \in active}
              /\ rows' = [d \in Docs |->
                            IF d \in active
                            THEN EntryOf(docs[d].uses, CommentTextForPage(d),
                                       AssetTextForPage(d, refs'))
                            ELSE NoRow]
              /\ Begin(r, Indexing({}))
      /\ UNCHANGED <<indexMode, docs, comments, assets, stored, returned>>

-----------------------------------------------------------------------------
(* Comments.                                                               *)

\* create: the page is found, the comment inserted, the page indexed.
FindPageToComment(r, c, d) ==
  /\ comments[c] = NoComment
  /\ \A other \in Requests : calls[other].at = "comment" => calls[other].comment # c
  /\ IsActive(d)
  /\ Begin(r, [Waiting EXCEPT !.at = "comment", !.comment = c, !.page = d])
  /\ UNCHANGED <<indexMode, docs, comments, assets, stored, refs, rows, returned>>

InsertComment(r) ==
  /\ calls[r].at = "comment"
  /\ comments' = [comments EXCEPT ![calls[r].comment] = [page |-> calls[r].page, body |-> 0]]
  /\ Go(r, Indexing({calls[r].page}))
  /\ UNCHANGED <<indexMode, docs, assets, stored, refs, rows, returned>>

\* update and remove: the comment is found, changed where it is still there, and the
\* page it was found with is indexed.
FindComment(r, c, at) ==
  /\ comments[c].page \in Docs
  /\ Begin(r, [Waiting EXCEPT !.at = at, !.comment = c, !.page = comments[c].page])
  /\ UNCHANGED <<indexMode, docs, comments, assets, stored, refs, rows, returned>>

\* Faulty: the page is not indexed.
ChangeCommentOnly(r) ==
  LET call == calls[r]
  IN  /\ call.at \in {"reword", "uncomment"}
      /\ IF comments[call.comment] = Deleted THEN Done(r) /\ comments' = comments
         ELSE /\ comments' = [comments EXCEPT ![call.comment] =
                 IF call.at = "uncomment" THEN Deleted ELSE [@ EXCEPT !.body = 1]]
              /\ Done(r)
      /\ UNCHANGED <<indexMode, docs, assets, stored, refs, rows, returned>>

ChangeComment(r) ==
  LET call == calls[r]
  IN  /\ call.at \in {"reword", "uncomment"}
      /\ IF comments[call.comment] = Deleted THEN Done(r) /\ comments' = comments
         ELSE /\ comments' = [comments EXCEPT ![call.comment] =
                 IF call.at = "uncomment" THEN Deleted ELSE [@ EXCEPT !.body = 1]]
              /\ Go(r, Indexing({call.page}))
      /\ UNCHANGED <<indexMode, docs, assets, stored, refs, rows, returned>>

-----------------------------------------------------------------------------
(* Assets.                                                                 *)

Handles(r, a) ==
  /\ calls[r].at \in {"record", "attach", "refer", "find", "change", "erase", "gone",
                      "affected"}
  /\ calls[r].asset = a

\* The route stores the bytes, then record inserts the row.
Upload(r, a) ==
  /\ assets[a] = NoAsset
  /\ \A other \in Requests : ~ Handles(other, a)
  /\ stored' = stored \cup {a}
  /\ Begin(r, [Waiting EXCEPT !.at = "record", !.op = "upload", !.asset = a])
  /\ UNCHANGED <<indexMode, docs, comments, assets, refs, rows, returned>>

Record(r) ==
  /\ calls[r].at = "record"
  /\ assets' = [assets EXCEPT ![calls[r].asset] = [state |-> "active", filename |-> 0]]
  /\ Go(r, [calls[r] EXCEPT !.at = "attach"])
  /\ UNCHANGED <<indexMode, docs, comments, stored, refs, rows, returned>>

\* attachExistingPages: pages that mention the asset already.
AttachExistingPages(r) ==
  /\ calls[r].at = "attach"
  /\ Go(r, [calls[r] EXCEPT !.at = "refer",
              !.left = {d \in Docs : IsActive(d) /\ calls[r].asset \in docs[d].uses}])
  /\ UNCHANGED <<indexMode, docs, comments, assets, stored, refs, rows, returned>>

InsertReferences(r) ==
  /\ calls[r].at = "refer"
  /\ refs' = refs \cup (calls[r].left \X {calls[r].asset})
  /\ Go(r, [calls[r] EXCEPT !.at = "affected"])
  /\ UNCHANGED <<indexMode, docs, comments, assets, stored, rows, returned>>

\* refreshPagesForAsset: the pages that have a reference now.
RefreshPagesForAsset(r) ==
  /\ calls[r].at = "affected"
  /\ Go(r, Indexing({d \in Docs : <<d, calls[r].asset>> \in refs}))
  /\ UNCHANGED <<indexMode, docs, comments, assets, stored, refs, rows, returned>>

\* update, remove, restore and purge find the asset in the state they need.
Needs == [update |-> "active", remove |-> "active", restore |-> "trash", purge |-> "trash"]

FindAsset(r, a, op) ==
  /\ assets[a].state = Needs[op]
  /\ "race" \notin indexMode /\ op \in {"restore", "purge"} =>
       \A other \in Requests : Handles(other, a) => calls[other].op \notin {"restore", "purge"}
  /\ Begin(r, [Waiting EXCEPT !.at = IF op = "purge" THEN "erase" ELSE "change",
                             !.op = op, !.asset = a])
  /\ UNCHANGED <<indexMode, docs, comments, assets, stored, refs, rows, returned>>

\* The clean-up of orphans: no active page has a reference, and remove follows.
RemoveOrphan(r, a) ==
  /\ assets[a].state = "active"
  /\ \A d \in Docs : IsActive(d) => <<d, a>> \notin refs
  /\ Begin(r, [Waiting EXCEPT !.at = "find", !.op = "remove", !.asset = a])
  /\ UNCHANGED <<indexMode, docs, comments, assets, stored, refs, rows, returned>>

FindActive(r) ==
  /\ calls[r].at = "find"
  /\ IF assets[calls[r].asset].state = "active"
     THEN Go(r, [calls[r] EXCEPT !.at = "change"]) ELSE Done(r)
  /\ UNCHANGED <<indexMode, docs, comments, assets, stored, refs, rows, returned>>

\* The update addresses the row by its id alone.
ChangeAsset(r) ==
  LET call == calls[r]
      a == call.asset
  IN  /\ call.at = "change"
      /\ assets' = IF ~ Exists(a) THEN assets
                   ELSE [assets EXCEPT ![a] =
                           CASE call.op = "update" -> [@ EXCEPT !.filename = 1]
                             [] call.op = "remove" -> [@ EXCEPT !.state = "trash"]
                             [] call.op = "restore" -> [@ EXCEPT !.state = "active"]]
      /\ returned' = IF call.op = "restore" THEN returned \cup {a} ELSE returned
      /\ Go(r, [calls[r] EXCEPT !.at = "affected"])
      /\ UNCHANGED <<indexMode, docs, comments, stored, refs, rows>>

\* Purging: the bytes go first, the row where the asset is still in the trash.
EraseBytes(r) ==
  /\ calls[r].at = "erase"
  /\ stored' = stored \ {calls[r].asset}
  /\ Go(r, [calls[r] EXCEPT !.at = "gone"])
  /\ UNCHANGED <<indexMode, docs, comments, assets, refs, rows, returned>>

PurgeAsset(r) ==
  LET a == calls[r].asset
  IN  /\ calls[r].at = "gone"
      /\ IF assets[a].state # "trash" THEN Done(r) /\ UNCHANGED assets
         ELSE /\ assets' = [assets EXCEPT ![a].state = "purged"]
              /\ Go(r, [calls[r] EXCEPT !.at = "affected"])
      /\ UNCHANGED <<indexMode, docs, comments, stored, refs, rows, returned>>

Lose(r) ==
  /\ "stop" \in indexMode
  /\ calls[r] # Waiting
  /\ Done(r)
  /\ UNCHANGED <<indexMode, docs, comments, assets, stored, refs, rows, returned>>

IndexNext ==
  \E r \in Requests :
    \/ \E d \in Docs :
         \/ \E uses \in SUBSET Assets : WriteDoc(r, d, uses)
         \/ ShelveDoc(r, d) \/ PurgeDoc(r, d)
         \/ \E c \in Comments : FindPageToComment(r, c, d)
    \/ RemovePage(r) \/ IndexPageById(r) \/ Return(r)
    \/ ReadPage(r) \/ DropRow(r) \/ SelectAssets(r) \/ Unlink(r) \/ Link(r)
    \/ ReadComments(r) \/ ReadNames(r) \/ InsertRow(r) \/ Rebuild(r)
    \/ \E c \in Comments : FindComment(r, c, "reword") \/ FindComment(r, c, "uncomment")
    \/ InsertComment(r) \/ ChangeComment(r)
    \/ \E a \in Assets :
         Upload(r, a) \/ RemoveOrphan(r, a) \/ \E op \in DOMAIN Needs : FindAsset(r, a, op)
    \/ Record(r) \/ AttachExistingPages(r) \/ InsertReferences(r) \/ RefreshPagesForAsset(r)
    \/ FindActive(r) \/ ChangeAsset(r) \/ EraseBytes(r) \/ PurgeAsset(r) \/ Lose(r)

IndexSpec == IndexInit /\ [][IndexNext]_indexVars

-----------------------------------------------------------------------------
(* Properties.                                                             *)

\* The tables keep their shapes; nothing is left of the content of a purged page.
IndexTypeOK ==
  /\ \A d \in Docs : docs[d] \in
       {Absent, Purged} \cup [lifecycle : {"active", "shelved"}, uses : SUBSET Assets]
  /\ \A c \in Comments : comments[c] \in {NoComment, Deleted} \cup [page : Docs, body : {0, 1}]
  /\ assets \in [Assets -> [state : {"absent", "active", "trash", "purged"}, filename : {0, 1}]]
  /\ stored \subseteq Assets /\ returned \subseteq Assets
  /\ refs \subseteq Docs \X Assets
  /\ begun \in 0 .. MaxIndexOps

QuietIndex == "stop" \notin indexMode /\ \A r \in Requests : calls[r] = Waiting

\* When nothing is under way, an active page is found by its text, its comments and the
\* filenames of the assets it has references to, as they are now, and no other page is.
EntriesAreCurrent ==
  QuietIndex => \A d \in Docs :
    rows[d] = IF IsActive(d)
              THEN EntryOf(docs[d].uses, CommentTextForPage(d), AssetTextForPage(d, refs))
              ELSE NoRow

\* The references of active pages are those of their contents to assets that are not
\* deleted; only assets that came back from the trash may lack theirs.
ReferencesFollowContent ==
  QuietIndex => \A d \in Docs, a \in Assets :
    IsActive(d) =>
      /\ <<d, a>> \in refs => a \in Referenced(docs[d].uses)
      /\ a \in Referenced(docs[d].uses) => <<d, a>> \in refs \/ a \in returned

\* "Comments and referenced asset filenames are indexed into the owning page result":
\* the filenames of all assets that the content of an active page refers to.  An asset
\* that comes back from the trash breaks it: its references are not made again.
ReferencedAssetsAreIndexed ==
  QuietIndex => \A d \in Docs :
    IsActive(d) => \A a \in Referenced(docs[d].uses) :
                     <<a, assets[a].filename>> \in rows[d].assets

\* An asset that is not deleted has its bytes, unless it was restored while it was purged
\* or after a purge was lost half way; and without losses no bytes are left of no asset.
AssetsHaveTheirBytes ==
  /\ \A a \in Assets :
       assets[a].state = "active" =>
         a \in stored \/ (a \in returned /\ indexMode \cap {"race", "stop"} # {})
  /\ QuietIndex => \A a \in stored : Exists(a)

\* The tables keep their shape and follow the pages, the comments and the assets.
IndexInv ==
  IndexTypeOK /\ EntriesAreCurrent /\ ReferencesFollowContent /\ AssetsHaveTheirBytes

=============================================================================
