------------------------------ MODULE PageReads -------------------------------
(***************************************************************************)
(* What readers are shown of all pages. Two parts that share no state:     *)
(* what is derived from the active pages (services/pages.ts: derivedPages, *)
(* graph, backlinks, brokenLinks), and the list of recent changes.         *)
(***************************************************************************)
EXTENDS Integers, FiniteSetsExt, SequencesExt

-----------------------------------------------------------------------------
(* What is derived from all active pages, and the routes that show a       *)
(* reader the part of it that he may see.                                  *)
(*                                                                         *)
(* The cache of derived pages is found by a signature: a version that this *)
(* process counts up after its own writes, and the number, the latest and  *)
(* the sum of the updatedAt of the pages that were listed.                 *)

CONSTANTS
  Pages,
  Writes,       \* the writes of a behaviour: each leaves a content of its own
  LinksOf,      \* the pages that the content of a write, or of 0, links to
  Out,          \* a page that is not active
  MaxMillis,    \* bound on the clock
  MaxInFlight,  \* bound on the writes under way at one time
  Starts,       \* the pages that there are, rows to choose from
  ReadModes     \* sets of "tick" and "foreign" to choose from

VARIABLES
  readMode,     \* "tick": no two writes share a millisecond; "foreign": another
                \* process writes as well
  millis,
  rows,         \* for each page the write that left it, 0 for none, or Out
  writing,      \* for each write where it is, what it does, and its updatedAt
  version,      \* derivedVersion
  cache,        \* derivedCache
  listed,       \* what derivedPages has listed
  reading,      \* a read has listed, and not answered
  answer        \* what the last read was based on, while nothing else is read

readVars == <<readMode, millis, rows, writing, version, cache, listed, reading, answer>>

NoListing == [p \in Pages |-> Out]
NoAnswer == [listed |-> NoListing, given |-> NoListing]

Active(listing) == {p \in Pages : listing[p] # Out}
UpdatedAt(listing, p) == IF listing[p] = 0 THEN 0 ELSE writing[listing[p]].at
Links(listing, p) == LinksOf[listing[p]]

ReadInit ==
  /\ readMode \in ReadModes
  /\ millis = 1
  /\ rows \in Starts
  /\ writing = [w \in Writes |-> [stage |-> "none", page |-> Out, leaves |-> FALSE, at |-> 0]]
  /\ version = 0
  /\ cache = [signature |-> <<>>, pages |-> NoListing]
  /\ listed = NoListing /\ reading = FALSE
  /\ answer = NoAnswer

InFlight == {w \in Writes : writing[w].stage \in {"begun", "committed"}}

\* A write takes the time before its transaction (writeExistingPage).  Without "tick"
\* no read is under way.
Begin(w, p, leaves) ==
  /\ writing[w].stage = "none"
  /\ \A other \in Writes : other < w => writing[other].stage # "none"
  /\ Cardinality(InFlight) < MaxInFlight
  /\ IF "tick" \in readMode
     THEN \A other \in Writes : writing[other].at # millis
     ELSE ~reading /\ InFlight = {}
  /\ writing' = [writing EXCEPT ![w] =
                   [stage |-> "begun", page |-> p, leaves |-> leaves, at |-> millis]]
  /\ UNCHANGED <<readMode, millis, rows, version, cache, listed, reading, answer>>

\* An archive or a deletion leaves the active pages; all else leaves a new content.
Commit(w, foreign) ==
  /\ writing[w].stage = "begun"
  /\ foreign => "foreign" \in readMode
  /\ rows' = [rows EXCEPT ![writing[w].page] = IF writing[w].leaves THEN Out ELSE w]
  /\ writing' = [writing EXCEPT ![w] =
                   [@ EXCEPT !.stage = IF foreign THEN "ended" ELSE "committed",
                             !.page = Out, !.leaves = FALSE]]
  /\ UNCHANGED <<readMode, millis, version, cache, listed, reading, answer>>

\* touchDerived, when the transaction has answered.
Touch(w) ==
  /\ writing[w].stage = "committed"
  /\ writing' = [writing EXCEPT ![w].stage = "ended"]
  /\ version' = version + 1
  /\ UNCHANGED <<readMode, millis, rows, cache, listed, reading, answer>>

ListActive ==
  /\ ~reading
  /\ "tick" \in readMode \/ InFlight = {}
  /\ reading' = TRUE
  /\ listed' = rows
  /\ answer' = NoAnswer
  /\ UNCHANGED <<readMode, millis, rows, writing, version, cache>>

Latest(listing) == Max({0} \union {UpdatedAt(listing, p) : p \in Active(listing)})
Total(listing) == MapThenSumSet(LAMBDA p : UpdatedAt(listing, p), Active(listing))

\* Faulty: without the sum.
SignatureOfLatest(listing) ==
  <<version, Cardinality(Active(listing)), Latest(listing)>>

Signature(listing) ==
  <<version, Cardinality(Active(listing)), Latest(listing), Total(listing)>>

\* derivedPages goes on when the listing has come back: the version is read now.
Derive ==
  /\ reading
  /\ LET found == cache.signature = Signature(listed)
     IN  /\ cache' = IF found THEN cache ELSE [signature |-> Signature(listed), pages |-> listed]
         /\ answer' = [listed |-> listed, given |-> IF found THEN cache.pages ELSE listed]
  /\ reading' = FALSE /\ listed' = NoListing
  /\ UNCHANGED <<readMode, millis, rows, writing, version>>

TickMillis ==
  /\ millis < MaxMillis /\ millis' = millis + 1
  /\ UNCHANGED <<readMode, rows, writing, version, cache, listed, reading, answer>>

ReadNext ==
  \/ ListActive \/ Derive \/ TickMillis
  \/ \E w \in Writes :
       \/ Touch(w)
       \/ \E foreign \in BOOLEAN : Commit(w, foreign)
       \/ \E p \in Pages, leaves \in BOOLEAN : Begin(w, p, leaves)

ReadSpec == ReadInit /\ [][ReadNext]_readVars

-----------------------------------------------------------------------------
(* What the services make of derived pages, and what the routes show of it *)
(* to a reader who may see some of the pages.                              *)

\* graph: pages, and the missing pages that they link to.
GraphEdges(data) == {e \in Active(data) \X Pages : e[2] \in Links(data, e[1]) /\ e[1] # e[2]}
Missing(data) == {e[2] : e \in GraphEdges(data)} \ Active(data)
GraphNodes(data) == Active(data) \union Missing(data)

Backlinks(data, target) == {p \in Active(data) : target \in Links(data, p)}
BrokenLinks(data) == {e \in GraphEdges(data) : e[2] \notin Active(data)}

\* The parts of /api/graph, /api/page/backlinks and /api/links/broken.
ShownNodes(data, seen) ==
  {n \in GraphNodes(data) :
     n \in seen \/ (n \in Missing(data) /\ \E e \in GraphEdges(data) : e[2] = n /\ e[1] \in seen)}
ShownEdges(data, seen) ==
  {e \in GraphEdges(data) : e[1] \in seen /\ (e[2] \in Missing(data) \/ e[2] \in seen)}
ShownBacklinks(data, seen, target) == Backlinks(data, target) \intersect seen
ShownBrokenLinks(data, seen) == {e \in BrokenLinks(data) : e[1] \in seen}

-----------------------------------------------------------------------------
(* Properties.                                                             *)

\* What a read returns is derived from the pages it has listed, whatever was cached
\* (derivedPages), while at most two writes are under way at one time (MaxInFlight = 2):
\* three of another process can leave the count, the latest and the sum of updatedAt as
\* they were, and what is cached is then stale.  What the graph, the backlinks and the
\* broken links say of a link is the same, whichever pages the routes have found that the
\* reader may see: a page that came or went between their listing and the one of
\* derivedPages leaves no edge without its nodes.
ReadsInv ==
  LET data == answer.given
  IN  /\ data = answer.listed
      /\ \A seen \in SUBSET Pages :
           /\ \A e \in ShownEdges(data, seen) : {e[1], e[2]} \subseteq ShownNodes(data, seen)
           /\ \A e \in ShownEdges(data, seen) : e[1] \in ShownBacklinks(data, seen, e[2])
           /\ ShownBrokenLinks(data, seen) =
                {e \in ShownEdges(data, seen) : e[2] \notin Active(data)}

-----------------------------------------------------------------------------
(* The list of recent changes: pages of revisions that the server cuts off *)
(* by time (services/pages.ts recentChanges, GET /api/changes), the view   *)
(* that appends one to another (web ChangesView.vue), and the feed, which  *)
(* keeps what it has rendered for a while (routes/system.ts).              *)

CONSTANTS
  PageSize,      \* PAGE_SIZE, the limit that the view asks for
  FeedTtl,       \* FEED_CACHE_TTL_MS
  MaxRevisions, MaxTime,
  ChangeModes    \* sets of "ties", "private", "overlap", "feed" to choose from

VARIABLES
  changeMode,  \* "ties": revisions of one time; "private": paths that the reader may not
               \* read; "overlap": the list is refreshed while more of it is loaded;
               \* "feed": the reader has the feed and not the view
  time,
  revisions,   \* page_revisions in the order of their rowids: the time and the reader
  shown,       \* changes of the view
  hasMore,
  loading,     \* the answer that a request for the first page will bring
  loadingMore, \* and one for the next page
  feedCache,   \* the time it was rendered for, and the revisions of then
  rendering,   \* a feed that has read its time and the changes
  unclear,     \* writes that have committed and not yet cleared the feed's cache
  feed         \* what the feed showed last, when, and what had been committed by then

changeVars ==
  <<changeMode, time, revisions, shown, hasMore, loading, loadingMore, feedCache, rendering,
    unclear, feed>>

None == <<>>

\* ORDER BY created_at DESC, rowid DESC; times never decrease with the rowid.
NewestFirst == Reverse([n \in 1 .. Len(revisions) |-> n])
First(s, n) == SubSeq(s, 1, Min({n, Len(s)}))

\* listRecentRevisions: those before a time, or all.
Before(at) == SelectSeq(NewestFirst, LAMBDA n : revisions[n].at < at)
BeforeOrAt(at) == SelectSeq(NewestFirst, LAMBDA n : revisions[n].at <= at)

\* recentChanges: one batch is at least as long as the limit.
PageFrom(list) == First(list, PageSize)

\* The route leaves out what the reader may not read, after the page has been cut off.
Readable(list) == SelectSeq(list, LAMBDA n : revisions[n].readable)

ChangesInit ==
  /\ changeMode \in ChangeModes
  /\ time = 1
  /\ revisions = <<>>
  /\ shown = None /\ hasMore = FALSE
  /\ loading = [on |-> FALSE, list |-> None] /\ loadingMore = [on |-> FALSE, list |-> None]
  /\ feedCache = [on |-> FALSE, at |-> 0, upTo |-> 0]
  /\ rendering = [on |-> FALSE, at |-> 0, upTo |-> 0]
  /\ unclear = 0
  /\ feed = [at |-> 0, upTo |-> 0, due |-> 0]

\* A page write commits its revision.
Revise(readable) ==
  /\ Len(revisions) < MaxRevisions
  /\ ~readable => "private" \in changeMode
  /\ "ties" \in changeMode \/ \A n \in DOMAIN revisions : revisions[n].at < time
  /\ revisions' = Append(revisions, [at |-> time, readable |-> readable])
  /\ unclear' = IF "feed" \in changeMode THEN unclear + 1 ELSE 0
  /\ UNCHANGED <<changeMode, time, shown, hasMore, loading, loadingMore, feedCache, rendering, feed>>

\* feedCache.clear() of pageWriteEffects.
ClearFeed ==
  /\ unclear > 0 /\ unclear' = unclear - 1
  /\ feedCache' = [on |-> FALSE, at |-> 0, upTo |-> 0]
  /\ UNCHANGED <<changeMode, time, revisions, shown, hasMore, loading, loadingMore, rendering, feed>>

PassChangeTime ==
  /\ time < MaxTime /\ time' = time + 1
  /\ UNCHANGED <<changeMode, revisions, shown, hasMore, loading, loadingMore, feedCache,
                 rendering, unclear, feed>>

\* load, by the Refresh button or when the view is opened.
AskFirst ==
  /\ "feed" \notin changeMode /\ ~loading.on
  /\ "overlap" \in changeMode \/ ~loadingMore.on
  /\ loading' = [on |-> TRUE, list |-> Readable(PageFrom(NewestFirst))]
  /\ UNCHANGED <<changeMode, time, revisions, shown, hasMore, loadingMore, feedCache,
                 rendering, unclear, feed>>

ShowFirst ==
  /\ loading.on
  /\ shown' = loading.list
  /\ hasMore' = (Len(loading.list) = PageSize)
  /\ loading' = [on |-> FALSE, list |-> None]
  /\ UNCHANGED <<changeMode, time, revisions, loadingMore, feedCache, rendering, unclear, feed>>

\* Faulty: the last change comes again.
PageAfterAgain(list) == PageFrom(BeforeOrAt(revisions[Last(list)].at))

\* GET /api/changes with the time of the last change that is shown.
PageAfter(list) == PageFrom(Before(revisions[Last(list)].at))

\* loadMore
AskMore ==
  /\ hasMore /\ ~loadingMore.on /\ shown # None
  /\ "overlap" \in changeMode \/ ~loading.on
  /\ loadingMore' = [on |-> TRUE, list |-> Readable(PageAfter(shown))]
  /\ UNCHANGED <<changeMode, time, revisions, shown, hasMore, loading, feedCache, rendering,
                 unclear, feed>>

ShowMore ==
  /\ loadingMore.on
  /\ shown' = shown \o loadingMore.list
  /\ hasMore' = (Len(loadingMore.list) = PageSize)
  /\ loadingMore' = [on |-> FALSE, list |-> None]
  /\ UNCHANGED <<changeMode, time, revisions, loading, feedCache, rendering, unclear, feed>>

\* A request that failed leaves the list as it is.
FailAsking ==
  /\ loading.on \/ loadingMore.on
  /\ IF loading.on
     THEN loading' = [on |-> FALSE, list |-> None] /\ UNCHANGED loadingMore
     ELSE loadingMore' = [on |-> FALSE, list |-> None] /\ UNCHANGED loading
  /\ UNCHANGED <<changeMode, time, revisions, shown, hasMore, feedCache, rendering, unclear, feed>>

\* How many revisions had been committed by a time.
CommittedBy(at) == Cardinality({n \in DOMAIN revisions : revisions[n].at <= at})

Show(upTo) == feed' = [at |-> time, upTo |-> upTo, due |-> CommittedBy(time - FeedTtl)]

\* feedResponse finds a fresh copy, or takes the time and reads the changes.
AskFeed ==
  /\ "feed" \in changeMode /\ ~rendering.on
  /\ IF feedCache.on /\ time - feedCache.at < FeedTtl
     THEN Show(feedCache.upTo) /\ UNCHANGED rendering
     ELSE rendering' = [on |-> TRUE, at |-> time, upTo |-> Len(revisions)] /\ UNCHANGED feed
  /\ UNCHANGED <<changeMode, time, revisions, shown, hasMore, loading, loadingMore, feedCache,
                 unclear>>

KeptCopy(copy) == copy

\* The permissions of the changes have been looked up: the feed is kept and sent.
KeepFeed ==
  /\ rendering.on
  /\ feedCache' = KeptCopy(rendering)
  /\ feed' = [at |-> time, upTo |-> rendering.upTo, due |-> CommittedBy(rendering.at - FeedTtl)]
  /\ rendering' = [on |-> FALSE, at |-> 0, upTo |-> 0]
  /\ UNCHANGED <<changeMode, time, revisions, shown, hasMore, loading, loadingMore, unclear>>

ChangesNext ==
  \/ ClearFeed \/ PassChangeTime \/ AskFirst \/ ShowFirst \/ AskMore \/ ShowMore
  \/ FailAsking \/ AskFeed \/ KeepFeed
  \/ \E readable \in BOOLEAN : Revise(readable)

ChangesSpec == ChangesInit /\ [][ChangesNext]_changeVars

-----------------------------------------------------------------------------
(* Properties.                                                             *)

\* The readable revisions from the first one that is shown.
ReadableFrom(n) == Readable(SelectSeq(NewestFirst, LAMBDA m : m <= n))

\* What the view shows is the list from its first change on, without a gap or a
\* repetition, while pages are written and requests fail; once there is no more to load it
\* is the whole list.  Revisions of one time that a page ends between (mode "ties": the
\* pages that a move rewrites share theirs), a page with unreadable changes (mode "private":
\* it looks like the last one), and a refresh while more is loaded (mode "overlap") break it.
ShownWithoutGap ==
  changeMode = {} /\ shown # None =>
    LET whole == ReadableFrom(Head(shown))
    IN  /\ IsPrefix(shown, whole)
        /\ ~hasMore => shown = whole

\* The feed is never older than its time to live: a copy that was rendered while a page was
\* written is put back after the write has cleared the cache, and carries the time at which
\* it was begun.
FeedIsRecent == feed.upTo >= feed.due

ChangesInv == ShownWithoutGap /\ FeedIsRecent

=============================================================================
