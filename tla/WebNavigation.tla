---------------------------- MODULE WebNavigation -----------------------------
(***************************************************************************)
(* How one finds pages in the web application.  Two parts that share no    *)
(* state: searching as one types (composables/useSearch.ts), and the tree  *)
(* of pages beside every page (components/PageTree.vue).                   *)
(***************************************************************************)
EXTENDS Integers, FiniteSetsExt, SequencesExt, Functions

-----------------------------------------------------------------------------
(* Searching, in the search view and in the command palette: a pause       *)
(* before a search, searches that are not numbered, pages of hits that are *)
(* appended to one another.                                                *)

CONSTANTS
  Criteria,       \* a query with its scope, order and filters
  NoQuery,        \* an empty query
  HitsOf,         \* how many hits the server has for each
  SearchLimit,    \* limit
  MaxSearches,    \* bound on the requests of a behaviour
  SearchModes     \* sets of "overtake", "hasty", "clear" to choose from

VARIABLES
  searchMode,  \* "overtake": answers come in any order; "hasty": more is loaded while
               \* something else is searched; "clear": the palette closes, or its query is
               \* emptied, before the answer is there
  criteria,    \* q, scope, sort and filters
  results, total, offset, loadingHits, failed,
  scheduled,
  requests,    \* searches that have no answer yet, in the order they were sent
  searches

searchVars ==
  <<searchMode, criteria, results, total, offset, loadingHits, failed, scheduled, requests, searches>>

\* The first hits of a search: each is known by its place in it.
HitsFrom(c, from) ==
  LET n == IF HitsOf[c] - from < SearchLimit THEN HitsOf[c] - from ELSE SearchLimit
  IN  [i \in 1 .. (IF n < 0 THEN 0 ELSE n) |-> <<c, from + i>>]

SearchInit ==
  /\ searchMode \in SearchModes
  /\ criteria = NoQuery
  /\ results = <<>> /\ total = 0 /\ offset = 0
  /\ loadingHits = FALSE /\ failed = FALSE /\ scheduled = FALSE
  /\ requests = <<>> /\ searches = 0

\* clear, which leaves the timer and the searches under way alone.
Cleared ==
  results' = <<>> /\ total' = 0 /\ offset' = 0 /\ failed' = FALSE

\* The search that run sends for some criteria.
Send(c, append) ==
  /\ searches < MaxSearches
  /\ searches' = searches + 1
  /\ loadingHits' = TRUE /\ failed' = FALSE
  /\ offset' = IF append THEN offset ELSE 0
  /\ requests' = Append(requests, [criteria |-> c, append |-> append,
                                   from |-> IF append THEN offset ELSE 0])

\* run
Run(c, append) ==
  IF c = NoQuery
  THEN Cleared /\ UNCHANGED <<loadingHits, requests, searches>>
  ELSE Send(c, append) /\ UNCHANGED <<results, total>>

MayClear(c) == c # NoQuery \/ "clear" \in searchMode \/ (requests = <<>> /\ ~scheduled)

\* onInput of the view, and the watcher of the palette: the search waits.
Type(c) ==
  /\ c # criteria /\ MayClear(c)
  /\ criteria' = c
  /\ \/ scheduled' = TRUE /\ UNCHANGED <<results, total, offset, failed>>
     \/ c = NoQuery /\ Cleared /\ UNCHANGED scheduled
  /\ UNCHANGED <<searchMode, loadingHits, requests, searches>>

\* schedule: the pause is over.
FireSearch ==
  /\ scheduled /\ scheduled' = FALSE
  /\ Run(criteria, FALSE)
  /\ UNCHANGED <<searchMode, criteria>>

\* runNow: filters, scope, order, recent searches; a pause goes on.
SearchNow(c) ==
  /\ MayClear(c)
  /\ criteria' = c
  /\ Run(c, FALSE)
  /\ UNCHANGED <<searchMode, scheduled>>

\* hasMore, whose button waits for loading.
LoadMore ==
  /\ Len(results) < total /\ ~loadingHits
  /\ "hasty" \in searchMode \/ (requests = <<>> /\ ~scheduled)
  /\ Run(criteria, TRUE)
  /\ UNCHANGED <<searchMode, criteria, scheduled>>

\* close of the palette: the query is emptied and the hits are cleared.
ClosePalette ==
  /\ MayClear(NoQuery)
  /\ criteria' = NoQuery /\ Cleared
  /\ UNCHANGED <<searchMode, loadingHits, scheduled, requests, searches>>

Arrives(k) == k \in DOMAIN requests /\ (k = 1 \/ "overtake" \in searchMode)

\* Faulty: the next page is counted from the pages asked for.
OffsetOfPages(shown) == offset + SearchLimit

OffsetAfter(shown) == Len(shown)

\* The answer is shown whatever has been typed since.
AnswerSearch(k) ==
  /\ Arrives(k)
  /\ LET r == requests[k] found == HitsFrom(r.criteria, r.from)
         shown == IF r.append THEN results \o found ELSE found
     IN  /\ results' = shown
         /\ total' = HitsOf[r.criteria]
         /\ offset' = OffsetAfter(shown)
  /\ loadingHits' = FALSE
  /\ requests' = RemoveAt(requests, k)
  /\ UNCHANGED <<searchMode, criteria, failed, scheduled, searches>>

HitsAfterFailure(append) == IF append THEN results ELSE <<>>

FailSearch(k) ==
  /\ Arrives(k)
  /\ results' = HitsAfterFailure(requests[k].append)
  /\ total' = 0 /\ failed' = TRUE
  /\ loadingHits' = FALSE
  /\ requests' = RemoveAt(requests, k)
  /\ UNCHANGED <<searchMode, criteria, offset, scheduled, searches>>

SearchNext ==
  \/ FireSearch \/ LoadMore \/ ClosePalette
  \/ \E c \in Criteria \union {NoQuery} : Type(c) \/ SearchNow(c)
  \/ \E k \in 1 .. MaxSearches : AnswerSearch(k) \/ FailSearch(k)

SearchSpec == SearchInit /\ [][SearchNext]_searchVars

-----------------------------------------------------------------------------
(* Properties.                                                             *)

Settled == requests = <<>> /\ ~scheduled

\* When nothing is under way, the hits are the first ones of what is searched for, in
\* order and without a gap, and none when nothing is; "load more" is offered exactly while
\* there are more.  A failure shows no hits of another search.  The searches carry no
\* number: each of the modes breaks it.
SearchShowsItsHits ==
  Settled =>
    LET whole == IF criteria = NoQuery THEN <<>> ELSE [i \in 1 .. HitsOf[criteria] |-> <<criteria, i>>]
    IN  /\ IsPrefix(results, whole)
        /\ ~failed => (Len(results) < total <=> results # whole) /\ offset = Len(results)
        /\ ~failed /\ whole # <<>> => results # <<>>

-----------------------------------------------------------------------------
(* The tree of pages and what a user keeps of it: folders that are closed, *)
(* starred pages, an order of his own.  They are kept in the browser at    *)
(* once, and sent to the server (services/preferences.ts) by requests that *)
(* nobody waits for.                                                       *)

CONSTANTS
  NavPages,       \* paths of pages: sequences of segments
  PathRank,       \* of each node, where localeCompare puts its path
  LabelRank,      \* and its label: the title of a page, the last segment of a folder
  PinnedPages,
  NavOrder,       \* of some pages
  MaxEntries,     \* MAX_ENTRIES of a preference
  MaxNavSteps,    \* bound on the changes of a behaviour
  NavModes        \* sets of "overtake", "lost", "hasty", "elsewhere" to choose from

VARIABLES
  navMode,     \* "overtake": requests arrive in any order; "lost": some never do; "hasty":
               \* the tree is changed while preferences are loaded; "elsewhere": another
               \* device saves its own
  open,       \* currentPath
  local,       \* collapsed, starred and manualOrder: the component and localStorage
  kept,        \* user_preferences: the value of each key, or none
  puts,        \* PUT /api/me/preferences under way
  loadingNav,  \* the answer of a GET that is under way
  navSteps,
  changed      \* history: the preferences that have been sent

navVars == <<navMode, open, local, kept, puts, loadingNav, navSteps, changed>>

NoOrder == [p \in {} |-> 0]
NoRows == [collapsed |-> {}, starred |-> {}, order |-> {}]
Idle == [on |-> FALSE, fresh |-> FALSE, rows |-> NoRows]

Ancestors(path) == {SubSeq(path, 1, n) : n \in 1 .. Len(path)}
Nodes == UNION {Ancestors(p) : p \in NavPages}
FolderPaths == {n \in Nodes : \E p \in NavPages : n \in Ancestors(p) \ {p}}

-----------------------------------------------------------------------------
(* The order of pages and of the nodes of the tree.                        *)

After == 1000   \* Number.MAX_SAFE_INTEGER
Or(f, p) == IF p \in DOMAIN f THEN f[p] ELSE After

\* comparePages
ComparePages(order, a, b) ==
  LET pinned(p) == IF p \in PinnedPages THEN 0 ELSE 1
      by(f) == IF Or(f, a) # Or(f, b) THEN Or(f, a) - Or(f, b) ELSE PathRank[a] - PathRank[b]
  IN  IF a \in DOMAIN order \/ b \in DOMAIN order THEN by(order)
      ELSE IF pinned(a) # pinned(b) THEN pinned(a) - pinned(b)
      ELSE by(NavOrder)

\* compareNodes, which is not transitive between pages and folders: pages are compared by
\* their paths, a page and a folder by their labels.
CompareNodes(order, a, b) ==
  LET leads(p) == p \in PinnedPages \/ p \in DOMAIN NavOrder
  IN  IF a \in NavPages /\ b \in NavPages THEN ComparePages(order, a, b)
      ELSE IF a \in NavPages /\ leads(a) THEN -1
      ELSE IF b \in NavPages /\ leads(b) THEN 1
      ELSE LabelRank[a] - LabelRank[b]

SortedPages(order) == SetToSortSeq(NavPages, LAMBDA a, b : ComparePages(order, a, b) < 0)

Children(node) == {n \in Nodes : Len(n) = Len(node) + 1 /\ IsPrefix(node, n)}
SortedChildren(order, node) ==
  SetToSortSeq(Children(node), LAMBDA a, b : CompareNodes(order, a, b) < 0)

\* rows: the tree from the root, without what is below a closed folder; a filter opens all
\* folders and leaves the branches of the pages that match.
BranchMatches(node, matching) == \E p \in matching : IsPrefix(node, p)
RECURSIVE Visit(_, _, _, _)
Visit(order, closed, matching, node) ==
  LET below(n) == IF n \in closed THEN <<>> ELSE Visit(order, closed, matching, n)
      row(n) == IF BranchMatches(n, matching) THEN <<n>> \o below(n) ELSE <<>>
  IN  FlattenSeq([k \in 1 .. Cardinality(Children(node)) |-> row(SortedChildren(order, node)[k])])

Rows(order, closed) == Visit(order, closed, NavPages, <<>>)
FilteredRows(order, matching) == Visit(order, {}, matching, <<>>)

\* Faulty: only the page and its neighbour are given places.
OrderOfTwo(order, p, delta) ==
  LET ordered == SortedPages(order)
      at == CHOOSE k \in DOMAIN ordered : ordered[k] = p
  IN  IF at + delta \in DOMAIN ordered
      THEN (p :> at + delta - 1) @@ (ordered[at + delta] :> at - 1) @@ order ELSE order

\* movePersonalOrder: the place among all pages, whatever the tree shows between.
OrderAfter(order, p, delta) ==
  LET ordered == SortedPages(order)
      at == CHOOSE k \in DOMAIN ordered : ordered[k] = p
      swapped == IF at + delta \in DOMAIN ordered
                 THEN [ordered EXCEPT ![at] = ordered[at + delta], ![at + delta] = p]
                 ELSE ordered
  IN  IF at + delta \in DOMAIN ordered
      THEN [q \in NavPages |-> (CHOOSE k \in DOMAIN swapped : swapped[k] = q) - 1] ELSE order

-----------------------------------------------------------------------------
(* What the server keeps.                                                  *)

Keys == {"collapsed", "starred", "order"}

\* cleanPreference: uniqueStrings, pageOrder.
Cleaned(key, value) ==
  IF key = "starred" THEN SubSeq(value, 1, Min({Len(value), MaxEntries}))
  ELSE IF key = "order" THEN [p \in DOMAIN value |-> Min({value[p], MaxEntries})]
  ELSE value

NavInit ==
  /\ navMode \in NavModes
  /\ open \in NavPages
  /\ kept \in {NoRows, [NoRows EXCEPT !.collapsed = {{}}, !.starred = {<<open>>}]}
  /\ \E fresh \in BOOLEAN :
       /\ local = [collapsed |-> IF fresh THEN {} ELSE FolderPaths \ Ancestors(open),
                   starred |-> <<>>, order |-> NoOrder]
       /\ loadingNav = [on |-> TRUE, fresh |-> fresh, rows |-> kept]
  /\ puts = <<>>
  /\ navSteps = 0 /\ changed = {}

Counts == navSteps < MaxNavSteps /\ navSteps' = navSteps + 1

\* persist, persistPreference
Keep(key, value) ==
  /\ local' = [local EXCEPT ![key] = value]
  /\ puts' = Append(puts, [key |-> key, value |-> value])
  /\ changed' = changed \union {key}
  /\ UNCHANGED <<navMode, kept, loadingNav>>

MayChange == Counts /\ ("hasty" \in navMode \/ ~loadingNav.on)

\* The watcher of currentPath: what is above the page is opened.
GoTo(p) ==
  /\ p # open /\ MayChange
  /\ open' = p
  /\ LET closed == local.collapsed \ Ancestors(p)
     IN  IF closed # local.collapsed THEN Keep("collapsed", closed)
         ELSE UNCHANGED <<navMode, local, kept, puts, loadingNav, changed>>

ToggleCollapse(n) ==
  /\ n \in FolderPaths /\ MayChange
  /\ Keep("collapsed", SymDiff(local.collapsed, {n}))
  /\ UNCHANGED open

ToggleStar(p) ==
  /\ MayChange
  /\ Keep("starred", IF p \in ToSet(local.starred) THEN SelectSeq(local.starred, LAMBDA q : q # p)
                     ELSE <<p>> \o local.starred)
  /\ UNCHANGED open

MovePersonalOrder(p, delta) ==
  /\ MayChange /\ OrderAfter(local.order, p, delta) # local.order
  /\ Keep("order", OrderAfter(local.order, p, delta))
  /\ UNCHANGED open

\* applyForUser, in one transaction.
ArriveAt(k) ==
  /\ k \in DOMAIN puts /\ (k = 1 \/ "overtake" \in navMode)
  /\ kept' = [kept EXCEPT ![puts[k].key] = {Cleaned(puts[k].key, puts[k].value)}]
  /\ puts' = RemoveAt(puts, k)
  /\ UNCHANGED <<navMode, open, local, loadingNav, navSteps, changed>>

\* A PUT that fails is forgotten.
LosePut ==
  /\ "lost" \in navMode /\ puts # <<>>
  /\ puts' = Tail(puts)
  /\ UNCHANGED <<navMode, open, local, kept, loadingNav, navSteps, changed>>

SaveElsewhere(p) ==
  /\ "elsewhere" \in navMode /\ Counts
  /\ kept' = [kept EXCEPT !.starred = {<<p>>}]
  /\ UNCHANGED <<navMode, open, local, puts, loadingNav, changed>>

\* loadServerPreferences, at a sign-in; when the tree is mounted it has begun.
LoadPreferences ==
  /\ ~loadingNav.on /\ Counts
  /\ "hasty" \in navMode \/ puts = <<>>
  /\ loadingNav' = [on |-> TRUE, fresh |-> FALSE, rows |-> kept]
  /\ UNCHANGED <<navMode, open, local, kept, puts, changed>>

\* What the server has replaces what the browser has.
Taken(rows) == [k \in Keys |-> IF rows[k] # {} THEN CHOOSE v \in rows[k] : TRUE ELSE local[k]]

\* The end of a load.  A browser that kept no folders, or those of an old layout, closes
\* all of them but those of the page, unless the server has some.
EndLoad(rows) ==
  LET closed == FolderPaths \ Ancestors(open)
  IN  IF loadingNav.fresh /\ rows["collapsed"] = {}
      THEN /\ local' = [Taken(rows) EXCEPT !.collapsed = closed]
           /\ puts' = Append(puts, [key |-> "collapsed", value |-> closed])
           /\ changed' = changed \union {"collapsed"}
      ELSE local' = Taken(rows) /\ UNCHANGED <<puts, changed>>

TakePreferences ==
  /\ loadingNav.on /\ EndLoad(loadingNav.rows)
  /\ loadingNav' = Idle
  /\ UNCHANGED <<navMode, open, kept, navSteps>>

FailPreferences ==
  /\ loadingNav.on /\ EndLoad(NoRows)
  /\ loadingNav' = Idle
  /\ UNCHANGED <<navMode, open, kept, navSteps>>

NavNext ==
  \/ LosePut \/ LoadPreferences \/ TakePreferences \/ FailPreferences
  \/ \E k \in 1 .. MaxNavSteps : ArriveAt(k)
  \/ \E n \in FolderPaths : ToggleCollapse(n)
  \/ \E p \in NavPages :
       \/ GoTo(p) \/ ToggleStar(p) \/ SaveElsewhere(p)
       \/ \E delta \in {-1, 1} : MovePersonalOrder(p, delta)

NavSpec == NavInit /\ [][NavNext]_navVars

-----------------------------------------------------------------------------
(* Properties.                                                             *)

\* Once nothing is under way, the server has what the browser has of every preference that
\* was changed, and a load has dropped no change of the user's.  Requests that overtake one
\* another or are lost, and changes while preferences are loaded, break it: each of the
\* modes does.
KeptAsShown ==
  puts = <<>> /\ ~loadingNav.on =>
    \A k \in changed : kept[k] = {local[k]}

\* A page is in the tree exactly when no folder above it is closed, and is there once; each
\* row comes after its folder and before the next row of that folder's own depth; a filter
\* shows the pages that match and what is above them.
TreeShowsPages ==
  LET rows == Rows(local.order, local.collapsed)
      hidden(n) == \E f \in local.collapsed : f # n /\ IsPrefix(f, n)
      preorder(s) == \A i, j \in DOMAIN s :
                       i < j => /\ ~IsPrefix(s[j], s[i])
                                /\ \A k \in i .. j : IsPrefix(s[i], s[j]) => IsPrefix(s[i], s[k])
  IN  /\ IsInjective(rows) /\ preorder(rows)
      /\ ToSet(rows) = {n \in Nodes : ~hidden(n)}
      /\ \A p \in NavPages : ToSet(FilteredRows(local.order, {p})) = Ancestors(p)

\* Moving a page up or down changes places with its neighbour and moves nothing else.
MovesSwapNeighbours ==
  \A p \in NavPages, delta \in {-1, 1} :
    LET before == SortedPages(local.order)
        after == SortedPages(OrderAfter(local.order, p, delta))
        at == CHOOSE k \in DOMAIN before : before[k] = p
    IN  IF at + delta \in DOMAIN before
        THEN /\ after[at + delta] = p /\ after[at] = before[at + delta]
             /\ \A k \in DOMAIN before \ {at, at + delta} : after[k] = before[k]
        ELSE after = before

NavInv == KeptAsShown /\ TreeShowsPages /\ MovesSwapNeighbours

=============================================================================
