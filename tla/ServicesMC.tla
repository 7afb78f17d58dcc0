------------------------------- MODULE ServicesMC -------------------------------
(***************************************************************************)
(* Services of the server that keep something beside the pages, for TLC:   *)
(* the rate limiters, the settings, what is derived from all pages, the    *)
(* recent changes, the watchers and the previews of links; what a browser  *)
(* keeps of them: the hits of a search and the tree of pages; and the      *)
(* databases: the calls of the repositories on each of the three, the      *)
(* migrations of SQLite and the copy of a wiki to another database.  A     *)
(* behaviour is one of one part; the others rest in an initial state of    *)
(* theirs.                                                                 *)
(***************************************************************************)
EXTENDS DatabaseMigrations

CONSTANTS
  LimitKeys, HitLimit, HitWindow, MaxBuckets, MaxNow, Limiters, Stores,
  Fields, HeadField, Refusing, PlainValues, Tidy, Messy, BadValue, NoHead, NoRow, Updates,
  Processes, MaxSettingsFaults, MaxSettingsStops,
  Pages, Writes, LinksOf, Out, MaxMillis, MaxInFlight, Starts, ReadModes,
  PageSize, FeedTtl, MaxRevisions, MaxTime, ChangeModes,
  WatchedPages, WatchPaths, WatchUsers, Nowhere, Effects, WatchModes,
  Criteria, NoQuery, HitsOf, SearchLimit, MaxSearches, SearchModes,
  NavPages, PathRank, LabelRank, PinnedPages, NavOrder, MaxEntries, MaxNavSteps, NavModes,
  Databases, Repositories, StartsOf,
  Previewers, LinkReplies, ChannelFeed, FeedVideos, MaxVideos, MaxRedirects, UnfurlTtl,
  LatestTtl, ChangingTexts, MaxPreviewTime, MaxEditions, PreviewModes

VARIABLES
  part,
  store, now, hits, order, lastSweep, passed,
  table, trusted, copy, initialized, readingRows, writes, stage, patch, next, promised,
  faults, stops,
  readMode, millis, rows, writing, version, cache, listed, reading, answer,
  changeMode, time, revisions, shown, hasMore, loading, loadingMore, feedCache, rendering,
  unclear, feed,
  watchMode, path, active, watchers, asking, effects, told, wants, owed,
  searchMode, criteria, results, total, offset, loadingHits, failed, scheduled, requests,
  searches,
  navMode, open, local, kept, puts, loadingNav, navSteps, changed,
  database, repository, method, before, committed, own, locks, gaps, snapshot, waits, at, read,
  hit, answers,
  previewMode, previewClock, editions, previews, unfurls, lastPreview

Limits == INSTANCE RateLimiter
Settings == INSTANCE Settings
Reads == INSTANCE PageReads
Watchers == INSTANCE Watchers
Previews == INSTANCE LinkPreviews
Navigation == INSTANCE WebNavigation
Drivers == INSTANCE Drivers

limitVars == <<store, now, hits, order, lastSweep, passed>>
settingsVars ==
  <<table, trusted, copy, initialized, readingRows, writes, stage, patch, next, promised,
    faults, stops>>
readVars == <<readMode, millis, rows, writing, version, cache, listed, reading, answer>>
changeVars ==
  <<changeMode, time, revisions, shown, hasMore, loading, loadingMore, feedCache, rendering,
    unclear, feed>>
watchVars == <<watchMode, path, active, watchers, asking, effects, told, wants, owed>>
searchVars ==
  <<searchMode, criteria, results, total, offset, loadingHits, failed, scheduled, requests,
    searches>>
navVars == <<navMode, open, local, kept, puts, loadingNav, navSteps, changed>>
driverVars ==
  <<database, repository, method, before, committed, own, locks, gaps, snapshot, waits, at,
    read, hit, answers>>
previewVars == <<previewMode, previewClock, editions, previews, unfurls, lastPreview>>
keeperVars == <<limitVars, settingsVars, readVars, changeVars, watchVars, previewVars>>
browserVars == <<searchVars, navVars>>
databaseVars == <<driverVars, migrationVars, copyVars>>
servicesVars == <<part, keeperVars, browserVars, databaseVars>>

\* Patches of the title, which may be refused, of the home page, which is tidied, of the
\* head that only a trusted installation may have, and of two fields.
SomePatches ==
  {[f \in {"title"} |-> v] : v \in {"v", "bad"}}
    \union {[f \in {"home"} |-> v] : v \in {"v", "messy"}}
    \union {[f \in {"head"} |-> "v"], [f \in {"title", "home"} |-> "v"]}

\* What the writes leave as links; the last page is not active at first.
SomeLinks == (0 :> {"a"}) @@ (1 :> {"b"}) @@ (2 :> {"c", "a"})
SomeStarts == {[p \in Pages |-> IF p = "b" THEN Out ELSE 0]}
SomeReadModes == {{"tick", "foreign"}, {}}
SomeChangeModes == {{}, {"feed"}}
SomeWatchModes == {{}}

\* Links that redirect once, twice, into a private network or not at all, and a channel
\* whose feed is previewed as a page as well.
Says(kind, other) ==
  [gives |-> kind, to |-> other, public |-> TRUE, restricted |-> FALSE, long |-> FALSE]
SomeReplies ==
  "page" :> Says("text", "oembed") @@ "oembed" :> Says("text", "oembed") @@
  "near" :> Says("redirect", "adult") @@ "far" :> Says("redirect", "near") @@
  "adult" :> [Says("text", "adult") EXCEPT !.restricted = TRUE] @@
  "trap" :> Says("redirect", "inside") @@ "gone" :> Says("error", "gone") @@
  "inside" :> [Says("text", "inside") EXCEPT !.public = FALSE] @@
  "deep" :> Says("text", "huge") @@ "huge" :> [Says("text", "huge") EXCEPT !.long = TRUE] @@
  "feed" :> Says("text", "feed")
\* One previewer at a time, and two that overlap: of the same link, of a row that both kinds
\* want, of two lists.
SomePreviewModes ==
  {[links |-> ("v1" :> {<<"feed", 0>>} @@ "v2" :> {}), limits |-> ("v1" :> {5} @@ "v2" :> {0}),
    slowBody |-> FALSE],
   [links |-> ("v1" :> {<<"page", 1>>, <<"page", 2>>, <<"near", 0>>} @@ "v2" :> {}),
    limits |-> ("v1" :> {} @@ "v2" :> {}), slowBody |-> FALSE],
   [links |-> ("v1" :> {<<"far", 0>>, <<"trap", 0>>, <<"gone", 0>>, <<"deep", 0>>, <<"huge", 0>>}
                 @@ "v2" :> {}),
    limits |-> ("v1" :> {} @@ "v2" :> {}), slowBody |-> FALSE],
   [links |-> ("v1" :> {<<"feed", 0>>} @@ "v2" :> {}), limits |-> ("v1" :> {} @@ "v2" :> {1, 2}),
    slowBody |-> FALSE],
   [links |-> ("v1" :> {<<"near", 0>>} @@ "v2" :> {<<"near", 0>>}),
    limits |-> ("v1" :> {} @@ "v2" :> {}), slowBody |-> FALSE]}

\* Answers in their order and nothing asked meanwhile: each mode breaks a property.
SomeSearchModes == {{}}
SomeNavModes == {{}}
SomeHits == ("x" :> 5) @@ ("y" :> 1) @@ ("" :> 0)

\* A page that is a folder as well, and one that is pinned in a folder without a page.
TreePages == {<<"a">>, <<"a", "b">>, <<"d", "e">>}
SomePathRank == (<<"a">> :> 1) @@ (<<"a", "b">> :> 2) @@ (<<"d">> :> 3) @@ (<<"d", "e">> :> 4)
SomeLabelRank == (<<"a">> :> 4) @@ (<<"a", "b">> :> 3) @@ (<<"d">> :> 1) @@ (<<"d", "e">> :> 2)
SomeNavOrder == (<<"a", "b">> :> 1)
SomePinned == {<<"d", "e">>}

\* The rows the calls of a repository begin on: each row in each of its kinds, the callers'
\* own rows not there yet.
Vary(f) ==
  LET kinds == UNION {f[r] : r \in DOMAIN f}
  IN {g \in [DOMAIN f -> kinds] : \A r \in DOMAIN f : g[r] \in f[r]}
Each(names, kinds) == [r \in names |-> kinds]
NotYet(names) == Each(names, {"none"})
Maybe(names) == Each(names, {"none", "live"})
Owns == NotYet({"own1", "own2"})
SomeRows ==
  [oidcStates |-> Vary(Owns @@ Each({"state"}, {"none", "live", "spent", "other"})),
   authRecovery |->
     Vary(NotYet({"reset1", "reset2", "mail1", "mail2"}) @@ Maybe({"reset", "mail"})
            @@ Each({"user"}, {"live", "spent"})),
   realtimeTickets |-> Vary(Owns @@ Each({"ticket"}, {"none", "live", "spent"})),
   totp |-> Vary(Owns @@ Each({"user"}, {"live"}) @@ Maybe({"code"})),
   passkeys |-> Vary(Owns @@ NotYet({"credential"}) @@ Maybe({"key", "challenge"})),
   apiKeys |-> Vary(Owns @@ Each({"key"}, {"none", "live", "spent"})),
   pageShares |-> Vary(Owns @@ Maybe({"share"}) @@ Each({"page"}, {"live"})),
   authAccounts |-> Vary(Owns @@ Maybe({"account", "email"})),
   users |-> Vary(Maybe({"email"})),
   admin |-> Vary(Each({"rev1", "rev2", "user"}, {"live"})),
   analytics |-> Vary(Each({"a", "b"}, {"none", "one"})),
   assetReferences |-> Vary(Maybe({"asset", "ref"})),
   assets |-> Vary(Owns @@ Maybe({"asset", "ref"})),
   auditLog |-> Vary(Owns @@ Each({"old"}, {"spent"}) @@ Maybe({"last"})),
   authz |-> Vary(Owns @@ NotYet({"grant1", "grant2"}) @@ Maybe({"group", "had", "former"})),
   comments |-> Vary(Owns @@ Maybe({"comment"})),
   elasticsearch |-> Vary(Each({"page", "comment"}, {"live"}) @@ Maybe({"asset", "ref"})),
   linkPreviews |-> Vary(Maybe({"url"})),
   notifications |-> Vary(Owns @@ Each({"notice"}, {"live"}) @@ Maybe({"from", "to"})),
   pageTemplates |-> Vary(Owns @@ Maybe({"template"})),
   pages |-> Vary(Owns @@ NotYet({"first"}) @@ Each({"page", "revision"}, {"live"})
                    @@ Maybe({"redirect", "there"})),
   searchOutbox |-> Vary(Owns @@ Each({"entry"}, {"none", "zero"})),
   settings |-> Vary(Maybe({"a", "b"})),
   userPreferences |-> Vary(Maybe({"a", "b"})),
   webhookAutomation |-> Vary(Owns @@ Maybe({"rule"})),
   webhookDeliveries |-> Vary(Owns @@ Maybe({"delivery"})),
   webhookSubscriptions |-> Vary(Owns @@ Maybe({"hook"}))]
AllRepositories == DOMAIN SomeRows

\* An empty database, one without two tables, and those of versions without some columns:
\* with the search of this version, or with the one before comments were searched.
Complete == [tables |-> {}, columns |-> {}, search |-> "new"]
Without(columns, search) == [tables |-> {}, columns |-> columns, search |-> search]
Added(t) == {<<t, c>> : c \in AddedColumns[t]}
Lifecycle == {<<"pages", "lifecycle">>, <<"pages", "status">>, <<"pages", "labels">>}
SomeLayouts ==
  {[tables |-> DOMAIN CreatedTables, columns |-> {}, search |-> "none"],
   [tables |-> {"search_outbox", "page_templates"}, columns |-> {}, search |-> "new"],
   Complete, Without({}, "old"),
   Without(Added("users"), "new"), Without(Added("users"), "old"),
   Without(Added("assets"), "new"), Without(Added("assets"), "old"),
   Without(Added("automation_rules"), "new"), Without(Added("link_previews"), "new"),
   Without(Lifecycle, "new"), Without(Lifecycle, "old"),
   Without({<<"pages", "pinned">>, <<"pages", "nav_order">>}, "new")}

\* A wiki of a few tables, in their order: of the three whose ids a sequence gives one is
\* left behind; of the pages one may not fit in a MySQL column.
SmallRow(n, name, longest) == [id |-> n, name |-> name, longest |-> longest]
PlainRow(n) == SmallRow(n, "unnamed", <<>>)
SomeTables == <<"groups", "pages", "rate_limit_hits", "search_outbox", "users", "wiki_events">>
SmallWiki(longest) ==
  "groups" :> <<SmallRow(1, "everyone", <<>>)>> @@
  "pages" :> <<PlainRow(1), SmallRow(2, "unnamed", longest), PlainRow(3)>> @@
  "rate_limit_hits" :> <<PlainRow(1), PlainRow(1)>> @@
  "search_outbox" :> <<PlainRow(1), PlainRow(2)>> @@
  "users" :> <<PlainRow(1)>> @@
  "wiki_events" :> <<PlainRow(1)>>
SomeSources ==
  {SmallWiki(<<>>), SmallWiki("path" :> 300), SmallWiki("description" :> 600),
   SmallWiki("description" :> 300)}
SomeBooted ==
  [t \in {SomeTables[n] : n \in DOMAIN SomeTables} |->
     IF t = "groups" THEN <<SmallRow(9, "everyone", <<>>)>> ELSE <<>>]

ServicesInit ==
  /\ part \in {"limits", "settings", "reads", "changes", "watchers", "search", "tree", "drivers",
              "migrations", "copying", "previews"}
  /\ Limits!LimitInit /\ Settings!SettingsInit /\ Reads!ReadInit /\ Reads!ChangesInit
  /\ Watchers!WatchInit /\ Previews!PreviewInit /\ Navigation!SearchInit /\ Navigation!NavInit
  /\ part # "limits" => store = "memory"
  /\ part # "settings" => trusted
  /\ part # "reads" => readMode = {}
  /\ part # "changes" => changeMode = {}
  /\ part # "previews" => previewMode.limits["v1"] = {5}
  /\ part # "tree" => open = <<"a">> /\ loadingNav.fresh /\ kept.collapsed = {}
  /\ IF part = "drivers" THEN Drivers!DriversInit
     ELSE Drivers!Begin("sqlite", "users", "email" :> "none", <<"find", "find">>)
  /\ IF part = "migrations" THEN MigrationInit
     ELSE Found(Complete, [p \in WikiPages |-> "none"], [u \in WikiUsers |-> "none"],
                           [r \in WikiRules |-> "none"])
  /\ IF part = "copying" THEN CopyInit
     ELSE Moving("mysql", SmallWiki(<<>>), <<>>)

LimitStep ==
  /\ part = "limits" /\ Limits!LimitNext
  /\ UNCHANGED <<settingsVars, readVars, changeVars, watchVars, previewVars, browserVars,
                 databaseVars>>
SettingsStep ==
  /\ part = "settings" /\ Settings!SettingsNext(SomePatches)
  /\ UNCHANGED <<limitVars, readVars, changeVars, watchVars, previewVars, browserVars, databaseVars>>
ReadStep ==
  /\ part = "reads" /\ Reads!ReadNext
  /\ UNCHANGED <<limitVars, settingsVars, changeVars, watchVars, previewVars, browserVars,
                 databaseVars>>
ChangeStep ==
  /\ part = "changes" /\ Reads!ChangesNext
  /\ UNCHANGED <<limitVars, settingsVars, readVars, watchVars, previewVars, browserVars,
                 databaseVars>>
WatchStep ==
  /\ part = "watchers" /\ Watchers!WatchNext
  /\ UNCHANGED <<limitVars, settingsVars, readVars, changeVars, previewVars, browserVars,
                 databaseVars>>
PreviewStep ==
  /\ part = "previews" /\ Previews!PreviewNext
  /\ UNCHANGED <<limitVars, settingsVars, readVars, changeVars, watchVars, browserVars,
                 databaseVars>>
SearchStep ==
  /\ part = "search" /\ Navigation!SearchNext
  /\ UNCHANGED <<keeperVars, navVars, databaseVars>>
TreeStep ==
  /\ part = "tree" /\ Navigation!NavNext
  /\ UNCHANGED <<keeperVars, searchVars, databaseVars>>
DriverStep ==
  /\ part = "drivers" /\ Drivers!DriversNext
  /\ UNCHANGED <<keeperVars, browserVars, migrationVars, copyVars>>
MigrationStep ==
  /\ part = "migrations" /\ MigrationNext
  /\ UNCHANGED <<keeperVars, browserVars, driverVars, copyVars>>
CopyStep ==
  /\ part = "copying" /\ CopyNext
  /\ UNCHANGED <<keeperVars, browserVars, driverVars, migrationVars>>

ServicesNext ==
  /\ \/ LimitStep \/ SettingsStep \/ ReadStep \/ ChangeStep \/ WatchStep
     \/ PreviewStep \/ SearchStep \/ TreeStep \/ DriverStep \/ MigrationStep \/ CopyStep
  /\ UNCHANGED part

ServicesSpec == ServicesInit /\ [][ServicesNext]_servicesVars

\* The properties of the parts, stated there, and asked of the part that moves.
KeepersInv ==
  /\ part = "limits" => Limits!LimitTypeOK
  /\ part = "settings" => Settings!SettingsInv
  /\ part = "watchers" => Watchers!WatchInv
  /\ part = "reads" => Reads!ReadsInv
  /\ part = "changes" => Reads!ChangesInv
  /\ part = "previews" => Previews!PreviewInv
  /\ part = "migrations" => MigrationInv
  /\ part = "copying" => CopyInv
DriversInv == part = "drivers" => Drivers!CallsAreSerial
BrowserInv ==
  /\ part = "search" => Navigation!SearchShowsItsHits
  /\ part = "tree" => Navigation!NavInv
AnswersFollowTheWindow == Limits!AnswersFollowTheWindow

=============================================================================
