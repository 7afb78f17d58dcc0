# Specifications of kawaii-wiki.ts

TLA+ modules of the parts of the wiki whose behaviour depends on the order of
things: requests that interleave, saves that answer late, caches that are
overtaken, queues that retry, panels that fetch while they are used, migrations
that are stopped. The modules are translated from the code under
`apps/server/src` (called `server/` below), `apps/web/src` (`web/`) and
`packages/core/src`. TLC checks them on small instances; TLAPS proves the most
important properties for every value of the constants.

Check a run with TLC, or the proofs of a module with TLAPS:

    tlc -config Pages.cfg PagesMC
    tlapm PageStoreProofs.tla

## 1. The system

A Bun process (`server/http/app.ts`) serves a REST API, server-sent events and
web sockets over one SQL database: SQLite or libSQL, PostgreSQL or MySQL. Several
processes may share a PostgreSQL or MySQL database. Search is SQLite FTS5, the
SQL database's own search, or Elasticsearch. Pages may be mirrored to a Git
repository. A Vue application in the browser reads, edits and administers.
Everything in a process or a tab is one JavaScript thread: code between two
`await`s is atomic, and nothing else is.

| component | state it keeps | operations |
|---|---|---|
| page service, page repositories (`services/pages.ts`, `db/**/repositories/pages.ts`) | `pages`, `page_revisions`, `page_redirects`, the search index; a cache of derived pages | create, copy, update, upsertFromFile, saveContent, restoreRevision, archive, restore, move, remove, purge, createRedirect, deleteRedirect, resolvePath, recentChanges, graph, brokenLinks |
| collaborative editing (`realtime/collab.ts`, `realtime/runtime.ts`, `http/routes/realtime.ts`) | rooms with a Yjs document, their sockets, a save timer, the version they expect | open, message, close, flush, the answer of persist |
| presence (`realtime/presence.ts`) | who watches which path | join, leave, broadcast |
| permission policy (`services/authz.ts`) | `cachedPolicy`, `policyLoading`, `policyGeneration`; grants and rules in the database | policy, createPageRule, deletePageRule |
| accounts, administration (`services/users.ts`, `admin.ts`, `authz.ts`, `http/routes/auth.ts`, `setup.ts`) | users, roles, role groups | register, completeSetup, external sign-in, setUserRole, deactivateUser |
| sign-in (`services/auth-recovery.ts`, `totp.ts`, `passkeys.ts`, `oidc.ts`, `api-keys.ts`) | sessions, one-time rows, two-factor codes, passkey counters | login, reset, verify, consume, revoke |
| permissions (`packages/core/src/permissions.ts`) | none: what one request is allowed | can |
| search outbox (`search/elasticsearch/*`, `db/repositories/search-outbox.ts`) | `search_outbox`, the versioned index behind an alias | enqueue in page transactions, claimDue, complete, fail, rebuild |
| built-in search and asset references (`db/**/repositories/search.ts`, `asset-references.ts`, `services/assets.ts`, `comments.ts`) | FTS rows, `page_asset_refs` | indexPage, removePage, upload, rename, trash, comment |
| event buses (`realtime/bus.ts`, `db/postgres/event-bus.ts`, `db/mysql/event-bus.ts`) | `wiki_events`, listeners, `lastSeenId` | emit, subscribe, poll, prune |
| Git mirror (`storage/git.ts`, `storage/git-sync.ts`) | a repository, the last-imported marker | savePage, movePage, deletePage, sync |
| webhooks and automation (`services/webhooks/*`) | subscriptions, deliveries, rules | publish, processDueDeliveries, retryDelivery, applyRules |
| rate limiters (`http/rate-limit.ts`) | hits of a key, in memory or in a table | check, sweep |
| link previews (`services/link-previews.ts`) | `link_previews`, of links and of a channel's latest videos | unfurl, latestVideos |
| settings (`services/settings.ts`) | rows, and the copy a process serves | initialize, update |
| notifications and watchers (`services/notifications.ts`) | watchers, notices | watch, unwatch, notify, moveWatchers |
| repositories of the four databases (`db/repositories`, `db/postgres/repositories`, `db/mysql/repositories`) | rows | a call is one or more statements |
| migrations (`db/migrate.ts`, `db/schema.ts`, `db/postgres/schema.ts`, `db/mysql/schema.ts`) | tables, columns, indexes | migrate at the start of a process |
| copy to another database (`db/cross-driver-migrate.ts`) | a source and a target | dry-run, apply, verify |
| web application (`apps/web`) | what a tab shows and what was typed in it | reading, editing, signing in, searching, the page tree, twenty-eight panels, images |

How they interact. A route calls one service; a page write is one transaction
of the page repository and then `pageWriteEffects` (`http/app.ts`): clear the
feed cache, emit an event, notify watchers, mirror to Git, publish webhooks. A
room's `persist` calls `pages.saveContent` with the version the room expects.
Every request asks the policy cache for the policy of its principal. With
Elasticsearch, page transactions also write the outbox, and a worker drains it.
Git sync calls `pages.upsertFromFile` and `pages.remove`. A tab calls the API,
and hears of changes through the event stream and, while editing, its socket.

What is hard, and what must hold:

* **Page service.** The service reads rows (permission, existence, versions),
  and a later transaction writes what was computed from them, without a lock.
  Paths must stay unique; what a write replaces must be in the history;
  redirects must lead to pages and not in circles; a move must lose neither the
  readers of the old path nor links; the index must be that of the active pages;
  a purge must leave nothing.
* **Collaborative editing.** A room is a copy of a page that others go on
  writing. Autosaves must not undo what others wrote, and every edit made in the
  room must be saved, through rooms that close and open again and answers that
  come late.
* **Policy cache and permissions.** Loads of the policy and changes of the rules
  overlap. No request may be judged by a policy without a change that was
  answered before the request came, and no call may wait for ever. What a policy
  says may not depend on the order of its rows.
* **Accounts and sign-in.** A request checks in one statement and writes in
  another. An active admin must remain, nobody may become an admin by himself,
  a one-time row must be taken once, a session that was refused must stay
  refused.
* **Outbox.** Requests to Elasticsearch fail, take effect although they fail,
  and are retried. The index must catch up with the pages.
* **Event buses.** Tail reads, polls, subscriptions, inserts and pruning
  overlap. A listener must not get an event twice or out of order, and should
  get all.
* **After a write.** Git commands fail, others push, the server restarts: wiki
  and remote must converge. Every delivery must end, and rules must be applied
  as they were found.
* **Databases.** The same call is one synchronous run on SQLite and several
  round trips on the others, with other locks and snapshots; a migration or a
  copy may stop after any statement and be run again.
* **The browser.** Two calls of a component overlap and answers come in another
  order; what was typed, and what the server has, must both survive.

## 2. Modules

| module | models | proofs |
|---|---|---|
| `PageStore` | page service and write repositories | `PageStoreProofs` |
| `PageReads` | the cache of derived pages and its signature; recent changes and their feed | |
| `PageIndex` | search tables, comments, assets and their references | `SearchProofs` |
| `Collab` | rooms, sockets, autosaves | `CollabProofs` |
| `Presence` | who is on which page, at the server and in tabs | `EditingProofs` |
| `WebEditor` | the editor of a page in a tab | `EditingProofs` |
| `WebReader` | the tab that reads a page, and its event stream | |
| `WebPanels` | twenty-eight components that list and change rows | |
| `ImageUploads` | images given to the editor | |
| `LoginPage` | the page where one signs in, and the store of the token | |
| `WebNavigation` | searching as one types; the tree of pages | |
| `PolicyReads` | what the policy promises its readers: the abstract specification | |
| `PolicyCache` | the cache that implements it | `PolicyCacheProofs` |
| `Permissions` | what a policy says of a request | `AuthorizationProofs` |
| `Accounts` | users, roles, role groups | `AuthorizationProofs` |
| `SignIn` | sessions, one-time rows, codes, passkeys, API keys | `AuthorizationProofs` |
| `SearchOutbox` | outbox, worker, rebuild | `SearchProofs` |
| `EventBus` | event bus of PostgreSQL and MySQL | `EventBusProofs` |
| `SqliteBus` | event bus of SQLite and libSQL | |
| `GitMirror`, `WebhookAutomation` | what follows a page write | |
| `RateLimiter`, `Settings`, `Watchers`, `LinkPreviews` | services that keep something beside the pages | |
| `Statements` | a repository call as a list of statements over kinds of rows | |
| `SqliteRepositories`, `PostgresRepositories`, `MysqlRepositories` | the calls of each file of a driver | |
| `Drivers` | two calls at once on each database, with its locks and snapshots | |
| `DatabaseMigrations` | tables, the migrations of SQLite, the copy to another database | |
| `*MC` | the small instances for TLC; several parts in one run | |

Definitions that begin with the comment *Faulty* are variants of the definition
after them with a plausible mistake. Nothing uses them; putting a variant in the
definition's place shows that the property it belongs to notices the mistake
(`mutants` in `PROJECT.json` pairs them).

How state and actions correspond to the code, module by module:

**PageStore.** One request of `Procs` is in `req` from its reads to its
response. The actions named like the service's functions (`Create`, `Update`,
`Move`, ...) are the reads and checks and put a record into `req`; those named
like the repository's (`CommitCreate`, `WriteExisting`, `SetLifecycle`,
`CommitMove`, ...) are its transactions, with all their statements. `Abandon`
stands for every early return after the reads. A move has a second read, the
list of pages whose links it rewrites (`MoveRewrites`); the other requests'
reads are one step. `IndexMode` is `"transaction"` for FTS5 on SQLite, where the
index is a table of the same transaction, and `"afterCommit"` for the drivers
that index after the commit; then `IndexPage` and `Respond` are steps of their
own, and what is indexed is the row that the transaction returned. A content is
a text and at most one internal link; revisions are a set of (page, path,
content); titles, labels and the like travel with the text. `Date.now()` is a
clock that `Tick` moves, so two requests may fall in one millisecond. Only as
many revisions are made as `MaxRevisions` allows.

**Collab.** One page, its rooms one after the other, its sockets. A text is the
set of edits in it: a Yjs document merges, so it grows; a page write replaces
the text. `Connect` is the ticket and the read of the page that seeds a room;
`Open` joins or makes the room; `Edit` is an update message; `TimerFires` and
`LeaveRoom` are `flush`; `Resolve` is the
answer that tells the room its new version. `ApiWrite`, `ExplicitSave` and
`ArchiveOrRestore` are everybody else. `Allowed` says what may happen besides:
each name in `CollabActs` is one hazard. The persist callback is two steps:
`CheckContent` reads the page, compares its version with the one the room
expects and takes the time, `WriteContent` writes the row by its id. Everybody
else may write in between; what he wrote is then lost, as in
`pages_lost_content`, and `SeededAutosavesKeepEdits` is about the saves that
nothing came between.

**PolicyReads and PolicyCache.** The grants are written once, so a policy is the
number of rule changes in it. `PolicyReads` has no cache: a request is judged by
a policy that holds at least the changes answered before it came. `PolicyCache`
has the closure's variables: `Loads` are the promises, and `Retry` and `Relay`
are the nested `policy()` call of a load that was overtaken. `CommitRule` and
`Invalidate` are the two sides of the `await` in `createPageRule` and
`deletePageRule`. Names of loads are used again when nobody can tell them.

**Permissions.** The two loops of `can()` go row by row: a rule is skipped, is
taken because it is more specific than the best so far, or joins it
(`SkipRule`, `TakeRule`, `JoinRule`); after the rules the grants are read
(`AfterRules`, `ReadGrant`), after the grants the role's matrix (`AfterGrants`),
and `decided` is the return. Whether a pattern fits a path, and how long it is,
is given (`Fits`, `LengthOf`). `Allowed` says the same without an order: the rules of the
page that are the most specific, a denial among them first, then the grants, a
denial first, then the role.

**Accounts.** A request is at the statement it comes to next (`find`, `count`,
`update`, `insert`, `sync`). `Overlaps` says which requests may run together:
`AccountModes` names the overlaps that are let in, so that a property can say
which it survives.

**SignIn.** A behaviour stays in one area (`password`, `rows`, `totp`,
`passkey`, `key`), because the areas share nothing but the clock, and on one
database. SQLite takes a one-time row in one synchronous transaction
(`Consume`, `ConsumePasswordReset`). PostgreSQL and MySQL read it without a lock
(`Present`, `FindReset`) and delete it in a later statement that does not look at
what it found (`DeletePresented`, `WriteReset`), so a second request may read it
in between: `shared` remembers those rows. The tickets of sockets are one step
on every database (`OneStep`), and a recovery code is marked by a statement
whose count is looked at. `WriteChange` is every change that makes older
sessions be refused; a request in `logins` keeps what its route has read.
`Overlaps` says whether two changes of the password, or two of the second
factor, may be under way together.

**SearchOutbox.** A page is the version `loadPageSource` would return, or
nothing. Page transactions enqueue; comments enqueue in a second step. The
worker claims a batch and handles one entry at a time: load, request, deletion
of the row, each of which may fail (`FailEntry`), also after the request took
effect. `LoseBatch` is a stop. `RebuildRead` and `RebuildSwap` are `rebuild`.
`mode` is chosen once, in `Init`: what may go wrong in a behaviour.

**EventBus and SqliteBus.** Each instance has a write chain (`emitted` and
`stored`), an insert under way, at most one listener, `lastSeenId`, tail reads
that have not resolved and a poll whose rows have arrived but are not delivered.
Ids are drawn when an insert starts and rows appear when it commits. On SQLite
every call runs to its end at once, several listeners of a process come and go,
and processes restart. A listener there hears the events of its own process at
once, and those of the others in the order of their rows (`HeardInRowOrder`).

**GitMirror and WebhookAutomation.** A tree gives every path its content; git's
commands are what they do to the trees of HEAD, the working directory and the
remote, and to an unfinished merge. All git work is one chain of jobs (`queue`),
as in the code. A delivery is due, under way, done or failed; calls of
`processDueDeliveries` share them. A publication applies the rules it listed one
after the other while administrators change them.

**Drivers and the repositories.** `Statements` makes a call a list of statements
that match, guard, write and return kinds of rows. The three `*Repositories`
modules give the calls of every file; `Drivers` runs two of them at once as the
database does: SQLite runs a call whole, PostgreSQL at READ COMMITTED, MySQL's
InnoDB at REPEATABLE READ with gap locks. The pairs that are known to race or to
deadlock are named there.

**DatabaseMigrations.** It has the tables as the code declares them and as the
migrations create them, the transaction at the start of a process, statement
group by statement group, and the tool that copies, batch by batch, with the
server that starts on what it made.

**LinkPreviews.** Two previewers ask for links, or for the latest videos of a
channel, while rows expire and the texts of other servers change. A redirect is
followed request by request (`Contact`, `FollowsRedirect`), and what is written is a row of
`link_previews`, of one of two kinds. A name that does not resolve or a
connection that breaks rejects the whole request, also when it was the one for
an oEmbed; a text that is too long fails only once its body is read. In two of
the modes the two previewers overlap.

**The browser.** `WebPanels` describes each of twenty-eight components by data:
how it fetches, what its functions send, when its buttons are enabled, what it
does with answers and failures; two calls of one panel overlap. A page that is
left by a handler, as the history's after a restore, is left only when what the
handler still fetches is there (`Leaves`). `WebReader`,
`WebEditor`, `LoginPage`, `WebNavigation` and `ImageUploads` have the
refs of one component each, one action per handler and one per answer. The
update that `WebEditor`'s `save` sends is checked by the server in one step
(`Check`) and written in another (`Update`, or `FailUpdate` when its answer is
lost); so are the updates of others (`OtherReads`, `OtherWrites`). In the manner
`crossing` one of them may be written between the check and the write of the
other.

## 3. Runs

A module with several parts (`EditingMC`, `LiveMC`, ...) has behaviours of one
part each, chosen in its initial state, while the other parts rest: the parts
are added up, not multiplied.

| run | module, configuration | parts and bounds | properties |
|---|---|---|---|
| pages | `PagesMC`, `Pages` | two requests at a time on 2 pages, 2 paths, 2 revisions; one at a time on 3 paths, 3 revisions (redirects, links); one at a time on 2 paths with 2 bodies, one of them with a link, 2 times, 2 revisions, index after the commit (history) | `TypeOK`, `PathsAreUnique`, `IndexMatchesPages`, `RedirectsLeadAlone`, `TablesFollowPages`, `OnlyInsertsCloseLoops`, `MovesKeepReadersAndLinks`, `ContentRecordedAlone`, `InactivePagesAreFrozen`; no deadlock |
| editing | `EditingMC`, `Editing` | room: 2 clients, 3 edits, 2 rooms, 3 writes, everything but two writes in one millisecond; editor: a patient user, and a hasty one whose saves may cross those of others, 4 updates, 1 failure; presence: 2 tabs, 3 sockets; index: 2 pages, 1 asset, 1 comment, 2 requests, 5 operations, SQLite and PostgreSQL | `SeededAutosavesKeepEdits`, `EditorInv`, `OthersAreKept`, `PresenceInv`, `IndexInv` |
| live | `LiveMC`, `Live` | reader: 2 paths, 2 writes, 1 break; SQLite's bus: 2 processes, 2 listeners, 3 events, 1 row kept or 3, polls of 2 rows; room: 2 clients, 3 edits, 3 rooms, nobody else writes; every panel with 2 typings; 2 images given, one bad; login page: 2 submits | `TabInv` (the reader's, the panels', the images', the login page's, and the bus's `ListenersInv`), `RoomInv`, and eventually `ReadersStreamComesBack`, `AwaitedEventsArrive`, `EditsAreSaved` |
| handover | `HandoverMC`, `Handover` | bus: 2 instances, 2 events, 2 subscriptions, 1 failure, polls of 1 row, 1 row kept; outbox: 1 page, 3 writes, batches of 2, 2 attempts, 1 stop | `DeliveryInv`, `OutboxInv`, and eventually `EventsArrive`, `IndexCatchesUp` |
| after_write | `AfterWriteMC`, `AfterWrite` | mirror: 2 paths, 3 edits, 1 failure, 1 restart; webhooks: 2 subscriptions, 2 calls, 2 deliveries, 2 attempts; automation: 4 rules, 2 at a time, 1 change | `GitInv`, `HookInv`, `RulesAreAppliedAsFound`, and eventually `MirrorsConverge`, `DeliveriesEnd` |
| authorization | `AuthorizationMC`, `Authorization` | policy: 2 readers, 2 editors, 4 loads, 2 changes; accounts: 3 users, 3 requests, 2 at a time; request: 3 principals, 3 actions, policies of up to 3 rules and 2 grants; sign-in: 3 times, 3 rows, 2 codes, 2 requests, SQLite or a server | `CachedPolicyIsCurrent`, `AccountInv`, `VerdictIsThePolicys`, `SignInv`, `ReadsAreFresh` (PolicyCache implements PolicyReads), `AnAdminRemains`, `RefusalsLast`, and eventually `RequestsAreAnswered` |
| services | `ServicesMC`, `Services` | limiters (3 keys, window 2), settings (2 updates, 1 fault, 1 stop), derived reads (3 pages, 2 writes), recent changes (5 revisions, pages of 2), watchers (2 pages, 2 users, 3 effects), previews (2 previewers, a page, a redirect to it, one that leads on, one that leads to a private address, a link that is gone, a feed; 1 redirect followed, 1 edition), searches (4), the tree (3 pages, 5 entries), every repository with two calls on each database, migrations (13 layouts, 2 servers, 3 starts), the copy (6 tables, 5 runs of the tool) | `KeepersInv`, `DriversInv`, `BrowserInv`, `AnswersFollowTheWindow` |
| pages_lost_content | `PagesMC`, `PageStoreLostContent` | 2 requests, 1 page | violates `ReplacedContentIsRecorded` |
| pages_redirect_loop | `PagesMC`, `PageStoreRedirectLoop` | 1 request at a time, 2 pages, 2 paths | violates `NoReaderLoops` |
| collab_save_button | `Collab`, `CollabUnsaved` | 1 client, 2 edits, Save allowed | violates `EditsAreSaved` |
| search_outbox_reordered | `SearchOutbox`, `SearchOutboxReordered` | as in handover, with failures and restores together | violates `StalePagesHaveWork` |
| editor_draft_lost | `WebEditor`, `EditorDraftLost` | 2 edits, 3 updates, a user who turns away | violates `TypedTextIsNeverLost` |

Why the bounds are enough to mean something. Two requests are what it takes to
have a read overtaken by a transaction. Three paths let a page move away, another
one take its place, and the first come back or go on. Three revisions are three
writes, such as a creation, a move and a move back. Two rooms are one that is
discarded while its last save is in flight and its successor; three edits are one
from each client and one from somebody else. Two readers share a load; two
changes can overtake a load and then the load that replaced it; four loads are
what two readers, each with a retry, can hold. Three accounts are an admin, one
who becomes an admin and one who is removed; a third request comes when two
overlap. Three writes of one page give a creation, an archive and a restore, more
than a batch and more than the attempts; pages do not share entries, so one is
enough. Two events of one instance have an order, and of two instances can commit
in the wrong one; with one row kept and one row read, pruning and the limit of a
poll both bite. Two overlapping calls are what a panel or a repository needs to
race, and both are tried for every pair. The layouts of the migrations are every
group of columns that a past version lacked, each with both searches.

Symmetry is used where no liveness is checked, over pages, requests, edits and
clients that the specifications treat alike. Deadlock is checked for pages, where
a request can always come or go on; elsewhere a behaviour may come to rest when
its bounds are used up (`CHECK_DEADLOCK FALSE`).

### Fairness

* live: `WF(Reconnect)`, a timer, and `WF` of what a tab's stream waits for
  (ticket, its failure, open); the ticks of SQLite's bus, whose interval fires;
  `WF(TimerFires)`, as `setTimeout` callbacks run, and `WF(Saving)`, as database
  calls end and their promises resolve. Nothing makes a client act.
* handover: `WF` of storing, polling and tail reads of each instance, and of the
  worker, its backoff and a comment's second step: queries end and intervals
  tick. A failure is neither forced nor ruled out; `MaxAttempts` bounds them.
* after_write: the jobs of the Git chain end (`JobsEnd`), the interval asks for a
  sync, due deliveries are called for and calls are answered (`HookFairness`).
* authorization: `WF` of every reader's and every load's next step: a query ends,
  with rows or with an error. Editors may stop between the commit and the answer.
* pages, editing and services state no fairness and have no liveness property.

### Findings

* `pages_lost_content`: `docs/DESIGN.md:79-82` promises that saving is one
  atomic transaction that snapshots the previous version. `update`
  (`services/pages.ts:671`) reads before the transaction: of two updates that
  read the same version, the second records that version again, and what it
  overwrites is nowhere.
* `pages_redirect_loop`: `createRedirect` refuses loops (`services/pages.ts:515`),
  yet requests one after another build one: archive page a, redirect a to b,
  archive b, restore a, redirect b to a, archive a.
* `collab_save_button`: after an explicit Save the room still expects the version
  before it (`realtime/collab.ts:86`), so its autosaves are refused and skipped
  (`http/app.ts:544-546`), although unsaved edits have a "hard cap"
  (`realtime/collab.ts:54`).
* `search_outbox_reordered`: a failed `delete` entry is retried after the
  restored page was indexed by a later entry, and removes it
  (`search/elasticsearch/worker.ts:63-64`); `worker.ts:7-9` says the worker
  catches up.
* `editor_draft_lost`: after a conflict what the user wrote is only in a draft
  below the editor, and leaving the page drops it without a question
  (`web/views/PageEdit.vue:552-558`), although the editor is to prevent that
  (`PageEdit.test.ts:247`).

### What the modes show besides

Every module with modes names what may go wrong; the runs take the modes a
property survives. These break one, and are in no run:

* Event bus: `lateBoot` (events come twice), `slowTail` with `gaps` or `lag`
  (events are missed). Outbox: `busyRebuild`. Collab: `hangup`, `overlap` (edits
  are not saved). WebhookAutomation: `crowd`.
* GitMirror: `reorder` (effects that overtake one another leave an older text in
  the repository), `early` (the clone is imported over pages written before it),
  `emptied` (an authoritative repository without a file is taken for an empty
  one), and `restart` of a server that is not authoritative (the jobs that waited
  are lost). After `error` or `conflict` the mirror may differ until the next write.
* Accounts: `admins` (two removals at once leave no admin), `first` (two founders),
  `same` (the group of an earlier role). SignIn: `changes` (two changes
  of the password bring a refused session back) and `totp` (two set-ups mix their
  secrets and codes). On PostgreSQL and MySQL a reset, a verification, a state or
  a challenge that two requests have read is accepted twice (`shared`; `SignInv`
  excepts exactly those rows). WebEditor: `crossing` (a save replaces what was
  written after its check, or is replaced; `OthersAreKept` excepts exactly those
  steps). Settings with a second process, which is
  not told of updates. PageReads with three foreign writes in flight, whose
  signature may come back. PageIndex with overlapping requests on PostgreSQL.
* PageReads: `ties`, `private`, `overlap` of the recent changes. Watchers,
  WebNavigation and WebReader: `overtake`, an answer that comes after a later
  one's; WebNavigation also `hasty`, `clear` of the search box and `lost`,
  `hasty`, `elsewhere` of the tree. Presence with `Hangups`.
* Drivers names the pairs that race or deadlock: on both servers a state or a
  challenge consumed twice, keys and shares revoked twice, accounts linked twice,
  groups given while roles change, watchers that move while somebody watches;
  on PostgreSQL alone the `replace...` calls and totp, preferences and purges;
  on MySQL alone the audit log.
* DatabaseMigrations (`KnownToBeRefused`): SQLite databases whose `pages` lack `pinned`
  or `nav_order`, whose `automation_rules` lack `priority` or `stop_on_match`, or
  whose `link_previews` lack `expires_at` or `kind` fail at every start, because
  indexes on those columns are created before the columns are added.
* DatabaseMigrations (`KnownBehind`): the sequence of `search_outbox` is not moved,
  because `SERIAL_ID_TABLES` does not name it, although comments promise that
  serial sequences are advanced past the copied ids so that later inserts do not
  collide (`db/cross-driver-migrate.ts:9-10`, `35-37`). On PostgreSQL the first
  entries of the outbox after a copy are refused. `OnlyTheOutboxIsBehind` says
  that it is behind whenever it was copied with rows, and no other is. A copy
  that was stopped before its end verifies; a value too long for a MySQL column
  fails the copy partway.
* WebPanels (`KnownUntrue`): panels that show rows of another filter, keep the
  old role after half a change, create twice (`CreatesTwice`) or drop what is
  typed while their request runs. LoginPage: an answer to `/me` that comes after
  the token changed. ImageUploads: images given after a failure or while others
  upload.

## 4. Proofs

A module with proofs extends the modules it is about and is named after them:
`AuthorizationProofs` is about `Permissions`, `SignIn` and `Accounts`,
`EditingProofs` about `WebEditor` and `Presence`, `SearchProofs` about
`SearchOutbox` and `PageIndex`, `AfterWriteProofs` about `GitMirror` and
`WebhookAutomation`.
The constants are arbitrary: any numbers of pages, clients, instances, users or
requests, any bounds. The assumptions are those the modules state with `ASSUME`
(a bound is a natural number, `None` is not a value, `Users` is finite) and,
where a theorem says so, a hypothesis about the modes. The hypothesis is always
one a run satisfies, and what breaks without it is listed above.

| module | theorem | states | hypothesis |
|---|---|---|---|
| `PageStoreProofs` | `TypeCorrect`, `PathsStayUnique`, `OnlyInsertsCloseLoopsHolds` | the properties of that name in pages | none |
| | `IndexAlwaysMatches` | `IndexMatchesPages` | the index is written in the transaction |
| | `RedirectsLeadToPagesAlone`, `TablesFollowPagesAlone`, `ContentIsRecordedAlone`, `InactivePagesAreFrozenAlone` | what `RedirectsLeadAlone`, `TablesFollowPages`, `ContentRecordedAlone`, `InactivePagesAreFrozen` check in one profile | one request at a time (`Alone`) |
| `CollabProofs` | `SeededAutosavesKeepEditsHolds` | `SeededAutosavesKeepEdits`, of a save that nothing was written under | no two writes in one millisecond |
| | `RoomsAreSaved` | `RoomInv` | nobody else writes (`Undisturbed`) |
| `PolicyCacheProofs` | `CacheStaysFresh`, `CachedPolicyIsCurrentHolds` | `CachedPolicyIsCurrent` | none |
| | `ReadsAreFreshHolds` | `ReadsAreFresh`: the cache implements `PolicyReads` | none |
| `AuthorizationProofs` | `VerdictsFollowThePolicy` | `VerdictIsThePolicys` | none |
| | `CredentialsAreWhole` | `SignInv`, of every row that no two requests of a server have read | no two changes of the second factor overlap |
| | `RefusalsLastHolds` | `RefusalsLast` | no two changes of the password overlap |
| | `AccountsAgree`, `AnAdminRemainsHolds` | `AccountInv`, `AnAdminRemains` | none: each property names the modes it survives |
| `EditingProofs` | `TypedTextStays` | `EditorInv` | none: the property names the manners it survives |
| | `OthersStay` | `OthersAreKept`, of a save that nothing was written under | none |
| | `ViewersSettle` | `PresenceInv` | none (`"none"` is no path) |
| `SearchProofs` | `OutboxForgetsNothing` | `OutboxInv` | no write while the index is rebuilt; failures and restores not together (`Careful`) |
| | `BuiltInIndexFollows` | `IndexInv` | the requests of PostgreSQL do not overlap (`InOrder`); SQLite's may, and either may race or stop |
| `AfterWriteProofs` | `TheMirrorIsTheWiki` | `GitInv` | no mode has `reorder`, `early` or `emptied`; `restart` only with `authoritative` |
| | `OwnCommitsStay` | `OwnCommitsAreNotImported`, a part of `MirrorsConverge` | none |
| | `RulesApplyAsFound` | `RulesAreAppliedAsFound` | none (`Configs` is any set of `RuleConfigs`) |
| `EventBusProofs` | `EventsAreDeliveredOnce` | `DeliveryInv` | no subscription before the boot has read the tail (`NoLateBoot`) |

The arguments, and why the invariants are what they are:

* **Page service.** `PathsAreUnique` is inductive with the types, because every
  transaction checks the path where it writes it. Of the index the proof needs
  `IndexInv`: nothing waits to be indexed. `OnlyInsertsCloseLoops` is about one
  step: a move drops the redirect of the path it moves to before it adds one.
  The theorems about one request at a time need more than they say. `AloneInv`
  adds `RequestsAreCurrent` (the row a request has read is the row of its page:
  that is what two requests break), `IndexFollows` (the entry of a page is that
  of its row, or of the row a request is about to index) and `EntriesAreCurrent`.
  From it the history is whole: what a write replaces is what it has read.
* **Collaborative editing.** `KnowInv`: whoever knows the page's present version
  has its text. A seed, the room, a persist call and its answer each pair a
  version with a text, and each message hands the pair on. A save whose check
  found the version it names carries that version to its write (`read`); where it
  is still the present one there, the text is replaced by a larger one. `SavedInv` says
  where an edit can be: in the page, or in the room with its timer running or a
  save in flight (`EditsInv`); this needs that there is one persist call at a time
  and that it belongs to the last room (`OneSave`), which is why an edit made
  while a room closes is not lost.
* **Policy cache.** `FreshInv` is about promises: a load that is of the present
  generation has begun after the last `Invalidate`, so what it reads holds every
  answered change; a load that was overtaken relays one that did. The refinement
  is proved action by action: asking, changing and acknowledging are those of
  `PolicyReads`, a verdict from the cache or from a settled load is a `Judge`
  (`FreshInv` gives the version it needs), and what loads do is a stutter.
* **Permissions.** `DecidingInv` is the loop invariant: after some of the rules
  the best specificity is the greatest so far, and whether a denial is among the
  best does not depend on their order. `JoinRule` may only add a denial, and
  `TakeRule` forgets no rule of its own specificity.
* **Accounts.** What a request has found in one statement must still be so when
  it writes in another: `AccountsInd` says so of each step of a request. While
  removals of admins do not overlap, one that has counted another admin still has
  him when it writes. The proof needs that `Users` is finite, to count them.
* **Sign-in.** `SignInd` says that rows and codes that can still be presented are
  unspent, that a row some request is about to delete is unspent or `shared`, and
  that two such requests make it `shared`; that what a request on the second
  factor has read has not changed, and that stamps do not exceed the clock. What
  it says of rows needs no hypothesis, however many requests present one; the rest
  survives one request at a time.
* **Outbox.** `CatchUpInv`: a page whose document is not current has an entry, or
  a comment about to make one; what the worker holds, and what a rebuild has read,
  is current, unless another entry is to put it right. Without failures entries are
  handled in the order of their ids (`WorkedInOrder`); without restores a page that
  was deleted stays so (`DeletedForGood`): either keeps an old deletion from
  removing a page that came back. That a claimed batch is the oldest entries takes
  the well-foundedness of the natural numbers.
* **Built-in index.** `IndexKeeps`: what is not current is owed. An entry that
  differs from what its page would give now belongs to a page that some request
  still has to index (`Owes`: one it has left, the one it is at, one with a
  reference to the asset it is changing), and a reference that is missing is about
  to be made (`Attaches`). `WorkInv` is what PostgreSQL's statements hand on: at
  each stage, what the request has read is still so, which is where overlapping
  requests break it. `BytesInv` says who may have erased the bytes of an asset:
  a purge under way, or a restore that raced one. Two requests about one comment
  or one new asset are kept apart by `CommentsInv` and `AssetsInv`.
* **Editor.** `EditorKeeps`: as long as the editor may replace the page, it holds
  the page's text as of the version it will name (`PageIsShown`), so a save that is
  checked drops nothing that others had written by then, and where nothing is written
  between check and write (`Crosses`) nothing at all; a patient user puts a draft back before it
  is dropped, and what he has typed is in the page, the editor or the draft.
* **Presence.** `PresenceKeeps`: a connection is registered under its path from
  when it opens until it is closed, and a tab has one live connection
  (`ConnectionsInv`); the last list that was sent to a connection names the users
  that are registered under its path, and it is on its way or shown
  (`ListsAreCurrent`). When all is quiet the registered ones are those alive.
* **Event bus.** `NewsInv`: rows of one source have ids in the order of its
  events, an insert under way has an id after those of its source, and what a
  listener has heard of a source is a prefix of what was stored, up to
  `lastSeenId` or the first row of a poll. Pruned rows that a poll has already
  read are kept in the reckoning (`Rows`).

* **Git mirror.** A write is one step with the commit it queues, and the chain is
  first in, first out; so the last commit that waits for a path, if there is one,
  brings the text of the page (`LastWriteIsThePage`), and where none waits HEAD has
  it already (`PagesAreMirrored`). The job of a pull in progress is the only other
  one that writes, and it is alone in its repository (`WritesAreAlone`,
  `RepositoryIsClean`). `MarkerIsHead`: between imports the marker is HEAD, which is
  why the changes an import lists are those that git's merge brought
  (`ImportsCoverAll`). `SomePathLives` is what keeps an authoritative repository
  from being taken for an empty one. Each step is shown to leave a queue with one
  more job behind or one less in front; those lemmas are about sequences alone.
* **Rules.** While a publication applies its rules, the page is as the rules it has
  taken so far leave it (`PublicationGoesOn`): a trace of states, one for each
  rule, is made longer by one. The property asks whether the outcome of all of
  them is the page at the end; that a list of rules has one outcome, although the
  definition is by recursion, is proved by a least counterexample, so that no
  induction over an operator is needed. Rules that are changed meanwhile are
  changed in the table, not in the list.

Every inductive invariant was checked by TLC on the instance of its run before it
was proved.

What stays with TLC. Liveness and everything with `ENABLED`: the eight temporal
properties that say *eventually*. `MovesKeepReadersAndLinks` follows redirects by
a recursive function; `HookInv` and the bus's `ListenersInv` speak of
`SelectSeq`, which is defined by recursion: all three would take induction over data. Not yet
proved, though nothing known stands in the way: the other parts of `TabInv`,
`KeepersInv`, `DriversInv`, `BrowserInv` and `AnswersFollowTheWindow`.

## 5. What is not modelled, and the plan

The models leave these out, on purpose:

* Drivers: foreign keys; a statement acquires its locks together or not at all;
  the shared lock of MySQL's `INSERT IGNORE`; `lastUsedAt`; SQLite has one process.
  The check of the schema by a libSQL replica is not modelled.
* Copy: nobody writes the source during the copy.
* Panels: two calls overlap, not three; a confirmation is one step with its
  click; nobody else writes the rows; several uploads are one; a row's
  attributes are a kind.
* Login page: one account; an old token only where no second factor is needed; the
  address is verified only for an unverified account. Sign-in: passwords and
  codes are right; one user; the areas are separate.
* The tree: `compareNodes` is not transitive between pages with and without a
  `navOrder`; the model compares pairs as it does.
* Permissions: which patterns fit a path is given; within a matcher the longer
  pattern is the more specific.
* Link previews: the body's timeout, whose timer ends with the headers; a fetch
  takes one unit of time.

Not modelled at all: mail (`services/mail.ts` hands a message over and keeps no
state), the handlers under `http/routes` that check a body and call one service,
rendering, Markdown, diffs and search queries of the core library (pure
functions of a text), translations, the API client and the layout of the web
application, the build.

The plan, in this order:

1. More proofs: the parts of `TabInv` (of the reader, the bus of SQLite and the
   login page first), of `KeepersInv` (settings and watchers first), `BrowserInv`
   and `DriversInv`.
2. The limiters: `AnswersFollowTheWindow` and the window as an abstract
   specification that both stores implement.
3. `http/routes/admin.ts` and `realtime.ts`, where a handler makes more than one
   call.
