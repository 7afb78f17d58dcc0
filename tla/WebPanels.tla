-------------------------------- MODULE WebPanels --------------------------------
(***************************************************************************)
(* The panels of the web application: components that show rows of the     *)
(* server, or a form, and change them by requests.  First, as data, of     *)
(* each one: how it fetches its rows, what its functions do before and     *)
(* after their requests, and when its template lets a user call them.  A   *)
(* row is known by what becomes of it: its kind.                           *)
(*                                                                         *)
(* Then a panel with two of its functions called at once: each sends its   *)
(* requests, the server serves them in any order and the answers arrive in *)
(* any order, while the user types.  Nobody else changes the rows of the   *)
(* server.                                                                 *)
(***************************************************************************)
EXTENDS Naturals, TLC

\* How rows are fetched.  Whether the answer of an older fetch is dropped: by nothing, for the
\* loading flag only, or for the rows too; whether there is a flag; what a fetch that begins,
\* and one that fails, leave of the rows; whether there is one at first; and whether turning
\* to other rows, or their answer, says which ones the panel is at.
Fetch ==
  [drops |-> "nothing", flag |-> TRUE, begins |-> "keep", fails |-> "keep", first |-> TRUE,
   turns |-> {"ask"}]

\* useAsyncData whose fetcher assigns the rows itself: the generation keeps them from nothing.
FetcherAssigns == [Fetch EXCEPT !.drops = "flag"]

-----------------------------------------------------------------------------
\* A function of a panel.  What it asks for: the rows ("list"), a new row, a change of one or
\* of all rows; what is asked for by the kind that is shown; the flag it raises until it ends;
\* what it does to the rows at once, and with the answer; what it asks for then; which fields
\* it sends, what it leaves in them, and when; and whether the server refuses the same twice.
Handler ==
  [asks |-> "list", sets |-> <<>>, flag |-> "none", atOnce |-> "nothing", does |-> "nothing",
   thenAsks |-> "nothing", sends |-> {}, leaves |-> "as typed", late |-> FALSE,
   prepares |-> FALSE, unique |-> FALSE]

Loads == "load" :> Handler
Turns == "turn" :> [Handler EXCEPT !.asks = "other list"]
Reads == Loads @@ Turns

Creates(kind, does, flag) ==
  [Handler EXCEPT !.asks = "create", !.sets = "none" :> kind, !.does = does, !.flag = flag,
                  !.sends = {"form"}, !.leaves = "empty"]
Changes(sets, does, flag) ==
  [Handler EXCEPT !.asks = "change", !.sets = sets, !.does = does, !.flag = flag]
Saves(field, sets, does, flag, leaves) ==
  [Changes(sets, does, flag) EXCEPT !.sends = {field}, !.leaves = leaves]

\* ... and then fetches the rows, before it goes on.
Reloading(h) == [h EXCEPT !.thenAsks = "list"]
Kind(kinds, to) == [k \in kinds |-> to]

\* A button is disabled while a flag is up or a field is empty; one of a row is there for
\* rows of some kinds, and not while a flag hides them.
Button == [off |-> {}, typed |-> {}, on |-> {"any"}]
Off(flags) == [Button EXCEPT !.off = flags]
Form(flags) == [Button EXCEPT !.off = flags, !.typed = {"form"}]
Of(kinds) == [Button EXCEPT !.on = kinds]

\* What a panel shows: every row, the rows of a page or folder, or those of some kinds.
Panel ==
  [fetch |-> Fetch, by |-> "all", lists |-> <<>>, kinds |-> {"plain"}, rows |-> {"x", "y"}]
OneRow == [Panel EXCEPT !.rows = {"x"}]

-----------------------------------------------------------------------------
(* composables/useAsyncData.ts: reload *)

\* Faulty: the generation guards the flag, and the rows of an older fetch are assigned.
AsyncFlagOnly == [Fetch EXCEPT !.drops = "flag"]
Async == [Fetch EXCEPT !.drops = "rows"]

(* composables/useCrudResource.ts *)

Crud == Async

(* components/admin/AdminAsyncState.vue *)

RetryButton == Off({"loading"})

-----------------------------------------------------------------------------
(* components/PageComments.vue *)

CommentsPanel ==
  [Panel EXCEPT !.by = "home", !.kinds = {"open", "resolved"}]
CommentsHandlers ==
  Turns @@
  "submit" :> Creates("open", "append", "saving") @@
  "resolve" :> Changes(Kind({"open"}, "resolved"), "patch", "none") @@
  "remove" :> Changes(Kind({"open", "resolved"}, "none"), "drop", "none")
\* Faulty: the button of the form stays enabled while the comment is being saved.
CommentsButtonsEnabled ==
  "submit" :> Form({}) @@
  "resolve" :> [Of({"open"}) EXCEPT !.off = {"loading"}] @@
  "remove" :> Off({"loading"})
CommentsButtons ==
  "submit" :> Form({"saving"}) @@
  "resolve" :> [Of({"open"}) EXCEPT !.off = {"loading"}] @@
  "remove" :> Off({"loading"})

-----------------------------------------------------------------------------
(* views/HistoryView.vue: the rows are revisions; a page restored makes one more, and is
   navigated to when the sidebar has been fetched. *)

HistoryPanel == [Panel EXCEPT !.by = "home"]
HistoryHandlers ==
  Turns @@
  "restore" :> [Changes(Kind({"plain"}, "plain"), "leave", "restoring") EXCEPT
                  !.asks = "change here", !.thenAsks = "more"]
HistoryButtons == "restore" :> Off({"restoring"})

-----------------------------------------------------------------------------
(* components/PageTemplatesPanel.vue *)

TemplatesPanel == Panel
TemplatesHandlers ==
  Loads @@
  "edit" :> [Handler EXCEPT !.asks = "edit"] @@
  "save" :> Reloading([Creates("plain", "nothing", "saving") EXCEPT !.asks = "create or edit"]) @@
  "remove" :> Reloading(Changes(Kind({"plain"}, "none"), "stop editing", "saving"))
TemplatesButtons ==
  "load" :> Off({"loading"}) @@
  "edit" :> Button @@
  "save" :> Form({"saving"}) @@
  "remove" :> Off({"saving"})

-----------------------------------------------------------------------------
(* components/NotificationBell.vue: the rows are fetched every 30 s and on every event. *)

BellPanel ==
  [Panel EXCEPT !.fetch.flag = FALSE, !.kinds = {"unread", "read"}]
BellHandlers ==
  Loads @@
  "markAllRead" :> [Changes(Kind({"unread", "read"}, "read"), "patch", "none") EXCEPT
                      !.asks = "change all"] @@
  "markRead" :> Reloading(Changes(Kind({"unread", "read"}, "read"), "nothing", "none"))
BellButtons ==
  "load" :> Button @@
  "markAllRead" :> Of({"unread"}) @@
  "markRead" :> Button

-----------------------------------------------------------------------------
(* components/AssetPicker.vue: the assets of a folder *)

PickerPanel == [Panel EXCEPT !.by = "home"]
PickerHandlers ==
  Turns @@
  "uploadFiles" :> [Reloading(Creates("plain", "nothing", "uploading")) EXCEPT !.sends = {}] @@
  "renameAsset" :> Changes(Kind({"plain"}, "renamed"), "patch", "none")
PickerButtons ==
  "uploadFiles" :> Off({"uploading"}) @@
  "renameAsset" :> Off({"loading"})

-----------------------------------------------------------------------------
(* components/admin/AdminAssetsPanel.vue: the assets of a folder, and what is selected of
   those that no page uses *)

AssetsPanel ==
  [Panel EXCEPT !.fetch = FetcherAssigns, !.by = "home", !.kinds = {"plain", "orphan"}]
AssetKinds == {"plain", "orphan", "renamed", "orphan renamed"}
AssetsHandlers ==
  Reads @@
  "deleteAsset" :> Changes(Kind(AssetKinds, "none"), "drop", "none") @@
  "renameAsset" :> Changes("plain" :> "renamed" @@ "orphan" :> "orphan renamed", "patch", "none") @@
  "updateAssetFolder" :> [Reloading(Changes(<<>>, "nothing", "none"))
                            EXCEPT !.asks = "move"] @@
  "deleteSelectedOrphans" :> Reloading(Changes(Kind({"orphan", "orphan renamed"}, "none"), "nothing",
                                             "cleaning"))
AssetsButtons ==
  "load" :> Off({"loading"}) @@
  "deleteAsset" :> Button @@
  "renameAsset" :> Of({"plain", "orphan"}) @@
  "updateAssetFolder" :> Of({"plain", "orphan"}) @@
  "deleteSelectedOrphans" :> [Of({"orphan", "orphan renamed"}) EXCEPT !.off = {"cleaning"}]

-----------------------------------------------------------------------------
(* components/admin/AdminAutomationPanel.vue *)

AutomationPanel == [Panel EXCEPT !.fetch = Async]
AutomationHandlers ==
  "createRule" :> Creates("plain", "append", "none") @@
  "deleteRule" :> Changes(Kind({"plain"}, "none"), "drop", "none")
AutomationButtons == "createRule" :> Form({}) @@ "deleteRule" :> Button

-----------------------------------------------------------------------------
(* components/admin/AdminAppearancePanel.vue: one row, the settings; an image that is
   uploaded is typed into the form *)

AppearancePanel == [OneRow EXCEPT !.fetch = FetcherAssigns]
AppearanceHandlers ==
  "saveSettings" :> Saves("form", Kind({"plain", "renamed"}, "renamed"), "patch", "saving", "as sent") @@
  "uploadBrandAsset" :>
    [Changes(<<>>, "type", "uploading") EXCEPT !.asks = "upload"]
AppearanceButtons ==
  "saveSettings" :> Off({"saving"}) @@
  "uploadBrandAsset" :> Button

(* components/admin/AdminPolicyPanel.vue *)

PolicyPanel == [OneRow EXCEPT !.fetch = FetcherAssigns]
PolicyHandlers ==
  "save" :> Saves("form", Kind({"plain", "renamed"}, "renamed"), "patch", "saving", "as sent")
PolicyButtons == "save" :> Off({"saving"})

-----------------------------------------------------------------------------
(* components/admin/AdminPagesPanel.vue: pages of a list, in two lots *)

PagesPanel ==
  [Panel EXCEPT !.fetch = [FetcherAssigns EXCEPT !.turns = {"ask", "answer"}], !.by = "home"]
PagesHandlers ==
  Reads @@
  "archivePage" :> Reloading(Changes(Kind({"plain"}, "none"), "nothing", "none")) @@
  "deletePage" :> Reloading(Changes(Kind({"plain"}, "none"), "nothing", "none"))
PagesButtons ==
  "load" :> RetryButton @@
  "turn" :> Off({"loading"}) @@
  "archivePage" :> Button @@
  "deletePage" :> Button

(* components/admin/AdminAuditPanel.vue: the same, to be read only *)

AuditPanel ==
  [Panel EXCEPT !.fetch = [FetcherAssigns EXCEPT !.turns = {"answer"}], !.by = "home"]
AuditHandlers == Reads
AuditButtons == "load" :> RetryButton @@ "turn" :> Off({"loading"})

-----------------------------------------------------------------------------
(* components/admin/AdminTrashPanel.vue: pages and assets, the pages in the sidebar too *)

TrashPanel == [Panel EXCEPT !.fetch = FetcherAssigns, !.kinds = {"plain", "asset"}]
TrashHandlers ==
  "restorePage" :> Reloading(Changes(Kind({"plain"}, "none"), "nothing", "none")) @@
  "purgePage" :> Reloading(Changes(Kind({"plain"}, "none"), "nothing", "none")) @@
  "restoreAsset" :> Reloading(Changes(Kind({"asset"}, "none"), "nothing", "none")) @@
  "purgeAsset" :> Reloading(Changes(Kind({"asset"}, "none"), "nothing", "none"))
TrashButtons ==
  "restorePage" :> Of({"plain"}) @@ "purgePage" :> Of({"plain"}) @@
  "restoreAsset" :> Of({"asset"}) @@ "purgeAsset" :> Of({"asset"})

-----------------------------------------------------------------------------
(* stores/pages.ts: the rows are the pages of the sidebar, none when the fetch fails *)

SidebarFetch == [Fetch EXCEPT !.flag = FALSE, !.fails = "empty", !.first = FALSE]

(* components/admin/AdminImportPanel.vue: its flag loading is not of a fetch, but of what it
   reads from the site, which no answer changes *)

ImportPanel == [Panel EXCEPT !.fetch = SidebarFetch]
ImportHandlers ==
  "importMarkdown" :> Reloading(Creates("plain", "nothing", "importing")) @@
  "importBulk" :> [Reloading(Creates("plain", "nothing", "importing")) EXCEPT !.sends = {}] @@
  "installOfficialDocs" :> [Reloading(Creates("plain", "nothing", "installingDocs")) EXCEPT
                              !.sends = {}] @@
  "importBackup" :> [Reloading(Creates("plain", "nothing", "importing")) EXCEPT !.sends = {}] @@
  "exportSite" :> [Changes(<<>>, "nothing", "loading") EXCEPT !.asks = "change all"] @@
  "exportZip" :> [Changes(<<>>, "nothing", "loading") EXCEPT !.asks = "change all"]
ImportButtons ==
  "importMarkdown" :> Form({"importing"}) @@
  "importBulk" :> Off({"importing"}) @@
  "installOfficialDocs" :> Off({"installingDocs"}) @@
  "importBackup" :> Off({"importing"}) @@
  "exportSite" :> Off({"loading"}) @@
  "exportZip" :> Off({"loading"})

-----------------------------------------------------------------------------
(* components/admin/AdminApiKeysPanel.vue *)

ApiKeysPanel == [Panel EXCEPT !.fetch = Async, !.kinds = {"active", "revoked"}]
ApiKeysHandlers ==
  "createApiKey" :> Creates("active", "append", "busy") @@
  "revokeApiKey" :> Changes(Kind({"active"}, "revoked"), "patch", "busy")
ApiKeysButtons ==
  "createApiKey" :> Form({"busy"}) @@
  "revokeApiKey" :> [Of({"active"}) EXCEPT !.off = {"busy"}]

(* components/admin/AdminPasskeysPanel.vue: the list that the new one is added to is read
   before the last request *)

PasskeysPanel == [Panel EXCEPT !.fetch = Async]
PasskeysHandlers ==
  "registerPasskey" :> [Creates("plain", "append as read", "busy") EXCEPT
                          !.sends = {}, !.prepares = TRUE] @@
  "deletePasskey" :> Changes(Kind({"plain"}, "none"), "drop", "busy")
PasskeysButtons == "registerPasskey" :> Off({"busy"}) @@ "deletePasskey" :> Off({"busy"})

-----------------------------------------------------------------------------
(* components/admin/AdminUsersPanel.vue: a role is changed in the row that is shown, before
   and after the request, and back when it or the next one fails *)

UsersPanel == [Panel EXCEPT !.fetch = FetcherAssigns, !.kinds = {"viewer", "editor"}]
UsersHandlers ==
  "changeRole" :> [Changes("viewer" :> "editor" @@ "editor" :> "viewer", "mutate", "none") EXCEPT
                     !.asks = "set", !.atOnce = "mutate", !.thenAsks = "more"] @@
  "removeUserFromGroup" :> [Changes(<<>>, "nothing", "none") EXCEPT !.thenAsks = "list as it comes"] @@
  "resetPassword" :> Changes(<<>>, "mutate", "none") @@
  "deactivateUser" :> Changes(<<>>, "mutate", "none")
UsersButtons ==
  "changeRole" :> Button @@ "removeUserFromGroup" :> Button @@ "resetPassword" :> Button @@
  "deactivateUser" :> Button

-----------------------------------------------------------------------------
(* components/admin/AdminGroupsPanel.vue: groups, and users with a button to add each one *)

GroupsPanel == [Panel EXCEPT !.fetch = Crud]
GroupsHandlers ==
  "createGroup" :> [Reloading(Creates("plain", "nothing", "none")) EXCEPT
                      !.late = TRUE, !.unique = TRUE] @@
  "addUserToGroup" :> Reloading(Changes(Kind({"plain"}, "renamed"), "nothing", "none"))
GroupsButtons == "createGroup" :> Form({}) @@ "addUserToGroup" :> Button

(* components/admin/AdminWebhookSubscriptionsPanel.vue *)

SubscriptionsPanel == [Panel EXCEPT !.fetch = Crud, !.kinds = {"on"}]
SubscriptionsHandlers ==
  "createWebhook" :> [Reloading(Creates("on", "nothing", "none")) EXCEPT !.late = TRUE] @@
  "toggleWebhook" :> [Reloading(Changes("on" :> "off" @@ "off" :> "on", "nothing", "none")) EXCEPT
                        !.asks = "set"] @@
  "deleteWebhook" :> Reloading(Changes(Kind({"on", "off"}, "none"), "nothing", "none"))
SubscriptionsButtons ==
  "createWebhook" :> Form({}) @@ "toggleWebhook" :> Button @@ "deleteWebhook" :> Button

(* components/admin/AdminWebhookDeliveriesPanel.vue: the deliveries, or those of one status *)

DeliveriesPanel ==
  [Panel EXCEPT !.fetch = FetcherAssigns, !.by = "kind", !.kinds = {"pending", "failed"},
                !.lists = "a" :> {"pending", "failed"} @@ "b" :> {"failed"}]
DeliveriesHandlers ==
  Reads @@
  "retryDelivery" :> Changes(Kind({"pending", "failed"}, "pending"), "patch", "none")
DeliveriesButtons == "load" :> Off({"loading"}) @@ "retryDelivery" :> Button

-----------------------------------------------------------------------------
(* components/admin/AdminRedirectsPanel.vue *)

RedirectsPanel == [Panel EXCEPT !.fetch = Async]
RedirectsHandlers ==
  Loads @@
  "createRedirect" :> [Creates("plain", "upsert", "none") EXCEPT !.unique = TRUE] @@
  "deleteRedirect" :> Changes(Kind({"plain"}, "none"), "drop", "none")
RedirectsButtons ==
  "load" :> Off({"loading"}) @@ "createRedirect" :> Form({}) @@ "deleteRedirect" :> Button

(* components/admin/AdminPageRulesPanel.vue *)

PageRulesPanel == [Panel EXCEPT !.fetch = FetcherAssigns]
PageRulesHandlers ==
  "createPageRule" :> Creates("plain", "append", "none") @@
  "deletePageRule" :> Changes(Kind({"plain"}, "none"), "drop", "none")
PageRulesButtons == "createPageRule" :> Form({}) @@ "deletePageRule" :> Button

-----------------------------------------------------------------------------
(* components/admin/AdminGitPanel.vue: one row, the state of the mirror *)

GitPanel == [OneRow EXCEPT !.fetch = Async, !.kinds = {"behind"}]
GitHandlers == "sync" :> Reloading(Changes("behind" :> "synced", "nothing", "syncing"))
GitButtons == "sync" :> Off({"syncing"})

(* components/admin/AdminHistoryPanel.vue: one row, how much history there is *)

HistoryStatsPanel == [OneRow EXCEPT !.fetch = Async, !.kinds = {"long"}]
HistoryStatsHandlers ==
  Loads @@ "purge" :> Changes("long" :> "short", "patch", "purging")
HistoryStatsButtons == "load" :> RetryButton @@ "purge" :> Off({"purging", "loading"})

(* components/admin/AdminStatsPanel.vue: one row, the state of the search index *)

StatsPanel == [OneRow EXCEPT !.fetch = FetcherAssigns, !.kinds = {"unicode61"}]
StatsHandlers ==
  "rebuildSearchIndex" :> Changes("unicode61" :> "trigram", "patch", "rebuilding")
StatsButtons == "rebuildSearchIndex" :> Off({"rebuilding"})

-----------------------------------------------------------------------------
(* components/admin/AdminTotpPanel.vue: one row, the user who is signed in *)

Signed == [Fetch EXCEPT !.flag = FALSE, !.first = FALSE]

TotpPanel == [OneRow EXCEPT !.fetch = Signed, !.kinds = {"off", "on"}]
TotpHandlers ==
  "setupTotp" :> Changes(<<>>, "nothing", "busy") @@
  "enableTotp" :> Saves("form", "off" :> "on", "patch", "busy", "empty") @@
  "regenerateRecoveryCodes" :> Saves("form", <<>>, "nothing", "busy", "empty") @@
  "disableTotp" :> Saves("form", "on" :> "off", "patch", "busy", "empty")
TotpButtons ==
  "setupTotp" :> [Of({"off"}) EXCEPT !.off = {"busy"}] @@
  "enableTotp" :> [Form({"busy"}) EXCEPT !.on = {"off"}] @@
  "regenerateRecoveryCodes" :> [Form({"busy"}) EXCEPT !.on = {"on"}] @@
  "disableTotp" :> [Form({"busy"}) EXCEPT !.on = {"on"}]

(* components/admin/AdminAccountPanel.vue: its profile and its password *)

AccountPanel == [OneRow EXCEPT !.fetch = Signed]
AccountHandlers ==
  "saveProfile" :> Saves("form", Kind({"plain"}, "renamed"), "patch", "busy", "as sent") @@
  "savePassword" :> Saves("password", <<>>, "patch", "busy", "empty")
AccountButtons ==
  "saveProfile" :> Form({"busy"}) @@
  "savePassword" :> [Off({"busy"}) EXCEPT !.typed = {"password"}]

-----------------------------------------------------------------------------
(* views/SharedPageView.vue: the page of a share, no page while it is fetched *)

SharedPagePanel == [Panel EXCEPT !.fetch.begins = "empty", !.by = "home"]
SharedPageHandlers == Turns
SharedPageButtons == "turn" :> Button

(* views/UserProfileView.vue *)

ProfilePanel == [Panel EXCEPT !.fetch.begins = "empty", !.by = "home"]
ProfileHandlers == Turns
ProfileButtons == "turn" :> Button

-----------------------------------------------------------------------------
Panels ==
  [comments |-> CommentsPanel, history |-> HistoryPanel, templates |-> TemplatesPanel,
   bell |-> BellPanel, picker |-> PickerPanel, assets |-> AssetsPanel,
   automation |-> AutomationPanel, appearance |-> AppearancePanel, policy |-> PolicyPanel,
   pages |-> PagesPanel, audit |-> AuditPanel, trash |-> TrashPanel, import |-> ImportPanel,
   apiKeys |-> ApiKeysPanel, passkeys |-> PasskeysPanel, users |-> UsersPanel,
   groups |-> GroupsPanel, subscriptions |-> SubscriptionsPanel,
   deliveries |-> DeliveriesPanel, redirects |-> RedirectsPanel, rules |-> PageRulesPanel,
   git |-> GitPanel, purges |-> HistoryStatsPanel, stats |-> StatsPanel, totp |-> TotpPanel,
   account |-> AccountPanel, share |-> SharedPagePanel, profile |-> ProfilePanel]
Handlers ==
  [comments |-> CommentsHandlers, history |-> HistoryHandlers, templates |-> TemplatesHandlers,
   bell |-> BellHandlers, picker |-> PickerHandlers, assets |-> AssetsHandlers,
   automation |-> AutomationHandlers, appearance |-> AppearanceHandlers,
   policy |-> PolicyHandlers, pages |-> PagesHandlers, audit |-> AuditHandlers,
   trash |-> TrashHandlers, import |-> ImportHandlers, apiKeys |-> ApiKeysHandlers,
   passkeys |-> PasskeysHandlers, users |-> UsersHandlers, groups |-> GroupsHandlers,
   subscriptions |-> SubscriptionsHandlers, deliveries |-> DeliveriesHandlers,
   redirects |-> RedirectsHandlers, rules |-> PageRulesHandlers, git |-> GitHandlers,
   purges |-> HistoryStatsHandlers, stats |-> StatsHandlers, totp |-> TotpHandlers,
   account |-> AccountHandlers, share |-> SharedPageHandlers, profile |-> ProfileHandlers]
Buttons ==
  [comments |-> CommentsButtons, history |-> HistoryButtons, templates |-> TemplatesButtons,
   bell |-> BellButtons, picker |-> PickerButtons, assets |-> AssetsButtons,
   automation |-> AutomationButtons, appearance |-> AppearanceButtons,
   policy |-> PolicyButtons, pages |-> PagesButtons, audit |-> AuditButtons,
   trash |-> TrashButtons, import |-> ImportButtons, apiKeys |-> ApiKeysButtons,
   passkeys |-> PasskeysButtons, users |-> UsersButtons, groups |-> GroupsButtons,
   subscriptions |-> SubscriptionsButtons, deliveries |-> DeliveriesButtons,
   redirects |-> RedirectsButtons, rules |-> PageRulesButtons, git |-> GitButtons,
   purges |-> HistoryStatsButtons, stats |-> StatsButtons, totp |-> TotpButtons,
   account |-> AccountButtons, share |-> SharedPageButtons, profile |-> ProfileButtons]

-----------------------------------------------------------------------------
(* A panel at work.                                                        *)

CONSTANTS
  PanelNames,  \* the panels, of DOMAIN Panels
  MaxTypings   \* bound on what is typed

VARIABLES
  panel,
  doing,     \* of each call: the function called
  onServer,  \* the rows of the server
  context,   \* the page, folder or filter the panel is at, "gone" when it is left
  list,      \* the rows it shows
  filledBy,  \* the call whose answer they are
  raised,    \* the flags that are up
  newest,    \* the call that fetched last: useAsyncData's generation
  fields,    \* what is in each field: the number of its typing, 0 for nothing
  latest,    \* ... the last thing typed there
  saved,     \* what of it the server has
  editing,   \* the row the form is about, or "none"
  calls,     \* of each call: how far it is, what it is about and what it holds
  overlap,   \* whether a call began while another one ran
  fault      \* what went wrong, at most once

panelVars ==
  <<panel, doing, onServer, context, list, filledBy, raised, newest, fields, latest, saved,
    editing, calls, overlap, fault>>

\* Call 0 is the first fetch, the others are the user's.
Callers == 1..2
New(p) == <<"new 1", "new 2">>[p]
Rows == {"x", "y", New(1), New(2)}
Missing == [in |-> "nowhere", is |-> "none"]
Contexts == {"a", "b"}
Other(c) == CHOOSE d \in Contexts : d # c

Does(p) == IF p = 0 THEN Handler ELSE Handlers[panel][doing[p]]
ButtonOf(p) == IF doing[p] \in DOMAIN Buttons[panel] THEN Buttons[panel][doing[p]] ELSE Button
Fetching == Panels[panel].fetch

\* What the server lists.
Lists(c, row) ==
  CASE row = Missing -> FALSE
    [] Panels[panel].by = "home" -> row.in = c
    [] Panels[panel].by = "kind" -> row.is \in Panels[panel].lists[c]
    [] OTHER -> TRUE
Listed(c) == [r \in Rows |-> IF Lists(c, onServer[r]) THEN onServer[r] ELSE Missing]
NoRows == [r \in Rows |-> Missing]

Call(stage, c) ==
  [at |-> stage, row |-> "none", in |-> c, to |-> "none", sent |-> [f \in {"form", "password"} |-> 0],
   had |-> NoRows, filledBy |-> 0, answer |-> NoRows]

PanelInit ==
  \E name \in PanelNames :
    \E p \in [Callers -> DOMAIN Handlers[name]], k \in Panels[name].kinds :
      /\ panel = name
      /\ doing = p
      /\ onServer = [r \in Rows |->
           CASE r \notin Panels[name].rows -> Missing
             [] r = "x" -> [in |-> "a", is |-> k]
             [] OTHER -> [in |-> IF "turn" \in {p[1], p[2]} THEN "b" ELSE "a",
                          is |-> CHOOSE other \in Panels[name].kinds : TRUE]]
      /\ context = "a"
      /\ list = IF Panels[name].fetch.first THEN NoRows ELSE onServer
      /\ filledBy = 0
      /\ raised = IF Panels[name].fetch.first /\ Panels[name].fetch.flag THEN {"loading"} ELSE {}
      /\ newest = 0
      /\ fields = [f \in {"form", "password"} |-> 1]
      /\ latest = fields
      /\ saved = {}
      /\ editing = "none"
      /\ calls = [q \in {0} \union Callers |->
           Call(IF q # 0 THEN "ready" ELSE IF Panels[name].fetch.first THEN "listing" ELSE "done", "a")]
      /\ overlap = FALSE
      /\ fault = "none"

-----------------------------------------------------------------------------
\* The steps of a call, which change the flags, the rows shown and the call together.
Flags(p) == {Does(p).flag} \ {"none"}

\* A fetch begins.
Fetches(p, call, flags, shown) ==
  /\ newest' = p
  /\ raised' = flags \union (IF Fetching.flag THEN {"loading"} ELSE {})
  /\ list' = IF Fetching.begins = "empty" THEN NoRows ELSE shown
  /\ calls' = [calls EXCEPT ![p] = [call EXCEPT !.at = "listing"]]

\* finally
Ends(p, call, flags) ==
  /\ raised' = flags \ Flags(p)
  /\ calls' = [calls EXCEPT ![p] = [call EXCEPT !.at = "done"]]

\* What a call that was served leaves in the fields it sent.
Left(p) ==
  [f \in DOMAIN fields |->
     IF f \notin Does(p).sends THEN fields[f]
     ELSE CASE Does(p).leaves = "empty" -> 0
            [] Does(p).leaves = "as sent" -> calls[p].sent[f]
            [] OTHER -> fields[f]]

-----------------------------------------------------------------------------
\* The user.

Begins(p) ==
  /\ calls[p].at = "ready"
  /\ p = 2 => calls[1].at # "ready"
  /\ context # "gone"
  /\ ButtonOf(p).off \intersect raised = {}
  /\ \A f \in ButtonOf(p).typed : fields[f] # 0
  /\ overlap' = (overlap \/ \E q \in DOMAIN calls : calls[q].at \notin {"ready", "done"})

\* The rows whose button may be pressed.
Pressable(p) ==
  {r \in Rows : list[r] # Missing /\ ("any" \in ButtonOf(p).on \/ list[r].is \in ButtonOf(p).on)}

CallFetch(p) ==
  /\ Begins(p)
  /\ Does(p).asks \in {"list", "other list"}
  /\ LET c == IF Does(p).asks = "list" THEN context ELSE Other(context)
     IN /\ context' = IF "ask" \in Fetching.turns THEN c ELSE context
        /\ Fetches(p, [calls[p] EXCEPT !.in = c], raised, list)
  /\ UNCHANGED <<panel, doing, onServer, filledBy, fields, latest, saved, editing, fault>>

EditRow(p) ==
  /\ Begins(p)
  /\ Does(p).asks = "edit"
  /\ \E r \in Pressable(p) : editing' = r
  /\ latest' = [latest EXCEPT !["form"] = @ + 1]
  /\ fields' = [fields EXCEPT !["form"] = latest'["form"]]
  /\ calls' = [calls EXCEPT ![p].at = "done"]
  /\ UNCHANGED <<panel, doing, onServer, context, list, filledBy, raised, newest, saved, fault>>

\* The request holds what was shown and typed when it was sent.
Asks(p, r) ==
  calls' = [calls EXCEPT ![p] =
    [@ EXCEPT !.at = IF Does(p).prepares /\ @ = "ready" THEN "preparing" ELSE "asked",
              !.row = r, !.in = context, !.had = list, !.filledBy = filledBy,
              !.sent = [f \in DOMAIN fields |-> fields[f]],
              !.to = IF Does(p).asks = "set" THEN Does(p).sets[list[r].is] ELSE "none"]]

CallCreate(p) ==
  /\ Begins(p)
  /\ Does(p).asks \in {"create", "create or edit"}
  /\ Asks(p, IF Does(p).asks = "create" \/ editing = "none" THEN New(p) ELSE editing)
  /\ raised' = raised \union Flags(p)
  /\ UNCHANGED <<panel, doing, onServer, context, list, filledBy, newest, fields, latest, saved,
                 editing, fault>>

CallChange(p) ==
  /\ Begins(p)
  /\ Does(p).asks \in {"change", "change here", "change all", "set", "move", "upload"}
  /\ \E r \in Pressable(p) :
       /\ Asks(p, r)
       /\ list' = IF Does(p).atOnce = "mutate" THEN [list EXCEPT ![r].is = Does(p).sets[@]] ELSE list
  /\ raised' = raised \union Flags(p)
  /\ UNCHANGED <<panel, doing, onServer, context, filledBy, newest, fields, latest, saved,
                 editing, fault>>

Type(f) ==
  /\ latest[f] < MaxTypings
  /\ \E p \in Callers : f \in Does(p).sends
  /\ \E p \in Callers : calls[p].at \notin {"ready", "done"}
  /\ latest' = [latest EXCEPT ![f] = @ + 1]
  /\ fields' = [fields EXCEPT ![f] = latest'[f]]
  /\ UNCHANGED <<panel, doing, overlap, onServer, context, list, filledBy, raised, newest, saved, editing,
                 calls, fault>>

-----------------------------------------------------------------------------
\* The server.

Changed(p, row) ==
  CASE Does(p).asks = "set" -> [row EXCEPT !.is = calls[p].to]
    [] Does(p).asks = "move" -> [row EXCEPT !.in = Other(@)]
    [] row.is \notin DOMAIN Does(p).sets -> row
    [] Does(p).sets[row.is] = "none" -> Missing
    [] OTHER -> [row EXCEPT !.is = Does(p).sets[@]]

Refuses(p) ==
  \/ calls[p].row # New(p) /\ onServer[calls[p].row] = Missing
  \/ Does(p).asks = "change here" /\ onServer[calls[p].row].in # calls[p].in
  \/ Does(p).unique /\ \E f \in Does(p).sends, q \in Callers : <<f, calls[p].sent[f], q>> \in saved

ServeCall(p) ==
  /\ calls[p].at = "asked"
  /\ ~Refuses(p)
  /\ onServer' =
       IF Does(p).asks = "change all" THEN [r \in Rows |-> Changed(p, onServer[r])]
       ELSE IF calls[p].row = New(p)
         THEN [onServer EXCEPT ![New(p)] = [in |-> calls[p].in, is |-> Does(p).sets["none"]]]
       ELSE IF Does(p).asks = "create or edit" THEN onServer
       ELSE [onServer EXCEPT ![calls[p].row] = Changed(p, @)]
  /\ saved' = saved \union {<<f, calls[p].sent[f], p>> : f \in Does(p).sends}
  /\ calls' = [calls EXCEPT ![p] = [@ EXCEPT !.at = "served", !.answer = onServer']]
  /\ UNCHANGED <<panel, doing, overlap, context, list, filledBy, raised, newest, fields, latest, editing,
                 fault>>

List(p) ==
  /\ calls[p].at \in {"listing", "listing as it comes"}
  /\ calls' = [calls EXCEPT ![p] =
       [@ EXCEPT !.at = IF @ = "listing" THEN "listed" ELSE "listed as it comes",
                 !.answer = Listed(calls[p].in)]]
  /\ UNCHANGED <<panel, doing, overlap, onServer, context, list, filledBy, raised, newest, fields, latest,
                 saved, editing, fault>>

-----------------------------------------------------------------------------
\* The answers.

About(p) == calls[p].row
CallAnswered(p) == calls[p].answer[About(p)]
Mutates(p) == calls[p].filledBy = filledBy /\ list[About(p)] # Missing

\* The rows shown, with the answer of a change or a creation.
Shown(p) ==
  CASE Does(p).does = "append" ->
         [list EXCEPT ![About(p)] = IF @ = Missing THEN CallAnswered(p) ELSE [@ EXCEPT !.is = "twice"]]
    [] Does(p).does = "append as read" -> [calls[p].had EXCEPT ![About(p)] = CallAnswered(p)]
    [] Does(p).does = "upsert" -> [list EXCEPT ![About(p)] = CallAnswered(p)]
    [] Does(p).does = "drop" -> [list EXCEPT ![About(p)] = Missing]
    [] Does(p).does = "patch" /\ Does(p).asks = "change all" ->
         [r \in Rows |-> IF list[r] = Missing THEN Missing ELSE Changed(p, list[r])]
    [] Does(p).does = "patch" /\ list[About(p)] # Missing -> [list EXCEPT ![About(p)] = CallAnswered(p)]
    [] Does(p).does = "mutate" /\ Mutates(p) -> [list EXCEPT ![About(p)] = CallAnswered(p)]
    [] OTHER -> list

Arrives(p) ==
  /\ calls[p].at = "served"
  /\ CASE Does(p).thenAsks = "list" ->
            Fetches(p, [calls[p] EXCEPT !.in = context], raised, Shown(p))
       [] Does(p).thenAsks = "list as it comes" ->
            /\ calls' = [calls EXCEPT ![p] = [@ EXCEPT !.at = "listing as it comes", !.in = context]]
            /\ list' = Shown(p)
            /\ UNCHANGED <<raised, newest>>
       [] Does(p).thenAsks = "more" ->
            /\ calls' = [calls EXCEPT ![p].at = "asking more"]
            /\ list' = Shown(p)
            /\ UNCHANGED <<raised, newest>>
       [] OTHER -> Ends(p, calls[p], raised) /\ list' = Shown(p) /\ UNCHANGED newest
  /\ LET stops == \/ Does(p).asks = "create or edit"
                  \/ Does(p).does = "stop editing" /\ editing = About(p)
         types == Does(p).does = "type"
     IN /\ editing' = IF stops THEN "none" ELSE editing
        /\ latest' = IF types THEN [latest EXCEPT !["form"] = @ + 1] ELSE latest
        /\ fields' = IF types THEN [fields EXCEPT !["form"] = latest'["form"]]
                     ELSE IF stops THEN [fields EXCEPT !["form"] = 0]
                     ELSE IF Does(p).late THEN fields ELSE Left(p)
  /\ UNCHANGED <<panel, doing, overlap, onServer, context, filledBy, saved, fault>>

Leaves(p) == calls[p].at = "asking more" /\ Does(p).does = "leave"

\* What comes before the request that matters, as the options of a passkey, or after it; the
\* page is left when that is there.
Goes(p) ==
  /\ calls[p].at \in {"preparing", "asking more"}
  /\ IF calls[p].at = "preparing" THEN Asks(p, About(p)) /\ UNCHANGED raised
                                  ELSE Ends(p, calls[p], raised)
  /\ context' = IF Leaves(p) THEN "gone" ELSE context
  /\ UNCHANGED <<panel, doing, overlap, onServer, list, filledBy, newest, fields, latest, saved,
                 editing, fault>>

\* A fetch ends: its flag goes down, but not for an older one where a generation is kept.
Lowered(p) ==
  IF ~Fetching.flag \/ calls[p].at \in {"listing as it comes", "listed as it comes"} THEN raised
  ELSE IF Fetching.drops = "nothing" \/ newest = p THEN raised \ {"loading"} ELSE raised

ListArrives(p) ==
  /\ calls[p].at \in {"listed", "listed as it comes"}
  /\ LET taken == Fetching.drops # "rows" \/ newest = p
     IN /\ list' = IF taken THEN calls[p].answer ELSE list
        /\ filledBy' = IF taken THEN p ELSE filledBy
  /\ context' = IF "answer" \in Fetching.turns THEN calls[p].in ELSE context
  /\ fields' = IF Does(p).late THEN Left(p) ELSE fields
  /\ Ends(p, calls[p], Lowered(p))
  /\ UNCHANGED <<panel, doing, overlap, onServer, newest, latest, saved, editing, fault>>

-----------------------------------------------------------------------------
\* A request fails: it never came, or its answer is lost; or the server refuses it.

\* Faulty: the form is emptied although its request failed.
FailsEmptied(p) ==
  /\ fields' = Left(p)
  /\ Ends(p, calls[p], raised)
  /\ UNCHANGED <<panel, doing, overlap, onServer, context, list, filledBy, newest, latest, saved, editing>>

CallFails(p) ==
  /\ list' = IF Does(p).atOnce = "mutate" /\ Mutates(p)
               THEN [list EXCEPT ![About(p)] = calls[p].had[About(p)]] ELSE list
  /\ Ends(p, calls[p], raised)
  /\ UNCHANGED <<panel, doing, overlap, onServer, context, filledBy, newest, fields, latest, saved, editing>>

Refuse(p) ==
  /\ calls[p].at = "asked"
  /\ Refuses(p)
  /\ CallFails(p)
  /\ UNCHANGED fault

LoseRequest(p) ==
  /\ fault = "none"
  /\ calls[p].at \in {"asked", "preparing", "asking more", "served"} /\ ~Leaves(p)
  /\ fault' = IF calls[p].at = "served" THEN "answer lost" ELSE "request lost"
  /\ CallFails(p)

LoseList(p) ==
  /\ fault = "none"
  /\ calls[p].at \in {"listing", "listing as it comes"}
  /\ fault' = "list lost"
  /\ list' = IF Fetching.fails = "empty" THEN NoRows ELSE list
  /\ fields' = IF Does(p).late THEN Left(p) ELSE fields
  /\ Ends(p, calls[p], Lowered(p))
  /\ UNCHANGED <<panel, doing, overlap, onServer, context, filledBy, newest, latest, saved, editing>>

PanelNext ==
  \/ \E p \in Callers : CallFetch(p) \/ EditRow(p) \/ CallCreate(p) \/ CallChange(p)
  \/ \E f \in DOMAIN fields : Type(f)
  \/ \E p \in DOMAIN calls :
       \/ ServeCall(p) \/ List(p) \/ Arrives(p) \/ Goes(p) \/ ListArrives(p)
       \/ Refuse(p) \/ LoseRequest(p) \/ LoseList(p)

PanelSpec == PanelInit /\ [][PanelNext]_panelVars

-----------------------------------------------------------------------------
Running(p) == calls[p].at \notin {"ready", "done"}
Done == {doing[p] : p \in {q \in Callers : calls[q].at = "done"}}
Settled == \A p \in DOMAIN calls : ~Running(p)

\* What the code is known to miss.  A list is true however calls overlap in a few panels only: the
\* others patch rows that an older fetch, of before the change, then replaces, or they fetch without
\* a generation.  A delivery that is retried stays under the filter it no longer fits; a role is
\* shown as it was when the request after the change fails.
Careful == {"account", "audit", "git", "groups", "policy", "stats", "subscriptions", "totp"}
KnownUntrue ==
  \/ overlap /\ panel \notin Careful
  \/ "retryDelivery" \in Done /\ "turn" \in Done
  \/ "changeRole" \in Done /\ fault = "request lost"

\* These create what was typed twice when their button is pressed twice: no flag disables it.
CreatesTwice == {"automation", "rules", "subscriptions"}

\* These lower a flag that an older call raised.
LowersEarly == {"comments", "history", "picker", "templates", "share", "profile"}

\* When every request has been answered, the panel shows what the server has.
ListsAreTrue ==
  Settled /\ fault \notin {"answer lost", "list lost"} /\ context # "gone" /\ ~KnownUntrue =>
    list = Listed(context)

\* What was typed is gone from its field only when a request that sent an earlier or the same
\* text of that field was served, or the row the form was about is deleted.
TypedIsKept ==
  \A f \in DOMAIN fields :
    fields[f] # latest[f] =>
      \E p \in Callers, n \in 1..latest[f] : <<f, n, p>> \in saved \/ doing[p] = "remove"

\* What was typed once is not created twice, but for an answer that was lost.
PostedOnce ==
  panel \notin CreatesTwice /\ fault # "answer lost" =>
    \A p, q \in Callers :
      p # q /\ Does(p).asks \in {"create", "create or edit"} /\ Does(q).asks = Does(p).asks =>
        \A f \in DOMAIN fields, n \in 1..MaxTypings :
          ~(<<f, n, p>> \in saved /\ <<f, n, q>> \in saved)

\* A flag is up while a call that raised it runs, and while the newest fetch does; no flag is up
\* when nothing runs.
FlagsAreTrue ==
  /\ \A p \in Callers : Running(p) /\ doing[p] # "uploadBrandAsset" => Flags(p) \subseteq raised
  /\ Fetching.flag /\ panel \notin LowersEarly /\ calls[newest].at \in {"listing", "listed"} =>
       "loading" \in raised
  /\ Settled => raised = {}

PanelInv == ListsAreTrue /\ TypedIsKept /\ PostedOnce /\ FlagsAreTrue
=================================================================================
