-------------------------- MODULE PostgresRepositories --------------------------
(***************************************************************************)
(* db/postgres/repositories: every statement is a round trip on a pooled   *)
(* connection, and db.transaction keeps one connection for its statements, *)
(* at READ COMMITTED.  One definition is one file: the call of each of its *)
(* methods, made by caller p.                                              *)
(***************************************************************************)
EXTENDS Statements

OidcStates(p) ==
  [cleanupExpired |-> Run(Delete({"state"}, {"spent"})),
   insert |-> Run(Insert({Own(p)}, "live")),
   consume |-> Transaction("rows",
     <<Read({"state"}), StopIf("state", {"none", "other"}, "null"), DeleteAll({"state"}),
       StopIf("state", {"spent"}, "null")>>)]

\* The tokens of one user: "reset" and "mail" as they were found, and the replacements.
AuthRecovery(p) ==
  LET Resets == {"reset", "reset1", "reset2"}
      Mails == {"mail", "mail1", "mail2"}
      consumed(token, tokens, to) ==
        Transaction("ok",
          <<Read({token}), StopIf(token, {"none", "spent"}, "null"),
            Read({"user"}), StopIf("user", {"none", "spent"}, "null"),
            Update({"user"}, to), DeleteAll(tokens)>>)
  IN [cleanupExpired |-> Transaction("ok",
        <<Delete(Resets, {"spent"}), Delete(Mails, {"spent"})>>),
      findUserByEmail |-> Query({"user"}),
      replacePasswordReset |-> Transaction("ok",
        <<DeleteAll(Resets), Insert({<<"reset1", "reset2">>[p]}, "live")>>),
      consumePasswordReset |-> consumed("reset", Resets, [k \in Some |-> Mine(p)]),
      replaceEmailVerification |-> Transaction("ok",
        <<DeleteAll(Mails), Insert({<<"mail1", "mail2">>[p]}, "live")>>),
      consumeEmailVerification |-> consumed("mail", Mails, "live" :> "other")]

\* The ticket read and then deleted, as a state of OIDC is.
RealtimeTicketsReadFirst(p) ==
  [cleanupExpired |-> Run(Delete({"ticket"}, {"spent"})),
   insert |-> Run(Insert({Own(p)}, "live")),
   consume |-> Transaction("rows",
     <<Read({"ticket"}), Given("ticket", Some, DeleteAll({"ticket"}))>>)]
RealtimeTickets(p) ==
  [cleanupExpired |-> Run(Delete({"ticket"}, {"spent"})),
   insert |-> Run(Insert({Own(p)}, "live")),
   consume |-> Call("row", <<DeleteAll({"ticket"})>>)]

\* The user's secret is not there ("none" is no user), saved ("other") or enabled ("live").
Totp(p) ==
  LET replaceCodes == <<DeleteAll({"code"} \union Owns), Insert({Own(p)}, "live")>>
  IN [saveSecret |-> Run(Set({"user"}, "other")),
      enable |-> Transaction("ok", <<Set({"user"}, "live")>> \o replaceCodes),
      replaceRecoveryCodes |-> Transaction("ok", replaceCodes),
      disable |-> Transaction("ok",
        <<Set({"user"}, "spent"), DeleteAll({"code"} \union Owns)>>),
      listUnusedRecoveryCodes |-> Query({"code"} \union Owns),
      consumeRecoveryCode |-> Changes(Update({"code"}, "live" :> "spent"))]

\* A passkey is "live" with the counter the caller expects; a credential may be registered
\* by both callers at once.
Passkeys(p) ==
  [find |-> Query({"key", "credential"}),
   insert |-> Call("ok", <<Insert({"credential"}, Mine(p))>>),
   delete |-> Run(DeleteAll({"key"})),
   updateAuthentication |-> Changes(Update({"key"}, "live" :> Mine(p))),
   cleanupChallenges |-> Run(Delete({"challenge"}, {"spent"})),
   insertChallenge |-> Run(Insert({Own(p)}, "live")),
   consumeChallenge |-> Transaction("rows",
     <<Read({"challenge"}), StopIf("challenge", {"none", "other"}, "null"),
       DeleteAll({"challenge"}), StopIf("challenge", {"spent"}, "null")>>)]

\* A key is "live", expired ("spent") or revoked by a caller; when it was last used is left
\* out.
ApiKeys(p) ==
  [find |-> Query({"key"} \union Owns),
   insert |-> Call("ok", <<Insert({Own(p)}, "live")>>),
   revoke |-> Transaction("rows",
     <<Read({"key"}), StopIf("key", {"none"}, "undefined"),
       Given("key", {"live", "spent"}, Set({"key"}, Mine(p)))>>),
   markUsedIfActive |-> Changes(Update({"key"}, "live" :> "live"))]

PageShares(p) ==
  [findActivePage |-> Query({"page"}),
   find |-> Query({"share"} \union Owns),
   insert |-> Call("ok", <<Insert({Own(p)}, "live")>>),
   revoke |-> Transaction("rows",
     <<Read({"share"}), StopIf("share", {"none"}, "undefined"),
       Given("share", {"live", "spent"}, Set({"share"}, Mine(p)))>>)]

\* No index makes the accounts of a provider's subject unique: an account is a row of the
\* caller that inserted it.
AuthAccounts(p) ==
  LET accounts == {"account"} \union Owns
      unlinked(s) == Given("account", {"none"}, Given("own1", {"none"},
                       Given("own2", {"none"}, s)))
  IN [findLinkedUser |-> Query(accounts),
      link |-> Transaction("ok",
        <<Read(accounts), Given("account", Some, Set({"account"}, Mine(p))),
          Given("own1", Some, Set({"own1"}, Mine(p))),
          Given("own2", Some, Given("own1", {"none"}, Set({"own2"}, Mine(p)))),
          unlinked(Insert({Own(p)}, Mine(p)))>>),
      createUserWithAccount |-> Transaction("ok",
        <<Insert({"email"}, Mine(p)), Insert({Own(p)}, Mine(p))>>)]

Users(p) ==
  [find |-> Query({"email"}),
   insert |-> Call("ok", <<Insert({"email"}, Mine(p))>>),
   update |-> Run(Set({"email"}, Mine(p)))]

\* Two revisions to prune, in the order of either caller's list.
Admin(p) ==
  [stats |-> Call("rows", <<Read({"user"}), Read({"rev1"}), Read({"rev2"})>>),
   listRevisionCandidates |-> Query({"rev1", "rev2"}),
   deleteRevisions |-> Transaction("ok", <<DeleteAll({"rev1"}), DeleteAll({"rev2"})>>),
   find |-> Query({"user"}),
   updateUserRole |-> Run(Update({"user"}, [k \in {"live", "v1", "v2"} |-> Mine(p)])),
   updateUserPassword |-> Run(Set({"user"}, "other")),
   deactivateUser |-> Run(Set({"user"}, "spent"))]

\* The rows of a batch are inserted one by one, in the order the caller counted its views.
Analytics(p) ==
  [incrementBatch |-> Transaction("ok",
     IF p = 1 THEN <<Add({"a"}), Add({"b"})>> ELSE <<Add({"b"}), Add({"a"})>>),
   find |-> Query({"a"}),
   summary |-> Call("rows", <<Read({"a"}), Read({"b"})>>)]

\* The references of a page are replaced by those to the assets that are not deleted.
AssetReferences(p) ==
  [syncPageAssetReferences |-> Call("ok",
     <<Read({"asset"}), DeleteAll({"ref"}),
       Given("asset", {"live"}, InsertOrIgnore({"ref"}, "live"))>>)]

Assets(p) ==
  [find |-> Query({"asset"} \union Owns),
   listReferences |-> Query({"ref"}),
   insertReferences |-> Run(InsertOrIgnore({"ref"}, "live")),
   insert |-> Run(Insert({Own(p)}, "live")),
   update |-> Run(Set({"asset"}, Mine(p))),
   delete |-> Run(DeleteAll({"asset"}))]

\* "old" is past the retention; two entries are kept, own2 being the newest.
AuditLog(p) ==
  [record |-> Call("ok",
     <<Insert({Own(p)}, "live"), Delete({"old"}, {"spent"}),
       Trim(<<"own2", "own1", "last", "old">>, 2)>>)]

\* A default group has a unique key; a default grant and a membership have only a random
\* id, so that each is a row of the caller that inserted it.
Authz(p) ==
  LET absent(s) == Given("had", {"none"}, Given("own1", {"none"}, Given("own2", {"none"}, s)))
      mine == {"had"} \union Owns
  IN [ensureDefaults |-> Transaction("ok",
        <<InsertOrIgnore({"group"}, "live"), Read({"grant1", "grant2"}),
          Given("grant1", {"none"}, Given("grant2", {"none"},
            Insert({<<"grant1", "grant2">>[p]}, "live")))>>),
      groupsForUser |-> Query(mine),
      syncRoleGroup |-> Transaction("ok",
        <<Read({"group"}), StopIf("group", {"none"}, "ok"), DeleteAll({"former"}),
          Read(mine), absent(Insert({Own(p)}, "live"))>>),
      find |-> Query({"group"} \union mine),
      insertGroup |-> Call("ok", <<Insert({"group"}, Mine(p))>>),
      addUserToGroup |-> Call("ok",
        <<Read({"group"}), StopIf("group", {"none"}, "null"),
          Read(mine), absent(Insert({Own(p)}, "live"))>>),
      removeUserFromGroup |-> Call("ok",
        <<Read({"group"}), StopIf("group", {"none"}, "null"), DeleteAll(mine)>>),
      insertPageRule |-> Run(Insert({Own(p)}, "live")),
      deletePageRule |-> Run(DeleteAll({"had"}))]

Comments(p) ==
  [find |-> Query({"comment"} \union Owns),
   insert |-> Run(Insert({Own(p)}, "live")),
   updateBody |-> Changes(Set({"comment"}, Mine(p))),
   resolve |-> Changes(Set({"comment"}, "spent")),
   delete |-> Changes(DeleteAll({"comment"}))]

\* Loading the source of a document replaces the references of its page first.
Elasticsearch(p) ==
  [loadPageSource |-> Call("rows",
     <<Read({"page"}), StopIf("page", {"none", "spent"}, "null"), Read({"asset"}),
       DeleteAll({"ref"}), Given("asset", {"live"}, InsertOrIgnore({"ref"}, "live")),
       Read({"comment"}), Read({"ref"})>>)]

LinkPreviews(p) ==
  [findByUrl |-> Query({"url"}),
   upsert |-> Run(Upsert({"url"}, Mine(p)))]

\* The watch of one user of the path a page leaves and of the path it moves to.
Notifications(p) ==
  [listByUser |-> Query({"notice"} \union Owns),
   markRead |-> Run(Set({"notice"} \union Owns, "spent")),
   insert |-> Run(Insert({Own(p)}, "live")),
   watch |-> Run(InsertOrIgnore({"from"}, "live")),
   unwatch |-> Run(DeleteAll({"from"})),
   listWatchers |-> Query({"from", "to"}),
   moveWatchers |-> Transaction("ok",
     <<Read({"from"}), Given("from", Some, InsertOrIgnore({"to"}, "live")),
       DeleteAll({"from"})>>),
   deleteWatchers |-> Run(DeleteAll({"from"}))]

PageTemplates(p) ==
  [find |-> Query({"template"} \union Owns),
   insert |-> Run(Insert({Own(p)}, "live")),
   update |-> Run(Set({"template"}, Mine(p))),
   delete |-> Run(DeleteAll({"template"}))]

\* The redirect from the old path of the page, the one from its new path, and the revisions
\* of the page that the callers add; a page that is created has revisions of its own.
PageRows(p) ==
  LET revised(statements) == Transaction("rows",
        <<Insert({Own(p)}, "live")>> \o statements \o <<Read({"page"})>>)
  IN [list |-> Query({"page"}),
      writeExisting |-> revised(<<Set({"page"}, Mine(p))>>),
      create |-> Transaction("rows",
        <<DeleteAll({"redirect"}), Insert({"page"}, Mine(p)), Insert({"first"}, Mine(p)),
          Read({"page"})>>),
      createRedirect |-> Run(Insert({"redirect"}, Mine(p))),
      deleteRedirect |-> Run(DeleteAll({"redirect"})),
      setLifecycle |-> revised(<<Set({"page"}, "other")>>),
      move |-> revised(
        <<Set({"page"}, Mine(p)), DeleteAll({"there"}), Upsert({"redirect"}, Mine(p))>>),
      remove |-> revised(
        <<Set({"page"}, "spent"), DeleteAll({"redirect"}), DeleteAll({"there"})>>),
      purge |-> Transaction("ok",
        <<DeleteAll({"redirect"}), DeleteAll({"revision"} \union Owns), DeleteAll({"page"})>>)]

\* The attempts of an entry are counted, from "zero" on.
SearchOutboxes(p) ==
  [enqueue |-> Run(Insert({Own(p)}, "zero")),
   claimDue |-> Query({"entry"} \union Owns),
   complete |-> Run(DeleteAll({"entry"})),
   fail |-> Run(Update({"entry"},
      ("zero" :> "one") @@ ("one" :> "two") @@ ("two" :> "more") @@ ("more" :> "more")))]

Settings(p) ==
  [list |-> Query({"a", "b"}),
   upsertAll |-> Transaction("ok", <<Upsert({"a"}, Mine(p)), Upsert({"b"}, Mine(p))>>)]

\* A caller sets one preference and clears the next.
UserPreferences(p) ==
  [listForUser |-> Query({"a", "b"}),
   applyForUser |-> Transaction("ok",
     IF p = 1 THEN <<Upsert({"a"}, "v1"), DeleteAll({"b"})>>
              ELSE <<DeleteAll({"a"}), Upsert({"b"}, "v2")>>)]

WebhookAutomation(p) ==
  [list |-> Query({"rule"} \union Owns),
   insertRule |-> Run(Insert({Own(p)}, "live")),
   updateRule |-> Run(Set({"rule"}, Mine(p))),
   deleteRule |-> Run(DeleteAll({"rule"}))]

WebhookDeliveries(p) ==
  [list |-> Query({"delivery"} \union Owns),
   insert |-> Run(Insert({Own(p)}, "live")),
   update |-> Run(Set({"delivery"}, Mine(p)))]

WebhookSubscriptions(p) ==
  [list |-> Query({"hook"} \union Owns),
   insert |-> Run(Insert({Own(p)}, "live")),
   update |-> Run(Set({"hook"}, Mine(p))),
   delete |-> Run(DeleteAll({"hook"}))]

Calls(repository, p) ==
  CASE repository = "oidcStates" -> OidcStates(p)
    [] repository = "authRecovery" -> AuthRecovery(p)
    [] repository = "realtimeTickets" -> RealtimeTickets(p)
    [] repository = "totp" -> Totp(p)
    [] repository = "passkeys" -> Passkeys(p)
    [] repository = "apiKeys" -> ApiKeys(p)
    [] repository = "pageShares" -> PageShares(p)
    [] repository = "authAccounts" -> AuthAccounts(p)
    [] repository = "users" -> Users(p)
    [] repository = "admin" -> Admin(p)
    [] repository = "analytics" -> Analytics(p)
    [] repository = "assetReferences" -> AssetReferences(p)
    [] repository = "assets" -> Assets(p)
    [] repository = "auditLog" -> AuditLog(p)
    [] repository = "authz" -> Authz(p)
    [] repository = "comments" -> Comments(p)
    [] repository = "elasticsearch" -> Elasticsearch(p)
    [] repository = "linkPreviews" -> LinkPreviews(p)
    [] repository = "notifications" -> Notifications(p)
    [] repository = "pageTemplates" -> PageTemplates(p)
    [] repository = "pages" -> PageRows(p)
    [] repository = "searchOutbox" -> SearchOutboxes(p)
    [] repository = "settings" -> Settings(p)
    [] repository = "userPreferences" -> UserPreferences(p)
    [] repository = "webhookAutomation" -> WebhookAutomation(p)
    [] repository = "webhookDeliveries" -> WebhookDeliveries(p)
    [] repository = "webhookSubscriptions" -> WebhookSubscriptions(p)
=================================================================================
