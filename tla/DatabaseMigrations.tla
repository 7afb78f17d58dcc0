------------------------- MODULE DatabaseMigrations -------------------------
(***************************************************************************)
(* What changes a database as a whole: the migrations of SQLite at the     *)
(* start of a server (db/migrate.ts, db/client.ts), and the tool that      *)
(* moves a wiki from SQLite to PostgreSQL or MySQL (db/cross-driver-       *)
(* migrate.ts).                                                            *)
(***************************************************************************)
EXTENDS Naturals, Sequences, SequencesExt, FiniteSets, TLC

-----------------------------------------------------------------------------
(* The tables of the databases.  Of SQLite: the columns and indexes that   *)
(* the queries are written against (db/schema.ts), and the ones that the   *)
(* migrations create (db/migrate.ts); a key is a set of columns whose      *)
(* values no two rows share.  Of PostgreSQL and MySQL: there the tables    *)
(* that are created are the ones that the queries are written against, for *)
(* the statements are made from the declarations (db/postgres/schema.ts,   *)
(* db/mysql/schema.ts).  A column's type and default are left out, but for *)
(* the room of a MySQL column: no other database gives it one.             *)

Declared(columns, indexes) == [columns |-> columns, indexes |-> indexes]
Created(columns, keys, indexes) == [columns |-> columns, keys |-> keys, indexes |-> indexes]

-----------------------------------------------------------------------------
(* db/schema.ts *)

\* Accounts and sign-in.
DeclaredSignIn ==
  "schema_migrations" :> Declared({"version", "applied_at"}, {}) @@
  "users" :> Declared(
    {"id", "email", "name", "password_hash", "role", "totp_secret", "totp_enabled",
     "disabled_at", "token_invalid_before", "email_verified_at", "profile_bio",
     "profile_cover_url", "profile_links", "profile_favorite_pages", "created_at"},
    {}) @@
  "auth_accounts" :> Declared(
    {"id", "user_id", "provider", "provider_subject", "email", "created_at",
     "updated_at"},
    {"auth_accounts_user_idx", "auth_accounts_provider_idx"}) @@
  "oauth_states" :> Declared(
    {"state", "provider", "nonce", "code_verifier", "redirect_after", "expires_at",
     "created_at"},
    {}) @@
  "password_resets" :> Declared(
    {"token", "user_id", "expires_at", "created_at"},
    {"password_resets_user_idx", "password_resets_expires_idx"}) @@
  "email_verifications" :> Declared(
    {"token", "user_id", "email", "expires_at", "created_at"},
    {"email_verifications_user_idx", "email_verifications_expires_idx"}) @@
  "passkeys" :> Declared(
    {"id", "user_id", "name", "public_key", "counter", "transports", "device_type",
     "backed_up", "created_at", "last_used_at"},
    {"passkeys_user_idx"}) @@
  "totp_recovery_codes" :> Declared(
    {"id", "user_id", "code_hash", "created_at", "used_at"},
    {"totp_recovery_codes_user_idx", "totp_recovery_codes_used_idx"}) @@
  "webauthn_challenges" :> Declared(
    {"challenge", "user_id", "purpose", "expires_at", "created_at"},
    {"webauthn_challenges_user_idx", "webauthn_challenges_expires_idx"}) @@
  "api_keys" :> Declared(
    {"id", "name", "key_hash", "role", "expires_at", "last_used_at", "revoked_at",
     "created_at"},
    {"api_keys_hash_idx", "api_keys_expires_idx", "api_keys_revoked_idx"})

\* Permissions and pages.
DeclaredPage ==
  "groups" :> Declared({"id", "key", "name", "description", "created_at"}, {}) @@
  "group_memberships" :> Declared(
    {"id", "user_id", "group_id", "created_at"},
    {"group_memberships_user_idx", "group_memberships_group_idx"}) @@
  "permission_grants" :> Declared(
    {"id", "subject_type", "subject_id", "action", "effect", "created_at"},
    {"permission_grants_subject_idx"}) @@
  "page_rules" :> Declared(
    {"id", "subject_type", "subject_id", "action", "effect", "matcher", "pattern",
     "created_at"},
    {"page_rules_subject_idx", "page_rules_pattern_idx"}) @@
  "pages" :> Declared(
    {"id", "path", "title", "description", "icon", "cover_url", "cover_position",
     "content", "rendered_html", "toc", "content_type", "lifecycle", "status",
     "labels", "owner_id", "review_at", "publish_at", "nav_order", "pinned",
     "space_key", "locale", "author_id", "created_at", "updated_at"},
    {"pages_updated_idx", "pages_nav_idx"}) @@
  "page_revisions" :> Declared(
    {"id", "page_id", "path", "title", "description", "content", "author_id",
     "action", "created_at"},
    {"revisions_page_idx", "revisions_created_idx"}) @@
  "page_comments" :> Declared(
    {"id", "page_id", "path", "body", "author_id", "resolved_at", "created_at",
     "updated_at"},
    {"comments_page_idx", "comments_path_idx"}) @@
  "page_watchers" :> Declared({"user_id", "path", "created_at"}, {"page_watchers_path_idx"}) @@
  "notifications" :> Declared(
    {"id", "user_id", "kind", "path", "message", "payload", "read_at", "created_at"},
    {"notifications_user_idx", "notifications_unread_idx"}) @@
  "page_analytics" :> Declared({"path", "views", "last_viewed_at"}, {}) @@
  "page_redirects" :> Declared({"from_path", "to_path", "created_at"}, {})

\* Features around the pages, and the two queues.
DeclaredFeature ==
  "page_shares" :> Declared(
    {"token", "path", "created_by", "expires_at", "revoked_at", "created_at"},
    {"page_shares_path_idx", "page_shares_created_by_idx"}) @@
  "page_templates" :> Declared(
    {"id", "name", "description", "icon", "content", "metadata", "created_by",
     "created_at", "updated_at"},
    {"page_templates_name_idx", "page_templates_updated_idx"}) @@
  "site_settings" :> Declared({"key", "value", "updated_at"}, {}) @@
  "user_preferences" :> Declared(
    {"user_id", "key", "value", "updated_at"}, {"user_preferences_user_idx"}) @@
  "link_previews" :> Declared(
    {"url", "kind", "provider", "title", "description", "image", "author",
     "site_name", "content_type", "data", "fetched_at", "expires_at"},
    {"link_previews_expires_idx", "link_previews_kind_idx"}) @@
  "assets" :> Declared(
    {"id", "filename", "storage_name", "folder", "mime", "size", "author_id",
     "created_at", "deleted_at"},
    {}) @@
  "page_asset_refs" :> Declared({"page_id", "asset_id"}, {"page_asset_refs_asset_idx"}) @@
  "wiki_events" :> Declared(
    {"id", "source_id", "event_type", "action", "path", "from_path", "created_at"},
    {"wiki_events_id_idx"}) @@
  "search_outbox" :> Declared(
    {"id", "page_id", "operation", "enqueued_at", "attempts", "next_attempt_at",
     "last_error"},
    {"search_outbox_due_idx"})

\* Limits, tickets, webhooks, automation and the audit log.
DeclaredDelivery ==
  "rate_limit_hits" :> Declared(
    {"bucket_key", "hit_at"},
    {"rate_limit_hits_bucket_idx", "rate_limit_hits_time_idx"}) @@
  "realtime_tickets" :> Declared(
    {"ticket", "user_id", "expires_at", "created_at"},
    {"realtime_tickets_expires_idx"}) @@
  "webhook_subscriptions" :> Declared(
    {"id", "name", "target_url", "secret", "event_types", "enabled", "created_at",
     "updated_at"},
    {"webhook_subscriptions_enabled_idx"}) @@
  "webhook_deliveries" :> Declared(
    {"id", "subscription_id", "event_id", "event_type", "payload", "status",
     "attempts", "next_attempt_at", "response_status", "response_body", "error",
     "created_at", "updated_at", "delivered_at"},
    {"webhook_deliveries_subscription_idx", "webhook_deliveries_status_idx",
     "webhook_deliveries_next_attempt_idx"}) @@
  "automation_rules" :> Declared(
    {"id", "name", "type", "enabled", "priority", "stop_on_match", "config",
     "created_at", "updated_at"},
    {"automation_rules_enabled_idx", "automation_rules_type_idx",
     "automation_rules_order_idx"}) @@
  "audit_log" :> Declared(
    {"id", "action", "user_id", "path", "data", "created_at"},
    {"audit_log_created_idx", "audit_log_action_idx", "audit_log_user_idx"})

DeclaredTables == DeclaredSignIn @@ DeclaredPage @@ DeclaredFeature @@ DeclaredDelivery

-----------------------------------------------------------------------------
(* The CREATE TABLE and CREATE INDEX statements of runMigrations.  An index is given *)
(* with the columns that it needs.                                                  *)

\* Accounts and sign-in.
CreatedSignIn ==
  "schema_migrations" :> Created({"version", "applied_at"}, {{"version"}}, <<>>) @@
  "users" :> Created(
    {"id", "email", "name", "password_hash", "role", "totp_secret", "totp_enabled",
     "disabled_at", "token_invalid_before", "email_verified_at", "profile_bio",
     "profile_cover_url", "profile_links", "profile_favorite_pages", "created_at"},
    {{"id"}, {"email"}}, <<>>) @@
  "auth_accounts" :> Created(
    {"id", "user_id", "provider", "provider_subject", "email", "created_at",
     "updated_at"},
    {{"id"}},
    "auth_accounts_user_idx" :> {"user_id"} @@
    "auth_accounts_provider_idx" :> {"provider", "provider_subject"}) @@
  "oauth_states" :> Created(
    {"state", "provider", "nonce", "code_verifier", "redirect_after", "expires_at",
     "created_at"},
    {{"state"}}, <<>>) @@
  "password_resets" :> Created(
    {"token", "user_id", "expires_at", "created_at"}, {{"token"}},
    "password_resets_user_idx" :> {"user_id"} @@
    "password_resets_expires_idx" :> {"expires_at"}) @@
  "email_verifications" :> Created(
    {"token", "user_id", "email", "expires_at", "created_at"}, {{"token"}},
    "email_verifications_user_idx" :> {"user_id"} @@
    "email_verifications_expires_idx" :> {"expires_at"}) @@
  "passkeys" :> Created(
    {"id", "user_id", "name", "public_key", "counter", "transports", "device_type",
     "backed_up", "created_at", "last_used_at"},
    {{"id"}}, "passkeys_user_idx" :> {"user_id"}) @@
  "totp_recovery_codes" :> Created(
    {"id", "user_id", "code_hash", "created_at", "used_at"}, {{"id"}},
    "totp_recovery_codes_user_idx" :> {"user_id"} @@
    "totp_recovery_codes_used_idx" :> {"used_at"}) @@
  "webauthn_challenges" :> Created(
    {"challenge", "user_id", "purpose", "expires_at", "created_at"}, {{"challenge"}},
    "webauthn_challenges_user_idx" :> {"user_id"} @@
    "webauthn_challenges_expires_idx" :> {"expires_at"}) @@
  "api_keys" :> Created(
    {"id", "name", "key_hash", "role", "expires_at", "last_used_at", "revoked_at",
     "created_at"},
    {{"id"}, {"key_hash"}},
    "api_keys_hash_idx" :> {"key_hash"} @@
    "api_keys_expires_idx" :> {"expires_at"} @@
    "api_keys_revoked_idx" :> {"revoked_at"})

\* Permissions and pages.
CreatedPage ==
  "groups" :> Created(
    {"id", "key", "name", "description", "created_at"}, {{"id"}, {"key"}}, <<>>) @@
  "group_memberships" :> Created(
    {"id", "user_id", "group_id", "created_at"}, {{"id"}},
    "group_memberships_user_idx" :> {"user_id"} @@
    "group_memberships_group_idx" :> {"group_id"}) @@
  "permission_grants" :> Created(
    {"id", "subject_type", "subject_id", "action", "effect", "created_at"}, {{"id"}},
    "permission_grants_subject_idx" :> {"subject_type", "subject_id"}) @@
  "page_rules" :> Created(
    {"id", "subject_type", "subject_id", "action", "effect", "matcher", "pattern",
     "created_at"},
    {{"id"}},
    "page_rules_subject_idx" :> {"subject_type", "subject_id"} @@
    "page_rules_pattern_idx" :> {"pattern"}) @@
  "pages" :> Created(
    {"id", "path", "title", "description", "icon", "cover_url", "cover_position",
     "content", "rendered_html", "toc", "content_type", "lifecycle", "status",
     "labels", "owner_id", "review_at", "nav_order", "pinned", "space_key", "locale",
     "author_id", "created_at", "updated_at"},
    {{"id"}, {"path"}},
    "pages_updated_idx" :> {"updated_at"} @@
    "pages_nav_idx" :> {"pinned", "nav_order", "path"}) @@
  "page_revisions" :> Created(
    {"id", "page_id", "path", "title", "description", "content", "author_id",
     "action", "created_at"},
    {{"id"}},
    "revisions_page_idx" :> {"page_id"} @@
    "revisions_created_idx" :> {"created_at"}) @@
  "page_comments" :> Created(
    {"id", "page_id", "path", "body", "author_id", "resolved_at", "created_at",
     "updated_at"},
    {{"id"}},
    "comments_page_idx" :> {"page_id"} @@
    "comments_path_idx" :> {"path"}) @@
  "page_watchers" :> Created(
    {"user_id", "path", "created_at"}, {{"user_id", "path"}},
    "page_watchers_path_idx" :> {"path"}) @@
  "notifications" :> Created(
    {"id", "user_id", "kind", "path", "message", "payload", "read_at", "created_at"},
    {{"id"}},
    "notifications_user_idx" :> {"user_id", "created_at"} @@
    "notifications_unread_idx" :> {"user_id", "read_at"}) @@
  "page_analytics" :> Created({"path", "views", "last_viewed_at"}, {{"path"}}, <<>>) @@
  "page_redirects" :> Created({"from_path", "to_path", "created_at"}, {{"from_path"}}, <<>>)

\* Features around the pages, and the two queues.
CreatedFeature ==
  "page_shares" :> Created(
    {"token", "path", "created_by", "expires_at", "revoked_at", "created_at"},
    {{"token"}},
    "page_shares_path_idx" :> {"path"} @@
    "page_shares_created_by_idx" :> {"created_by"}) @@
  "page_templates" :> Created(
    {"id", "name", "description", "icon", "content", "metadata", "created_by",
     "created_at", "updated_at"},
    {{"id"}},
    "page_templates_name_idx" :> {"name"} @@
    "page_templates_updated_idx" :> {"updated_at"}) @@
  "site_settings" :> Created({"key", "value", "updated_at"}, {{"key"}}, <<>>) @@
  "user_preferences" :> Created(
    {"user_id", "key", "value", "updated_at"}, {{"user_id", "key"}},
    "user_preferences_user_idx" :> {"user_id"}) @@
  "link_previews" :> Created(
    {"url", "kind", "provider", "title", "description", "image", "author",
     "site_name", "content_type", "data", "fetched_at", "expires_at"},
    {{"url"}},
    "link_previews_expires_idx" :> {"expires_at"} @@
    "link_previews_kind_idx" :> {"kind"}) @@
  "assets" :> Created(
    {"id", "filename", "storage_name", "folder", "mime", "size", "author_id",
     "created_at", "deleted_at"},
    {{"id"}}, <<>>) @@
  "page_asset_refs" :> Created(
    {"page_id", "asset_id"}, {{"page_id", "asset_id"}},
    "page_asset_refs_asset_idx" :> {"asset_id"}) @@
  "wiki_events" :> Created(
    {"id", "source_id", "event_type", "action", "path", "from_path", "created_at"},
    {{"id"}}, "wiki_events_id_idx" :> {"id"}) @@
  "search_outbox" :> Created(
    {"id", "page_id", "operation", "enqueued_at", "attempts", "next_attempt_at",
     "last_error"},
    {{"id"}}, "search_outbox_due_idx" :> {"next_attempt_at"})

\* Limits, tickets, webhooks, automation and the audit log.
CreatedDelivery ==
  "rate_limit_hits" :> Created(
    {"bucket_key", "hit_at"}, {},
    "rate_limit_hits_bucket_idx" :> {"bucket_key", "hit_at"} @@
    "rate_limit_hits_time_idx" :> {"hit_at"}) @@
  "realtime_tickets" :> Created(
    {"ticket", "user_id", "expires_at", "created_at"}, {{"ticket"}},
    "realtime_tickets_expires_idx" :> {"expires_at"}) @@
  "webhook_subscriptions" :> Created(
    {"id", "name", "target_url", "secret", "event_types", "enabled", "created_at",
     "updated_at"},
    {{"id"}}, "webhook_subscriptions_enabled_idx" :> {"enabled"}) @@
  "webhook_deliveries" :> Created(
    {"id", "subscription_id", "event_id", "event_type", "payload", "status",
     "attempts", "next_attempt_at", "response_status", "response_body", "error",
     "created_at", "updated_at", "delivered_at"},
    {{"id"}},
    "webhook_deliveries_subscription_idx" :> {"subscription_id"} @@
    "webhook_deliveries_status_idx" :> {"status"} @@
    "webhook_deliveries_next_attempt_idx" :> {"next_attempt_at"}) @@
  "automation_rules" :> Created(
    {"id", "name", "type", "enabled", "priority", "stop_on_match", "config",
     "created_at", "updated_at"},
    {{"id"}},
    "automation_rules_enabled_idx" :> {"enabled"} @@
    "automation_rules_type_idx" :> {"type"} @@
    "automation_rules_order_idx" :> {"enabled", "priority", "created_at"}) @@
  "audit_log" :> Created(
    {"id", "action", "user_id", "path", "data", "created_at"}, {{"id"}},
    "audit_log_created_idx" :> {"created_at"} @@
    "audit_log_action_idx" :> {"action"} @@
    "audit_log_user_idx" :> {"user_id"})

CreatedTables == CreatedSignIn @@ CreatedPage @@ CreatedFeature @@ CreatedDelivery

\* The columns that addColumn adds to a table of an earlier version.
AddedColumns ==
  "pages" :> {"lifecycle", "status", "labels", "icon", "cover_url", "cover_position",
              "owner_id", "review_at", "publish_at", "nav_order", "pinned", "space_key",
              "locale"} @@
  "assets" :> {"storage_name", "folder", "deleted_at"} @@
  "users" :> {"totp_secret", "totp_enabled", "disabled_at", "token_invalid_before",
              "email_verified_at", "profile_bio", "profile_cover_url", "profile_links",
              "profile_favorite_pages"} @@
  "link_previews" :> {"kind", "provider", "title", "description", "image", "author",
                      "site_name", "content_type", "data", "fetched_at", "expires_at"} @@
  "automation_rules" :> {"priority", "stop_on_match"}

-----------------------------------------------------------------------------
\* The columns of 255 characters, of 512, of TEXT (65,535 bytes), and the others: numbers
\* and the names of an enumeration.
Mysql(keyed, defaulted, text, other) ==
  [columns |-> keyed \union defaulted \union text \union other,
   room |-> [c \in keyed |-> 255] @@ [c \in defaulted |-> 512] @@ [c \in text |-> 65535]]

-----------------------------------------------------------------------------
(* db/postgres/schema.ts *)

\* Accounts and sign-in.
PostgresSignIn ==
  "schema_migrations" :> {"version", "applied_at"} @@
  "users" :>
    {"id", "email", "name", "password_hash", "role", "totp_secret", "totp_enabled",
     "disabled_at", "token_invalid_before", "email_verified_at", "profile_bio",
     "profile_cover_url", "profile_links", "profile_favorite_pages", "created_at"} @@
  "auth_accounts" :>
    {"id", "user_id", "provider", "provider_subject", "email", "created_at",
     "updated_at"} @@
  "oauth_states" :>
    {"state", "provider", "nonce", "code_verifier", "redirect_after", "expires_at",
     "created_at"} @@
  "password_resets" :> {"token", "user_id", "expires_at", "created_at"} @@
  "email_verifications" :>
    {"token", "user_id", "email", "expires_at", "created_at"} @@
  "passkeys" :>
    {"id", "user_id", "name", "public_key", "counter", "transports", "device_type",
     "backed_up", "created_at", "last_used_at"} @@
  "totp_recovery_codes" :> {"id", "user_id", "code_hash", "created_at", "used_at"} @@
  "webauthn_challenges" :>
    {"challenge", "user_id", "purpose", "expires_at", "created_at"} @@
  "api_keys" :>
    {"id", "name", "key_hash", "role", "expires_at", "last_used_at", "revoked_at",
     "created_at"}

\* Permissions and pages.
PostgresPage ==
  "groups" :> {"id", "key", "name", "description", "created_at"} @@
  "group_memberships" :> {"id", "user_id", "group_id", "created_at"} @@
  "permission_grants" :>
    {"id", "subject_type", "subject_id", "action", "effect", "created_at"} @@
  "page_rules" :>
    {"id", "subject_type", "subject_id", "action", "effect", "matcher", "pattern",
     "created_at"} @@
  "pages" :>
    {"id", "path", "title", "description", "icon", "cover_url", "cover_position",
     "content", "rendered_html", "toc", "content_type", "lifecycle", "status",
     "labels", "owner_id", "review_at", "publish_at", "nav_order", "pinned",
     "space_key", "locale", "author_id", "created_at", "updated_at"} @@
  "page_revisions" :>
    {"id", "page_id", "path", "title", "description", "content", "author_id",
     "action", "created_at"} @@
  "page_comments" :>
    {"id", "page_id", "path", "body", "author_id", "resolved_at", "created_at",
     "updated_at"} @@
  "page_watchers" :> {"user_id", "path", "created_at"} @@
  "notifications" :>
    {"id", "user_id", "kind", "path", "message", "payload", "read_at", "created_at"} @@
  "page_analytics" :> {"path", "views", "last_viewed_at"} @@
  "page_redirects" :> {"from_path", "to_path", "created_at"}

\* Features around the pages, and the two queues.
PostgresFeature ==
  "page_shares" :>
    {"token", "path", "created_by", "expires_at", "revoked_at", "created_at"} @@
  "page_templates" :>
    {"id", "name", "description", "icon", "content", "metadata", "created_by",
     "created_at", "updated_at"} @@
  "site_settings" :> {"key", "value", "updated_at"} @@
  "user_preferences" :> {"user_id", "key", "value", "updated_at"} @@
  "link_previews" :>
    {"url", "kind", "provider", "title", "description", "image", "author",
     "site_name", "content_type", "data", "fetched_at", "expires_at"} @@
  "assets" :>
    {"id", "filename", "storage_name", "folder", "mime", "size", "author_id",
     "created_at", "deleted_at"} @@
  "page_asset_refs" :> {"page_id", "asset_id"} @@
  "wiki_events" :>
    {"id", "source_id", "event_type", "action", "path", "from_path", "created_at"} @@
  "search_outbox" :>
    {"id", "page_id", "operation", "enqueued_at", "attempts", "next_attempt_at",
     "last_error"}

\* Limits, tickets, webhooks, automation and the audit log.
PostgresDelivery ==
  "rate_limit_hits" :> {"bucket_key", "hit_at"} @@
  "realtime_tickets" :> {"ticket", "user_id", "expires_at", "created_at"} @@
  "webhook_subscriptions" :>
    {"id", "name", "target_url", "secret", "event_types", "enabled", "created_at",
     "updated_at"} @@
  "webhook_deliveries" :>
    {"id", "subscription_id", "event_id", "event_type", "payload", "status",
     "attempts", "next_attempt_at", "response_status", "response_body", "error",
     "created_at", "updated_at", "delivered_at"} @@
  "automation_rules" :>
    {"id", "name", "type", "enabled", "priority", "stop_on_match", "config",
     "created_at", "updated_at"} @@
  "audit_log" :> {"id", "action", "user_id", "path", "data", "created_at"}

PostgresTables == PostgresSignIn @@ PostgresPage @@ PostgresFeature @@ PostgresDelivery

\* bigserial: the id comes from a sequence of its own, which an id that is given does not
\* move.
BigSerial == {"wiki_events", "search_outbox", "audit_log"}

-----------------------------------------------------------------------------
(* db/mysql/schema.ts *)

\* Accounts and sign-in.
MysqlSignIn ==
  "schema_migrations" :> Mysql({}, {}, {}, {"version", "applied_at"}) @@
  "users" :> Mysql(
    {"id", "email"}, {"profile_cover_url"},
    {"name", "password_hash", "totp_secret", "profile_bio", "profile_links",
     "profile_favorite_pages"},
    {"role", "totp_enabled", "disabled_at", "token_invalid_before",
     "email_verified_at", "created_at"}) @@
  "auth_accounts" :> Mysql(
    {"id", "user_id", "provider", "provider_subject"}, {}, {"email"},
    {"created_at", "updated_at"}) @@
  "oauth_states" :> Mysql(
    {"state"}, {}, {"provider", "nonce", "code_verifier", "redirect_after"},
    {"expires_at", "created_at"}) @@
  "password_resets" :> Mysql({"token", "user_id"}, {}, {}, {"expires_at", "created_at"}) @@
  "email_verifications" :> Mysql(
    {"token", "user_id"}, {}, {"email"}, {"expires_at", "created_at"}) @@
  "passkeys" :> Mysql(
    {"id", "user_id"}, {"transports", "device_type"}, {"name", "public_key"},
    {"counter", "backed_up", "created_at", "last_used_at"}) @@
  "totp_recovery_codes" :> Mysql(
    {"id", "user_id"}, {}, {"code_hash"}, {"created_at", "used_at"}) @@
  "webauthn_challenges" :> Mysql(
    {"challenge", "user_id"}, {}, {}, {"purpose", "expires_at", "created_at"}) @@
  "api_keys" :> Mysql(
    {"id", "key_hash"}, {}, {"name"},
    {"role", "expires_at", "last_used_at", "revoked_at", "created_at"})

\* Permissions and pages.
MysqlPage ==
  "groups" :> Mysql({"id", "key"}, {"description"}, {"name"}, {"created_at"}) @@
  "group_memberships" :> Mysql({"id", "user_id", "group_id"}, {}, {}, {"created_at"}) @@
  "permission_grants" :> Mysql(
    {"id", "subject_id"}, {}, {"action"}, {"subject_type", "effect", "created_at"}) @@
  "page_rules" :> Mysql(
    {"id", "subject_id", "pattern"}, {}, {"action"},
    {"subject_type", "effect", "matcher", "created_at"}) @@
  "pages" :> Mysql(
    {"id", "path"},
    {"description", "icon", "cover_url", "cover_position", "content_type",
     "space_key", "locale"},
    {"title", "content", "rendered_html", "toc", "labels", "owner_id", "author_id"},
    {"lifecycle", "status", "review_at", "publish_at", "nav_order", "pinned",
     "created_at", "updated_at"}) @@
  "page_revisions" :> Mysql(
    {"id", "page_id"}, {"description"}, {"path", "title", "content", "author_id"},
    {"action", "created_at"}) @@
  "page_comments" :> Mysql(
    {"id", "page_id", "path"}, {}, {"body", "author_id"},
    {"resolved_at", "created_at", "updated_at"}) @@
  "page_watchers" :> Mysql({"user_id", "path"}, {}, {}, {"created_at"}) @@
  "notifications" :> Mysql(
    {"id", "user_id"}, {}, {"kind", "path", "message", "payload"},
    {"read_at", "created_at"}) @@
  "page_analytics" :> Mysql({"path"}, {}, {}, {"views", "last_viewed_at"}) @@
  "page_redirects" :> Mysql({"from_path"}, {}, {"to_path"}, {"created_at"})

\* Features around the pages, and the two queues.
MysqlFeature ==
  "page_shares" :> Mysql(
    {"token", "path", "created_by"}, {}, {},
    {"expires_at", "revoked_at", "created_at"}) @@
  "page_templates" :> Mysql(
    {"id", "name"}, {"description", "icon"}, {"content", "metadata", "created_by"},
    {"created_at", "updated_at"}) @@
  "site_settings" :> Mysql({"key"}, {}, {"value"}, {"updated_at"}) @@
  "user_preferences" :> Mysql({"user_id", "key"}, {}, {"value"}, {"updated_at"}) @@
  "link_previews" :> Mysql(
    {"url"}, {"provider", "title", "description"},
    {"image", "author", "site_name", "content_type", "data"},
    {"kind", "fetched_at", "expires_at"}) @@
  "assets" :> Mysql(
    {"id"}, {"storage_name", "folder"}, {"filename", "mime", "author_id"},
    {"size", "created_at", "deleted_at"}) @@
  "page_asset_refs" :> Mysql({"page_id", "asset_id"}, {}, {}, {}) @@
  "wiki_events" :> Mysql(
    {}, {}, {"source_id", "path", "from_path"},
    {"id", "event_type", "action", "created_at"}) @@
  "search_outbox" :> Mysql(
    {"page_id"}, {}, {"last_error"},
    {"id", "operation", "enqueued_at", "attempts", "next_attempt_at"})

\* Limits, tickets, webhooks, automation and the audit log.
MysqlDelivery ==
  "rate_limit_hits" :> Mysql({"bucket_key"}, {}, {}, {"hit_at"}) @@
  "realtime_tickets" :> Mysql({"ticket"}, {}, {"user_id"}, {"expires_at", "created_at"}) @@
  "webhook_subscriptions" :> Mysql(
    {"id"}, {}, {"name", "target_url", "secret", "event_types"},
    {"enabled", "created_at", "updated_at"}) @@
  "webhook_deliveries" :> Mysql(
    {"id", "subscription_id"}, {},
    {"event_id", "event_type", "payload", "response_body", "error"},
    {"status", "attempts", "next_attempt_at", "response_status", "created_at",
     "updated_at", "delivered_at"}) @@
  "automation_rules" :> Mysql(
    {"id"}, {}, {"name", "config"},
    {"type", "enabled", "priority", "stop_on_match", "created_at", "updated_at"}) @@
  "audit_log" :> Mysql({"action", "user_id"}, {}, {"path", "data"}, {"id", "created_at"})

MysqlTables == MysqlSignIn @@ MysqlPage @@ MysqlFeature @@ MysqlDelivery

-----------------------------------------------------------------------------
(* The migrations: one transaction that brings a database of any earlier   *)
(* version to the schema, while other processes start as well, serve or    *)
(* stop at any point.  Of a row only what the migrations read or write is  *)
(* kept: whether a page is active, whether the address of an account is    *)
(* verified, and the type and the configuration of an automation rule.     *)

CONSTANTS
  Servers,        \* processes that open the database
  Layouts,        \* the databases to start from: what each one is still without
  WikiPages, WikiUsers, WikiRules,
  MaxStarts,      \* bound on the starts of all processes
  MaxWikiSteps    \* bound on what is done to the wiki

VARIABLES
  found,          \* the layout the behaviour begins with
  sqlite,         \* the committed database
  servers,        \* the state of each process
  lock,           \* who holds the write lock
  work,           \* the database as the transaction sees it, and where it is
  confirmed,      \* history: who verified the address, or had an account before there was
                  \* such a thing
  starts, wikiSteps

migrationVars == <<found, sqlite, servers, lock, work, confirmed, starts, wikiSteps>>

NoServer == "no server"
Idle == [db |-> <<>>, added |-> FALSE, step |-> 0]

-----------------------------------------------------------------------------
(* The database of an earlier version. *)

AllColumns(t) ==
  CreatedTables[t].columns
    \union (IF t \in DOMAIN AddedColumns THEN AddedColumns[t] ELSE {})

LaidOut(layout) ==
  LET tables == DOMAIN CreatedTables \ layout.tables
      columns == [t \in tables |-> AllColumns(t) \ {c \in AllColumns(t) : <<t, c>> \in layout.columns}]
  IN  [columns |-> columns,
       indexes |-> UNION {{i \in DOMAIN CreatedTables[t].indexes :
                             CreatedTables[t].indexes[i] \subseteq columns[t]} : t \in tables},
       search |-> layout.search]

\* What the queries of this version need.
Whole(db) ==
  /\ \A t \in DOMAIN DeclaredTables :
       /\ t \in DOMAIN db.columns
       /\ DeclaredTables[t].columns \subseteq db.columns[t]
       /\ DeclaredTables[t].indexes \subseteq db.indexes
  /\ db.search = "new"

-----------------------------------------------------------------------------
(* The steps of runMigrations.  A step is [ok, db]: a statement that       *)
(* fails throws.                                                           *)

\* CREATE TABLE IF NOT EXISTS and CREATE INDEX IF NOT EXISTS: an index of a table that was
\* there needs columns that only a later step adds.
CreateTables(db) ==
  LET columns == [t \in DOMAIN CreatedTables |->
                    IF t \in DOMAIN db.columns THEN db.columns[t] ELSE CreatedTables[t].columns]
      Missing(t) == DOMAIN CreatedTables[t].indexes \ db.indexes
  IN  [ok |-> \A t \in DOMAIN CreatedTables : \A i \in Missing(t) :
                CreatedTables[t].indexes[i] \subseteq columns[t],
       db |-> [db EXCEPT !.columns = columns,
                         !.indexes = @ \union UNION {Missing(t) : t \in DOMAIN CreatedTables}]]

\* createSearchTable, and populateSearchTable when the table there has no comments.
Active(db) == {p \in WikiPages : db.pages[p] = "active"}
CreateSearch(db) ==
  CASE db.search = "none" -> [ok |-> TRUE, db |-> [db EXCEPT !.search = "new"]]
    [] db.search = "old" ->
         [ok |-> /\ "lifecycle" \in db.columns["pages"]
                 /\ {"storage_name", "folder", "deleted_at"} \subseteq db.columns["assets"],
          db |-> [db EXCEPT !.search = "new", !.hits = Active(db)]]
    [] db.search = "new" -> [ok |-> TRUE, db |-> db]

\* addColumn, for every column the table has not got.
AddColumns(db) ==
  [ok |-> TRUE,
   db |-> [db EXCEPT !.columns =
             [t \in DOMAIN db.columns |->
                db.columns[t] \union (IF t \in DOMAIN AddedColumns THEN AddedColumns[t] ELSE {})]]]

\* migrateLegacyAutomationRules: what the configuration does not say, or cannot be read,
\* becomes the label "invalid".
EventRule(rule) ==
  CASE rule = "sets a label" -> "event: sets a label"
    [] rule \in {"sets nothing", "unreadable"} -> "event: sets the label invalid"
    [] OTHER -> rule
ConvertRules(db) ==
  [ok |-> TRUE, db |-> [db EXCEPT !.rules = [r \in WikiRules |-> EventRule(db.rules[r])]]]

\* Faulty: every start verifies the addresses that are not.
GrandfatherAlways(db, added) ==
  [ok |-> TRUE,
   db |-> [db EXCEPT !.users =
             [u \in WikiUsers |-> IF db.users[u] = "pending" THEN "verified" ELSE db.users[u]]]]

\* The accounts of a database that did not know of verification are verified.
Grandfather(db, added) ==
  [ok |-> TRUE,
   db |-> IF added
          THEN [db EXCEPT !.users = [u \in WikiUsers |->
                  IF db.users[u] = "pending" THEN "verified" ELSE db.users[u]]]
          ELSE db]

\* assertSchemaMatchesDatabase.
AssertSchema(db) == [ok |-> Whole(db), db |-> db]

Steps == <<"tables", "search", "columns", "rules", "accounts", "assert">>
Step(name, db, added) ==
  CASE name = "tables" -> CreateTables(db)
    [] name = "search" -> CreateSearch(db)
    [] name = "columns" -> AddColumns(db)
    [] name = "rules" -> ConvertRules(db)
    [] name = "accounts" -> Grandfather(db, added)
    [] name = "assert" -> AssertSchema(db)

-----------------------------------------------------------------------------
(* Starting a server: runMigrationsAtomically. *)

\* The database of a layout with these rows.  An empty database has none; the search is
\* what the version that wrote it made of the pages; a table without a column has no value
\* in it.
Found(layout, pages, users, rules) ==
  /\ layout.tables = DOMAIN CreatedTables =>
       \A p \in WikiPages, u \in WikiUsers, r \in WikiRules :
         pages[p] = "none" /\ users[u] = "none" /\ rules[r] = "none"
  /\ <<"users", "email_verified_at">> \in layout.columns => \A u \in WikiUsers : users[u] # "verified"
  /\ <<"pages", "lifecycle">> \in layout.columns => \A p \in WikiPages : pages[p] # "archived"
  /\ found = layout
  /\ sqlite = LaidOut(layout) @@
       [pages |-> pages, users |-> users, rules |-> rules,
        hits |-> IF layout.search = "none" THEN {} ELSE {p \in WikiPages : pages[p] = "active"}]
  /\ servers = [s \in Servers |-> "down"]
  /\ lock = NoServer
  /\ work = Idle
  /\ confirmed = {u \in WikiUsers : \/ users[u] = "verified"
                                    \/ /\ users[u] = "pending"
                                       /\ <<"users", "email_verified_at">> \in layout.columns}
  /\ starts = 0
  /\ wikiSteps = 0

MigrationInit ==
  \E layout \in Layouts,
     pages \in [WikiPages -> {"none", "active", "archived"}],
     users \in [WikiUsers -> {"none", "pending", "verified"}],
     rules \in [WikiRules -> {"none", "sets a label", "sets nothing", "unreadable"}] :
    Found(layout, pages, users, rules)

Start(s) ==
  /\ servers[s] \in {"down", "refused"}
  /\ starts < MaxStarts
  /\ starts' = starts + 1
  /\ servers' = [servers EXCEPT ![s] = "opening"]
  /\ UNCHANGED <<found, sqlite, lock, work, confirmed, wikiSteps>>

\* BEGIN IMMEDIATE.
Begin(s) ==
  /\ servers[s] = "opening"
  /\ lock = NoServer
  /\ lock' = s
  /\ work' = [db |-> sqlite, added |-> FALSE, step |-> 1]
  /\ servers' = [servers EXCEPT ![s] = "migrating"]
  /\ UNCHANGED <<found, sqlite, confirmed, starts, wikiSteps>>

\* The lock is held for longer than busy_timeout.
Busy(s) ==
  /\ servers[s] = "opening"
  /\ lock # NoServer
  /\ servers' = [servers EXCEPT ![s] = "down"]
  /\ UNCHANGED <<found, sqlite, lock, work, confirmed, starts, wikiSteps>>

\* One step, or ROLLBACK and the error that ends the process.
Migrate(s) ==
  /\ lock = s
  /\ work.step <= Len(Steps)
  /\ LET step == Step(Steps[work.step], work.db, work.added)
         lacked == "users" \in DOMAIN work.db.columns
                     /\ "email_verified_at" \notin work.db.columns["users"]
     IN  IF step.ok
         THEN /\ work' = [db |-> step.db,
                          added |-> work.added \/ (Steps[work.step] = "columns" /\ lacked),
                          step |-> work.step + 1]
              /\ UNCHANGED <<lock, servers>>
         ELSE /\ work' = Idle
              /\ lock' = NoServer
              /\ servers' = [servers EXCEPT ![s] = "refused"]
  /\ UNCHANGED <<found, sqlite, confirmed, starts, wikiSteps>>

Commit(s) ==
  /\ lock = s
  /\ work.step > Len(Steps)
  /\ sqlite' = work.db
  /\ lock' = NoServer
  /\ work' = Idle
  /\ servers' = [servers EXCEPT ![s] = "serving"]
  /\ UNCHANGED <<found, confirmed, starts, wikiSteps>>

\* The process stops; SQLite forgets what it had not committed.
Stop(s) ==
  /\ servers[s] \in {"opening", "migrating", "serving"}
  /\ servers' = [servers EXCEPT ![s] = "down"]
  /\ lock' = IF lock = s THEN NoServer ELSE lock
  /\ work' = IF lock = s THEN Idle ELSE work
  /\ UNCHANGED <<found, sqlite, confirmed, starts, wikiSteps>>

-----------------------------------------------------------------------------
(* What a server does meanwhile (services/users.ts, services/pages.ts).    *)

Serving ==
  /\ \E s \in Servers : servers[s] = "serving"
  /\ lock = NoServer
  /\ wikiSteps < MaxWikiSteps
  /\ wikiSteps' = wikiSteps + 1
  /\ UNCHANGED <<found, servers, lock, work, starts>>

Register(u) ==
  /\ Serving
  /\ sqlite.users[u] = "none"
  /\ sqlite' = [sqlite EXCEPT !.users[u] = "pending"]
  /\ UNCHANGED confirmed

ConfirmAddress(u) ==
  /\ Serving
  /\ sqlite.users[u] = "pending"
  /\ sqlite' = [sqlite EXCEPT !.users[u] = "verified"]
  /\ confirmed' = confirmed \union {u}

SavePage(p) ==
  /\ Serving
  /\ sqlite' = [sqlite EXCEPT !.pages[p] = "active", !.hits = @ \union {p}]
  /\ UNCHANGED confirmed

ArchivePage(p) ==
  /\ Serving
  /\ sqlite.pages[p] = "active"
  /\ sqlite' = [sqlite EXCEPT !.pages[p] = "archived", !.hits = @ \ {p}]
  /\ UNCHANGED confirmed

MigrationNext ==
  \/ \E s \in Servers : Start(s) \/ Begin(s) \/ Busy(s) \/ Migrate(s) \/ Commit(s) \/ Stop(s)
  \/ \E u \in WikiUsers : Register(u) \/ ConfirmAddress(u)
  \/ \E p \in WikiPages : SavePage(p) \/ ArchivePage(p)

-----------------------------------------------------------------------------

\* What is committed is the database as it was found, or all of what this version needs.
WholeOrAsFound == Whole(sqlite) \/ LaidOut(found).columns = sqlite.columns

\* Whoever serves has every column, every index and every active page in the search.
ServersHaveTheirSchema ==
  (\E s \in Servers : servers[s] = "serving") =>
    Whole(sqlite) /\ sqlite.hits = Active(sqlite)

\* An account that waits for its address to be verified waits through every start: only
\* the accounts of a database that had no such column are taken as verified.
PendingAccountsStayPending ==
  \A u \in WikiUsers : sqlite.users[u] = "verified" => u \in confirmed

\* A start fails only on a database of an earlier version whose tables have an index
\* before they have its columns, or whose search is rebuilt from columns not yet there.
KnownToBeRefused(layout) ==
  \/ \E t \in DOMAIN CreatedTables \ layout.tables : \E i \in DOMAIN CreatedTables[t].indexes :
       \E c \in CreatedTables[t].indexes[i] : <<t, c>> \in layout.columns
  \/ /\ layout.search = "old"
     /\ {<<"pages", "lifecycle">>, <<"assets", "storage_name">>, <<"assets", "folder">>,
         <<"assets", "deleted_at">>} \intersect layout.columns # {}
StartsFailOnlyIfKnown ==
  \A s \in Servers : servers[s] = "refused" => KnownToBeRefused(found)

MigrationInv ==
  /\ WholeOrAsFound
  /\ ServersHaveTheirSchema
  /\ PendingAccountsStayPending
  /\ StartsFailOnlyIfKnown

-----------------------------------------------------------------------------
(* The tool, and what it needs of the target's migrations                  *)
(* (db/postgres/migrate.ts, db/mysql/migrate.ts): it may stop after any    *)
(* statement and be run again, and a server then starts on what it has     *)
(* made. A row is [id, name, longest]: name is its second key, if any,     *)
(* and longest gives the length of a value longer than 255 characters.     *)

CONSTANTS
  CopyOrder,      \* the tables, in the order of the exports of db/schema.ts: their names'
  Sources,        \* the rows of each table of SQLite, to choose from
  Booted,         \* the rows a server leaves in an empty database when it starts
  InsertChunk,    \* INSERT_CHUNK
  TargetDrivers,  \* of "postgres" and "mysql", to choose from
  MaxToolRuns     \* bound on the runs of the tool, and on what is inserted after

VARIABLES
  driver,         \* the target's
  source,         \* the rows of SQLite, that nobody writes meanwhile
  target,         \* the rows of each table there is
  sequences,      \* the last id each sequence, or AUTO_INCREMENT, has given
  index,          \* the pages in page_search
  tool,           \* what the tool is doing, and how far it is
  outcome,        \* what the last run that wrote came to
  verified,       \* the last --verify found no difference
  fresh,          \* nothing has been written by a server yet
  refusedIds,     \* history: the tables whose inserts met an id that was taken
  toolRuns

copyVars ==
  <<driver, source, target, sequences, index, tool, outcome, verified, fresh, refusedIds,
    toolRuns>>

CopiedTables == ToSet(CopyOrder)
Resting == [does |-> "nothing", mode |-> "none", table |-> 1, from |-> 1]
Rows(t) == IF t \in DOMAIN target THEN target[t] ELSE <<>>
Ids(rows) == {rows[i].id : i \in DOMAIN rows}
MaxId(rows) == FoldSeq(LAMBDA row, most : IF row.id > most THEN row.id ELSE most, 0, rows)

\* Faulty: one of them is forgotten.
OneSerialIdTable == {"audit_log"}

\* The sequences that finalize moves (SERIAL_ID_TABLES).
SerialIdTables == {"wiki_events", "audit_log"}

-----------------------------------------------------------------------------
(* CREATE TABLE IF NOT EXISTS, and what an INSERT of the target refuses.   *)

\* All tables in one transaction.
PostgresStatements == [t \in CopiedTables |-> <<>>]

\* One statement a table, each committed by itself.
MysqlStatement(n) == CopyOrder[n] :> <<>>

Fits(t, row) ==
  driver = "mysql" =>
    \A c \in DOMAIN row.longest :
      c \in DOMAIN MysqlTables[t].room => row.longest[c] <= MysqlTables[t].room[c]

Clashes(t, row) ==
  /\ CreatedTables[t].keys # {}
  /\ \E i \in DOMAIN Rows(t) :
       \/ Rows(t)[i].id = row.id
       \/ Rows(t)[i].name = row.name /\ row.name # "unnamed"

\* The statement inserts all of the rows or none; MySQL goes on from the highest id.
Insertable(t, rows) == \A i \in DOMAIN rows : Fits(t, rows[i]) /\ ~Clashes(t, rows[i])
Inserted(t, rows) == [target EXCEPT ![t] = @ \o rows]
SequencesAfter(t, rows) ==
  IF driver = "mysql" /\ t \in DOMAIN sequences /\ MaxId(rows) > sequences[t]
  THEN [sequences EXCEPT ![t] = MaxId(rows)]
  ELSE sequences

-----------------------------------------------------------------------------

Moving(to, wiki, there) ==
  /\ driver = to
  /\ source = wiki
  /\ target = there
  /\ sequences = [t \in BigSerial \intersect CopiedTables |-> 0]
  /\ index = {}
  /\ tool = Resting
  /\ outcome = "none"
  /\ verified = FALSE
  /\ fresh = TRUE
  /\ refusedIds = {}
  /\ toolRuns = 0

\* The target is empty, or a server has started on it.
CopyInit ==
  \E to \in TargetDrivers, wiki \in Sources, there \in {<<>>, [t \in CopiedTables |-> Booted[t]]} :
    Moving(to, wiki, there)

\* The command: the driver's schema is created before anything else is done.
RunTool(mode) ==
  /\ tool = Resting
  /\ fresh
  /\ toolRuns < MaxToolRuns
  /\ toolRuns' = toolRuns + 1
  /\ tool' = [does |-> "create", mode |-> mode, table |-> 1, from |-> 1]
  /\ outcome' = IF mode = "apply" THEN "none" ELSE outcome
  /\ UNCHANGED <<driver, source, target, sequences, index, verified, fresh, refusedIds>>

\* runPostgresMigrations, runMysqlMigrations: what is there stays as it is.
CreateTarget ==
  /\ tool.does = "create"
  /\ LET last == driver = "postgres" \/ tool.table = Len(CopyOrder)
     IN  /\ target' = target @@ (IF driver = "postgres" THEN PostgresStatements
                                ELSE MysqlStatement(tool.table))
         /\ tool' = IF last THEN [tool EXCEPT !.does = tool.mode, !.table = 1]
                    ELSE [tool EXCEPT !.table = @ + 1]
  /\ UNCHANGED <<driver, source, sequences, index, outcome, verified, fresh, refusedIds, toolRuns>>

\* migrateToDriver: a target with a user is refused, and any other is not.
CheckEmpty ==
  /\ tool.does = "apply"
  /\ tool' = IF Rows("users") = <<>> THEN [tool EXCEPT !.does = "copy"] ELSE Resting
  /\ outcome' = IF Rows("users") = <<>> THEN outcome ELSE "refused"
  /\ UNCHANGED <<driver, source, target, sequences, index, verified, fresh, refusedIds, toolRuns>>

\* Faulty: the chunk after the first begins a row too late.
NextTooLate(from) == from + InsertChunk + 1

NextFrom(from) == from + InsertChunk

\* One chunk of one table, or on to the next; a statement that fails ends the run and
\* leaves what the ones before it inserted.
CopyChunk ==
  /\ tool.does = "copy"
  /\ tool.table <= Len(CopyOrder)
  /\ LET t == CopyOrder[tool.table]
         chunk == SubSeq(source[t], tool.from,
                         IF tool.from + InsertChunk - 1 < Len(source[t])
                         THEN tool.from + InsertChunk - 1 ELSE Len(source[t]))
     IN  IF tool.from > Len(source[t])
         THEN /\ tool' = [tool EXCEPT !.table = @ + 1, !.from = 1]
              /\ UNCHANGED <<target, sequences, outcome>>
         ELSE IF Insertable(t, chunk)
         THEN /\ target' = Inserted(t, chunk)
              /\ sequences' = SequencesAfter(t, chunk)
              /\ tool' = [tool EXCEPT !.from = NextFrom(@)]
              /\ UNCHANGED outcome
         ELSE /\ tool' = Resting
              /\ outcome' = "failed"
              /\ UNCHANGED <<target, sequences>>
  /\ UNCHANGED <<driver, source, index, verified, fresh, refusedIds, toolRuns>>

\* finalize: setval on PostgreSQL, one table after the other, and then the rebuild of the
\* search, which ends the run.
Finalize ==
  /\ tool.does = "copy"
  /\ tool.table > Len(CopyOrder)
  /\ LET behind == {t \in SerialIdTables \intersect CopiedTables :
                      sequences[t] < (IF Rows(t) = <<>> THEN 1 ELSE MaxId(Rows(t)))}
     IN  IF driver = "postgres" /\ behind # {}
         THEN /\ \E t \in behind :
                   sequences' = [sequences EXCEPT ![t] =
                                   IF Rows(t) = <<>> THEN 1 ELSE MaxId(Rows(t))]
              /\ UNCHANGED <<index, tool, outcome>>
         ELSE /\ index' = Ids(Rows("pages"))
              /\ tool' = Resting
              /\ outcome' = "done"
              /\ UNCHANGED sequences
  /\ UNCHANGED <<driver, source, target, verified, fresh, refusedIds, toolRuns>>

\* --dry-run counts the rows of the source.
DryRun ==
  /\ tool.does = "dry-run"
  /\ tool' = Resting
  /\ UNCHANGED <<driver, source, target, sequences, index, outcome, verified, fresh, refusedIds, toolRuns>>

\* verifyMigration: as many rows in every table, and the same, in whatever order.
SameRows(t) ==
  /\ Len(source[t]) = Len(Rows(t))
  /\ ToSet(source[t]) = ToSet(Rows(t))
Verify ==
  /\ tool.does = "verify"
  /\ tool' = Resting
  /\ verified' = \A t \in CopiedTables : SameRows(t)
  /\ UNCHANGED <<driver, source, target, sequences, index, outcome, fresh, refusedIds, toolRuns>>

\* The tool, or its connection, ends.
StopTool ==
  /\ tool # Resting
  /\ tool' = Resting
  /\ outcome' = IF tool.does \in {"apply", "copy"} THEN "failed" ELSE outcome
  /\ UNCHANGED <<driver, source, target, sequences, index, verified, fresh, refusedIds, toolRuns>>

\* A server on the target inserts a row whose id the database makes: an event, an entry of
\* the audit log or of the search outbox.  PostgreSQL does not take an id back.
ServerInserts(t) ==
  /\ tool = Resting
  /\ outcome = "done" \/ verified
  /\ toolRuns < MaxToolRuns
  /\ toolRuns' = toolRuns + 1
  /\ fresh' = FALSE
  /\ sequences' = [sequences EXCEPT ![t] = @ + 1]
  /\ LET row == [id |-> sequences[t] + 1, name |-> "unnamed", longest |-> <<>>]
     IN  IF Clashes(t, row)
         THEN refusedIds' = refusedIds \union {t} /\ UNCHANGED target
         ELSE target' = Inserted(t, <<row>>) /\ UNCHANGED refusedIds
  /\ UNCHANGED <<driver, source, index, tool, outcome, verified>>

CopyNext ==
  \/ \E mode \in {"apply", "dry-run", "verify"} : RunTool(mode)
  \/ CreateTarget \/ CheckEmpty \/ CopyChunk \/ Finalize \/ DryRun \/ Verify \/ StopTool
  \/ \E t \in DOMAIN sequences : ServerInserts(t)

-----------------------------------------------------------------------------

\* The three schemas have the same tables and columns, and every column is created.
SchemasAgree ==
  /\ DOMAIN DeclaredTables = DOMAIN CreatedTables
  /\ DOMAIN DeclaredTables = DOMAIN PostgresTables
  /\ DOMAIN DeclaredTables = DOMAIN MysqlTables
  /\ \A t \in DOMAIN DeclaredTables :
       /\ DeclaredTables[t].columns = PostgresTables[t]
       /\ DeclaredTables[t].columns = MysqlTables[t].columns

\* A run that ends well has copied all of the source and nothing else, and the search of
\* the target knows its pages; a target that is verified has at least the former.
CopiesAreWhole ==
  fresh =>
    /\ outcome = "done" \/ verified => \A t \in CopiedTables : SameRows(t)
    /\ outcome = "done" => index = Ids(source["pages"])

\* Whatever was copied before a run failed, no later one copies it again.
NothingIsCopiedTwice ==
  fresh =>
    \A t \in CopiedTables : \A r \in ToSet(source[t]) :
      Cardinality({i \in DOMAIN Rows(t) : Rows(t)[i] = r})
        <= Cardinality({i \in DOMAIN source[t] : source[t][i] = r})

\* The comments of db/cross-driver-migrate.ts (lines 9 and 35) say that on PostgreSQL every
\* sequence is moved past the copied ids, so that later inserts do not collide.  The code
\* does it for SERIAL_ID_TABLES only.  search_outbox has a sequence as well and is not
\* listed: it, and no other, stays behind after a run that ends well, as long as no server
\* has inserted anything.
Behind == {t \in DOMAIN sequences : sequences[t] < MaxId(Rows(t))}
OnlyTheOutboxIsBehind ==
  fresh /\ outcome = "done" =>
    Behind = IF driver = "mysql" \/ source["search_outbox"] = <<>> THEN {}
             ELSE {"search_outbox"}

\* A server on the target that inserts into a table whose sequence is behind is refused: of
\* search_outbox, or, where a run that stopped before finalize was verified all the same, of
\* any of the three.  No other insert is refused.
KnownBehind ==
  IF driver = "mysql" THEN {}
  ELSE IF outcome = "done" THEN {"search_outbox"} ELSE BigSerial
RefusedIdsAreKnown == refusedIds \subseteq KnownBehind

CopyInv ==
  /\ SchemasAgree /\ CopiesAreWhole /\ NothingIsCopiedTwice
  /\ OnlyTheOutboxIsBehind /\ RefusedIdsAreKnown

=============================================================================
