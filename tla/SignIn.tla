-------------------------------- MODULE SignIn --------------------------------
(***************************************************************************)
(* How one user gets in: passwords and sessions, one-time rows (password   *)
(* resets, e-mail verifications, tickets of realtime sockets, states of    *)
(* OIDC logins, challenges of passkeys), two-factor codes, passkeys and    *)
(* API keys (http/routes/auth.ts, http/app.ts, services/users.ts,          *)
(* auth-recovery.ts, totp.ts, passkeys.ts, oidc.ts, api-keys.ts).          *)
(*                                                                         *)
(* Requests interleave between their statements.  SQLite's transactions    *)
(* are synchronous; on PostgreSQL and MySQL a row is read without a lock   *)
(* and deleted by a later statement, save the tickets.  A behaviour stays  *)
(* in one area, so that the areas are added up and not multiplied.         *)
(* Passwords and codes are right: wrong ones change nothing.               *)
(***************************************************************************)
EXTENDS Naturals, FiniteSets

CONSTANTS
  Attempts,
  Areas,       \* of "password", "rows", "totp", "passkey", "key"
  Overlaps,    \* what may overlap: "changes" of the password, "totp" requests
  Databases,   \* of "sqlite", "server"
  Codes,       \* recovery codes
  MaxTime,     \* bound on the clock, in milliseconds
  MaxRows      \* bound on one-time rows

\* A recovery code is no row.
ASSUME SignInAssumption ==
  /\ MaxTime \in Nat \ {0} /\ MaxRows \in Nat
  /\ Codes \cap 1..MaxRows = {}

VARIABLES
  area,
  database,
  now,
  user,      \* invalidBefore, disabled, verified; secret and enabled of TOTP
  sessions,  \* the iatMs of the tokens that were signed
  rows,      \* the one-time rows
  lastRow,
  codes,     \* the recovery codes that are not used
  counter,   \* of the passkey
  key,       \* revokedAt and lastUsedAt of the API key, 0 for null
  logins,
  spent,     \* how often each row and each code was accepted
  shared     \* history: the rows a request read while another was about to delete them

signVars == <<area, database, now, user, sessions, rows, lastRow, codes, counter, key, logins,
              spent, shared>>
rowPart == <<rows, lastRow, codes, spent, shared>>

Kinds == {"reset", "verification", "ticket", "state", "challenge"}
\* The tables that keep one row for a user.
Replaced == {"reset", "verification"}
Ids == 1 .. MaxRows
NoAttempt == [op |-> "free", at |-> "none"]

SignInit ==
  /\ area \in Areas /\ database \in Databases
  /\ now = 1
  /\ user = [invalidBefore |-> 0, disabled |-> FALSE, verified |-> FALSE, secret |-> 0,
              enabled |-> FALSE]
  /\ sessions = {} /\ rows = {} /\ lastRow = 0
  /\ codes = {} /\ counter = 0
  /\ key = [revokedAt |-> 0, lastUsedAt |-> 0]
  /\ logins = [r \in Attempts |-> NoAttempt]
  /\ spent = [x \in Ids \cup Codes |-> 0] /\ shared = {}

BeginAttempt(r, req) == logins[r] = NoAttempt /\ logins' = [logins EXCEPT ![r] = req]
Proceed(r, req) == logins' = [logins EXCEPT ![r] = req]
EndAttempt(r) == Proceed(r, NoAttempt)
Spend(x) == spent' = [spent EXCEPT ![x] = @ + 1]

Tick ==
  /\ now < MaxTime
  /\ now' = now + 1
  /\ UNCHANGED <<area, database, user, sessions, counter, key, logins, rowPart>>

-----------------------------------------------------------------------------
(* Sessions and passwords.                                                 *)

\* signAuthToken and principalForToken.
SignAuthToken == sessions' = sessions \cup {now}
Admitted(issuedAt) == ~ user.disabled /\ ~ user.invalidBefore > issuedAt

\* login reads the row and compares the password; with two factors a code follows.
Login(r) ==
  /\ area \in {"password", "totp"}
  /\ ~ user.disabled
  /\ BeginAttempt(r, [op |-> "login", at |-> IF user.enabled THEN "code" ELSE "sign"])
  /\ UNCHANGED <<area, database, now, user, sessions, counter, key, rowPart>>

SignIn(r) ==
  /\ logins[r].op = "login" /\ logins[r].at = "sign"
  /\ SignAuthToken
  /\ EndAttempt(r)
  /\ UNCHANGED <<area, database, now, user, counter, key, rowPart>>

Changes == {r \in Attempts : logins[r].op = "change"}

\* changePassword, setUserPassword and deactivateUser: the row is read, the password
\* hashed, and the present time stamped.
StartChange(r, disable) ==
  /\ area = "password"
  /\ ~ user.disabled
  /\ Changes = {} \/ "changes" \in Overlaps
  /\ BeginAttempt(r, [op |-> "change", at |-> "write", disable |-> disable, stamp |-> now,
                      row |-> 0])
  /\ UNCHANGED <<area, database, now, user, sessions, counter, key, rowPart>>

\* Faulty: the time of the change is not written.
WriteChangeUnstamped(r) ==
  LET req == logins[r]
  IN  /\ req.op = "change" /\ req.at = "write" /\ req.row = 0
      /\ user' = [user EXCEPT !.disabled = @ \/ req.disable, !.invalidBefore = 0]
      /\ EndAttempt(r)
      /\ UNCHANGED <<area, database, now, sessions, counter, key, rowPart>>

WriteChange(r) ==
  LET req == logins[r]
  IN  /\ req.op = "change" /\ req.at = "write" /\ req.row = 0
      /\ user' = [user EXCEPT !.disabled = @ \/ req.disable, !.invalidBefore = req.stamp]
      /\ EndAttempt(r)
      /\ UNCHANGED <<area, database, now, sessions, counter, key, rowPart>>

-----------------------------------------------------------------------------
(* One-time rows.                                                          *)

\* Challenges of passkeys are still valid in the millisecond they expire.
Valid(row) == row.expiresAt > now \/ (row.kind = "challenge" /\ row.expiresAt = now)
\* cleanupExpired, of the two tables of the recovery together or of one other table.
Cleaned(kind) ==
  {row \in rows : Valid(row) \/ (row.kind # kind /\ ~ {row.kind, kind} \subseteq Replaced)}

\* sendReset, sendEmailVerification, mintRealtimeTicket, startLogin, storeChallenge.
Issue(kind) ==
  /\ kind \in CASE area = "rows" -> Kinds
               [] area = "password" -> {"reset"}
               [] area = "passkey" -> {"challenge"}
               [] OTHER -> {}
  /\ lastRow < MaxRows /\ lastRow' = lastRow + 1
  /\ kind \in Replaced => ~ user.disabled
  /\ rows' = {row \in Cleaned(kind) : row.kind = kind => kind \notin Replaced}
             \cup {[kind |-> kind, id |-> lastRow', expiresAt |-> now + 1]}
  /\ UNCHANGED <<area, database, now, user, sessions, codes, counter, key, logins, spent, shared>>

\* Faulty: the row stays.
ConsumeKeeping(row) == Valid(row) /\ rows' = rows /\ Spend(row.id)

\* The row is found, still valid, and deleted in one transaction.
Consume(row) == Valid(row) /\ rows' = rows \ {row} /\ Spend(row.id)

\* A ticket is deleted where it is returned, or locked where it is read.
OneStep(kind) == database = "sqlite" \/ kind = "ticket"

\* Elsewhere a server has read the row, and will delete it.
Holders(id) == {r \in Attempts : logins[r].at = "delete" /\ logins[r].row = id}

ReadRow(row) == shared' = IF Holders(row.id) = {} THEN shared ELSE shared \cup {row.id}

\* Faulty: it stays.
DeleteRowKeeping(req) == rows' = rows /\ Spend(req.row)

\* The row is accepted whether or not the statement finds it; the rows of a user go together.
DeleteRow(req) ==
  /\ rows' = {row \in rows : row.id # req.row /\ (row.kind = req.kind => req.kind \notin Replaced)}
  /\ Spend(req.row)

\* A row that expired: the request that brings it deletes it and is refused, or cleanup does.
Discard(row) ==
  /\ row \in rows /\ ~ Valid(row)
  /\ rows' = rows \ {row}
  /\ UNCHANGED <<area, database, now, user, sessions, lastRow, codes, counter, key, logins,
                 spent, shared>>

Verified(kind) == IF kind = "verification" THEN [user EXCEPT !.verified = TRUE] ELSE user

\* A ticket opens a socket, a state ends an OIDC login, a verification marks the user.
Redeem(row) ==
  /\ area = "rows"
  /\ row \in rows /\ row.kind \in {"ticket", "state", "verification"} /\ OneStep(row.kind)
  /\ row.kind \in Replaced => ~ user.disabled
  /\ Consume(row)
  /\ user' = Verified(row.kind)
  /\ UNCHANGED <<area, database, now, sessions, lastRow, codes, counter, key, logins, shared>>

\* The same on a server, and a passkey's challenge: the row and its user are read.
Present(r, row) ==
  /\ row \in rows /\ ~ OneStep(row.kind) /\ Valid(row)
  /\ \/ area = "rows" /\ row.kind \in {"state", "verification"}
     \/ area = "passkey" /\ row.kind = "challenge"
  /\ row.kind \in Replaced => ~ user.disabled
  /\ ReadRow(row)
  /\ BeginAttempt(r, [op |-> "present", at |-> "delete", row |-> row.id, kind |-> row.kind])
  /\ UNCHANGED <<area, database, now, user, sessions, rows, lastRow, codes, counter, key, spent>>

\* It is deleted; after a challenge the credential is read.
DeletePresented(r) ==
  LET req == logins[r]
  IN  /\ req.op = "present"
      /\ DeleteRow(req)
      /\ user' = Verified(req.kind)
      /\ Proceed(r, IF req.kind = "challenge"
                    THEN [op |-> "passkey", at |-> "update", counter |-> counter]
                    ELSE NoAttempt)
      /\ UNCHANGED <<area, database, now, sessions, lastRow, codes, counter, key, shared>>

\* resetPassword: the time is stamped before consumePasswordReset looks at the row.
StartReset(r, row) ==
  /\ area \in {"password", "rows"}
  /\ row \in rows /\ row.kind = "reset"
  /\ Changes = {} \/ "changes" \in Overlaps \/ area = "rows"
  /\ BeginAttempt(r, [op |-> "change", at |-> "write", disable |-> FALSE, stamp |-> now,
                      row |-> row.id])
  /\ UNCHANGED <<area, database, now, user, sessions, counter, key, rowPart>>

\* The row of a reset, when it is still there and its user is active.
Found(req) ==
  {row \in rows : /\ row.kind = "reset" /\ row.id = req.row
                  /\ row.expiresAt > req.stamp /\ ~ user.disabled}

Stamped(req) == user' = [user EXCEPT !.invalidBefore = req.stamp, !.verified = TRUE]

ConsumePasswordReset(r) ==
  LET req == logins[r]
  IN  /\ req.op = "change" /\ req.at = "write" /\ req.row # 0 /\ OneStep("reset")
      /\ IF Found(req) = {} THEN UNCHANGED <<user, rows, spent>>
         ELSE /\ Stamped(req)
              /\ rows' = {row \in rows : row.kind # "reset"}
              /\ Spend(req.row)
      /\ EndAttempt(r)
      /\ UNCHANGED <<area, database, now, sessions, lastRow, codes, counter, key, shared>>

\* On a server: the row and the user are read, and later both are written.
FindReset(r) ==
  LET req == logins[r]
  IN  /\ req.op = "change" /\ req.at = "write" /\ req.row # 0 /\ ~ OneStep("reset")
      /\ IF Found(req) = {} THEN EndAttempt(r) /\ UNCHANGED shared
         ELSE /\ \E row \in Found(req) : ReadRow(row)
              /\ Proceed(r, [op |-> "change", at |-> "delete", kind |-> "reset",
                             stamp |-> req.stamp, row |-> req.row])
      /\ UNCHANGED <<area, database, now, user, sessions, rows, lastRow, codes, counter, key,
                     spent>>

WriteReset(r) ==
  LET req == logins[r]
  IN  /\ req.op = "change" /\ req.at = "delete"
      /\ Stamped(req)
      /\ DeleteRow(req)
      /\ EndAttempt(r)
      /\ UNCHANGED <<area, database, now, sessions, lastRow, codes, counter, key, shared>>

-----------------------------------------------------------------------------
(* Two factors.                                                            *)

TotpRequests == {r \in Attempts : logins[r].op = "totp"}

\* setup, enable, regenerate and disable get the row that their route has read.
StartTotp(r, what) ==
  /\ area = "totp"
  /\ TotpRequests = {} \/ "totp" \in Overlaps
  /\ what \in {"enable", "regenerate"} => user.secret # 0
  /\ what = "regenerate" => user.enabled
  /\ BeginAttempt(r, [op |-> "totp", at |-> what, secret |-> user.secret, enabled |-> user.enabled])
  /\ UNCHANGED <<area, database, now, user, sessions, counter, key, rowPart>>

\* A secret that was read is written again, and so is whether it was enabled.
SetupTotp(r) ==
  LET req == logins[r]
  IN  /\ req.op = "totp" /\ req.at = "setup"
      /\ user' = [user EXCEPT !.secret = IF req.secret = 0 THEN 1 ELSE req.secret,
                              !.enabled = req.enabled]
      /\ EndAttempt(r)
      /\ UNCHANGED <<area, database, now, sessions, counter, key, rowPart>>

\* replaceCodes: new codes for the ones there were.
EnableTotp(r) ==
  LET req == logins[r]
  IN  /\ req.op = "totp" /\ req.at \in {"enable", "regenerate"}
      /\ user' = IF req.at = "enable" THEN [user EXCEPT !.enabled = TRUE] ELSE user
      /\ codes' = {code \in Codes : spent[code] = 0}
      /\ EndAttempt(r)
      /\ UNCHANGED <<area, database, now, sessions, rows, lastRow, counter, key, spent, shared>>

DisableTotp(r) ==
  /\ logins[r].op = "totp" /\ logins[r].at = "disable"
  /\ user' = [user EXCEPT !.secret = 0, !.enabled = FALSE]
  /\ codes' = {}
  /\ EndAttempt(r)
  /\ UNCHANGED <<area, database, now, sessions, rows, lastRow, counter, key, spent, shared>>

\* A time-based code of the secret that login has read.
UseTotpCode(r) ==
  /\ logins[r].op = "login" /\ logins[r].at = "code"
  /\ Proceed(r, [op |-> "login", at |-> "sign"])
  /\ UNCHANGED <<area, database, now, user, sessions, counter, key, rowPart>>

\* consumeRecoveryCode: the unused codes are read, the hash is compared.
MatchRecoveryCode(r, code) ==
  /\ logins[r].op = "login" /\ logins[r].at = "code"
  /\ code \in codes
  /\ Proceed(r, [op |-> "login", at |-> "consume", code |-> code])
  /\ UNCHANGED <<area, database, now, user, sessions, counter, key, rowPart>>

\* Faulty: whether the statement has marked the code is not looked at.
ConsumeRecoveryCodeAgain(r) ==
  LET req == logins[r]
  IN  /\ req.op = "login" /\ req.at = "consume"
      /\ codes' = codes \ {req.code} /\ Spend(req.code)
      /\ Proceed(r, [op |-> "login", at |-> "sign"])
      /\ UNCHANGED <<area, database, now, user, sessions, rows, lastRow, counter, key, shared>>

\* The code is marked where it is not used; login fails when nothing was marked.
ConsumeRecoveryCode(r) ==
  LET req == logins[r]
  IN  /\ req.op = "login" /\ req.at = "consume"
      /\ IF req.code \in codes
         THEN /\ codes' = codes \ {req.code} /\ Spend(req.code)
              /\ Proceed(r, [op |-> "login", at |-> "sign"])
         ELSE EndAttempt(r) /\ UNCHANGED <<codes, spent>>
      /\ UNCHANGED <<area, database, now, user, sessions, rows, lastRow, counter, key, shared>>

-----------------------------------------------------------------------------
(* Passkeys and API keys.                                                  *)

\* verifyAuthentication: the challenge is consumed, then the credential is read.
StartPasskey(r, row) ==
  /\ area = "passkey"
  /\ row \in rows /\ row.kind = "challenge" /\ OneStep(row.kind)
  /\ Consume(row)
  /\ BeginAttempt(r, [op |-> "passkey", at |-> "update", counter |-> counter])
  /\ UNCHANGED <<area, database, now, user, sessions, lastRow, codes, counter, key, shared>>

\* The counter of the next signature; some authenticators do not count.
Counted(read) == {read + 1, read + 2} \cup ({0} \cap {read})

\* The row is updated where it has the counter that was
\* read, and an active user is signed in.
UpdateAuthentication(r) ==
  LET req == logins[r]
  IN  /\ req.op = "passkey" /\ req.at = "update"
      /\ \E next \in Counted(req.counter) :
           IF counter = req.counter
           THEN counter' = next /\ Proceed(r, [op |-> "login", at |-> "sign"])
           ELSE counter' = counter /\ EndAttempt(r)
      /\ UNCHANGED <<area, database, now, user, sessions, key, rowPart>>

\* resolve: the row is read, then marked where it is still active.
ReadKey(r) ==
  /\ area = "key"
  /\ key.revokedAt = 0
  /\ BeginAttempt(r, [op |-> "key", at |-> "mark"])
  /\ UNCHANGED <<area, database, now, user, sessions, counter, key, rowPart>>

MarkUsedIfActive(r) ==
  /\ logins[r].op = "key"
  /\ key' = IF key.revokedAt = 0 THEN [key EXCEPT !.lastUsedAt = now] ELSE key
  /\ EndAttempt(r)
  /\ UNCHANGED <<area, database, now, user, sessions, counter, rowPart>>

Revoke ==
  /\ area = "key"
  /\ key.revokedAt = 0
  /\ key' = [key EXCEPT !.revokedAt = now]
  /\ UNCHANGED <<area, database, now, user, sessions, counter, logins, rowPart>>

SignNext ==
  \/ Tick \/ Revoke
  \/ \E kind \in Kinds : Issue(kind)
  \/ \E row \in rows : Discard(row) \/ Redeem(row)
  \/ \E r \in Attempts :
       \/ Login(r) \/ SignIn(r)
       \/ \E disable \in BOOLEAN : StartChange(r, disable)
       \/ WriteChange(r) \/ ConsumePasswordReset(r) \/ FindReset(r) \/ WriteReset(r)
       \/ \E row \in rows : StartReset(r, row) \/ StartPasskey(r, row) \/ Present(r, row)
       \/ DeletePresented(r)
       \/ \E what \in {"setup", "enable", "regenerate", "disable"} : StartTotp(r, what)
       \/ SetupTotp(r) \/ EnableTotp(r) \/ DisableTotp(r)
       \/ UseTotpCode(r) \/ ConsumeRecoveryCode(r)
       \/ \E code \in Codes : MatchRecoveryCode(r, code)
       \/ UpdateAuthentication(r) \/ ReadKey(r) \/ MarkUsedIfActive(r)

SignSpec == SignInit /\ [][SignNext]_signVars

-----------------------------------------------------------------------------
(* Properties.                                                             *)

SignTypeOK ==
  /\ now \in 1 .. MaxTime
  /\ user \in [invalidBefore : 0 .. MaxTime, disabled : BOOLEAN, verified : BOOLEAN,
               secret : {0, 1}, enabled : BOOLEAN]
  /\ sessions \subseteq 1 .. MaxTime
  /\ rows \subseteq [kind : Kinds, id : Ids, expiresAt : Nat]
  /\ codes \subseteq Codes
  /\ counter \in Nat
  /\ key \in [revokedAt : 0 .. MaxTime, lastUsedAt : 0 .. MaxTime]
  /\ \A r \in Attempts :
       logins[r].op \in {"free", "login", "change", "totp", "passkey", "key", "present"}

\* A one-time row or a recovery code is accepted once, however many requests bring it
\* together, unless two requests read the row before either has deleted it: on SQLite none
\* do, elsewhere not for a ticket or a code.  Whoever comes later is refused everywhere.
OneTimeIsOnce ==
  /\ \A x \in DOMAIN spent \ shared : spent[x] <= 1
  /\ shared \subseteq Ids /\ (database = "sqlite" => shared = {})
  /\ \A row \in rows : spent[row.id] = 0 /\ (row.kind = "ticket" => row.id \notin shared)

\* A token that was refused stays refused through changes of the password, resets and
\* the deactivation, unless two of them overlap.
RefusedSessionsStayRefused ==
  [][\A issuedAt \in sessions : Admitted(issuedAt)' => Admitted(issuedAt)]_signVars

\* A passkey's counter never falls back, however many logins with it overlap.
PasskeyCounterGrows == [][counter' >= counter]_signVars

\* Two factors are there with a secret, and recovery codes with two factors, when no two
\* requests that change them overlap, whatever logins use them up meanwhile.
TwoFactorsAreWhole ==
  /\ user.enabled => user.secret # 0
  /\ codes # {} => user.enabled

\* The credentials keep their shape, are spent once, and come and go together.
SignInv == SignTypeOK /\ OneTimeIsOnce /\ TwoFactorsAreWhole

\* What is refused stays refused: sessions of before, and counters of a passkey.
RefusalsLast == RefusedSessionsStayRefused /\ PasskeyCounterGrows

=============================================================================
