------------------------------- MODULE Accounts -------------------------------
(***************************************************************************)
(* Users, their roles and their role groups: registration and setup        *)
(* (http/routes/auth.ts, setup.ts, services/users.ts, auth-providers.ts),  *)
(* and administration (services/admin.ts, authz.ts, their repositories).   *)
(*                                                                         *)
(* A request reads, checks and writes in separate statements; every        *)
(* statement is one step and requests interleave between them.             *)
(***************************************************************************)
EXTENDS Naturals, FiniteSets

CONSTANTS
  Users,         \* the accounts there may be
  Requests,      \* requests that are under way at once
  NoUser,
  MaxRequests,   \* bound on requests
  AccountModes   \* sets of the things that may happen, see AccountActs

\* "admins": two requests that take admins away overlap.  "first": two requests that
\* may create the first user overlap.  "same": two requests change one user's role.
\* "stop": a request is lost between two statements.
AccountActs == {"admins", "first", "same", "stop"}

VARIABLES
  accountMode,
  users,        \* role and disabled of every user row, or NoUser
  groups,       \* the groups each user is a member of
  requests,
  started,
  openRegistration,
  appointed     \* those whom an admin, or the configuration of a provider, made an admin

accountVars == <<accountMode, users, groups, requests, started, openRegistration, appointed>>

Roles == {"admin", "editor", "viewer"}
RoleGroup == [admin |-> "admins", editor |-> "editors", viewer |-> "viewers"]
RoleGroups == {RoleGroup[role] : role \in Roles}

ASSUME AccountAssumption ==
  /\ IsFiniteSet(Users)
  /\ MaxRequests \in Nat
  /\ NoUser \notin [role : Roles, disabled : BOOLEAN]

Ready == [at |-> "ready"]

AccountInit ==
  /\ accountMode \in AccountModes
  /\ users = [u \in Users |-> NoUser]
  /\ groups = [u \in Users |-> {}]
  /\ requests = [r \in Requests |-> Ready]
  /\ started = 0
  /\ openRegistration \in BOOLEAN
  /\ appointed = {}

-----------------------------------------------------------------------------
(* The statements on the table of users.                                   *)

Exists(u) == users[u] # NoUser
NewUser(role) == [role |-> role, disabled |-> FALSE]
IsUserActive(u) == Exists(u) /\ ~ users[u].disabled
IsAdmin(u) == Exists(u) /\ users[u].role = "admin"
AdminExists == \E u \in Users : IsAdmin(u)
ActiveAdmins == {u \in Users : IsAdmin(u) /\ IsUserActive(u)}
ActiveAdminCount == Cardinality(ActiveAdmins)

\* syncRoleGroup: the one group of the role, in one transaction.
SyncedGroups(u, role) == [groups EXCEPT ![u] = (@ \ RoleGroups) \cup {RoleGroup[role]}]

-----------------------------------------------------------------------------
(* Requests.                                                               *)

Removal(req) == req.at # "ready" /\ req.kind = "admin" /\ req.role # "admin"
Creation(req) == req.at # "ready" /\ req.kind = "create"
Concerns(req, u) == req.at # "ready" /\ req.user = u

Collides(req) ==
  \E r \in Requests :
    \/ Removal(req) /\ Removal(requests[r]) /\ "admins" \notin accountMode
    \/ Creation(req) /\ Creation(requests[r]) /\ "first" \notin accountMode
    \/ Concerns(requests[r], req.user) /\ "same" \notin accountMode

Start(r, req) ==
  /\ requests[r] = Ready
  /\ started < MaxRequests /\ started' = started + 1
  /\ ~ Collides(req)
  /\ requests' = [requests EXCEPT ![r] = req]
  /\ UNCHANGED <<accountMode, users, groups, openRegistration, appointed>>

Continue(r, req) == requests' = [requests EXCEPT ![r] = req]
Finish(r) == Continue(r, Ready)
Kept == UNCHANGED <<accountMode, started, openRegistration>>

-----------------------------------------------------------------------------
(* New users.                                                              *)

Create(u, role, kind) == [at |-> "insert", kind |-> kind, user |-> u, role |-> role]

\* The first user is an admin; after that registration may be off.
Register(r, u) ==
  LET first == \A other \in Users : ~ Exists(other)
  IN  /\ first \/ openRegistration
      /\ Start(r, Create(u, IF first THEN "admin" ELSE "viewer", "create"))

\* setup/complete: refused when there is an admin, even a disabled one.
CompleteSetup(r, u) == ~ AdminExists /\ Start(r, Create(u, "admin", "create"))

\* completeLogin for an identity without an account: with the provider's role.
ExternalSignIn(r, u, role) ==
  /\ ~ Exists(u) /\ openRegistration
  /\ Start(r, Create(u, role, "provider"))

\* users.create and createUserWithAccount: the address is unique in the table.
InsertUser(r) ==
  LET req == requests[r]
  IN  /\ req.at = "insert"
      /\ IF Exists(req.user) THEN Finish(r) /\ users' = users
         ELSE /\ users' = [users EXCEPT ![req.user] = NewUser(req.role)]
              /\ Continue(r, [req EXCEPT !.at = "sync"])
      /\ appointed' = IF req.kind = "provider" /\ ~ Exists(req.user)
                      THEN appointed \cup {req.user} ELSE appointed
      /\ UNCHANGED groups /\ Kept

-----------------------------------------------------------------------------
(* Administration.                                                         *)

Administrate(u, role) == [at |-> "find", kind |-> "admin", user |-> u, role |-> role]

\* The principal was an active admin when the request arrived.  "disabled" stands for
\* deactivateUser, the roles for setUserRole.
SetUserRole(r, u, role) == ActiveAdmins # {} /\ Start(r, Administrate(u, role))
DeactivateUser(r, u) == ActiveAdmins # {} /\ Start(r, Administrate(u, "disabled"))

FindUser(r) ==
  LET req == requests[r]
  IN  /\ req.at = "find"
      /\ IF ~ Exists(req.user) \/ (req.role = "disabled" /\ users[req.user].disabled)
         THEN Finish(r)
         ELSE Continue(r, [req EXCEPT !.at =
                IF req.user \in ActiveAdmins /\ req.role # "admin" THEN "count" ELSE "update"])
      /\ UNCHANGED <<users, groups, appointed>> /\ Kept

\* Faulty: the guards let the last admin go.
ProtectNobody(r) ==
  LET req == requests[r]
  IN  /\ req.at = "count"
      /\ IF ActiveAdminCount < 1 THEN Finish(r) ELSE Continue(r, [req EXCEPT !.at = "update"])
      /\ UNCHANGED <<users, groups, appointed>> /\ Kept

\* protectLastActiveAdminDemotion and protectLastActiveAdminDeactivation.
ProtectLastActiveAdmin(r) ==
  LET req == requests[r]
  IN  /\ req.at = "count"
      /\ IF ActiveAdminCount <= 1 THEN Finish(r) ELSE Continue(r, [req EXCEPT !.at = "update"])
      /\ UNCHANGED <<users, groups, appointed>> /\ Kept

\* updateUserRole, deactivateUser of the repository.
UpdateUser(r) ==
  LET req == requests[r]
  IN  /\ req.at = "update"
      /\ IF req.role = "disabled"
         THEN /\ users' = [users EXCEPT ![req.user].disabled = TRUE]
              /\ Finish(r) /\ appointed' = appointed
         ELSE /\ users' = [users EXCEPT ![req.user].role = req.role]
              /\ Continue(r, [req EXCEPT !.at = "sync"])
              /\ appointed' = IF req.role = "admin" THEN appointed \cup {req.user} ELSE appointed
      /\ UNCHANGED groups /\ Kept

\* Faulty: the new group is added to the old one.
SyncRoleGroupAdding(r) ==
  LET req == requests[r]
  IN  /\ req.at = "sync"
      /\ groups' = [groups EXCEPT ![req.user] = @ \cup {RoleGroup[req.role]}]
      /\ Finish(r)
      /\ UNCHANGED <<users, appointed>> /\ Kept

SyncRoleGroup(r) ==
  LET req == requests[r]
  IN  /\ req.at = "sync"
      /\ groups' = SyncedGroups(req.user, req.role)
      /\ Finish(r)
      /\ UNCHANGED <<users, appointed>> /\ Kept

\* The request fails or the server stops between two statements.
Lose(r) ==
  /\ "stop" \in accountMode
  /\ requests[r] # Ready
  /\ Finish(r)
  /\ UNCHANGED <<users, groups, appointed>> /\ Kept

AccountNext ==
  \E r \in Requests :
    \/ \E u \in Users :
         \/ Register(r, u)
         \/ CompleteSetup(r, u)
         \/ DeactivateUser(r, u)
         \/ \E role \in Roles : ExternalSignIn(r, u, role) \/ SetUserRole(r, u, role)
    \/ InsertUser(r)
    \/ FindUser(r)
    \/ ProtectLastActiveAdmin(r)
    \/ UpdateUser(r)
    \/ SyncRoleGroup(r)
    \/ Lose(r)

AccountSpec == AccountInit /\ [][AccountNext]_accountVars

-----------------------------------------------------------------------------
(* Properties.                                                             *)

Request ==
  {Ready} \cup [at : {"insert", "sync"}, kind : {"create", "provider"}, user : Users,
                role : Roles]
          \cup [at : {"find", "count", "update", "sync"}, kind : {"admin"}, user : Users,
                role : Roles \cup {"disabled"}]

AccountTypeOK ==
  /\ users \in [Users -> {NoUser} \cup [role : Roles, disabled : BOOLEAN]]
  /\ groups \in [Users -> SUBSET RoleGroups]
  /\ requests \in [Requests -> Request]
  /\ started \in 0 .. MaxRequests
  /\ appointed \subseteq Users

\* "Cannot demote the last active admin" (admin.ts): once there is an active admin there
\* always is one, though promotions, registrations and one removal at a time run
\* together and are lost half way.
AnAdminRemains ==
  [][ActiveAdmins # {} /\ "admins" \notin accountMode => ActiveAdmins' # {}]_accountVars

\* A user whose requests are done is in the group of the role and in no other role
\* group, unless two requests change the same user or one is lost half way.
RoleGroupsFollowRoles ==
  accountMode \cap {"same", "stop"} = {} =>
    \A u \in Users :
      Exists(u) /\ (\A r \in Requests : ~ Concerns(requests[r], u)) =>
        groups[u] = {RoleGroup[users[u].role]}

\* Nobody but the first user is an admin whom no admin has made one, unless two first
\* users are created together.
AdminsAreMadeByAdmins ==
  "first" \notin accountMode =>
    Cardinality({u \in Users : IsAdmin(u) /\ u \notin appointed}) <= 1

\* The accounts keep their shape; roles, role groups and appointments agree.
AccountInv == AccountTypeOK /\ RoleGroupsFollowRoles /\ AdminsAreMadeByAdmins

=============================================================================
