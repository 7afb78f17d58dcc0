---------------------------- MODULE AuthorizationMC ----------------------------
(***************************************************************************)
(* Who may do what, for TLC: the policy of a server process and what it    *)
(* says of a request, the accounts with their roles, and how a user gets   *)
(* in.  A behaviour is one of one part; the others rest in an initial      *)
(* state of theirs.                                                        *)
(***************************************************************************)
EXTENDS PolicyCache, Accounts, Permissions, SignIn, TLC

CONSTANTS
  r1, r2, e1, e2, l1, l2, l3, l4,
  u1, u2, u3, q1, q2, k1, k2

VARIABLE part

authVars == <<part, vars, accountVars, canVars, signVars>>

\* Removals of admins overlap, and so do the first users; requests are lost.
AccountMix == {{}, {"admins", "same"}, {"stop", "first"}}

\* Nobody, a reader and an editor of one group, and what is said of them: rules of the same
\* and of another specificity, in any order, and grants.
Says(s, a, e) == [subjectType |-> s[1], subjectId |-> s[2], action |-> a, effect |-> e]
SomePrincipals ==
  {[role |-> "anonymous", id |-> "none", groups |-> {}],
   [role |-> "viewer", id |-> "reader", groups |-> {"team"}],
   [role |-> "editor", id |-> "writer", groups |-> {"team"}]}
RuleOf(said, matcher, pattern) == said @@ [matcher |-> matcher, pattern |-> pattern]
SomePageRules ==
  {RuleOf(Says(<<"group", "team">>, "page:write", "deny"), "prefix", "a"),
   RuleOf(Says(<<"user", "reader">>, "page:write", "allow"), "prefix", "a"),
   RuleOf(Says(<<"group", "team">>, "page:move", "allow"), "exact", "a/b"),
   RuleOf(Says(<<"anonymous", "none">>, "page:read", "deny"), "suffix", "b")}
SomeGrants ==
  {Says(<<"group", "team">>, "page:write", "allow"), Says(<<"user", "writer">>, "page:move", "deny"),
   Says(<<"anonymous", "none">>, "page:read", "deny")}
UpTo(n, S) == UNION {[1..k -> S] : k \in 0..n}
SomePolicies ==
  [pageRules : UpTo(2, SomePageRules), grants : {<<>>} \union [{1} -> SomeGrants]]
    \union [pageRules : {<<>>}, grants : [1..2 -> SomeGrants]]
    \union [pageRules : [1..3 -> SomePageRules], grants : {<<>>}]
SomeFits == {<<"prefix", "a", "a/b">>, <<"exact", "a/b", "a/b">>, <<"suffix", "b", "a/b">>}
SomeLengths == [a |-> 1, b |-> 1] @@ ("a/b" :> 3)

AuthInit ==
  /\ part \in {"policy", "accounts", "request", "signin"}
  /\ Init /\ AccountInit /\ CanInit /\ SignInit
  /\ part # "accounts" => accountMode = {} /\ ~ openRegistration
  /\ part # "request" =>
       /\ asks.path = NoPath /\ asks.action = "page:read" /\ asks.who.role = "viewer"
       /\ policy.pageRules = <<>> /\ policy.grants = <<>>
  /\ part # "signin" => area = "key"
  /\ area \in {"totp", "key"} => database = "sqlite"

PolicyStep == part = "policy" /\ Next /\ UNCHANGED <<accountVars, canVars, signVars>>
AccountStep == part = "accounts" /\ AccountNext /\ UNCHANGED <<vars, canVars, signVars>>
RequestStep == part = "request" /\ CanNext /\ UNCHANGED <<vars, accountVars, signVars>>
SignStep == part = "signin" /\ SignNext /\ UNCHANGED <<vars, accountVars, canVars>>

AuthNext ==
  /\ PolicyStep \/ AccountStep \/ RequestStep \/ SignStep
  /\ UNCHANGED part

\* At rest no load and no request for the policy is under way.
AuthSpec == AuthInit /\ [][AuthNext]_authVars /\ Fairness

=============================================================================
