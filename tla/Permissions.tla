------------------------------- MODULE Permissions -------------------------------
(***************************************************************************)
(* can() of packages/core/src/permissions.ts: whether the policy allows a  *)
(* principal an action.  The rules of the page are read first, then the    *)
(* grants, one after the other, and what neither decides the role does.    *)
(* The loops are modelled turn by turn; what they must come to, Allowed,   *)
(* is said of the whole policy and of no order, and proved of every policy.*)
(***************************************************************************)
EXTENDS Integers, Sequences

CONSTANTS
  Principals,   \* who asks: a role, or "anonymous", the id and the groups
  AskedActions, \* what for
  PagePaths, NoPath,
  PageRules,    \* what may be in a policy: rules, and grants
  PageGrants,
  Policies,     \* the policies, each with a list of either
  Fits,         \* the <<matcher, pattern, path>> where the pattern is that of the path
  LengthOf      \* how long a pattern is

Matchers == {"exact", "prefix", "suffix", "regex"}

ASSUME PolicyAssumption ==
  /\ \A p \in Policies : p \in [pageRules : Seq(PageRules), grants : Seq(PageGrants)]
  /\ \A rule \in PageRules :
       /\ rule.effect \in {"allow", "deny"} /\ rule.matcher \in Matchers
       /\ LengthOf[rule.pattern] \in Nat
  /\ \A grant \in PageGrants : grant.effect \in {"allow", "deny"}

VARIABLES
  asks,        \* the principal, the action and the path, or NoPath
  policy,
  deciding,    \* "rules", "grants" or "decided"
  turn,        \* of the loop
  specificity, \* of the best rule so far, -1 for none
  effect,      \* what it says: "allow", "deny" or "nothing"
  granted,     \* whether a grant allows it
  verdict

canVars == <<asks, policy, deciding, turn, specificity, effect, granted, verdict>>

Writing == {"page:create", "page:update", "page:move"}
\* To write is to create, to update or to move, and each of them is to write.
EquivalentActions(a) ==
  IF a = "page:write" THEN {"page:write"} \union Writing
  ELSE IF a \in Writing THEN {a, "page:write"} ELSE {a}

SubjectMatches(principal, s) ==
  CASE principal.role = "anonymous" -> s.subjectType = "anonymous"
    [] s.subjectType = "user" -> s.subjectId = principal.id
    [] s.subjectType = "group" -> s.subjectId \in principal.groups
    [] OTHER -> FALSE

Regards(principal, a, s) == s.action \in EquivalentActions(a) /\ SubjectMatches(principal, s)

Base == [exact |-> 10000, prefix |-> 5000, suffix |-> 2500, regex |-> 1000]
RuleSpecificity(rule) == Base[rule.matcher] + LengthOf[rule.pattern]
Matches(rule, path) == <<rule.matcher, rule.pattern, path>> \in Fits

ViewerActions == {"page:read", "asset:read", "comment:read", "comment:write", "search:read"}
EditorActions ==
  ViewerActions \union Writing \union {"page:write", "page:delete", "asset:write", "asset:delete"}
AdminActions == EditorActions \union {"git:sync", "automation:manage", "admin:access"}
RoleActions ==
  [viewer |-> ViewerActions, editor |-> EditorActions, admin |-> AdminActions]
RoleAllows(principal, a) ==
  IF principal.role = "anonymous" THEN a \in {"page:read", "asset:read", "search:read"}
  ELSE EquivalentActions(a) \intersect RoleActions[principal.role] # {}

CanInit ==
  /\ asks \in [who : Principals, action : AskedActions, path : PagePaths \union {NoPath}]
  /\ policy \in Policies
  /\ deciding = (IF asks.path = NoPath THEN "grants" ELSE "rules")
  /\ turn = 1 /\ specificity = -1 /\ effect = "nothing" /\ granted = FALSE /\ verdict = FALSE

Rule == policy.pageRules[turn]
Grant == policy.grants[turn]
Applies(rule) == Regards(asks.who, asks.action, rule) /\ Matches(rule, asks.path)
Decided(allowed) == deciding' = "decided" /\ verdict' = allowed

\* One turn of pageRuleDecision: a rule that says more than the best so far takes its place.
SkipRule ==
  /\ deciding = "rules" /\ turn <= Len(policy.pageRules)
  /\ ~Applies(Rule) \/ RuleSpecificity(Rule) < specificity
  /\ turn' = turn + 1
  /\ UNCHANGED <<asks, policy, deciding, specificity, effect, granted, verdict>>
TakeRule ==
  /\ deciding = "rules" /\ turn <= Len(policy.pageRules)
  /\ Applies(Rule) /\ RuleSpecificity(Rule) > specificity
  /\ specificity' = RuleSpecificity(Rule) /\ effect' = Rule.effect
  /\ turn' = turn + 1
  /\ UNCHANGED <<asks, policy, deciding, granted, verdict>>

\* As if the first of the best rules decided.
JoinRuleIgnored ==
  /\ deciding = "rules" /\ turn <= Len(policy.pageRules)
  /\ Applies(Rule) /\ RuleSpecificity(Rule) = specificity
  /\ turn' = turn + 1
  /\ UNCHANGED <<asks, policy, deciding, specificity, effect, granted, verdict>>

\* Of those that say as much as the best so far, one that denies does.
JoinRule ==
  /\ deciding = "rules" /\ turn <= Len(policy.pageRules)
  /\ Applies(Rule) /\ RuleSpecificity(Rule) = specificity
  /\ effect' = (IF Rule.effect = "deny" THEN "deny" ELSE effect)
  /\ turn' = turn + 1
  /\ UNCHANGED <<asks, policy, deciding, specificity, granted, verdict>>

\* What the rules said is the answer, or the grants are read.
AfterRules ==
  /\ deciding = "rules" /\ turn > Len(policy.pageRules)
  /\ IF effect = "nothing" THEN deciding' = "grants" /\ UNCHANGED verdict
     ELSE Decided(effect = "allow")
  /\ turn' = 1
  /\ UNCHANGED <<asks, policy, specificity, effect, granted>>

\* One turn of grantDecision: the first grant that denies ends it.
ReadGrant ==
  /\ deciding = "grants" /\ turn <= Len(policy.grants)
  /\ IF Regards(asks.who, asks.action, Grant)
     THEN IF Grant.effect = "deny" THEN Decided(FALSE) /\ UNCHANGED granted
          ELSE granted' = TRUE /\ UNCHANGED <<deciding, verdict>>
     ELSE UNCHANGED <<granted, deciding, verdict>>
  /\ turn' = turn + 1
  /\ UNCHANGED <<asks, policy, specificity, effect>>

AfterGrants ==
  /\ deciding = "grants" /\ turn > Len(policy.grants)
  /\ Decided(granted \/ RoleAllows(asks.who, asks.action))
  /\ UNCHANGED <<asks, policy, turn, specificity, effect, granted>>

CanNext == SkipRule \/ TakeRule \/ JoinRule \/ AfterRules \/ ReadGrant \/ AfterGrants
CanSpec == CanInit /\ [][CanNext]_canVars

-----------------------------------------------------------------------------
\* The rules that apply, the best of them, and the grants that apply.
Applying == {n \in DOMAIN policy.pageRules : Applies(policy.pageRules[n])}
Best ==
  {n \in Applying : \A m \in Applying :
     RuleSpecificity(policy.pageRules[m]) <= RuleSpecificity(policy.pageRules[n])}
Given == {n \in DOMAIN policy.grants : Regards(asks.who, asks.action, policy.grants[n])}

\* What the policy says, whatever the order of its lists.
Allowed ==
  IF asks.path # NoPath /\ Applying # {}
  THEN \A n \in Best : policy.pageRules[n].effect # "deny"
  ELSE IF Given # {} THEN \A n \in Given : policy.grants[n].effect # "deny"
  ELSE RoleAllows(asks.who, asks.action)

\* The best rules decide, and deny if one of them does; without a rule any grant that denies
\* does, then any that allows; and the role only if there is none (permissions.ts 118-209).
VerdictIsThePolicys == deciding = "decided" => (verdict <=> Allowed)

-----------------------------------------------------------------------------
\* The inductive invariant: what the turns so far have come to.
CanTypeOK ==
  /\ asks \in [who : Principals, action : AskedActions, path : PagePaths \union {NoPath}]
  /\ policy \in Policies
  /\ deciding \in {"rules", "grants", "decided"}
  /\ turn \in Nat \ {0}
  /\ specificity \in Int /\ specificity >= -1
  /\ effect \in {"allow", "deny", "nothing"}
  /\ granted \in BOOLEAN /\ verdict \in BOOLEAN

\* Of the rules so far specificity is the greatest, and effect what the best of them say.
ReadSoFar == {n \in Applying : n < turn}
SpecificityOf(n) == RuleSpecificity(policy.pageRules[n])
RulesSoFar ==
  /\ asks.path # NoPath
  /\ turn <= Len(policy.pageRules) + 1
  /\ \A n \in ReadSoFar : SpecificityOf(n) <= specificity
  /\ effect = "nothing" => specificity = -1
  /\ effect # "nothing" => \E n \in ReadSoFar : SpecificityOf(n) = specificity
  /\ effect = "deny" <=>
       \E n \in ReadSoFar : SpecificityOf(n) = specificity /\ policy.pageRules[n].effect = "deny"

\* No grant so far denies, and granted says whether one allows.
GrantsSoFar ==
  /\ asks.path = NoPath \/ Applying = {}
  /\ turn <= Len(policy.grants) + 1
  /\ \A n \in Given : n < turn => policy.grants[n].effect # "deny"
  /\ granted <=> \E n \in Given : n < turn

DecidingInv ==
  /\ CanTypeOK
  /\ deciding = "rules" => RulesSoFar /\ granted = FALSE
  /\ deciding = "grants" => GrantsSoFar
  /\ VerdictIsThePolicys

=============================================================================
