-------------------------- MODULE AuthorizationProofs --------------------------
(***************************************************************************)
(* What decides over a request, for any policies, principals and orders of *)
(* lists: can() (Permissions); for any requests, codes and bounds: the     *)
(* credentials of one user (SignIn); and for any users and any number of   *)
(* requests: roles, role groups and the last admin (Accounts).             *)
(***************************************************************************)
EXTENDS Permissions, SignIn, Accounts, FiniteSetTheorems, TLAPS

-----------------------------------------------------------------------------
(* What can() comes to.  The invariant, DecidingInv, says what the turns   *)
(* of each loop have found so far; the steps that matter are TakeRule,     *)
(* after which no earlier rule is among the best, and JoinRule, which may  *)
(* only add a denial.                                                      *)

\* The lists of a policy are as PolicyAssumption has them, and a rule says more than none.
LEMMA PolicyLists ==
  ASSUME CanTypeOK
  PROVE  /\ Len(policy.pageRules) \in Nat /\ DOMAIN policy.pageRules = 1..Len(policy.pageRules)
         /\ Len(policy.grants) \in Nat /\ DOMAIN policy.grants = 1..Len(policy.grants)
         /\ \A n \in DOMAIN policy.pageRules :
              /\ policy.pageRules[n].effect \in {"allow", "deny"}
              /\ SpecificityOf(n) \in Nat
         /\ \A n \in DOMAIN policy.grants : policy.grants[n].effect \in {"allow", "deny"}
<1>1. policy \in [pageRules : Seq(PageRules), grants : Seq(PageGrants)]
  BY PolicyAssumption DEF CanTypeOK
<1>2. policy.pageRules \in Seq(PageRules) /\ policy.grants \in Seq(PageGrants)
  BY <1>1
<1>3. ASSUME NEW n \in DOMAIN policy.pageRules
      PROVE  /\ policy.pageRules[n].effect \in {"allow", "deny"}
             /\ SpecificityOf(n) \in Nat
  <2>1. policy.pageRules[n] \in PageRules
    BY <1>2, <1>3
  <2>2. /\ policy.pageRules[n].effect \in {"allow", "deny"}
        /\ policy.pageRules[n].matcher \in Matchers
        /\ LengthOf[policy.pageRules[n].pattern] \in Nat
    BY <2>1, PolicyAssumption
  <2>3. Base[policy.pageRules[n].matcher] \in Nat
    BY <2>2 DEF Base, Matchers
  <2> QED BY <2>2, <2>3 DEF SpecificityOf, RuleSpecificity
<1>4. ASSUME NEW n \in DOMAIN policy.grants
      PROVE  policy.grants[n].effect \in {"allow", "deny"}
  BY <1>2, PolicyAssumption
<1> QED BY <1>2, <1>3, <1>4

\* Nothing is decided before the lists are read.
LEMMA DecidingStarts == CanInit => DecidingInv
<1> SUFFICES ASSUME CanInit PROVE DecidingInv
  OBVIOUS
<1>1. CanTypeOK
  <2>1. deciding \in {"rules", "grants", "decided"} /\ turn \in Nat \ {0}
    BY DEF CanInit
  <2>2. specificity \in Int /\ specificity >= -1
    BY DEF CanInit
  <2>3. granted \in BOOLEAN /\ verdict \in BOOLEAN
    BY DEF CanInit
  <2> QED BY <2>1, <2>2, <2>3 DEF CanInit, CanTypeOK
<1>2. ReadSoFar = {}
  <2>1. ASSUME NEW n \in Applying PROVE ~(n < turn)
    BY <1>1, PolicyLists DEF Applying, CanInit
  <2> QED BY <2>1 DEF ReadSoFar
<1>3. ASSUME NEW n \in Given PROVE ~(n < turn)
  BY <1>1, PolicyLists DEF CanInit, Given
<1>4. deciding = "rules" => RulesSoFar /\ granted = FALSE
  BY <1>1, <1>2, PolicyLists DEF CanInit, RulesSoFar
<1>5. deciding = "grants" => GrantsSoFar
  BY <1>1, <1>3, PolicyLists DEF CanInit, GrantsSoFar
<1> QED BY <1>1, <1>4, <1>5 DEF CanInit, DecidingInv, VerdictIsThePolicys

\* What a policy says does not change while it is read.
LEMMA PolicyStands ==
  ASSUME UNCHANGED <<asks, policy>>
  PROVE  /\ Applying' = Applying /\ Best' = Best /\ Given' = Given /\ Allowed' = Allowed
         /\ \A n : SpecificityOf(n)' = SpecificityOf(n)
BY DEF Applying, Best, Given, Allowed, SpecificityOf, Applies, Regards

\* After a turn of the rules one more is read.
LEMMA OneMoreRule ==
  ASSUME CanTypeOK, UNCHANGED <<asks, policy>>, turn' = turn + 1,
         turn <= Len(policy.pageRules)
  PROVE  /\ turn \in DOMAIN policy.pageRules
         /\ Applies(Rule) => ReadSoFar' = ReadSoFar \union {turn}
         /\ ~Applies(Rule) => ReadSoFar' = ReadSoFar
<1>1. turn \in DOMAIN policy.pageRules
  BY PolicyLists DEF CanTypeOK
<1>2. turn \in Applying <=> Applies(Rule)
  BY <1>1 DEF Applying, Rule
<1>3. Applying' = Applying
  BY PolicyStands
<1>4. Applying \subseteq Nat
  BY PolicyLists DEF Applying
<1>5. \A n \in Nat : n < turn' <=> n < turn \/ n = turn
  BY DEF CanTypeOK
<1> QED BY <1>1, <1>2, <1>3, <1>4, <1>5 DEF ReadSoFar

LEMMA RulesKeepDeciding ==
  ASSUME DecidingInv, SkipRule \/ TakeRule \/ JoinRule
  PROVE  DecidingInv'
<1>1. /\ CanTypeOK /\ RulesSoFar /\ granted = FALSE /\ deciding = "rules"
      /\ turn' = turn + 1 /\ turn <= Len(policy.pageRules)
      /\ UNCHANGED <<asks, policy, deciding, granted, verdict>>
  BY DEF DecidingInv, SkipRule, TakeRule, JoinRule
<1>2. turn \in DOMAIN policy.pageRules
  BY <1>1, OneMoreRule
<1>3. SpecificityOf(turn) = RuleSpecificity(Rule) /\ SpecificityOf(turn) \in Nat
  BY <1>1, <1>2, PolicyLists DEF SpecificityOf, Rule
<1>4. Rule.effect \in {"allow", "deny"} /\ Rule = policy.pageRules[turn]
  BY <1>1, <1>2, PolicyLists DEF Rule
<1>5. \A n : SpecificityOf(n)' = SpecificityOf(n)
  BY <1>1, PolicyStands
<1>6. ReadSoFar \subseteq DOMAIN policy.pageRules
  BY DEF ReadSoFar, Applying
<1>7. \A n \in ReadSoFar : SpecificityOf(n) \in Nat
  BY <1>1, <1>6, PolicyLists
<1>8. /\ asks.path # NoPath /\ Len(policy.pageRules) \in Nat
      /\ turn' <= Len(policy.pageRules) + 1
  BY <1>1, PolicyLists DEF RulesSoFar, CanTypeOK
<1>9. CASE SkipRule /\ ~Applies(Rule)
  <2>1. ReadSoFar' = ReadSoFar
    BY <1>1, <1>9, OneMoreRule
  <2>2. RulesSoFar'
    BY <1>1, <1>5, <1>8, <1>9, <2>1 DEF RulesSoFar, SkipRule
  <2>3. CanTypeOK'
    BY <1>1, <1>9 DEF CanTypeOK, SkipRule
  <2> QED BY <1>1, <2>2, <2>3 DEF DecidingInv, VerdictIsThePolicys
<1>10. CASE SkipRule /\ Applies(Rule)
  <2>1. ReadSoFar' = ReadSoFar \union {turn}
    BY <1>1, <1>10, OneMoreRule
  <2>2. SpecificityOf(turn) < specificity /\ UNCHANGED <<specificity, effect>>
    BY <1>3, <1>10 DEF SkipRule
  <2>3. RulesSoFar'
    BY <1>1, <1>3, <1>5, <1>7, <1>8, <2>1, <2>2 DEF RulesSoFar, CanTypeOK
  <2>4. CanTypeOK'
    BY <1>1, <1>10 DEF CanTypeOK, SkipRule
  <2> QED BY <1>1, <2>3, <2>4 DEF DecidingInv, VerdictIsThePolicys
<1>11. CASE TakeRule
  <2>1. ReadSoFar' = ReadSoFar \union {turn}
    BY <1>1, <1>11, OneMoreRule DEF TakeRule
  <2>2. /\ specificity' = SpecificityOf(turn) /\ specificity < SpecificityOf(turn)
        /\ effect' = Rule.effect
    BY <1>3, <1>11 DEF TakeRule
  <2>3. \A n \in ReadSoFar : SpecificityOf(n) < specificity'
    BY <1>1, <1>3, <1>7, <2>2 DEF RulesSoFar, CanTypeOK
  <2>4. RulesSoFar'
    BY <1>1, <1>3, <1>4, <1>5, <1>7, <1>8, <2>1, <2>2, <2>3 DEF RulesSoFar
  <2>5. CanTypeOK'
    BY <1>1, <1>3, <1>4, <2>2 DEF CanTypeOK
  <2> QED BY <1>1, <2>4, <2>5 DEF DecidingInv, VerdictIsThePolicys
<1>12. CASE JoinRule
  <2>1. ReadSoFar' = ReadSoFar \union {turn}
    BY <1>1, <1>12, OneMoreRule DEF JoinRule
  <2>2. /\ specificity' = specificity /\ SpecificityOf(turn) = specificity
        /\ effect' = (IF Rule.effect = "deny" THEN "deny" ELSE effect)
    BY <1>3, <1>12 DEF JoinRule
  <2>3. effect # "nothing" /\ effect' \in {"allow", "deny"}
    BY <1>1, <1>3, <2>2 DEF RulesSoFar, CanTypeOK
  <2>4. RulesSoFar'
    BY <1>1, <1>3, <1>4, <1>5, <1>7, <1>8, <2>1, <2>2, <2>3 DEF RulesSoFar, CanTypeOK
  <2>5. CanTypeOK'
    BY <1>1, <2>2, <2>3 DEF CanTypeOK
  <2> QED BY <1>1, <2>4, <2>5 DEF DecidingInv, VerdictIsThePolicys
<1> QED BY <1>9, <1>10, <1>11, <1>12

\* All rules are read: if none applied the grants are asked, and otherwise effect is what the
\* best of all say.
LEMMA RulesDecide ==
  ASSUME DecidingInv, AfterRules
  PROVE  DecidingInv'
<1>1. /\ CanTypeOK /\ RulesSoFar /\ granted = FALSE /\ deciding = "rules"
      /\ turn' = 1 /\ turn > Len(policy.pageRules)
      /\ UNCHANGED <<asks, policy, specificity, effect, granted>>
  BY DEF DecidingInv, AfterRules
<1>2. ReadSoFar = Applying
  BY <1>1, PolicyLists DEF ReadSoFar, Applying, CanTypeOK
<1>3. \A n \in Applying : SpecificityOf(n) \in Nat
  BY <1>1, PolicyLists DEF Applying
<1>4. \A n \in Applying : SpecificityOf(n) <= specificity
  BY <1>1, <1>2 DEF RulesSoFar
<1>5. CASE effect = "nothing"
  <2>1. Applying = {}
    BY <1>1, <1>3, <1>4, <1>5 DEF RulesSoFar, CanTypeOK
  <2>2. deciding' = "grants" /\ UNCHANGED verdict
    BY <1>5 DEF AfterRules
  <2>3. Applying' = {} /\ Given' = Given
    BY <1>1, <2>1, PolicyStands
  <2>4. \A n \in Given : ~(n < turn')
    BY <1>1, PolicyLists DEF Given
  <2>5. GrantsSoFar'
    BY <1>1, <2>3, <2>4, PolicyLists DEF GrantsSoFar
  <2>6. CanTypeOK'
    BY <1>1, <2>2 DEF CanTypeOK
  <2> QED BY <2>2, <2>5, <2>6 DEF DecidingInv, VerdictIsThePolicys
<1>6. CASE effect # "nothing"
  <2>1. deciding' = "decided" /\ verdict' = (effect = "allow")
    BY <1>6 DEF AfterRules, Decided
  <2>2. PICK b \in Applying : SpecificityOf(b) = specificity
    BY <1>1, <1>2, <1>6 DEF RulesSoFar
  <2>3. Best = {n \in Applying : SpecificityOf(n) = specificity}
    <3>1. \A n \in Applying :
            n \in Best <=> \A m \in Applying : SpecificityOf(m) <= SpecificityOf(n)
      BY DEF Best, SpecificityOf
    <3>2. \A n \in Applying :
            (\A m \in Applying : SpecificityOf(m) <= SpecificityOf(n))
              <=> SpecificityOf(n) = specificity
      BY <1>1, <1>3, <1>4, <2>2 DEF CanTypeOK
    <3> QED BY <3>1, <3>2 DEF Best
  <2>4. Allowed <=> ~(effect = "deny")
    BY <1>1, <1>2, <2>2, <2>3 DEF RulesSoFar, Allowed
  <2>5. effect = "allow" <=> ~(effect = "deny")
    BY <1>1, <1>6 DEF CanTypeOK
  <2>7. verdict' <=> Allowed'
    BY <1>1, <2>1, <2>4, <2>5, PolicyStands
  <2>8. CanTypeOK'
    BY <1>1, <2>1 DEF CanTypeOK
  <2> QED BY <2>1, <2>7, <2>8 DEF DecidingInv, VerdictIsThePolicys
<1> QED BY <1>5, <1>6

LEMMA GrantsKeepDeciding ==
  ASSUME DecidingInv, ReadGrant
  PROVE  DecidingInv'
<1>1. /\ CanTypeOK /\ GrantsSoFar /\ deciding = "grants"
      /\ turn' = turn + 1 /\ turn <= Len(policy.grants)
      /\ UNCHANGED <<asks, policy, specificity, effect>>
  BY DEF DecidingInv, ReadGrant
<1>2. turn \in DOMAIN policy.grants
  BY <1>1, PolicyLists DEF CanTypeOK
<1>3. turn \in Given <=> Regards(asks.who, asks.action, Grant)
  BY <1>2 DEF Given, Grant
<1>4. Grant.effect \in {"allow", "deny"} /\ Grant = policy.grants[turn]
  BY <1>1, <1>2, PolicyLists DEF Grant
<1>5. Given' = Given /\ Applying' = Applying /\ Allowed' = Allowed
  BY <1>1, PolicyStands
<1>6. \A n \in Given : n < turn' <=> n < turn \/ n = turn
  BY <1>1, PolicyLists DEF Given, CanTypeOK
<1>7. CASE Regards(asks.who, asks.action, Grant) /\ Grant.effect = "deny"
  <2>1. deciding' = "decided" /\ verdict' = FALSE /\ UNCHANGED granted
    BY <1>7 DEF ReadGrant, Decided
  <2>2. Allowed = FALSE
    <3>1. ~(asks.path # NoPath /\ Applying # {})
      BY <1>1 DEF GrantsSoFar
    <3>2. \E n \in Given : policy.grants[n].effect = "deny"
      BY <1>3, <1>4, <1>7
    <3> QED BY <3>1, <3>2 DEF Allowed
  <2>3. CanTypeOK'
    <3>1. turn' \in Nat \ {0}
      BY <1>1 DEF CanTypeOK
    <3> QED BY <1>1, <2>1, <3>1 DEF CanTypeOK
  <2> QED BY <1>5, <2>1, <2>2, <2>3 DEF DecidingInv, VerdictIsThePolicys
<1>8. CASE ~(Regards(asks.who, asks.action, Grant) /\ Grant.effect = "deny")
  <2>1. /\ UNCHANGED <<deciding, verdict>>
        /\ granted' = (granted \/ turn \in Given)
    <3>1. CASE Regards(asks.who, asks.action, Grant)
      BY <1>1, <1>3, <1>8, <3>1 DEF ReadGrant
    <3>2. CASE ~Regards(asks.who, asks.action, Grant)
      BY <1>1, <1>3, <3>2 DEF ReadGrant, CanTypeOK
    <3> QED BY <3>1, <3>2
  <2>2. turn \in Given => policy.grants[turn].effect # "deny"
    BY <1>3, <1>4, <1>8
  <2>3. GrantsSoFar'
    <3>1. turn' <= Len(policy.grants) + 1
      BY <1>1, PolicyLists DEF CanTypeOK
    <3>2. \A n \in Given : n < turn' => policy.grants[n].effect # "deny"
      BY <1>1, <1>6, <2>2 DEF GrantsSoFar
    <3>3. granted' <=> \E n \in Given : n < turn'
      BY <1>1, <1>6, <2>1 DEF GrantsSoFar
    <3> QED BY <1>1, <1>5, <3>1, <3>2, <3>3 DEF GrantsSoFar
  <2>4. CanTypeOK'
    <3>1. turn' \in Nat \ {0}
      BY <1>1 DEF CanTypeOK
    <3>2. granted' \in BOOLEAN
      BY <2>1
    <3> QED BY <1>1, <2>1, <3>1, <3>2 DEF CanTypeOK
  <2> QED BY <1>1, <2>1, <2>3, <2>4 DEF DecidingInv, VerdictIsThePolicys
<1> QED BY <1>7, <1>8

\* All grants are read, and none denies: one that allows is enough, else the role decides.
LEMMA GrantsDecide ==
  ASSUME DecidingInv, AfterGrants
  PROVE  DecidingInv'
<1>1. /\ CanTypeOK /\ GrantsSoFar /\ turn > Len(policy.grants)
      /\ deciding' = "decided" /\ verdict' = (granted \/ RoleAllows(asks.who, asks.action))
      /\ UNCHANGED <<asks, policy, turn, specificity, effect, granted>>
  BY DEF DecidingInv, AfterGrants, Decided
<1>2. \A n \in Given : n < turn
  BY <1>1, PolicyLists DEF Given, CanTypeOK
<1>3. granted <=> Given # {}
  BY <1>1, <1>2 DEF GrantsSoFar
<1>4. ~(asks.path # NoPath /\ Applying # {})
  BY <1>1 DEF GrantsSoFar
<1>5. \A n \in Given : policy.grants[n].effect # "deny"
  BY <1>1, <1>2 DEF GrantsSoFar
<1>6. Allowed <=> granted \/ RoleAllows(asks.who, asks.action)
  BY <1>3, <1>4, <1>5 DEF Allowed
<1>7. verdict' <=> Allowed'
  BY <1>1, <1>6, PolicyStands
<1>8. CanTypeOK'
  BY <1>1 DEF CanTypeOK
<1> QED BY <1>1, <1>7, <1>8 DEF DecidingInv, VerdictIsThePolicys

LEMMA DecidingKept == DecidingInv /\ [CanNext]_canVars => DecidingInv'
<1> SUFFICES ASSUME DecidingInv, [CanNext]_canVars PROVE DecidingInv'
  OBVIOUS
<1>1. CASE SkipRule \/ TakeRule \/ JoinRule
  BY <1>1, RulesKeepDeciding
<1>2. CASE AfterRules
  BY <1>2, RulesDecide
<1>3. CASE ReadGrant
  BY <1>3, GrantsKeepDeciding
<1>4. CASE AfterGrants
  BY <1>4, GrantsDecide
<1>5. CASE UNCHANGED canVars
  <2>1. /\ UNCHANGED <<asks, policy>>
        /\ UNCHANGED <<deciding, turn, specificity, effect, granted, verdict>>
    BY <1>5 DEF canVars
  <2>2. /\ Applying' = Applying /\ Given' = Given /\ Allowed' = Allowed /\ ReadSoFar' = ReadSoFar
        /\ \A n : SpecificityOf(n)' = SpecificityOf(n)
    BY <2>1, PolicyStands DEF ReadSoFar
  <2> QED BY <2>1, <2>2 DEF DecidingInv, CanTypeOK, RulesSoFar, GrantsSoFar, VerdictIsThePolicys
<1> QED BY <1>1, <1>2, <1>3, <1>4, <1>5 DEF CanNext

\* can() answers what the policy says: the best rules of the page, a denial among them first;
\* then the grants, a denial first; then the role; in whatever order they are listed.
THEOREM VerdictsFollowThePolicy == CanSpec => []VerdictIsThePolicys
<1>1. DecidingInv => VerdictIsThePolicys
  BY DEF DecidingInv
<1> QED BY <1>1, DecidingStarts, DecidingKept, PTL DEF CanSpec

-----------------------------------------------------------------------------
(* The credentials of a user.                                              *)

\* What a request remembers while it is under way.
AttemptShape(req) ==
  \/ req = NoAttempt
  \/ /\ req.op = "login" /\ req.at \in {"code", "sign", "consume"} /\ area # "rows"
     /\ req.at = "consume" => req.code \in Codes
  \/ /\ req.op = "change" /\ req.at = "write"
     /\ req.disable \in BOOLEAN /\ req.stamp \in 1..now /\ req.row \in 0..MaxRows
  \/ /\ req.op = "change" /\ req.at = "delete" /\ req.kind = "reset"
     /\ req.stamp \in 1..now /\ req.row \in Ids
  \/ /\ req.op = "present" /\ req.at = "delete"
     /\ req.kind \in {"state", "verification", "challenge"} /\ req.row \in Ids
     /\ req.kind = "challenge" => area = "passkey"
  \/ /\ req.op = "totp" /\ req.at \in {"setup", "enable", "regenerate", "disable"}
     /\ req.secret \in {0, 1} /\ req.enabled \in BOOLEAN
  \/ req.op = "passkey" /\ req.at = "update" /\ req.counter \in Nat /\ area = "passkey"
  \/ req.op = "key" /\ req.at = "mark"

ShapeInv ==
  /\ SignTypeOK
  /\ logins = [r \in Attempts |-> logins[r]]
  /\ \A r \in Attempts : AttemptShape(logins[r])
  /\ lastRow \in 0..MaxRows
  /\ user.invalidBefore \in 0..now
  /\ area = "rows" => sessions = {}

\* A row or a code that can still be presented has not been accepted.
FreshInv ==
  /\ spent \in [Ids \cup Codes -> Nat]
  /\ shared \subseteq Ids
  /\ \A row \in rows : row.id <= lastRow /\ spent[row.id] = 0
  /\ \A row, other \in rows : row.id = other.id => row = other
  /\ \A id \in Ids : id > lastRow => spent[id] = 0 /\ id \notin shared
  /\ \A code \in codes : spent[code] = 0
  /\ \A x \in (Ids \cup Codes) \ shared : spent[x] <= 1

Holding(r) == logins[r].at = "delete"

\* A row that a request has read and not deleted has not been accepted, and no other request
\* has read it, unless it is shared; such rows are of servers, and no tickets.
HoldersInv ==
  /\ database = "sqlite" => shared = {} /\ \A r \in Attempts : ~ Holding(r)
  /\ \A row \in rows : row.kind = "ticket" =>
       row.id \notin shared /\ \A r \in Attempts : Holding(r) => logins[r].row # row.id
  /\ \A r \in Attempts : Holding(r) =>
       /\ logins[r].row \in Ids /\ logins[r].row <= lastRow
       /\ logins[r].row \notin shared =>
            /\ spent[logins[r].row] = 0
            /\ \A s \in Attempts : Holding(s) /\ logins[s].row = logins[r].row => s = r

\* One request at a time changes the second factor: what it has read is still so.
FactorsInv ==
  "totp" \notin Overlaps =>
    /\ TwoFactorsAreWhole
    /\ \A r, s \in TotpRequests : r = s
    /\ \A r \in TotpRequests :
         /\ logins[r].secret = user.secret /\ logins[r].enabled = user.enabled
         /\ logins[r].at \in {"enable", "regenerate"} => user.secret # 0
         /\ logins[r].at = "regenerate" => user.enabled

\* One request at a time changes what refuses sessions: its stamp is a later one.
StampsInv ==
  "changes" \notin Overlaps /\ area # "rows" =>
    /\ \A r, s \in Changes : r = s
    /\ \A r \in Changes : logins[r].stamp >= user.invalidBefore

SignInd == ShapeInv /\ FreshInv /\ HoldersInv /\ FactorsInv /\ StampsInv

-----------------------------------------------------------------------------
(* Shapes.                                                                 *)

\* A request begins, goes on or ends.
Begins(r) ==
  \/ Login(r) \/ ReadKey(r)
  \/ \E disable \in BOOLEAN : StartChange(r, disable)
  \/ \E row \in rows : StartReset(r, row) \/ StartPasskey(r, row) \/ Present(r, row)
  \/ \E what \in {"setup", "enable", "regenerate", "disable"} : StartTotp(r, what)

GoesOn(r) ==
  \/ SignIn(r) \/ WriteChange(r) \/ ConsumePasswordReset(r) \/ WriteReset(r)
  \/ DeletePresented(r)
  \/ SetupTotp(r) \/ EnableTotp(r) \/ DisableTotp(r)
  \/ UseTotpCode(r) \/ ConsumeRecoveryCode(r)
  \/ \E code \in Codes : MatchRecoveryCode(r, code)
  \/ UpdateAuthentication(r) \/ MarkUsedIfActive(r)

LEMMA Steps ==
  ASSUME SignNext
  PROVE  \/ Tick \/ Revoke
         \/ \E kind \in Kinds : Issue(kind)
         \/ \E row \in rows : Discard(row) \/ Redeem(row)
         \/ \E r \in Attempts : Begins(r) \/ GoesOn(r) \/ FindReset(r)
BY Zenon DEF SignNext, Begins, GoesOn

LEMMA AreaStays ==
  ASSUME SignNext
  PROVE  UNCHANGED <<area, database>>
<1>1. CASE Tick \/ Revoke
  BY <1>1 DEF Tick, Revoke
<1>2. ASSUME NEW kind \in Kinds, Issue(kind)
      PROVE  UNCHANGED <<area, database>>
  BY <1>2 DEF Issue
<1>3. ASSUME NEW row \in rows, Discard(row) \/ Redeem(row)
      PROVE  UNCHANGED <<area, database>>
  BY <1>3 DEF Discard, Redeem
<1>4. ASSUME NEW r \in Attempts, Begins(r)
      PROVE  UNCHANGED <<area, database>>
  BY <1>4 DEF Begins, Login, ReadKey, StartChange, StartReset, StartPasskey, Present, StartTotp
<1>5. ASSUME NEW r \in Attempts, GoesOn(r)
      PROVE  UNCHANGED <<area, database>>
  BY <1>5 DEF GoesOn, SignIn, WriteChange, ConsumePasswordReset, WriteReset, DeletePresented,
              SetupTotp, EnableTotp, DisableTotp, UseTotpCode, ConsumeRecoveryCode,
              MatchRecoveryCode, UpdateAuthentication, MarkUsedIfActive
<1>6. ASSUME NEW r \in Attempts, FindReset(r)
      PROVE  UNCHANGED <<area, database>>
  BY <1>6 DEF FindReset
<1> QED
  BY <1>1, <1>2, <1>3, <1>4, <1>5, <1>6, Steps

\* A request goes on to a record of the right shape; the others stay as they are.
LEMMA AttemptsGoOn ==
  ASSUME ShapeInv, UNCHANGED <<area, now>>, NEW r \in Attempts, NEW req, AttemptShape(req),
         Proceed(r, req)
  PROVE  /\ logins' = [s \in Attempts |-> logins'[s]]
         /\ logins'[r] = req /\ \A s \in Attempts \ {r} : logins'[s] = logins[s]
         /\ (\A s \in Attempts : AttemptShape(logins[s]))'
<1>1. logins' = [s \in Attempts |-> IF s = r THEN req ELSE logins[s]]
  BY DEF ShapeInv, Proceed
<1>2. logins'[r] = req /\ \A s \in Attempts \ {r} : logins'[s] = logins[s]
  BY <1>1
<1>3. \A s \in Attempts : AttemptShape(logins[s])
  BY DEF ShapeInv
<1>4. (\A s \in Attempts : AttemptShape(logins[s]))'
  BY <1>2, <1>3 DEF AttemptShape
<1> QED
  BY <1>1, <1>2, <1>4

\* A request ends.
LEMMA AttemptsEnd ==
  ASSUME ShapeInv, UNCHANGED <<area, now>>, NEW r \in Attempts, EndAttempt(r)
  PROVE  /\ logins' = [s \in Attempts |-> logins'[s]]
         /\ logins'[r] = NoAttempt /\ \A s \in Attempts \ {r} : logins'[s] = logins[s]
         /\ (\A s \in Attempts : AttemptShape(logins[s]))'
<1>1. AttemptShape(NoAttempt) /\ Proceed(r, NoAttempt)
  BY DEF AttemptShape, EndAttempt
<1> QED
  BY <1>1, AttemptsGoOn

\* The requests are of their kinds because they have their shapes.
LEMMA ShapesOfKinds ==
  ASSUME NEW req, AttemptShape(req)
  PROVE  req.op \in {"free", "login", "change", "totp", "passkey", "key", "present"}
BY DEF AttemptShape, NoAttempt

\* The shapes of everything but the requests.
RestOK ==
  /\ now \in 1 .. MaxTime
  /\ user \in [invalidBefore : 0 .. MaxTime, disabled : BOOLEAN, verified : BOOLEAN,
               secret : {0, 1}, enabled : BOOLEAN]
  /\ user.invalidBefore \in 0..now
  /\ sessions \subseteq 1 .. MaxTime
  /\ rows \subseteq [kind : Kinds, id : Ids, expiresAt : Nat]
  /\ lastRow \in 0..MaxRows
  /\ area = "rows" => sessions = {}
  /\ codes \subseteq Codes
  /\ counter \in Nat
  /\ key \in [revokedAt : 0 .. MaxTime, lastUsedAt : 0 .. MaxTime]

AttemptsOK ==
  /\ logins = [r \in Attempts |-> logins[r]]
  /\ \A r \in Attempts : AttemptShape(logins[r])

LEMMA ShapeParts == ShapeInv <=> RestOK /\ AttemptsOK
<1>1. ASSUME AttemptsOK
      PROVE  \A r \in Attempts :
               logins[r].op \in {"free", "login", "change", "totp", "passkey", "key", "present"}
  BY <1>1, ShapesOfKinds DEF AttemptsOK
<1> QED
  BY <1>1 DEF ShapeInv, SignTypeOK, RestOK, AttemptsOK

\* A request begins.
LEMMA AttemptsBegin ==
  ASSUME ShapeInv, UNCHANGED <<area, now>>, NEW r \in Attempts, NEW req, AttemptShape(req),
         BeginAttempt(r, req)
  PROVE  /\ AttemptsOK'
         /\ logins[r] = NoAttempt /\ logins'[r] = req
         /\ \A s \in Attempts \ {r} : logins'[s] = logins[s]
<1>1. Proceed(r, req) /\ logins[r] = NoAttempt
  BY DEF BeginAttempt, Proceed
<1> QED
  BY <1>1, AttemptsGoOn DEF AttemptsOK

LEMMA NewAttempts ==
  ASSUME ShapeInv, NEW r \in Attempts, Begins(r)
  PROVE  /\ AttemptsOK'
         /\ logins[r] = NoAttempt /\ \A s \in Attempts \ {r} : logins'[s] = logins[s]
         /\ logins'[r].at = "delete" => \E row \in rows : Present(r, row)
<1> DEFINE Goal == /\ AttemptsOK'
                   /\ logins[r] = NoAttempt /\ \A s \in Attempts \ {r} : logins'[s] = logins[s]
                   /\ logins'[r].at = "delete" => \E row \in rows : Present(r, row)
<1>0. RestOK
  BY ShapeParts
<1>1. CASE Login(r)
  <2> DEFINE req == [op |-> "login", at |-> IF user.enabled THEN "code" ELSE "sign"]
  <2>1. AttemptShape(req) /\ BeginAttempt(r, req) /\ UNCHANGED <<area, now>> /\ req.at # "delete"
    BY <1>1 DEF Login, AttemptShape
  <2> QED
    BY <2>1, AttemptsBegin
<1>2. CASE ReadKey(r)
  <2> DEFINE req == [op |-> "key", at |-> "mark"]
  <2>1. AttemptShape(req) /\ BeginAttempt(r, req) /\ UNCHANGED <<area, now>> /\ req.at # "delete"
    BY <1>2 DEF ReadKey, AttemptShape
  <2> QED
    BY <2>1, AttemptsBegin
<1>3. ASSUME NEW disable \in BOOLEAN, StartChange(r, disable)
      PROVE  Goal
  <2> DEFINE req == [op |-> "change", at |-> "write", disable |-> disable, stamp |-> now, row |-> 0]
  <2>1. AttemptShape(req) /\ BeginAttempt(r, req) /\ UNCHANGED <<area, now>> /\ req.at # "delete"
    BY <1>0, <1>3, SignInAssumption DEF StartChange, AttemptShape, RestOK
  <2> QED
    BY <2>1, AttemptsBegin
<1>4. ASSUME NEW row \in rows, StartReset(r, row)
      PROVE  Goal
  <2> DEFINE req ==
        [op |-> "change", at |-> "write", disable |-> FALSE, stamp |-> now, row |-> row.id]
  <2>1. AttemptShape(req) /\ BeginAttempt(r, req) /\ UNCHANGED <<area, now>> /\ req.at # "delete"
    BY <1>0, <1>4, SignInAssumption DEF StartReset, AttemptShape, RestOK, Ids
  <2> QED
    BY <2>1, AttemptsBegin
<1>5. ASSUME NEW row \in rows, StartPasskey(r, row)
      PROVE  Goal
  <2> DEFINE req == [op |-> "passkey", at |-> "update", counter |-> counter]
  <2>1. AttemptShape(req) /\ BeginAttempt(r, req) /\ UNCHANGED <<area, now>> /\ req.at # "delete"
    BY <1>0, <1>5 DEF StartPasskey, AttemptShape, RestOK
  <2> QED
    BY <2>1, AttemptsBegin
<1>6. ASSUME NEW what \in {"setup", "enable", "regenerate", "disable"}, StartTotp(r, what)
      PROVE  Goal
  <2> DEFINE req == [op |-> "totp", at |-> what, secret |-> user.secret, enabled |-> user.enabled]
  <2>1. AttemptShape(req) /\ BeginAttempt(r, req) /\ UNCHANGED <<area, now>> /\ req.at # "delete"
    BY <1>0, <1>6 DEF StartTotp, AttemptShape, RestOK
  <2> QED
    BY <2>1, AttemptsBegin
<1>7. ASSUME NEW row \in rows, Present(r, row)
      PROVE  Goal
  <2> DEFINE req == [op |-> "present", at |-> "delete", row |-> row.id, kind |-> row.kind]
  <2>1. AttemptShape(req) /\ BeginAttempt(r, req) /\ UNCHANGED <<area, now>>
    BY <1>0, <1>7 DEF Present, AttemptShape, RestOK
  <2>2. \E x \in rows : Present(r, x)
    BY <1>7
  <2> QED
    BY <2>1, <2>2, AttemptsBegin
<1> QED
  BY <1>1, <1>2, <1>3, <1>4, <1>5, <1>6, <1>7 DEF Begins

\* The requests that go on or end.
LEMMA OldAttempts ==
  ASSUME ShapeInv, NEW r \in Attempts, GoesOn(r)
  PROVE  /\ AttemptsOK'
         /\ logins'[r].op \in {"free", "login", "passkey"} /\ logins'[r].at # "delete"
         /\ \A s \in Attempts \ {r} : logins'[s] = logins[s]
<1> DEFINE sign == [op |-> "login", at |-> "sign"]
<1>0. AttemptShape(logins[r]) /\ RestOK
  BY ShapeParts DEF ShapeInv
<1>1. CASE /\ EndAttempt(r) /\ UNCHANGED <<area, now>>
  BY <1>1, AttemptsEnd DEF AttemptsOK, NoAttempt
<1>2. CASE /\ Proceed(r, sign) /\ UNCHANGED <<area, now>> /\ logins[r].op \in {"login", "passkey"}
  <2>1. AttemptShape(sign) /\ sign.op = "login" /\ sign.at # "delete"
    BY <1>0, <1>2 DEF AttemptShape, NoAttempt
  <2> QED
    BY <1>2, <2>1, AttemptsGoOn DEF AttemptsOK
<1>3. ASSUME NEW code \in Codes, MatchRecoveryCode(r, code)
      PROVE  /\ AttemptsOK' /\ logins'[r].op = "login" /\ logins'[r].at # "delete"
             /\ \A s \in Attempts \ {r} : logins'[s] = logins[s]
  <2> DEFINE req == [op |-> "login", at |-> "consume", code |-> code]
  <2>1. AttemptShape(req) /\ Proceed(r, req) /\ UNCHANGED <<area, now>>
        /\ req.op = "login" /\ req.at # "delete"
    BY <1>0, <1>3 DEF MatchRecoveryCode, AttemptShape, NoAttempt
  <2> QED
    BY <2>1, AttemptsGoOn DEF AttemptsOK
<1>4. CASE SignIn(r) \/ WriteChange(r) \/ ConsumePasswordReset(r) \/ WriteReset(r)
           \/ SetupTotp(r) \/ EnableTotp(r) \/ DisableTotp(r) \/ MarkUsedIfActive(r)
  BY <1>1, <1>4 DEF SignIn, WriteChange, ConsumePasswordReset, WriteReset, SetupTotp, EnableTotp,
                    DisableTotp, MarkUsedIfActive
<1>5. CASE UseTotpCode(r) \/ ConsumeRecoveryCode(r) \/ UpdateAuthentication(r)
  BY <1>1, <1>2, <1>5 DEF UseTotpCode, ConsumeRecoveryCode, UpdateAuthentication
<1>6. CASE DeletePresented(r)
  <2> DEFINE passkey == [op |-> "passkey", at |-> "update", counter |-> counter]
  <2>1. UNCHANGED <<area, now>> /\ (EndAttempt(r) \/ Proceed(r, passkey))
    BY <1>6 DEF DeletePresented, EndAttempt
  <2>2. CASE EndAttempt(r)
    BY <1>1, <2>1, <2>2
  <2>3. CASE logins[r].kind = "challenge" /\ Proceed(r, passkey)
    <3>1. area = "passkey" /\ counter \in Nat
      BY <1>0, <1>6, <2>3 DEF DeletePresented, AttemptShape, NoAttempt, RestOK
    <3>2. AttemptShape(passkey) /\ passkey.op = "passkey" /\ passkey.at # "delete"
      BY <3>1 DEF AttemptShape
    <3> QED
      BY <2>1, <2>3, <3>2, AttemptsGoOn DEF AttemptsOK
  <2> QED
    BY <1>6, <2>2, <2>3 DEF DeletePresented, EndAttempt
<1> QED
  BY <1>3, <1>4, <1>5, <1>6 DEF GoesOn

\* A request has found its reset, or ends.
LEMMA FoundAttempts ==
  ASSUME ShapeInv, NEW r \in Attempts, FindReset(r)
  PROVE  /\ AttemptsOK' /\ \A s \in Attempts \ {r} : logins'[s] = logins[s]
         /\ logins[r].op = "change" /\ logins[r].at = "write"
         /\ \/ logins'[r] = NoAttempt /\ UNCHANGED shared
            \/ /\ logins'[r].op = "change" /\ logins'[r].stamp = logins[r].stamp
               /\ logins'[r].at = "delete" /\ logins'[r].row = logins[r].row
               /\ \E row \in rows : row.kind = "reset" /\ row.id = logins[r].row /\ ReadRow(row)
<1> DEFINE req == [op |-> "change", at |-> "delete", kind |-> "reset",
                   stamp |-> logins[r].stamp, row |-> logins[r].row]
<1>0. AttemptShape(logins[r]) /\ RestOK
  BY ShapeParts DEF ShapeInv
<1>1. logins[r].op = "change" /\ logins[r].at = "write" /\ UNCHANGED <<area, now>>
  BY DEF FindReset
<1>2. CASE EndAttempt(r) /\ UNCHANGED shared
  BY <1>1, <1>2, AttemptsEnd DEF AttemptsOK
<1>3. ASSUME NEW row \in Found(logins[r]), ReadRow(row), Proceed(r, req)
      PROVE  /\ AttemptsOK' /\ \A s \in Attempts \ {r} : logins'[s] = logins[s]
             /\ logins'[r] = req
             /\ row \in rows /\ row.kind = "reset" /\ row.id = logins[r].row
  <2>1. row \in rows /\ row.kind = "reset" /\ row.id = logins[r].row
    BY <1>3 DEF Found
  <2>2. logins[r].row \in Ids /\ logins[r].stamp \in 1..now
    BY <1>0, <1>1, <2>1 DEF RestOK, AttemptShape, NoAttempt
  <2>3. AttemptShape(req)
    BY <2>2 DEF AttemptShape
  <2> QED
    BY <1>1, <1>3, <2>1, <2>3, AttemptsGoOn DEF AttemptsOK
<1>4. \/ EndAttempt(r) /\ UNCHANGED shared
      \/ \E row \in Found(logins[r]) : ReadRow(row) /\ Proceed(r, req)
  BY DEF FindReset
<1> QED
  BY <1>1, <1>2, <1>3, <1>4

\* The clock does not change their shapes.
LEMMA AttemptsStay ==
  ASSUME AttemptsOK, now \in Nat, now' \in Nat, now' >= now, UNCHANGED <<area, logins>>
  PROVE  AttemptsOK'
<1>1. ASSUME NEW r \in Attempts
      PROVE  AttemptShape(logins[r])'
  BY <1>1 DEF AttemptsOK, AttemptShape
<1> QED
  BY <1>1 DEF AttemptsOK

UserShapes ==
  [invalidBefore : 0 .. MaxTime, disabled : BOOLEAN, verified : BOOLEAN,
   secret : {0, 1}, enabled : BOOLEAN]

\* What a step does not only to the requests.
LEMMA RestStep ==
  ASSUME ShapeInv, SignNext
  PROVE  RestOK'
<1>0. RestOK /\ \A r \in Attempts : AttemptShape(logins[r])
  BY ShapeParts DEF AttemptsOK
<1>1. CASE UNCHANGED <<area, now, user, sessions, rows, lastRow, codes, counter, key>>
  BY <1>0, <1>1 DEF RestOK
<1>2. CASE Tick
  BY <1>0, <1>2, SignInAssumption DEF rowPart, Tick, RestOK
<1>3. CASE Revoke
  BY <1>0, <1>3, SignInAssumption DEF rowPart, Revoke, RestOK
<1>4. ASSUME NEW kind \in Kinds, Issue(kind)
      PROVE  RestOK'
  <2> DEFINE row == [kind |-> kind, id |-> lastRow', expiresAt |-> now + 1]
  <2>1. /\ lastRow' \in Ids /\ lastRow' \in 0..MaxRows
        /\ UNCHANGED <<area, now, user, sessions, codes, counter, key>>
    BY <1>0, <1>4, SignInAssumption DEF Issue, RestOK, Ids
  <2>2. row \in [kind : Kinds, id : Ids, expiresAt : Nat] /\ row.kind = kind
    BY <1>0, <2>1, SignInAssumption DEF RestOK
  <2>3. \A old \in rows' : old \in rows \/ old = row
    BY <1>4 DEF Issue, Cleaned
  <2> QED
    BY <1>0, <2>1, <2>2, <2>3 DEF RestOK
<1>5. ASSUME NEW row \in rows, Discard(row) \/ Redeem(row)
      PROVE  RestOK'
  <2>1. rows' \subseteq rows
    BY <1>5 DEF Discard, Redeem, Consume
  <2>3. UNCHANGED <<area, now, sessions, lastRow, codes, counter, key>>
    BY <1>5 DEF Discard, Redeem
  <2>4. user \in UserShapes
    BY <1>0 DEF RestOK, UserShapes
  <2>5. user' = user \/ user' = [user EXCEPT !.verified = TRUE]
    BY <1>5 DEF Discard, Redeem, Verified
  <2>2. user' \in UserShapes /\ user'.invalidBefore = user.invalidBefore
    BY <2>4, <2>5 DEF UserShapes
  <2> QED
    BY <1>0, <2>1, <2>2, <2>3 DEF RestOK, UserShapes
<1>6. ASSUME NEW r \in Attempts, SignIn(r)
      PROVE  RestOK'
  <2>1. area # "rows"
    BY <1>0, <1>6 DEF SignIn, AttemptShape, NoAttempt
  <2> QED
    BY <1>0, <1>6, <2>1 DEF rowPart, SignIn, SignAuthToken, RestOK
<1>7. ASSUME NEW r \in Attempts, WriteChange(r)
      PROVE  RestOK'
  <2>1. logins[r].stamp \in 1..now /\ logins[r].disable \in BOOLEAN
    BY <1>0, <1>7 DEF WriteChange, AttemptShape, NoAttempt
  <2> DEFINE disabled == user.disabled \/ logins[r].disable
             stamp == logins[r].stamp
  <2>2. disabled \in BOOLEAN /\ stamp \in 0..MaxTime
    BY <1>0, <2>1, SignInAssumption DEF RestOK
  <2>3. user' = [user EXCEPT !.disabled = disabled, !.invalidBefore = stamp]
    BY <1>7 DEF WriteChange
  <2>4. user \in UserShapes
    BY <1>0 DEF RestOK, UserShapes
  <2> HIDE DEF disabled
  <2>5. user' \in UserShapes /\ user'.invalidBefore = stamp
    BY <2>2, <2>3, <2>4 DEF UserShapes
  <2> QED
    BY <1>0, <1>7, <2>1, <2>5 DEF rowPart, WriteChange, RestOK, UserShapes
<1>8. ASSUME NEW r \in Attempts, ConsumePasswordReset(r) \/ WriteReset(r)
      PROVE  RestOK'
  <2>1. logins[r].stamp \in 1..now
    BY <1>0, <1>8 DEF ConsumePasswordReset, WriteReset, AttemptShape, NoAttempt
  <2>2. logins[r].stamp \in 0..MaxTime
    BY <1>0, <2>1, SignInAssumption DEF RestOK
  <2>3. Stamped(logins[r]) \/ UNCHANGED user
    BY <1>8 DEF ConsumePasswordReset, WriteReset
  <2>5. user \in UserShapes
    BY <1>0 DEF RestOK, UserShapes
  <2>6. \/ user' \in UserShapes /\ user'.invalidBefore = logins[r].stamp
        \/ UNCHANGED user
    BY <2>2, <2>3, <2>5 DEF Stamped, UserShapes
  <2>4. rows' \subseteq rows /\ UNCHANGED <<area, now, sessions, lastRow, codes, counter, key>>
    BY <1>8 DEF ConsumePasswordReset, WriteReset, DeleteRow
  <2> QED
    BY <1>0, <2>1, <2>6, <2>4 DEF RestOK, UserShapes
<1>9. ASSUME NEW r \in Attempts, SetupTotp(r) \/ EnableTotp(r) \/ DisableTotp(r)
      PROVE  RestOK'
  <2>1. SetupTotp(r) => logins[r].secret \in {0, 1} /\ logins[r].enabled \in BOOLEAN
    BY <1>0 DEF SetupTotp, AttemptShape, NoAttempt
  <2>2. CASE SetupTotp(r)
    BY <1>0, <2>1, <2>2 DEF rowPart, SetupTotp, RestOK
  <2>3. CASE EnableTotp(r)
    BY <1>0, <2>3 DEF EnableTotp, RestOK
  <2>4. CASE DisableTotp(r)
    BY <1>0, <2>4 DEF DisableTotp, RestOK
  <2> QED
    BY <1>9, <2>2, <2>3, <2>4
<1>10. ASSUME NEW r \in Attempts, ConsumeRecoveryCode(r)
       PROVE  RestOK'
  BY <1>0, <1>10 DEF ConsumeRecoveryCode, RestOK
<1>11. ASSUME NEW r \in Attempts, NEW row \in rows, StartPasskey(r, row)
       PROVE  RestOK'
  BY <1>0, <1>11 DEF StartPasskey, Consume, RestOK
<1>12. ASSUME NEW r \in Attempts, UpdateAuthentication(r)
       PROVE  RestOK'
  BY <1>0, <1>12 DEF rowPart, UpdateAuthentication, Counted, RestOK, AttemptShape, NoAttempt
<1>13. ASSUME NEW r \in Attempts, MarkUsedIfActive(r)
       PROVE  RestOK'
  BY <1>0, <1>13, SignInAssumption DEF rowPart, MarkUsedIfActive, RestOK
<1>14. ASSUME NEW r \in Attempts,
              \/ Login(r) \/ ReadKey(r) \/ UseTotpCode(r)
              \/ \E disable \in BOOLEAN : StartChange(r, disable)
              \/ \E row \in rows : StartReset(r, row) \/ Present(r, row)
              \/ FindReset(r)
              \/ \E what \in {"setup", "enable", "regenerate", "disable"} : StartTotp(r, what)
              \/ \E code \in Codes : MatchRecoveryCode(r, code)
       PROVE  RestOK'
  BY <1>1, <1>14 DEF Login, ReadKey, UseTotpCode, StartChange, StartReset, StartTotp,
                     MatchRecoveryCode, Present, FindReset, rowPart
<1>15. ASSUME NEW r \in Attempts, DeletePresented(r)
       PROVE  RestOK'
  <2>1. rows' \subseteq rows /\ UNCHANGED <<area, now, sessions, lastRow, codes, counter, key>>
    BY <1>15 DEF DeletePresented, DeleteRow
  <2>2. UNCHANGED user \/ user' = [user EXCEPT !.verified = TRUE]
    BY <1>15 DEF DeletePresented, Verified
  <2> QED
    BY <1>0, <2>1, <2>2 DEF RestOK
<1> QED
  BY <1>2, <1>3, <1>4, <1>5, <1>6, <1>7, <1>8, <1>9, <1>10, <1>11, <1>12, <1>13, <1>14, <1>15
  DEF SignNext

LEMMA ShapeStep ==
  ASSUME ShapeInv, SignNext
  PROVE  ShapeInv'
<1>1. RestOK'
  BY RestStep
<1>2. AttemptsOK'
  <2>0. AttemptsOK /\ now \in Nat
    BY ShapeParts, SignInAssumption DEF RestOK
  <2>1. CASE Tick \/ Revoke
    BY <2>0, <2>1, AttemptsStay DEF Tick, Revoke
  <2>2. ASSUME NEW kind \in Kinds, Issue(kind)
        PROVE  AttemptsOK'
    BY <2>0, <2>2, AttemptsStay DEF Issue
  <2>3. ASSUME NEW row \in rows, Discard(row) \/ Redeem(row)
        PROVE  AttemptsOK'
    BY <2>0, <2>3, AttemptsStay DEF Discard, Redeem
  <2>4. ASSUME NEW r \in Attempts, Begins(r) \/ GoesOn(r) \/ FindReset(r)
        PROVE  AttemptsOK'
    BY <2>4, NewAttempts, OldAttempts, FoundAttempts
  <2> QED
    BY <2>1, <2>4, <2>2, <2>3, Steps
<1> QED
  BY <1>1, <1>2, ShapeParts, PTL

-----------------------------------------------------------------------------
(* Rows and codes are accepted once.                                       *)

\* No request has read a row that it did not hold before.
NothingRead ==
  UNCHANGED database /\ \A s \in Attempts : logins'[s].at = "delete" => logins'[s] = logins[s]

\* What the steps do to rows and codes, and to the requests that hold rows.
LEMMA RowSteps ==
  ASSUME ShapeInv, SignNext
  PROVE  \/ NothingRead /\ UNCHANGED rowPart
         \/ NothingRead /\ \E kind \in Kinds : Issue(kind)
         \/ NothingRead /\ \E row \in rows : Discard(row) \/ Redeem(row)
         \/ NothingRead /\ \E r \in Attempts : \E row \in rows : StartPasskey(r, row)
         \/ NothingRead /\ \E r \in Attempts : \/ ConsumePasswordReset(r)
                                               \/ ConsumeRecoveryCode(r)
                                               \/ EnableTotp(r) \/ DisableTotp(r)
                                               \/ WriteReset(r) \/ DeletePresented(r)
         \/ \E r \in Attempts : FindReset(r) \/ \E row \in rows : Present(r, row)
<1> DEFINE Aside == UNCHANGED rowPart
           Here(r) == \/ ConsumePasswordReset(r) \/ ConsumeRecoveryCode(r)
                      \/ EnableTotp(r) \/ DisableTotp(r)
                      \/ WriteReset(r) \/ DeletePresented(r)
           Accepts(r) == \E row \in rows : StartPasskey(r, row)
           Reads(r) == FindReset(r) \/ \E row \in rows : Present(r, row)
<1>1. UNCHANGED database
  BY AreaStays
<1>2. ASSUME NEW r \in Attempts, Begins(r)
      PROVE  (NothingRead /\ (Aside \/ Accepts(r))) \/ Reads(r)
  <2>1. Aside \/ Accepts(r) \/ Reads(r)
    BY <1>2 DEF Begins, Login, ReadKey, StartChange, StartReset, StartTotp
  <2>2. NothingRead \/ Reads(r)
    BY <1>1, <1>2, NewAttempts DEF NothingRead
  <2> QED
    BY <2>1, <2>2
<1>3. ASSUME NEW r \in Attempts, GoesOn(r)
      PROVE  NothingRead /\ (Aside \/ Here(r))
  <2>1. Aside \/ Here(r)
    BY <1>3 DEF GoesOn, SignIn, WriteChange, SetupTotp, UseTotpCode, MatchRecoveryCode,
                UpdateAuthentication, MarkUsedIfActive
  <2>2. NothingRead
    BY <1>1, <1>3, OldAttempts DEF NothingRead
  <2> QED
    BY <2>1, <2>2
<1>4. ASSUME Tick \/ Revoke
      PROVE  NothingRead /\ Aside
  <2>1. Aside
    BY <1>4 DEF Tick, Revoke
  <2> QED
    BY <1>1, <1>4, <2>1 DEF Tick, Revoke, NothingRead
<1>5. ASSUME NEW kind \in Kinds, Issue(kind)
      PROVE  NothingRead
  BY <1>1, <1>5 DEF Issue, NothingRead
<1>6. ASSUME NEW row \in rows, Discard(row) \/ Redeem(row)
      PROVE  NothingRead
  BY <1>1, <1>6 DEF Discard, Redeem, NothingRead
<1>7. \/ NothingRead /\ Aside
      \/ NothingRead /\ \E kind \in Kinds : Issue(kind)
      \/ NothingRead /\ \E row \in rows : Discard(row) \/ Redeem(row)
      \/ NothingRead /\ \E r \in Attempts : Accepts(r)
      \/ NothingRead /\ \E r \in Attempts : Here(r)
      \/ \E r \in Attempts : Reads(r)
  <2> HIDE DEF Aside, Here, Accepts, Reads
  <2>1. CASE Tick \/ Revoke
    BY <1>4, <2>1
  <2>2. CASE \E kind \in Kinds : Issue(kind)
    BY <1>5, <2>2
  <2>3. CASE \E row \in rows : Discard(row) \/ Redeem(row)
    BY <1>6, <2>3
  <2>4. CASE \E r \in Attempts : Begins(r)
    BY <1>2, <2>4
  <2>5. CASE \E r \in Attempts : GoesOn(r)
    BY <1>3, <2>5
  <2>6. CASE \E r \in Attempts : FindReset(r)
    BY <2>6 DEF Reads
  <2> QED
    BY <2>1, <2>2, <2>3, <2>4, <2>5, <2>6, Steps
<1> QED
  BY <1>7

\* What the types say of rows, codes and requests.
LEMMA RowTypes ==
  ASSUME ShapeInv
  PROVE  /\ codes \subseteq Codes /\ rows \subseteq [kind : Kinds, id : Ids, expiresAt : Nat]
         /\ lastRow \in 0..MaxRows /\ Ids \subseteq Nat /\ Ids \cap Codes = {}
         /\ \A row \in rows : row.id \in Ids
BY SignInAssumption DEF ShapeInv, SignTypeOK, Ids

\* One thing more is accepted.
LEMMA Spent ==
  ASSUME FreshInv, NEW x \in Ids \cup Codes, Spend(x)
  PROVE  /\ spent' \in [Ids \cup Codes -> Nat]
         /\ spent'[x] = spent[x] + 1
         /\ \A y \in Ids \cup Codes : y # x => spent'[y] = spent[y]
BY DEF FreshInv, Spend

\* A row that is there is accepted in one step, and is there no more.
LEMMA RowAccepted ==
  ASSUME ShapeInv, FreshInv, HoldersInv, NothingRead, NEW row \in rows, OneStep(row.kind),
         rows' \subseteq rows \ {row}, Spend(row.id), UNCHANGED <<lastRow, codes, shared>>
  PROVE  FreshInv' /\ HoldersInv'
<1>1. row.id \in Ids /\ row.id <= lastRow /\ spent[row.id] = 0 /\ row.id \notin Codes
  BY RowTypes DEF FreshInv
<1>2. /\ spent' \in [Ids \cup Codes -> Nat] /\ spent'[row.id] = 1
      /\ \A x \in Ids \cup Codes : x # row.id => spent'[x] = spent[x]
  <2> DEFINE id == row.id
  <2>1. id \in Ids \cup Codes /\ spent[id] = 0 /\ Spend(id)
    BY <1>1
  <2> HIDE DEF id
  <2>2. /\ spent' \in [Ids \cup Codes -> Nat] /\ spent'[id] = spent[id] + 1
        /\ \A x \in Ids \cup Codes : x # id => spent'[x] = spent[x]
    BY <2>1, Spent
  <2>3. spent'[id] = 1
    BY <2>1, <2>2
  <2> QED
    BY <2>2, <2>3 DEF id
<1>3. \A other \in rows' : other \in rows /\ other.id # row.id /\ other.id \in Ids
  BY RowTypes DEF FreshInv
<1>4. \A id \in Ids : id > lastRow => id # row.id
  BY <1>1, RowTypes
<1>5. FreshInv'
  BY <1>1, <1>2, <1>3, <1>4, RowTypes DEF FreshInv
<1>6. row.id \notin shared /\ \A r \in Attempts : Holding(r) => logins[r].row # row.id
  BY DEF HoldersInv, OneStep
<1>7. \A r \in Attempts : Holding(r)' => Holding(r) /\ logins'[r] = logins[r]
  BY DEF NothingRead, Holding
<1>8. HoldersInv'
  <2>1. (database = "sqlite" => shared = {} /\ \A r \in Attempts : ~ Holding(r))'
    BY <1>7 DEF HoldersInv, NothingRead
  <2>2. \A other \in rows' : other.kind = "ticket" =>
          other.id \notin shared' /\ \A r \in Attempts : Holding(r)' => logins'[r].row # other.id
    BY <1>3, <1>7 DEF HoldersInv
  <2>3. ASSUME NEW r \in Attempts, Holding(r)'
        PROVE  /\ logins'[r].row \in Ids /\ logins'[r].row <= lastRow'
               /\ logins'[r].row \notin shared' =>
                    /\ spent'[logins'[r].row] = 0
                    /\ \A s \in Attempts : Holding(s)' /\ logins'[s].row = logins'[r].row => s = r
    BY <1>2, <1>6, <1>7, <2>3 DEF HoldersInv
  <2> HIDE DEF HoldersInv
  <2> QED
    BY <2>1, <2>2, <2>3 DEF HoldersInv
<1> QED
  BY <1>5, <1>8

\* A row is read, and will be deleted later.
LEMMA RowRead ==
  ASSUME ShapeInv, FreshInv, HoldersInv, NEW row \in rows, ~ OneStep(row.kind), ReadRow(row),
         NEW r \in Attempts, ~ Holding(r), logins'[r].at = "delete", logins'[r].row = row.id,
         \A s \in Attempts \ {r} : logins'[s] = logins[s],
         UNCHANGED <<database, rows, lastRow, codes, spent>>
  PROVE  FreshInv' /\ HoldersInv'
<1>1. row.id \in Ids /\ row.id <= lastRow /\ spent[row.id] = 0 /\ row.id \notin Codes
  BY RowTypes DEF FreshInv
<1>2. /\ shared \subseteq shared' /\ shared' \subseteq shared \cup {row.id}
      /\ row.id \notin shared' => \A s \in Attempts : Holding(s) => logins[s].row # row.id
  BY DEF ReadRow, Holders, Holding
<1>3. FreshInv'
  <2>1. \A id \in Ids : id > lastRow => id # row.id
    BY <1>1, RowTypes
  <2>2. \A id \in Ids : id > lastRow' => spent'[id] = 0 /\ id \notin shared'
    BY <1>2, <2>1 DEF FreshInv
  <2>3. shared' \subseteq Ids /\ \A x \in (Ids \cup Codes) \ shared' : spent'[x] <= 1
    BY <1>1, <1>2 DEF FreshInv
  <2> QED
    BY <2>2, <2>3 DEF FreshInv
<1>4. database # "sqlite" /\ row.kind # "ticket"
  BY DEF OneStep
<1>5. \A s \in Attempts : Holding(s)' => s = r \/ (Holding(s) /\ logins'[s] = logins[s])
  BY DEF Holding
<1>6. \A other \in rows' : other.kind = "ticket" =>
        other.id \notin shared' /\ \A s \in Attempts : Holding(s)' => logins'[s].row # other.id
  <2> SUFFICES ASSUME NEW other \in rows, other.kind = "ticket"
               PROVE  other.id \notin shared'
                      /\ \A s \in Attempts : Holding(s)' => logins'[s].row # other.id
    OBVIOUS
  <2>1. other.id # row.id
    BY <1>4 DEF FreshInv
  <2> QED
    BY <1>2, <1>5, <2>1 DEF HoldersInv
<1>7. ASSUME NEW s \in Attempts, Holding(s)'
      PROVE  /\ logins'[s].row \in Ids /\ logins'[s].row <= lastRow'
             /\ logins'[s].row \notin shared' =>
                  /\ spent'[logins'[s].row] = 0
                  /\ \A t \in Attempts : Holding(t)' /\ logins'[t].row = logins'[s].row => t = s
  <2>1. CASE s = r
    BY <1>1, <1>2, <1>5, <1>7, <2>1
  <2>2. CASE s # r
    <3>1. Holding(s) /\ logins'[s] = logins[s]
      BY <1>5, <1>7, <2>2
    <3> QED
      BY <1>2, <1>5, <3>1 DEF HoldersInv
  <2> QED
    BY <2>1, <2>2
<1>8. HoldersInv'
  <2> HIDE DEF HoldersInv
  <2> QED
    BY <1>4, <1>6, <1>7 DEF HoldersInv
<1> QED
  BY <1>3, <1>8

\* A row that was read is deleted and accepted, whether or not it is still there.
LEMMA RowDeleted ==
  ASSUME ShapeInv, FreshInv, HoldersInv, NothingRead, NEW r \in Attempts, Holding(r),
         logins'[r].at # "delete", DeleteRow(logins[r]), UNCHANGED <<lastRow, codes, shared>>
  PROVE  FreshInv' /\ HoldersInv'
<1> DEFINE x == logins[r].row
<1>1. /\ x \in Ids /\ x <= lastRow /\ x \notin Codes
      /\ x \notin shared => /\ spent[x] = 0
                            /\ \A s \in Attempts : Holding(s) /\ logins[s].row = x => s = r
  BY RowTypes DEF HoldersInv
<1>2. Spend(x) /\ \A row \in rows' : row \in rows /\ row.id # x /\ row.id \in Ids
  BY RowTypes DEF DeleteRow
<1>7. \A s \in Attempts : Holding(s)' => s # r /\ Holding(s) /\ logins'[s] = logins[s]
  BY DEF NothingRead, Holding
<1> HIDE DEF x
<1>3. /\ spent' \in [Ids \cup Codes -> Nat] /\ spent'[x] = spent[x] + 1
      /\ \A y \in Ids \cup Codes : y # x => spent'[y] = spent[y]
  BY <1>1, <1>2, Spent
<1>4. \A id \in Ids : id > lastRow => id # x
  BY <1>1, RowTypes
<1>5. FreshInv'
  <2>1. \A y \in (Ids \cup Codes) \ shared' : spent'[y] <= 1
    BY <1>1, <1>3 DEF FreshInv
  <2>2. \A row \in rows' : row.id <= lastRow' /\ spent'[row.id] = 0
    BY <1>2, <1>3 DEF FreshInv
  <2>3. \A id \in Ids : id > lastRow' => spent'[id] = 0 /\ id \notin shared'
    BY <1>3, <1>4 DEF FreshInv
  <2>4. \A code \in codes' : spent'[code] = 0
    BY <1>1, <1>3, RowTypes DEF FreshInv
  <2>5. \A row, other \in rows' : row.id = other.id => row = other
    BY <1>2 DEF FreshInv
  <2> QED
    BY <1>3, <2>1, <2>2, <2>3, <2>4, <2>5 DEF FreshInv
<1>6. ASSUME NEW s \in Attempts, Holding(s)'
      PROVE  /\ logins'[s].row \in Ids /\ logins'[s].row <= lastRow'
             /\ logins'[s].row \notin shared' =>
                  /\ spent'[logins'[s].row] = 0
                  /\ \A t \in Attempts : Holding(t)' /\ logins'[t].row = logins'[s].row => t = s
  <2>1. Holding(s) /\ logins'[s] = logins[s] /\ s # r
    BY <1>6, <1>7
  <2>2. logins[s].row \notin shared => logins[s].row # x
    BY <2>1 DEF HoldersInv, x
  <2> QED
    BY <1>3, <1>7, <2>1, <2>2 DEF HoldersInv
<1>8. (database = "sqlite" => shared = {} /\ \A s \in Attempts : ~ Holding(s))'
  BY <1>7 DEF HoldersInv, NothingRead
<1>9. \A row \in rows' : row.kind = "ticket" =>
        row.id \notin shared' /\ \A s \in Attempts : Holding(s)' => logins'[s].row # row.id
  BY <1>2, <1>7 DEF HoldersInv
<1>10. HoldersInv'
  <2> HIDE DEF HoldersInv
  <2> QED
    BY <1>6, <1>8, <1>9 DEF HoldersInv
<1> QED
  BY <1>5, <1>10

\* The holders are among those of before, of rows about which nothing changed.
LEMMA HoldersStay ==
  ASSUME ShapeInv, FreshInv, HoldersInv, NothingRead, UNCHANGED shared,
         lastRow' \in Nat, lastRow' >= lastRow, \A x \in Ids : spent'[x] = spent[x],
         \A row \in rows' : row \in rows \/ row.id > lastRow
  PROVE  HoldersInv'
<1>1. \A s \in Attempts : Holding(s)' => Holding(s) /\ logins'[s] = logins[s]
  BY DEF NothingRead, Holding
<1>2. (database = "sqlite" => shared = {} /\ \A s \in Attempts : ~ Holding(s))'
  BY <1>1 DEF HoldersInv, NothingRead
<1>3. \A row \in rows' : row.kind = "ticket" =>
        row.id \notin shared' /\ \A s \in Attempts : Holding(s)' => logins'[s].row # row.id
  <2> SUFFICES ASSUME NEW row \in rows', row.kind = "ticket"
               PROVE  /\ row.id \notin shared
                      /\ \A s \in Attempts : Holding(s)' => logins'[s].row # row.id
    OBVIOUS
  <2>1. CASE row \in rows
    BY <1>1, <2>1 DEF HoldersInv
  <2>2. CASE row.id > lastRow
    <3>1. \A id \in Ids : id <= lastRow => id # row.id
      BY <2>2, RowTypes
    <3>2. row.id \notin shared
      BY <2>2, RowTypes DEF FreshInv
    <3>3. \A s \in Attempts : Holding(s) => logins[s].row # row.id
      BY <3>1 DEF HoldersInv
    <3> QED
      BY <1>1, <3>2, <3>3
  <2> QED
    BY <2>1, <2>2
<1>4. ASSUME NEW s \in Attempts, Holding(s)'
      PROVE  /\ logins'[s].row \in Ids /\ logins'[s].row <= lastRow'
             /\ logins'[s].row \notin shared' =>
                  /\ spent'[logins'[s].row] = 0
                  /\ \A t \in Attempts : Holding(t)' /\ logins'[t].row = logins'[s].row => t = s
  <2>1. Holding(s) /\ logins'[s] = logins[s]
    BY <1>1, <1>4
  <2>2. logins[s].row \in Nat /\ logins[s].row <= lastRow /\ lastRow \in Nat
    BY <2>1, RowTypes DEF HoldersInv
  <2> QED
    BY <1>1, <2>1, <2>2 DEF HoldersInv
<1> QED
  BY <1>2, <1>3, <1>4 DEF HoldersInv

LEMMA FreshStep ==
  ASSUME ShapeInv, FreshInv, HoldersInv, SignNext
  PROVE  FreshInv' /\ HoldersInv'
<1>1. CASE NothingRead /\ UNCHANGED rowPart
  <2>1. FreshInv'
    BY <1>1 DEF FreshInv, rowPart
  <2> QED
    BY <1>1, <2>1, HoldersStay, RowTypes DEF rowPart
<1>2. ASSUME NothingRead, NEW kind \in Kinds, Issue(kind)
      PROVE  FreshInv' /\ HoldersInv'
  <2> DEFINE new == [kind |-> kind, id |-> lastRow + 1, expiresAt |-> now + 1]
  <2>1. /\ lastRow' = lastRow + 1 /\ lastRow + 1 \in Ids
        /\ UNCHANGED <<codes, spent, shared>>
        /\ \A row \in rows' : row \in rows \/ row = new
    BY <1>2, RowTypes, SignInAssumption DEF Issue, Cleaned, Ids
  <2>2. new.id = lastRow + 1 /\ spent[lastRow + 1] = 0
    BY <2>1, RowTypes DEF FreshInv
  <2>3. \A row \in rows : row.id <= lastRow /\ row.id # lastRow + 1 /\ row.id \in Nat
    BY RowTypes DEF FreshInv
  <2>4. FreshInv'
    BY <2>1, <2>2, <2>3, RowTypes, SignInAssumption DEF FreshInv, Ids
  <2>5. /\ lastRow' \in Nat /\ lastRow' >= lastRow
        /\ \A row \in rows' : row \in rows \/ row.id > lastRow
    BY <2>1, <2>2, RowTypes
  <2> QED
    BY <1>2, <2>1, <2>4, <2>5, HoldersStay
<1>3. ASSUME NothingRead, NEW row \in rows, Discard(row)
      PROVE  FreshInv' /\ HoldersInv'
  <2>1. FreshInv'
    BY <1>3 DEF Discard, FreshInv
  <2>2. /\ lastRow' \in Nat /\ lastRow' >= lastRow
        /\ UNCHANGED <<spent, shared>> /\ rows' \subseteq rows
    BY <1>3, RowTypes DEF Discard
  <2> QED
    BY <1>3, <2>1, <2>2, HoldersStay
<1>4. ASSUME NothingRead, NEW row \in rows, Redeem(row)
      PROVE  FreshInv' /\ HoldersInv'
  BY <1>4, RowAccepted DEF Redeem, Consume
<1>5. ASSUME NothingRead, NEW r \in Attempts, NEW row \in rows, StartPasskey(r, row)
      PROVE  FreshInv' /\ HoldersInv'
  BY <1>5, RowAccepted DEF StartPasskey, Consume
<1>6. ASSUME NothingRead, NEW r \in Attempts, ConsumePasswordReset(r)
      PROVE  FreshInv' /\ HoldersInv'
  <2>1. CASE Found(logins[r]) = {}
    BY <1>1, <1>6, <2>1 DEF ConsumePasswordReset, rowPart
  <2>2. CASE Found(logins[r]) # {}
    <3>1. PICK row \in rows : row.id = logins[r].row /\ row.kind = "reset"
      BY <2>2 DEF Found
    <3>2. Spend(row.id) /\ rows' = {x \in rows : x.kind # "reset"}
          /\ UNCHANGED <<lastRow, codes, shared>> /\ OneStep(row.kind)
      BY <1>6, <2>2, <3>1 DEF ConsumePasswordReset
    <3> QED
      BY <1>6, <3>1, <3>2, RowAccepted
  <2> QED
    BY <2>1, <2>2
<1>7. ASSUME NothingRead, NEW r \in Attempts, ConsumeRecoveryCode(r)
      PROVE  FreshInv' /\ HoldersInv'
  <2> DEFINE code == logins[r].code
  <2>1. CASE code \notin codes
    BY <1>1, <1>7, <2>1 DEF ConsumeRecoveryCode, rowPart
  <2>2. CASE code \in codes
    <3>1. codes' = codes \ {code} /\ Spend(code) /\ UNCHANGED <<rows, lastRow, shared>>
      BY <1>7, <2>2 DEF ConsumeRecoveryCode
    <3>2. code \in Codes /\ spent[code] = 0 /\ code \notin Ids
      BY <2>2, RowTypes DEF FreshInv
    <3> HIDE DEF code
    <3>3. /\ spent' \in [Ids \cup Codes -> Nat] /\ spent'[code] = spent[code] + 1
          /\ \A x \in Ids \cup Codes : x # code => spent'[x] = spent[x]
      BY <3>1, <3>2, Spent
    <3>4. FreshInv'
      BY <3>1, <3>2, <3>3, RowTypes DEF FreshInv
    <3>5. \A x \in Ids : spent'[x] = spent[x]
      BY <3>2, <3>3
    <3> QED
      BY <1>7, <3>1, <3>4, <3>5, HoldersStay, RowTypes
  <2> QED
    BY <2>1, <2>2
<1>8. ASSUME NothingRead, NEW r \in Attempts, EnableTotp(r) \/ DisableTotp(r)
      PROVE  FreshInv' /\ HoldersInv'
  <2>1. FreshInv'
    BY <1>8 DEF EnableTotp, DisableTotp, FreshInv
  <2>2. UNCHANGED <<rows, lastRow, spent, shared>>
    BY <1>8 DEF EnableTotp, DisableTotp
  <2> QED
    BY <1>8, <2>1, <2>2, HoldersStay, RowTypes
<1>9. ASSUME NothingRead, NEW r \in Attempts, WriteReset(r) \/ DeletePresented(r)
      PROVE  FreshInv' /\ HoldersInv'
  <2>1. Holding(r) /\ logins'[r].at # "delete"
    <3>1. GoesOn(r)
      BY <1>9 DEF GoesOn
    <3>2. AttemptShape(logins[r])
      BY DEF ShapeInv
    <3> QED
      BY <1>9, <3>1, <3>2, OldAttempts DEF WriteReset, DeletePresented, Holding, AttemptShape,
                                          NoAttempt
  <2>2. DeleteRow(logins[r]) /\ UNCHANGED <<lastRow, codes, shared>>
    BY <1>9 DEF WriteReset, DeletePresented
  <2> QED
    BY <1>9, <2>1, <2>2, RowDeleted
<1>10. ASSUME NEW r \in Attempts, FindReset(r)
       PROVE  FreshInv' /\ HoldersInv'
  <2>1. UNCHANGED <<database, rows, lastRow, codes, spent>> /\ ~ OneStep("reset")
    BY <1>10 DEF FindReset
  <2>2. CASE logins'[r] = NoAttempt /\ UNCHANGED shared
    <3>1. NothingRead
      BY <1>10, <2>1, <2>2, FoundAttempts DEF NothingRead, NoAttempt
    <3> QED
      BY <1>1, <2>1, <2>2, <3>1 DEF rowPart
  <2>3. CASE /\ logins'[r].at = "delete" /\ logins'[r].row = logins[r].row
             /\ \E row \in rows : row.kind = "reset" /\ row.id = logins[r].row /\ ReadRow(row)
    <3>1. ~ Holding(r) /\ \A s \in Attempts \ {r} : logins'[s] = logins[s]
      BY <1>10, FoundAttempts DEF Holding
    <3> QED
      BY <2>1, <2>3, <3>1, RowRead
  <2> QED
    BY <1>10, <2>2, <2>3, FoundAttempts
<1>11. ASSUME NEW r \in Attempts, NEW row \in rows, Present(r, row)
       PROVE  FreshInv' /\ HoldersInv'
  <2>1. ~ Holding(r) /\ \A s \in Attempts \ {r} : logins'[s] = logins[s]
    BY <1>11, NewAttempts DEF Begins, Holding, NoAttempt
  <2>2. logins'[r].at = "delete" /\ logins'[r].row = row.id
    BY <1>11 DEF Present, BeginAttempt, ShapeInv
  <2>3. ReadRow(row) /\ ~ OneStep(row.kind) /\ UNCHANGED <<database, rows, lastRow, codes, spent>>
    BY <1>11 DEF Present
  <2> QED
    BY <2>1, <2>2, <2>3, RowRead
<1> QED
  BY <1>1, <1>2, <1>3, <1>4, <1>5, <1>6, <1>7, <1>8, <1>9, <1>10, <1>11, RowSteps

-----------------------------------------------------------------------------
(* Two factors.                                                            *)

\* The steps that do not change the second factor: a login may use a code up, and a request
\* may begin that changes it later.
LEMMA OtherThanFactors ==
  ASSUME ShapeInv, SignNext
  PROVE  \/ /\ user'.secret = user.secret /\ user'.enabled = user.enabled /\ codes' \subseteq codes
            /\ \A s \in Attempts : logins'[s].op = "totp" => logins'[s] = logins[s]
         \/ \E r \in Attempts :
              \/ \E what \in {"setup", "enable", "regenerate", "disable"} : StartTotp(r, what)
              \/ SetupTotp(r) \/ EnableTotp(r) \/ DisableTotp(r)
<1> DEFINE Other ==
      /\ user'.secret = user.secret /\ user'.enabled = user.enabled /\ codes' \subseteq codes
      /\ \A s \in Attempts : logins'[s].op = "totp" => logins'[s] = logins[s]
<1>0. /\ logins = [r \in Attempts |-> logins[r]]
      /\ user \in UserShapes
  BY DEF ShapeInv, SignTypeOK, UserShapes
<1>1. CASE Tick \/ Revoke
  BY <1>1 DEF rowPart, Tick, Revoke
<1>2. ASSUME NEW kind \in Kinds, Issue(kind)
      PROVE  Other
  BY <1>2 DEF Issue
<1>3. ASSUME NEW row \in rows, Discard(row) \/ Redeem(row)
      PROVE  Other
  BY <1>0, <1>3 DEF Discard, Redeem, Verified, UserShapes
<1>4. ASSUME NEW r \in Attempts, Begins(r)
      PROVE  \/ Other
             \/ \E what \in {"setup", "enable", "regenerate", "disable"} : StartTotp(r, what)
  <2>1. ASSUME NEW req, BeginAttempt(r, req), req.op # "totp", UNCHANGED <<user, codes>>
        PROVE  Other
    BY <1>0, <2>1 DEF BeginAttempt
  <2>2. CASE Login(r)
    BY <2>1, <2>2 DEF Login, rowPart
  <2>3. CASE ReadKey(r)
    BY <2>1, <2>3 DEF ReadKey, rowPart
  <2>4. ASSUME NEW disable \in BOOLEAN, StartChange(r, disable)
        PROVE  Other
    BY <2>1, <2>4 DEF StartChange, rowPart
  <2>5. ASSUME NEW row \in rows, StartReset(r, row) \/ StartPasskey(r, row) \/ Present(r, row)
        PROVE  Other
    BY <2>1, <2>5 DEF StartReset, StartPasskey, Present, rowPart
  <2> QED
    BY <1>4, <2>2, <2>3, <2>4, <2>5 DEF Begins
<1>5. ASSUME NEW r \in Attempts, GoesOn(r)
      PROVE  Other \/ SetupTotp(r) \/ EnableTotp(r) \/ DisableTotp(r)
  <2>1. \A s \in Attempts : logins'[s].op = "totp" => logins'[s] = logins[s]
    BY <1>5, OldAttempts
  <2>2. CASE SignIn(r) \/ UseTotpCode(r) \/ UpdateAuthentication(r) \/ MarkUsedIfActive(r)
             \/ \E code \in Codes : MatchRecoveryCode(r, code)
    BY <2>1, <2>2 DEF SignIn, UseTotpCode, UpdateAuthentication, MarkUsedIfActive,
                      MatchRecoveryCode, rowPart
  <2>3. CASE WriteChange(r)
    BY <1>0, <2>1, <2>3 DEF WriteChange, UserShapes, rowPart
  <2>4. CASE ConsumePasswordReset(r) \/ WriteReset(r)
    BY <1>0, <2>1, <2>4 DEF ConsumePasswordReset, WriteReset, Stamped, UserShapes
  <2>5. CASE ConsumeRecoveryCode(r)
    BY <2>1, <2>5 DEF ConsumeRecoveryCode
  <2>6. CASE DeletePresented(r)
    BY <1>0, <2>1, <2>6 DEF DeletePresented, Verified, UserShapes
  <2> QED
    BY <1>5, <2>2, <2>3, <2>4, <2>5, <2>6 DEF GoesOn
<1>6. ASSUME NEW r \in Attempts, FindReset(r)
      PROVE  Other
  <2>1. UNCHANGED <<user, codes>>
    BY <1>6 DEF FindReset
  <2> QED
    BY <1>6, <2>1, FoundAttempts DEF NoAttempt
<1> QED
  BY <1>1, <1>2, <1>3, <1>4, <1>5, <1>6, Steps

LEMMA FactorsStep ==
  ASSUME ShapeInv, FactorsInv, SignNext
  PROVE  FactorsInv'
<1> SUFFICES ASSUME "totp" \notin Overlaps
             PROVE  FactorsInv'
  BY DEF FactorsInv
<1>0. /\ logins = [r \in Attempts |-> logins[r]]
      /\ \A r \in Attempts : AttemptShape(logins[r])
      /\ user \in UserShapes /\ codes \subseteq Codes
  BY DEF ShapeInv, SignTypeOK, UserShapes
<1>1. CASE /\ user'.secret = user.secret /\ user'.enabled = user.enabled /\ codes' \subseteq codes
           /\ \A s \in Attempts : logins'[s].op = "totp" => logins'[s] = logins[s]
  BY <1>1 DEF FactorsInv, TotpRequests, TwoFactorsAreWhole
<1>2. ASSUME NEW r \in Attempts, NEW what \in {"setup", "enable", "regenerate", "disable"},
             StartTotp(r, what)
      PROVE  FactorsInv'
  <2> DEFINE req == [op |-> "totp", at |-> what, secret |-> user.secret, enabled |-> user.enabled]
  <2>1. /\ TotpRequests = {} /\ UNCHANGED <<user, codes>>
        /\ what \in {"enable", "regenerate"} => user.secret # 0
        /\ what = "regenerate" => user.enabled
        /\ logins'[r] = req /\ \A s \in Attempts \ {r} : logins'[s] = logins[s]
    BY <1>0, <1>2 DEF StartTotp, BeginAttempt, rowPart
  <2>2. TotpRequests' = {r}
    <3>1. \A s \in Attempts : logins'[s].op = "totp" <=> s = r
      BY <2>1 DEF TotpRequests
    <3> QED
      BY <3>1 DEF TotpRequests
  <2> QED
    BY <2>1, <2>2 DEF FactorsInv, TwoFactorsAreWhole
<1>3. ASSUME NEW r \in Attempts, SetupTotp(r) \/ EnableTotp(r) \/ DisableTotp(r)
      PROVE  FactorsInv'
  <2>1. /\ logins[r].op = "totp" /\ EndAttempt(r)
        /\ TotpRequests = {r}
    BY <1>3 DEF SetupTotp, EnableTotp, DisableTotp, FactorsInv, TotpRequests
  <2>2. TotpRequests' = {}
    BY <1>0, <2>1 DEF EndAttempt, Proceed, NoAttempt, TotpRequests
  <2>3. /\ logins[r].secret = user.secret /\ logins[r].enabled = user.enabled
        /\ logins[r].at \in {"enable", "regenerate"} => user.secret # 0
        /\ logins[r].at = "regenerate" => user.enabled
        /\ TwoFactorsAreWhole
    BY <2>1 DEF FactorsInv
  <2>4. TwoFactorsAreWhole'
    <3>1. CASE SetupTotp(r)
      BY <1>0, <2>3, <3>1 DEF rowPart, SetupTotp, TwoFactorsAreWhole, UserShapes
    <3>2. CASE EnableTotp(r)
      BY <1>0, <2>3, <3>2 DEF EnableTotp, TwoFactorsAreWhole, UserShapes
    <3>3. CASE DisableTotp(r)
      BY <1>0, <3>3 DEF DisableTotp, TwoFactorsAreWhole, UserShapes
    <3> QED
      BY <1>3, <3>1, <3>2, <3>3
  <2> QED
    BY <2>2, <2>4 DEF FactorsInv
<1> QED
  BY <1>1, <1>2, <1>3, OtherThanFactors

-----------------------------------------------------------------------------
(* What refuses sessions.                                                  *)

\* The steps that change nothing of what refuses sessions, nor begin such a change.
LEMMA OtherThanStamps ==
  ASSUME ShapeInv, SignNext
  PROVE  \/ /\ user'.invalidBefore = user.invalidBefore /\ user'.disabled = user.disabled
            /\ \A s \in Attempts : logins'[s].op = "change" =>
                 logins[s].op = "change" /\ logins'[s].stamp = logins[s].stamp
         \/ \E r \in Attempts :
              \/ \E disable \in BOOLEAN : StartChange(r, disable)
              \/ \E row \in rows : StartReset(r, row)
              \/ WriteChange(r) \/ ConsumePasswordReset(r) \/ WriteReset(r)
<1> DEFINE Other ==
      /\ user'.invalidBefore = user.invalidBefore /\ user'.disabled = user.disabled
      /\ \A s \in Attempts : logins'[s].op = "change" =>
           logins[s].op = "change" /\ logins'[s].stamp = logins[s].stamp
<1>0. /\ logins = [r \in Attempts |-> logins[r]]
      /\ user \in UserShapes
  BY DEF ShapeInv, SignTypeOK, UserShapes
<1>1. CASE Tick \/ Revoke
  BY <1>1 DEF Tick, Revoke
<1>2. ASSUME NEW kind \in Kinds, Issue(kind)
      PROVE  Other
  BY <1>2 DEF Issue
<1>3. ASSUME NEW row \in rows, Discard(row) \/ Redeem(row)
      PROVE  Other
  BY <1>0, <1>3 DEF Discard, Redeem, Verified, UserShapes
<1>4. ASSUME NEW r \in Attempts, Begins(r)
      PROVE  \/ Other
             \/ \E disable \in BOOLEAN : StartChange(r, disable)
             \/ \E row \in rows : StartReset(r, row)
  <2>1. ASSUME NEW req, BeginAttempt(r, req), req.op # "change", UNCHANGED user
        PROVE  Other
    BY <1>0, <2>1 DEF BeginAttempt
  <2>2. CASE Login(r)
    BY <2>1, <2>2 DEF Login
  <2>3. CASE ReadKey(r)
    BY <2>1, <2>3 DEF ReadKey
  <2>4. ASSUME NEW what \in {"setup", "enable", "regenerate", "disable"}, StartTotp(r, what)
        PROVE  Other
    BY <2>1, <2>4 DEF StartTotp
  <2>5. ASSUME NEW row \in rows, StartPasskey(r, row) \/ Present(r, row)
        PROVE  Other
    BY <2>1, <2>5 DEF StartPasskey, Present
  <2> QED
    BY <1>4, <2>2, <2>3, <2>4, <2>5 DEF Begins
<1>5. ASSUME NEW r \in Attempts, GoesOn(r)
      PROVE  Other \/ WriteChange(r) \/ ConsumePasswordReset(r) \/ WriteReset(r)
  <2>1. \A s \in Attempts : logins'[s].op = "change" =>
          logins[s].op = "change" /\ logins'[s].stamp = logins[s].stamp
    BY <1>5, OldAttempts
  <2>2. CASE SignIn(r) \/ UseTotpCode(r) \/ UpdateAuthentication(r) \/ MarkUsedIfActive(r)
             \/ ConsumeRecoveryCode(r) \/ \E code \in Codes : MatchRecoveryCode(r, code)
    BY <2>1, <2>2 DEF SignIn, UseTotpCode, UpdateAuthentication, MarkUsedIfActive,
                      ConsumeRecoveryCode, MatchRecoveryCode
  <2>3. CASE SetupTotp(r)
    BY <1>0, <2>1, <2>3 DEF SetupTotp, UserShapes
  <2>4. CASE EnableTotp(r)
    BY <1>0, <2>1, <2>4 DEF EnableTotp, UserShapes
  <2>5. CASE DisableTotp(r)
    BY <1>0, <2>1, <2>5 DEF DisableTotp, UserShapes
  <2>6. CASE DeletePresented(r)
    BY <1>0, <2>1, <2>6 DEF DeletePresented, Verified, UserShapes
  <2> QED
    BY <1>5, <2>2, <2>3, <2>4, <2>5, <2>6 DEF GoesOn
<1>6. ASSUME NEW r \in Attempts, FindReset(r)
      PROVE  Other
  <2>1. UNCHANGED user
    BY <1>6 DEF FindReset
  <2> QED
    BY <1>6, <2>1, FoundAttempts DEF NoAttempt
<1> QED
  BY <1>1, <1>2, <1>3, <1>4, <1>5, <1>6, Steps

\* A request that begins is the only one, and has the present time.
LEMMA StampNow ==
  ASSUME ShapeInv, "changes" \notin Overlaps, Changes = {}, UNCHANGED user,
         NEW r \in Attempts, NEW req, BeginAttempt(r, req), req.op = "change", req.stamp = now
  PROVE  StampsInv'
<1>1. logins'[r] = req /\ \A s \in Attempts \ {r} : logins'[s] = logins[s]
  BY DEF ShapeInv, BeginAttempt
<1>2. \A s \in Changes' : s = r
  BY <1>1 DEF Changes
<1>3. now >= user.invalidBefore
  BY DEF ShapeInv, SignTypeOK
<1> QED
  BY <1>1, <1>2, <1>3 DEF StampsInv

\* A change ends, and refuses no less than what was refused before it.
LEMMA StampWritten ==
  ASSUME ShapeInv, StampsInv, "changes" \notin Overlaps, area # "rows", NEW r \in Attempts,
         WriteChange(r) \/ ConsumePasswordReset(r) \/ WriteReset(r)
  PROVE  /\ Changes' = {}
         /\ user'.invalidBefore >= user.invalidBefore
         /\ user.disabled => user'.disabled
<1>1. logins[r].op = "change" /\ Changes = {r} /\ EndAttempt(r)
  BY DEF WriteChange, ConsumePasswordReset, WriteReset, StampsInv, Changes
<1>2. Changes' = {}
  BY <1>1 DEF ShapeInv, EndAttempt, Proceed, NoAttempt, Changes
<1>3. logins[r].stamp >= user.invalidBefore /\ user \in UserShapes
  BY <1>1 DEF StampsInv, ShapeInv, SignTypeOK, UserShapes
<1>4. CASE WriteChange(r)
  BY <1>2, <1>3, <1>4 DEF WriteChange, UserShapes
<1>5. CASE ConsumePasswordReset(r) \/ WriteReset(r)
  <2>1. CASE UNCHANGED user
    BY <1>2, <1>3, <2>1, SignInAssumption DEF UserShapes
  <2>2. CASE Stamped(logins[r])
    BY <1>2, <1>3, <2>2 DEF Stamped, UserShapes
  <2> QED
    BY <1>5, <2>1, <2>2 DEF ConsumePasswordReset, WriteReset
<1> QED
  BY <1>4, <1>5

LEMMA StampsStep ==
  ASSUME ShapeInv, StampsInv, SignNext
  PROVE  StampsInv'
<1> SUFFICES ASSUME "changes" \notin Overlaps, area' # "rows"
             PROVE  StampsInv'
  BY DEF StampsInv
<1>0. area # "rows"
  BY AreaStays
<1>1. CASE /\ user'.invalidBefore = user.invalidBefore /\ user'.disabled = user.disabled
           /\ \A s \in Attempts : logins'[s].op = "change" =>
                logins[s].op = "change" /\ logins'[s].stamp = logins[s].stamp
  BY <1>0, <1>1 DEF StampsInv, Changes
<1>2. ASSUME NEW r \in Attempts, NEW disable \in BOOLEAN, StartChange(r, disable)
      PROVE  StampsInv'
  BY <1>2, StampNow DEF StartChange
<1>3. ASSUME NEW r \in Attempts, NEW row \in rows, StartReset(r, row)
      PROVE  StampsInv'
  BY <1>0, <1>3, StampNow DEF StartReset
<1>4. ASSUME NEW r \in Attempts, WriteChange(r) \/ ConsumePasswordReset(r) \/ WriteReset(r)
      PROVE  StampsInv'
  BY <1>0, <1>4, StampWritten DEF StampsInv
<1> QED
  BY <1>1, <1>2, <1>3, <1>4, OtherThanStamps

-----------------------------------------------------------------------------
(* The theorems.                                                           *)

\* What a request remembers and what the rows, the codes and the user are stays as the
\* code relies on it, from one statement of a request to its next.
THEOREM SignInAlways == SignSpec => []SignInd
<1>1. SignInit => SignInd
  <2> SUFFICES ASSUME SignInit
               PROVE  SignInd
    OBVIOUS
  <2>1. ShapeInv
    <3>1. RestOK
      BY SignInAssumption DEF SignInit, RestOK
    <3>2. AttemptsOK
      BY DEF SignInit, AttemptsOK, AttemptShape
    <3> QED
      BY <3>1, <3>2, ShapeParts
  <2>2. FreshInv /\ HoldersInv
    BY DEF SignInit, FreshInv, HoldersInv, Holding, NoAttempt
  <2>3. FactorsInv
    BY DEF SignInit, FactorsInv, TotpRequests, NoAttempt, TwoFactorsAreWhole
  <2>4. StampsInv
    BY DEF SignInit, StampsInv, Changes, NoAttempt
  <2> QED
    BY <2>1, <2>2, <2>3, <2>4 DEF SignInd
<1>2. SignInd /\ [SignNext]_signVars => SignInd'
  <2>1. CASE UNCHANGED signVars
    BY <2>1 DEF signVars, SignInd, ShapeInv, SignTypeOK, AttemptShape, FreshInv, HoldersInv,
                Holding, FactorsInv, TwoFactorsAreWhole, TotpRequests, StampsInv, Changes
  <2>2. SignInd /\ SignNext => SignInd'
    BY ShapeStep, FreshStep, FactorsStep, StampsStep DEF SignInd
  <2> QED
    BY <2>1, <2>2
<1> QED
  BY <1>1, <1>2, PTL DEF SignSpec

\* However many requests bring them together, every one-time row and every recovery code is
\* accepted once, unless two requests of a server database read the row before either has
\* deleted it, which no ticket and no code allows; and the second factor and its codes come
\* and go together while no two requests that change them overlap.
THEOREM CredentialsAreWhole ==
  ASSUME "totp" \notin Overlaps
  PROVE  SignSpec => []SignInv
<1>1. SignInd => SignInv
  <2> SUFFICES ASSUME SignInd
               PROVE  SignInv
    OBVIOUS
  <2>1. SignTypeOK /\ TwoFactorsAreWhole
    BY DEF SignInd, ShapeInv, FactorsInv
  <2>2. OneTimeIsOnce
    BY DEF SignInd, FreshInv, HoldersInv, OneTimeIsOnce
  <2> QED
    BY <2>1, <2>2 DEF SignInv
<1> QED
  BY <1>1, SignInAlways, PTL

\* A session that was refused stays refused while changes of the password do not overlap,
\* and the counter of a passkey never falls back whatever overlaps.
THEOREM RefusalsLastHolds ==
  ASSUME "changes" \notin Overlaps
  PROVE  SignSpec => RefusalsLast
<1>1. SignInd /\ [SignNext]_signVars =>
        [\A issuedAt \in sessions : Admitted(issuedAt)' => Admitted(issuedAt)]_signVars
  <2> SUFFICES ASSUME SignInd, SignNext, NEW issuedAt \in sessions, Admitted(issuedAt)'
               PROVE  Admitted(issuedAt)
    OBVIOUS
  <2>1. /\ ShapeInv /\ StampsInv /\ issuedAt \in Nat /\ area # "rows"
        /\ user \in UserShapes /\ user' \in UserShapes
    BY ShapeStep DEF SignInd, ShapeInv, SignTypeOK, UserShapes
  <2> DEFINE Refuses ==
        user'.invalidBefore >= user.invalidBefore /\ (user.disabled => user'.disabled)
  <2>2. user'.invalidBefore = user.invalidBefore /\ user'.disabled = user.disabled => Refuses
    BY <2>1, SignInAssumption DEF UserShapes
  <2>3. ASSUME NEW r \in Attempts, NEW disable \in BOOLEAN, StartChange(r, disable)
        PROVE  Refuses
    BY <2>2, <2>3 DEF StartChange
  <2>4. ASSUME NEW r \in Attempts, NEW row \in rows, StartReset(r, row)
        PROVE  Refuses
    BY <2>2, <2>4 DEF StartReset
  <2>5. ASSUME NEW r \in Attempts, WriteChange(r) \/ ConsumePasswordReset(r) \/ WriteReset(r)
        PROVE  Refuses
    BY <2>1, <2>5, StampWritten
  <2>6. Refuses
    BY <2>1, <2>2, <2>3, <2>4, <2>5, OtherThanStamps
  <2> QED
    BY <2>1, <2>6, SignInAssumption DEF Admitted, UserShapes
<1>2. SignInd /\ [SignNext]_signVars => [counter' >= counter]_signVars
  <2> SUFFICES ASSUME SignInd, SignNext
               PROVE  counter' >= counter
    OBVIOUS
  <2>1. counter \in Nat
    BY DEF SignInd, ShapeInv, SignTypeOK
  <2>2. ASSUME NEW r \in Attempts, UpdateAuthentication(r)
        PROVE  counter' >= counter
    BY <2>1, <2>2 DEF UpdateAuthentication, Counted
  <2>3. CASE UNCHANGED counter
    BY <2>1, <2>3
  <2>4. UNCHANGED counter \/ \E r \in Attempts : UpdateAuthentication(r)
    <3>1. CASE Tick \/ Revoke
      BY <3>1 DEF Tick, Revoke
    <3>2. ASSUME NEW kind \in Kinds, Issue(kind)
          PROVE  UNCHANGED counter
      BY <3>2 DEF Issue
    <3>3. ASSUME NEW row \in rows, Discard(row) \/ Redeem(row)
          PROVE  UNCHANGED counter
      BY <3>3 DEF Discard, Redeem
    <3>4. ASSUME NEW r \in Attempts, Begins(r)
          PROVE  UNCHANGED counter
      BY <3>4 DEF Begins, Login, ReadKey, StartChange, StartReset, StartPasskey, Present,
                  StartTotp
    <3>5. ASSUME NEW r \in Attempts, GoesOn(r)
          PROVE  UNCHANGED counter \/ UpdateAuthentication(r)
      BY <3>5 DEF GoesOn, SignIn, WriteChange, ConsumePasswordReset, WriteReset,
                  DeletePresented, SetupTotp, EnableTotp, DisableTotp, UseTotpCode,
                  ConsumeRecoveryCode, MatchRecoveryCode, MarkUsedIfActive
    <3>6. ASSUME NEW r \in Attempts, FindReset(r)
          PROVE  UNCHANGED counter
      BY <3>6 DEF FindReset
    <3> QED
      BY <3>1, <3>2, <3>3, <3>4, <3>5, <3>6, Steps
  <2> QED
    BY <2>2, <2>3, <2>4
<1> QED
  BY <1>1, <1>2, SignInAlways, PTL
  DEF SignSpec, RefusalsLast, RefusedSessionsStayRefused, PasskeyCounterGrows

-----------------------------------------------------------------------------
(* Accounts.  What a request saw before it writes still holds when it does *)
(* where the modes keep requests from overlapping, so that a removal that  *)
(* may leave no admin behind is under way at most once (AccountsInd).      *)

User == [role : Roles, disabled : BOOLEAN]

\* A request that goes on to write has found its user; only a role is synchronised.
RequestsInv ==
  \A r \in Requests :
    /\ requests[r].at \in {"count", "update", "sync"} => Exists(requests[r].user)
    /\ requests[r].at = "sync" => requests[r].role \in Roles

AccountShapeInv == AccountTypeOK /\ RequestsInv

\* An admin other than u is active.
AnotherAdmin(u) == \E x \in ActiveAdmins : x # u

\* What the modes keep from overlapping.
OneRemoval ==
  "admins" \notin accountMode =>
    \A r, s \in Requests : Removal(requests[r]) /\ Removal(requests[s]) => r = s

OneCreation ==
  "first" \notin accountMode =>
    \A r, s \in Requests : Creation(requests[r]) /\ Creation(requests[s]) => r = s

OnePerUser ==
  "same" \notin accountMode =>
    \A r, s \in Requests : \A u \in Users :
      Concerns(requests[r], u) /\ Concerns(requests[s], u) => r = s

OneInv == OneRemoval /\ OneCreation /\ OnePerUser

\* One removal of an admin at a time: before it writes it has seen another one, and
\* nobody takes that one away meanwhile.
RemovalInv ==
  "admins" \notin accountMode =>
    \A r \in Requests : Removal(requests[r]) =>
      /\ requests[r].at \in {"find", "count"} => ActiveAdmins # {}
      /\ requests[r].at = "update" => AnotherAdmin(requests[r].user)

\* One request for a user at a time: the groups follow the role, and a request that is
\* about to synchronise them knows it.
GroupsInv ==
  accountMode \cap {"same", "stop"} = {} =>
    /\ \A u \in Users :
         \/ ~ Exists(u)
         \/ groups[u] = {RoleGroup[users[u].role]}
         \/ \E r \in Requests : requests[r].at = "sync" /\ requests[r].user = u
    /\ \A r \in Requests :
         requests[r].at = "sync" => requests[r].role = users[requests[r].user].role

\* The admins whom nobody has appointed.
Founders == {u \in Users : IsAdmin(u) /\ u \notin appointed}

\* Somebody is about to be the first user, and an admin.
Founding(req) == Creation(req) /\ req.at = "insert" /\ req.role = "admin"

\* One first user at a time: there is no founder before one is written.
FoundersInv ==
  "first" \notin accountMode =>
    /\ \A u, v \in Founders : u = v
    /\ \A r \in Requests : Founding(requests[r]) => Founders = {}

AccountsInd == AccountShapeInv /\ OneInv /\ RemovalInv /\ GroupsInv /\ FoundersInv

-----------------------------------------------------------------------------
(* Shapes.                                                                 *)

LEMMA RequestFields ==
  ASSUME NEW req \in Request
  PROVE  /\ req = Ready <=> req.at = "ready"
         /\ req.at # "ready" =>
              /\ req.user \in Users
              /\ req.kind = "admin" => /\ req.at \in {"find", "count", "update", "sync"}
                                       /\ req.role \in Roles \cup {"disabled"}
              /\ req.kind # "admin" => /\ req.at \in {"insert", "sync"}
                                       /\ req.kind \in {"create", "provider"}
                                       /\ req.role \in Roles
BY DEF Request, Ready

LEMMA CreateType ==
  ASSUME NEW u \in Users, NEW role \in Roles, NEW kind \in {"create", "provider"}
  PROVE  Create(u, role, kind) \in Request
BY DEF Create, Request

LEMMA AdministrateType ==
  ASSUME NEW u \in Users, NEW role \in Roles \cup {"disabled"}
  PROVE  Administrate(u, role) \in Request
BY DEF Administrate, Request

\* What a request goes on to is a request for the same user, of the same kind and role.
LEMMA ContinuedRequest ==
  ASSUME NEW req \in Request, req.at # "ready",
         NEW at, at = "sync" \/ (req.kind = "admin" /\ at \in {"count", "update"})
  PROVE  /\ [req EXCEPT !.at = at] \in Request
         /\ [req EXCEPT !.at = at].at = at /\ [req EXCEPT !.at = at].kind = req.kind
         /\ [req EXCEPT !.at = at].user = req.user /\ [req EXCEPT !.at = at].role = req.role
BY DEF Request, Ready

\* A new request does not begin with a write.
LEMMA Started ==
  ASSUME AccountShapeInv, NEW r \in Requests, NEW req \in Request,
         req.at \in {"insert", "find"}, Start(r, req)
  PROVE  /\ AccountShapeInv'
         /\ requests[r] = Ready /\ ~ Collides(req)
         /\ requests'[r] = req /\ \A s \in Requests \ {r} : requests'[s] = requests[s]
         /\ UNCHANGED <<accountMode, users, groups, openRegistration, appointed>>
<1>1. /\ requests' = [requests EXCEPT ![r] = req] /\ requests \in [Requests -> Request]
      /\ started < MaxRequests /\ started' = started + 1
      /\ UNCHANGED <<accountMode, users, groups, openRegistration, appointed>>
      /\ requests[r] = Ready /\ ~ Collides(req)
  BY DEF Start, AccountShapeInv, AccountTypeOK
<1>2. AccountTypeOK'
  BY AccountAssumption, <1>1 DEF AccountShapeInv, AccountTypeOK
<1>3. RequestsInv'
  BY <1>1 DEF AccountShapeInv, RequestsInv, Exists
<1> QED
  BY <1>1, <1>2, <1>3 DEF AccountShapeInv

\* The new requests.
Starts(r, req) ==
  /\ Start(r, req)
  /\ \/ \E u \in Users, role \in Roles, kind \in {"create", "provider"} :
          /\ req = Create(u, role, kind)
          /\ kind = "create" /\ role = "admin" => ~ AdminExists
     \/ \E u \in Users, role \in Roles \cup {"disabled"} :
          req = Administrate(u, role) /\ ActiveAdmins # {}

\* A step is the start of a request or the next statement of one.
LEMMA AccountSteps ==
  ASSUME AccountNext
  PROVE  \/ \E r \in Requests : \E req \in Request : Starts(r, req)
         \/ \E r \in Requests : InsertUser(r) \/ FindUser(r) \/ ProtectLastActiveAdmin(r)
                                \/ UpdateUser(r) \/ SyncRoleGroup(r) \/ Lose(r)
<1>1. "admin" \in Roles /\ "viewer" \in Roles
  BY DEF Roles
<1>2. ASSUME NEW r \in Requests, NEW u \in Users, Register(r, u)
      PROVE  \E req \in Request : Starts(r, req)
  <2> DEFINE first == \A other \in Users : ~ Exists(other)
             role == IF first THEN "admin" ELSE "viewer"
  <2>1. Start(r, Create(u, role, "create"))
    BY <1>2 DEF Register
  <2>2. role \in Roles /\ (role = "admin" => ~ AdminExists)
    BY <1>1 DEF AdminExists, IsAdmin
  <2> HIDE DEF role
  <2> QED
    BY <2>1, <2>2, CreateType DEF Starts
<1>3. ASSUME NEW r \in Requests, NEW u \in Users, CompleteSetup(r, u)
      PROVE  \E req \in Request : Starts(r, req)
  BY <1>1, <1>3, CreateType DEF CompleteSetup, Starts
<1>4. ASSUME NEW r \in Requests, NEW u \in Users, NEW role \in Roles,
             ExternalSignIn(r, u, role)
      PROVE  \E req \in Request : Starts(r, req)
  BY <1>4, CreateType DEF ExternalSignIn, Starts
<1>5. ASSUME NEW r \in Requests, NEW u \in Users, NEW role \in Roles,
             SetUserRole(r, u, role)
      PROVE  \E req \in Request : Starts(r, req)
  BY <1>5, AdministrateType DEF SetUserRole, Starts
<1>6. ASSUME NEW r \in Requests, NEW u \in Users, DeactivateUser(r, u)
      PROVE  \E req \in Request : Starts(r, req)
  BY <1>6, AdministrateType DEF DeactivateUser, Starts
<1> QED
  BY <1>2, <1>3, <1>4, <1>5, <1>6 DEF AccountNext

\* A step keeps the shapes.
LEMMA AccountShapeStep ==
  ASSUME AccountShapeInv, [AccountNext]_accountVars
  PROVE  AccountShapeInv'
<1> USE DEF AccountShapeInv
<1>1. ASSUME NEW r \in Requests, NEW req \in Request, Starts(r, req)
      PROVE  AccountShapeInv'
  <2>1. Start(r, req) /\ req.at \in {"insert", "find"}
    BY <1>1 DEF Starts, Create, Administrate
  <2> QED
    BY <2>1, Started
<1>2. ASSUME NEW r \in Requests, NEW req \in Request, Continue(r, req), Kept,
             users' \in [Users -> {NoUser} \cup User],
             \A u \in Users : Exists(u) => Exists(u)',
             groups' \in [Users -> SUBSET RoleGroups], appointed' \subseteq Users,
             req.at \in {"count", "update", "sync"} => users'[req.user] # NoUser,
             req.at = "sync" => req.role \in Roles
      PROVE  AccountShapeInv'
  <2>1. requests' = [requests EXCEPT ![r] = req] /\ requests \in [Requests -> Request]
    BY <1>2 DEF Continue, AccountTypeOK
  <2>2. AccountTypeOK'
    BY <1>2, <2>1 DEF AccountTypeOK, Kept, User
  <2>3. RequestsInv'
    <3> SUFFICES ASSUME NEW s \in Requests
                 PROVE  /\ requests'[s].at \in {"count", "update", "sync"}
                             => users'[requests'[s].user] # NoUser
                        /\ requests'[s].at = "sync" => requests'[s].role \in Roles
      BY DEF RequestsInv, Exists
    <3>1. CASE s = r
      BY <1>2, <2>1, <3>1
    <3>2. CASE s # r
      <4>1. requests'[s] = requests[s] /\ requests[s] \in Request
        BY <2>1, <3>2
      <4>2. requests[s].at # "ready" => requests[s].user \in Users
        BY <4>1, RequestFields
      <4> QED
        BY <1>2, <4>1, <4>2 DEF RequestsInv, Exists
    <3> QED
      BY <3>1, <3>2
  <2> QED
    BY <2>2, <2>3
<1>3. Ready \in Request /\ Ready.at = "ready"
  BY DEF Ready, Request
<1>4. /\ users \in [Users -> {NoUser} \cup User] /\ groups \in [Users -> SUBSET RoleGroups]
      /\ appointed \subseteq Users /\ \A r \in Requests : requests[r] \in Request
  BY DEF AccountTypeOK, User
<1>5. CASE \E r \in Requests : InsertUser(r)
  <2>1. PICK r \in Requests : InsertUser(r)
    BY <1>5
  <2> DEFINE req == requests[r]
  <2>2. req \in Request /\ req.at = "insert" /\ req.user \in Users /\ req.role \in Roles
    BY <1>4, <2>1, RequestFields DEF InsertUser
  <2>3. NewUser(req.role) \in User
    BY <2>2 DEF NewUser, User
  <2>4. CASE Exists(req.user) /\ users' = users /\ Finish(r)
    BY <1>2, <1>3, <1>4, <2>1, <2>2, <2>4 DEF InsertUser, Finish, Exists
  <2>5. CASE /\ ~ Exists(req.user)
             /\ users' = [users EXCEPT ![req.user] = NewUser(req.role)]
             /\ Continue(r, [req EXCEPT !.at = "sync"])
    <3>1. /\ users' \in [Users -> {NoUser} \cup User]
          /\ users'[req.user] = NewUser(req.role)
          /\ \A u \in Users \ {req.user} : users'[u] = users[u]
      BY <1>4, <2>2, <2>3, <2>5
    <3>2. NewUser(req.role) # NoUser
      BY AccountAssumption, <2>3 DEF User
    <3>3. \A u \in Users : Exists(u) => Exists(u)'
      BY <3>1, <3>2 DEF Exists
    <3>4. users'[req.user] # NoUser
      BY <3>1, <3>2 DEF Exists
    <3>5. groups' = groups /\ appointed' \subseteq Users /\ Kept
      BY <1>4, <2>1, <2>2 DEF InsertUser
    <3> DEFINE next == [req EXCEPT !.at = "sync"]
    <3>6. next \in Request /\ next.at = "sync" /\ next.user = req.user /\ next.role = req.role
      BY <2>2, ContinuedRequest
    <3>7. Continue(r, next)
      BY <2>5
    <3> HIDE DEF next, req
    <3> QED
      BY <1>2, <1>4, <2>2, <3>1, <3>3, <3>4, <3>5, <3>6, <3>7
  <2> QED
    BY <2>1, <2>4, <2>5 DEF InsertUser
<1>6. ASSUME NEW r \in Requests, NEW at, UNCHANGED <<users, groups, appointed>>, Kept,
             requests[r].at \in {"find", "count"}, at \in {"count", "update"},
             requests[r].at = "find" => Exists(requests[r].user),
             Continue(r, [requests[r] EXCEPT !.at = at])
      PROVE  AccountShapeInv'
  <2> DEFINE req == requests[r]
             next == [req EXCEPT !.at = at]
  <2>1. req \in Request /\ req.kind = "admin" /\ req.at # "ready"
    BY <1>4, <1>6, RequestFields
  <2>2. next \in Request /\ next.at = at /\ next.user = req.user /\ next.role = req.role
    BY <1>6, <2>1, ContinuedRequest
  <2>3. users'[req.user] # NoUser
    BY <1>6 DEF RequestsInv, Exists
  <2>4. Continue(r, next)
    BY <1>6
  <2> HIDE DEF next, req
  <2> QED
    BY <1>2, <1>4, <1>6, <2>2, <2>3, <2>4 DEF Exists
<1>7. ASSUME NEW r \in Requests, UNCHANGED <<users, appointed>>, Kept, Finish(r),
             groups' \in [Users -> SUBSET RoleGroups]
      PROVE  AccountShapeInv'
  BY <1>2, <1>3, <1>4, <1>7 DEF Finish, Exists
<1>8. CASE \E r \in Requests : FindUser(r) \/ ProtectLastActiveAdmin(r) \/ Lose(r)
  BY <1>4, <1>6, <1>7, <1>8 DEF FindUser, ProtectLastActiveAdmin, Lose
<1>9. CASE \E r \in Requests : UpdateUser(r)
  <2>1. PICK r \in Requests : UpdateUser(r)
    BY <1>9
  <2> DEFINE req == requests[r]
  <2>2. req \in Request /\ req.at = "update" /\ req.user \in Users
        /\ req.role \in Roles \cup {"disabled"} /\ Exists(req.user)
    BY <1>4, <2>1, RequestFields DEF UpdateUser, RequestsInv
  <2>3. users[req.user] \in User
    BY <1>4, <2>2 DEF Exists
  <2>4. CASE /\ users' = [users EXCEPT ![req.user].disabled = TRUE]
             /\ Finish(r) /\ appointed' = appointed
    <3>1. [users[req.user] EXCEPT !.disabled = TRUE] \in User
      BY <2>3 DEF User
    <3>2. /\ users' \in [Users -> {NoUser} \cup User]
          /\ users'[req.user] \in User
          /\ \A u \in Users \ {req.user} : users'[u] = users[u]
      BY <1>4, <2>2, <2>4, <3>1
    <3>3. \A u \in Users : Exists(u) => Exists(u)'
      BY AccountAssumption, <3>2 DEF Exists, User
    <3> HIDE DEF req
    <3> QED
      BY <1>2, <1>3, <1>4, <2>1, <2>4, <3>2, <3>3 DEF UpdateUser, Finish
  <2>5. CASE /\ req.role # "disabled"
             /\ users' = [users EXCEPT ![req.user].role = req.role]
             /\ Continue(r, [req EXCEPT !.at = "sync"])
    <3>1. [users[req.user] EXCEPT !.role = req.role] \in User
      BY <2>2, <2>3, <2>5 DEF User
    <3>2. /\ users' \in [Users -> {NoUser} \cup User]
          /\ users'[req.user] \in User
          /\ \A u \in Users \ {req.user} : users'[u] = users[u]
      BY <1>4, <2>2, <2>5, <3>1
    <3>3. \A u \in Users : Exists(u) => Exists(u)'
      BY AccountAssumption, <3>2 DEF Exists, User
    <3> DEFINE next == [req EXCEPT !.at = "sync"]
    <3>4. next \in Request /\ next.at = "sync" /\ next.user = req.user /\ next.role = req.role
      BY <2>2, ContinuedRequest
    <3>5. groups' = groups /\ appointed' \subseteq Users /\ Kept
      BY <1>4, <2>1, <2>2 DEF UpdateUser
    <3>6. Continue(r, next)
      BY <2>5
    <3>7. users'[req.user] # NoUser /\ req.role \in Roles
      BY AccountAssumption, <2>2, <2>5, <3>2 DEF User
    <3> HIDE DEF req, next
    <3> QED
      BY <1>2, <1>4, <2>2, <3>2, <3>3, <3>4, <3>5, <3>6, <3>7
  <2> QED
    BY <2>1, <2>4, <2>5 DEF UpdateUser
<1>10. CASE \E r \in Requests : SyncRoleGroup(r)
  <2>1. PICK r \in Requests : SyncRoleGroup(r)
    BY <1>10
  <2>2. requests[r].user \in Users /\ requests[r].role \in Roles
    BY <1>4, <2>1, RequestFields DEF SyncRoleGroup, RequestsInv
  <2>3. groups' \in [Users -> SUBSET RoleGroups]
    BY <1>4, <2>1, <2>2 DEF SyncRoleGroup, SyncedGroups, RoleGroups
  <2> QED
    BY <1>7, <2>1, <2>3 DEF SyncRoleGroup
<1>11. CASE UNCHANGED accountVars
  BY <1>11 DEF accountVars, AccountTypeOK, RequestsInv, Exists
<1> QED
  BY <1>1, <1>5, <1>8, <1>9, <1>10, <1>11, AccountSteps

-----------------------------------------------------------------------------
(* Requests one at a time.                                                 *)

\* The next statement of a request.
Statement(r) ==
  \/ InsertUser(r) \/ FindUser(r) \/ ProtectLastActiveAdmin(r)
  \/ UpdateUser(r) \/ SyncRoleGroup(r) \/ Lose(r)

\* A request goes on, for the same user, or it is done.
LEMMA AccountGoesOn ==
  ASSUME AccountShapeInv, NEW r \in Requests, Statement(r)
  PROVE  /\ accountMode' = accountMode
         /\ requests[r] \in Request /\ requests[r].at # "ready"
         /\ \A s \in Requests \ {r} : requests'[s] = requests[s]
         /\ requests'[r].at # "ready" =>
              /\ requests'[r].user = requests[r].user
              /\ requests'[r].kind = requests[r].kind
              /\ requests'[r].role = requests[r].role
<1>1. requests \in [Requests -> Request] /\ requests[r] \in Request
  BY DEF AccountShapeInv, AccountTypeOK
<1>2. Ready.at = "ready"
  BY DEF Ready
<1>3. accountMode' = accountMode /\ requests[r].at # "ready"
  BY <1>1, RequestFields DEF Statement, InsertUser, FindUser, ProtectLastActiveAdmin, UpdateUser,
     SyncRoleGroup, Lose, Kept
<1>4. ASSUME NEW req, Continue(r, req)
      PROVE  requests'[r] = req /\ \A s \in Requests \ {r} : requests'[s] = requests[s]
  BY <1>1, <1>4 DEF Continue
<1>5. CASE Finish(r)
  BY <1>1, <1>2, <1>3, <1>4, <1>5 DEF Finish
<1>6. CASE \E at \in {"count", "update", "sync"} :
             /\ at = "sync" \/ requests[r].kind = "admin"
             /\ Continue(r, [requests[r] EXCEPT !.at = at])
  <2>1. PICK at \in {"count", "update", "sync"} :
          /\ at = "sync" \/ requests[r].kind = "admin"
          /\ Continue(r, [requests[r] EXCEPT !.at = at])
    BY <1>6
  <2> DEFINE next == [requests[r] EXCEPT !.at = at]
  <2>2. /\ next.user = requests[r].user /\ next.kind = requests[r].kind
        /\ next.role = requests[r].role
    BY <1>1, <1>3, <2>1, ContinuedRequest
  <2>3. requests'[r] = next /\ \A s \in Requests \ {r} : requests'[s] = requests[s]
    BY <1>4, <2>1
  <2> HIDE DEF next
  <2> QED
    BY <1>1, <1>3, <2>2, <2>3
<1>7. requests[r].at \in {"find", "count"} => requests[r].kind = "admin"
  BY <1>1, RequestFields
<1> QED
  BY <1>5, <1>6, <1>7 DEF Statement, InsertUser, FindUser, ProtectLastActiveAdmin, UpdateUser,
     SyncRoleGroup, Lose

\* A request is inserted at its beginning only.
LEMMA NotToInsert ==
  ASSUME AccountShapeInv, NEW r \in Requests, Statement(r), ~ InsertUser(r)
  PROVE  requests'[r].at # "insert"
<1>1. requests[r] \in Request /\ requests \in [Requests -> Request]
  BY DEF AccountShapeInv, AccountTypeOK
<1>2. CASE Finish(r)
  BY <1>1, <1>2 DEF Finish, Continue, Ready
<1>3. CASE \E at \in {"count", "update", "sync"} :
             /\ at = "sync" \/ requests[r].kind = "admin"
             /\ Continue(r, [requests[r] EXCEPT !.at = at])
  <2>1. PICK at \in {"count", "update", "sync"} :
          /\ at = "sync" \/ requests[r].kind = "admin"
          /\ Continue(r, [requests[r] EXCEPT !.at = at])
    BY <1>3
  <2>2. [requests[r] EXCEPT !.at = at].at = at
    BY <1>1, <2>1, AccountGoesOn, ContinuedRequest
  <2> QED
    BY <1>1, <2>1, <2>2 DEF Continue
<1>4. requests[r].at \in {"find", "count"} => requests[r].kind = "admin"
  BY <1>1, RequestFields
<1> QED
  BY <1>2, <1>3, <1>4 DEF Statement, FindUser, ProtectLastActiveAdmin, UpdateUser,
     SyncRoleGroup, Lose

LEMMA InvStep ==
  ASSUME AccountShapeInv, OneInv, [AccountNext]_accountVars
  PROVE  OneInv'
<1> USE DEF OneInv, OneRemoval, OneCreation, OnePerUser
<1>1. ASSUME NEW r \in Requests, NEW req \in Request, Starts(r, req)
      PROVE  OneInv'
  <2>1. Start(r, req) /\ req.at \in {"insert", "find"}
    BY <1>1 DEF Starts, Create, Administrate
  <2>2. /\ accountMode' = accountMode /\ ~ Collides(req) /\ requests'[r] = req
        /\ \A s \in Requests \ {r} : requests'[s] = requests[s]
    BY <2>1, Started
  <2>3. req.user \in Users
    BY <2>1, RequestFields
  <2> QED
    BY <2>2, <2>3 DEF Collides, Removal, Creation, Concerns
<1>2. ASSUME NEW r \in Requests, Statement(r)
      PROVE  OneInv'
  <2>1. \A s \in Requests :
          /\ Removal(requests'[s]) => Removal(requests[s])
          /\ Creation(requests'[s]) => Creation(requests[s])
          /\ \A u \in Users : Concerns(requests'[s], u) => Concerns(requests[s], u)
    BY <1>2, AccountGoesOn DEF Removal, Creation, Concerns
  <2> QED
    BY <1>2, <2>1, AccountGoesOn
<1>3. CASE UNCHANGED accountVars
  BY <1>3 DEF accountVars, Removal, Creation, Concerns
<1> QED
  BY <1>1, <1>2, <1>3, AccountSteps DEF Statement

-----------------------------------------------------------------------------
(* What the statements do to the users.                                    *)

LEMMA UserFields ==
  ASSUME AccountShapeInv, NEW u \in Users, Exists(u)
  PROVE  users[u] \in User
BY DEF AccountShapeInv, AccountTypeOK, Exists, User

\* A new user gets what the request says; one who is there is left alone.
LEMMA Inserted ==
  ASSUME AccountShapeInv, NEW r \in Requests, InsertUser(r)
  PROVE  LET req == requests[r]
         IN  /\ req.at = "insert" /\ req.user \in Users /\ req.role \in Roles
             /\ req.kind \in {"create", "provider"}
             /\ \A u \in Users \ {req.user} : users'[u] = users[u]
             /\ IF Exists(req.user)
                THEN users' = users /\ requests'[r].at = "ready" /\ appointed' = appointed
                ELSE /\ users'[req.user] = NewUser(req.role) /\ NewUser(req.role) \in User
                     /\ requests'[r].at = "sync"
                     /\ appointed' = IF req.kind = "provider" THEN appointed \cup {req.user}
                                     ELSE appointed
             /\ groups' = groups
<1>1. /\ requests[r] \in Request /\ requests \in [Requests -> Request]
      /\ users \in [Users -> {NoUser} \cup User]
  BY DEF AccountShapeInv, AccountTypeOK, User
<1>2. /\ requests[r].at = "insert" /\ requests[r].user \in Users /\ requests[r].role \in Roles
      /\ requests[r].kind \in {"create", "provider"}
  BY <1>1, RequestFields DEF InsertUser
<1>3. NewUser(requests[r].role) \in User
  BY <1>2 DEF NewUser, User
<1>4. [requests[r] EXCEPT !.at = "sync"].at = "sync"
  BY <1>1, <1>2, ContinuedRequest
<1>5. ASSUME NEW req, Continue(r, req)
      PROVE  requests'[r] = req
  BY <1>1, <1>5 DEF Continue
<1>6. CASE Exists(requests[r].user)
  BY <1>2, <1>5, <1>6 DEF InsertUser, Finish, Ready
<1>7. CASE ~ Exists(requests[r].user)
  <2>1. /\ users' = [users EXCEPT ![requests[r].user] = NewUser(requests[r].role)]
        /\ requests'[r] = [requests[r] EXCEPT !.at = "sync"]
        /\ appointed' = IF requests[r].kind = "provider" THEN appointed \cup {requests[r].user}
                        ELSE appointed
        /\ groups' = groups
    BY <1>5, <1>7 DEF InsertUser
  <2> QED
    BY <1>1, <1>2, <1>3, <1>4, <1>7, <2>1
<1> QED
  BY <1>6, <1>7

\* An update changes one field of one user.
LEMMA Updated ==
  ASSUME AccountShapeInv, NEW r \in Requests, UpdateUser(r)
  PROVE  LET req == requests[r]
         IN  /\ req.at = "update" /\ req.user \in Users /\ req.kind = "admin"
             /\ Exists(req.user) /\ users'[req.user] # NoUser
             /\ req.role \in Roles \cup {"disabled"}
             /\ \A u \in Users \ {req.user} : users'[u] = users[u]
             /\ IF req.role = "disabled"
                THEN /\ users'[req.user].role = users[req.user].role
                     /\ requests'[r].at = "ready" /\ appointed' = appointed
                ELSE /\ users'[req.user].role = req.role
                     /\ users'[req.user].disabled = users[req.user].disabled
                     /\ requests'[r].at = "sync"
                     /\ appointed' = IF req.role = "admin" THEN appointed \cup {req.user}
                                     ELSE appointed
             /\ groups' = groups
<1>1. /\ requests[r] \in Request /\ requests \in [Requests -> Request]
      /\ users \in [Users -> {NoUser} \cup User]
  BY DEF AccountShapeInv, AccountTypeOK, User
<1>2. /\ requests[r].at = "update" /\ requests[r].user \in Users
      /\ requests[r].kind = "admin" /\ requests[r].role \in Roles \cup {"disabled"}
      /\ Exists(requests[r].user)
  BY <1>1, RequestFields DEF UpdateUser, AccountShapeInv, RequestsInv
<1>3. users[requests[r].user] \in User
  BY <1>2, UserFields
<1>4. [requests[r] EXCEPT !.at = "sync"].at = "sync"
  BY <1>1, <1>2, ContinuedRequest
<1>5. ASSUME NEW req, Continue(r, req)
      PROVE  requests'[r] = req
  BY <1>1, <1>5 DEF Continue
<1>6. NoUser \notin User
  BY AccountAssumption DEF User
<1>7. CASE requests[r].role = "disabled"
  <2>1. /\ users' = [users EXCEPT ![requests[r].user].disabled = TRUE]
        /\ requests'[r] = Ready /\ appointed' = appointed /\ groups' = groups
    BY <1>5, <1>7 DEF UpdateUser, Finish
  <2>2. /\ [users[requests[r].user] EXCEPT !.disabled = TRUE] \in User
        /\ [users[requests[r].user] EXCEPT !.disabled = TRUE].role = users[requests[r].user].role
    BY <1>3 DEF User
  <2>3. users'[requests[r].user] = [users[requests[r].user] EXCEPT !.disabled = TRUE]
    BY <1>1, <1>2, <2>1
  <2>4. users'[requests[r].user] # NoUser
    BY <1>6, <2>2, <2>3
  <2> QED
    BY <1>1, <1>2, <1>7, <2>1, <2>2, <2>3, <2>4 DEF Ready, Exists
<1>8. CASE requests[r].role # "disabled"
  <2>1. /\ users' = [users EXCEPT ![requests[r].user].role = requests[r].role]
        /\ requests'[r] = [requests[r] EXCEPT !.at = "sync"] /\ groups' = groups
        /\ appointed' = IF requests[r].role = "admin" THEN appointed \cup {requests[r].user}
                        ELSE appointed
    BY <1>5, <1>8 DEF UpdateUser
  <2> DEFINE row == [users[requests[r].user] EXCEPT !.role = requests[r].role]
  <2>2. /\ row \in User /\ row.role = requests[r].role
        /\ row.disabled = users[requests[r].user].disabled
    BY <1>2, <1>3, <1>8 DEF User
  <2>3. users'[requests[r].user] = row
    BY <1>1, <1>2, <2>1
  <2> HIDE DEF row
  <2>4. users'[requests[r].user] # NoUser
    BY <1>6, <2>2, <2>3
  <2> QED
    BY <1>1, <1>2, <1>4, <1>8, <2>1, <2>2, <2>3, <2>4 DEF Exists
<1> QED
  BY <1>7, <1>8

\* What the other statements leave alone.
LEMMA Otherwise ==
  ASSUME NEW r \in Requests,
         FindUser(r) \/ ProtectLastActiveAdmin(r) \/ SyncRoleGroup(r) \/ Lose(r)
  PROVE  UNCHANGED <<users, appointed>>
BY DEF FindUser, ProtectLastActiveAdmin, SyncRoleGroup, Lose

-----------------------------------------------------------------------------
(* An admin remains.                                                       *)

\* Only the removal of an admin takes one away, and it takes no other.
LEMMA AdminsStay ==
  ASSUME AccountShapeInv, NEW r \in Requests, Statement(r)
  PROVE  \A x \in ActiveAdmins :
           \/ x \in ActiveAdmins'
           \/ UpdateUser(r) /\ Removal(requests[r]) /\ x = requests[r].user
<1> SUFFICES ASSUME NEW x \in ActiveAdmins,
                    ~ (UpdateUser(r) /\ Removal(requests[r]) /\ x = requests[r].user)
             PROVE  x \in ActiveAdmins'
  OBVIOUS
<1>1. x \in Users /\ Exists(x) /\ users[x].role = "admin" /\ ~ users[x].disabled
  BY DEF ActiveAdmins, IsAdmin, IsUserActive
<1>2. users'[x] # NoUser /\ users'[x].role = "admin" /\ ~ users'[x].disabled
  <2>1. CASE InsertUser(r)
    BY <1>1, <2>1, Inserted DEF Exists
  <2>2. CASE UpdateUser(r)
    BY <1>1, <2>2, Updated DEF Exists, Removal
  <2>3. CASE FindUser(r) \/ ProtectLastActiveAdmin(r) \/ SyncRoleGroup(r) \/ Lose(r)
    BY <1>1, <2>3, Otherwise DEF Exists
  <2> QED
    BY <2>1, <2>2, <2>3 DEF Statement
<1> QED
  BY <1>1, <1>2 DEF ActiveAdmins, IsAdmin, IsUserActive, Exists

\* More than one active admin are another one, whoever is asked for.
LEMMA MoreThanOne ==
  ASSUME NEW u, ActiveAdminCount > 1
  PROVE  AnotherAdmin(u)
<1> SUFFICES ASSUME ~ AnotherAdmin(u)
             PROVE  FALSE
  OBVIOUS
<1>1. ActiveAdmins \subseteq {u}
  BY DEF AnotherAdmin
<1>2. IsFiniteSet({u}) /\ Cardinality({u}) = 1
  BY FS_Singleton
<1>3. Cardinality(ActiveAdmins) <= 1 /\ Cardinality(ActiveAdmins) \in Nat
  BY <1>1, <1>2, FS_Subset, FS_CardinalityType
<1> QED
  BY <1>3 DEF ActiveAdminCount

LEMMA RemovalStep ==
  ASSUME AccountShapeInv, OneInv, OneInv', RemovalInv, [AccountNext]_accountVars
  PROVE  RemovalInv'
<1> SUFFICES ASSUME "admins" \notin accountMode',
                    NEW s \in Requests, Removal(requests'[s])
             PROVE  /\ requests'[s].at \in {"find", "count"} => ActiveAdmins' # {}
                    /\ requests'[s].at = "update" =>
                         \E x \in ActiveAdmins' : x # requests'[s].user
  BY DEF RemovalInv, AnotherAdmin
<1>1. ASSUME NEW r \in Requests, NEW req \in Request, Starts(r, req)
      PROVE  /\ requests'[s].at \in {"find", "count"} => ActiveAdmins' # {}
             /\ requests'[s].at = "update" =>
                  \E x \in ActiveAdmins' : x # requests'[s].user
  <2>1. Start(r, req) /\ req.at \in {"insert", "find"}
    BY <1>1 DEF Starts, Create, Administrate
  <2>2. /\ accountMode' = accountMode /\ users' = users /\ requests'[r] = req
        /\ \A q \in Requests \ {r} : requests'[q] = requests[q]
    BY <2>1, Started
  <2>3. ActiveAdmins' = ActiveAdmins
    BY <2>2 DEF ActiveAdmins, IsAdmin, IsUserActive, Exists
  <2>4. CASE s = r
    <3>1. ActiveAdmins # {}
      BY <1>1, <2>2, <2>4 DEF Starts, Create, Removal
    <3> QED
      BY <2>1, <2>2, <2>3, <2>4, <3>1
  <2>5. CASE s # r
    BY <2>2, <2>3, <2>5 DEF RemovalInv, AnotherAdmin
  <2> QED
    BY <2>4, <2>5
<1>2. ASSUME NEW r \in Requests, Statement(r)
      PROVE  /\ requests'[s].at \in {"find", "count"} => ActiveAdmins' # {}
             /\ requests'[s].at = "update" =>
                  \E x \in ActiveAdmins' : x # requests'[s].user
  <2>1. /\ accountMode' = accountMode /\ requests[r] \in Request
        /\ \A q \in Requests \ {r} : requests'[q] = requests[q]
        /\ Removal(requests[s])
    BY <1>2, AccountGoesOn DEF Removal
  <2>2. /\ requests[s].at \in {"find", "count"} => ActiveAdmins # {}
        /\ requests[s].at = "update" => \E x \in ActiveAdmins : x # requests[s].user
    BY <2>1 DEF RemovalInv, AnotherAdmin
  <2>3. ~ (UpdateUser(r) /\ Removal(requests[r])) => ActiveAdmins \subseteq ActiveAdmins'
    BY <1>2, AdminsStay
  <2>4. CASE s # r
    <3>1. ~ Removal(requests[r])
      BY <2>1, <2>4 DEF OneInv, OneRemoval
    <3> QED
      BY <2>1, <2>2, <2>3, <2>4, <3>1
  <2>5. CASE s = r /\ FindUser(r)
    <3>1. requests[r].at = "find" /\ users' = users /\ ActiveAdmins # {}
      BY <2>2, <2>5 DEF FindUser
    <3>2. requests[r].role # "admin" /\ requests[r].kind = "admin" /\ requests'[r].at # "ready"
      BY <2>1, <2>5 DEF Removal
    <3>3. requests'[r] = [requests[r] EXCEPT !.at =
            IF requests[r].user \in ActiveAdmins THEN "count" ELSE "update"]
      <4>1. requests \in [Requests -> Request]
        BY DEF AccountShapeInv, AccountTypeOK
      <4>2. Ready.at = "ready"
        BY DEF Ready
      <4>3. ~ Finish(r)
        BY <3>2, <4>1, <4>2 DEF Finish, Continue
      <4> QED
        BY <2>5, <3>2, <4>1, <4>3 DEF FindUser, Continue
    <3>4. /\ requests'[r].at = IF requests[r].user \in ActiveAdmins THEN "count" ELSE "update"
          /\ requests'[r].user = requests[r].user
      BY <2>1, <3>1, <3>2, <3>3, ContinuedRequest
    <3>5. requests[r].user \notin ActiveAdmins => \E x \in ActiveAdmins : x # requests[r].user
      BY <3>1
    <3>6. ActiveAdmins' = ActiveAdmins
      BY <3>1 DEF ActiveAdmins, IsAdmin, IsUserActive, Exists
    <3> QED
      BY <2>5, <3>1, <3>4, <3>5, <3>6
  <2>6. CASE s = r /\ ProtectLastActiveAdmin(r)
    <3>1. users' = users /\ requests[r].at = "count" /\ requests'[r].at # "ready"
      BY <2>6 DEF ProtectLastActiveAdmin, Removal
    <3>2. /\ ~ ActiveAdminCount <= 1
          /\ requests'[r] = [requests[r] EXCEPT !.at = "update"]
      <4>1. requests \in [Requests -> Request]
        BY DEF AccountShapeInv, AccountTypeOK
      <4>2. Ready.at = "ready"
        BY DEF Ready
      <4>3. ~ Finish(r)
        BY <3>1, <4>1, <4>2 DEF Finish, Continue
      <4> QED
        BY <2>6, <4>1, <4>3 DEF ProtectLastActiveAdmin, Continue
    <3>3. requests[r].kind = "admin"
      BY <2>1, <2>6 DEF Removal
    <3>4. requests'[r].at = "update" /\ requests'[r].user = requests[r].user
      BY <2>1, <3>1, <3>2, <3>3, ContinuedRequest
    <3>5. ActiveAdminCount \in Nat
      <4>1. IsFiniteSet(ActiveAdmins)
        BY AccountAssumption, FS_Subset DEF ActiveAdmins
      <4> QED
        BY <4>1, FS_CardinalityType DEF ActiveAdminCount
    <3>6. \E x \in ActiveAdmins : x # requests[r].user
      BY <3>2, <3>5, MoreThanOne DEF AnotherAdmin
    <3>7. ActiveAdmins' = ActiveAdmins
      BY <3>1 DEF ActiveAdmins, IsAdmin, IsUserActive, Exists
    <3> QED
      BY <2>6, <3>4, <3>6, <3>7
  <2>7. CASE s = r /\ (InsertUser(r) \/ UpdateUser(r) \/ SyncRoleGroup(r) \/ Lose(r))
    <3>1. requests'[r].at \in {"ready", "sync"}
      <4>1. requests \in [Requests -> Request]
        BY DEF AccountShapeInv, AccountTypeOK
      <4>2. SyncRoleGroup(r) \/ Lose(r) => requests'[r].at = "ready"
        BY <4>1 DEF SyncRoleGroup, Lose, Finish, Continue, Ready
      <4> QED
        BY <2>7, <4>2, Inserted, Updated
    <3> QED
      BY <2>7, <3>1
  <2> QED
    BY <1>2, <2>4, <2>5, <2>6, <2>7 DEF Statement
<1>3. CASE UNCHANGED accountVars
  BY <1>3 DEF accountVars, RemovalInv, AnotherAdmin, ActiveAdmins, IsAdmin, IsUserActive, Exists
<1> QED
  BY <1>1, <1>2, <1>3, AccountSteps DEF Statement

-----------------------------------------------------------------------------
(* Role groups follow roles.                                               *)

\* A request that begins changes neither users nor groups and synchronises nothing.
LEMMA BeginsQuietly ==
  ASSUME AccountShapeInv, NEW r \in Requests, NEW req \in Request, Starts(r, req)
  PROVE  /\ UNCHANGED <<accountMode, users, groups, appointed>>
         /\ requests[r].at = "ready"
         /\ requests'[r] = req /\ req.at \in {"insert", "find"}
         /\ \A s \in Requests \ {r} : requests'[s] = requests[s]
<1>1. Start(r, req) /\ req.at \in {"insert", "find"}
  BY DEF Starts, Create, Administrate
<1> QED
  BY <1>1, Started DEF Ready

LEMMA SyncedIsTheRole ==
  ASSUME AccountShapeInv, NEW r \in Requests, SyncRoleGroup(r)
  PROVE  /\ requests[r].at = "sync" /\ requests'[r].at = "ready"
         /\ users' = users /\ appointed' = appointed
         /\ requests[r].user \in Users
         /\ groups'[requests[r].user] = {RoleGroup[requests[r].role]}
         /\ \A u \in Users \ {requests[r].user} : groups'[u] = groups[u]
<1>1. /\ requests[r] \in Request /\ requests \in [Requests -> Request]
      /\ groups \in [Users -> SUBSET RoleGroups]
  BY DEF AccountShapeInv, AccountTypeOK
<1>2. /\ requests[r].at = "sync" /\ requests[r].user \in Users
      /\ users' = users /\ appointed' = appointed
      /\ groups' = SyncedGroups(requests[r].user, requests[r].role)
      /\ requests' = [requests EXCEPT ![r] = Ready]
  BY <1>1, RequestFields DEF SyncRoleGroup, Finish, Continue
<1>3. requests'[r].at = "ready"
  BY <1>1, <1>2 DEF Ready
<1>4. groups[requests[r].user] \subseteq RoleGroups
  BY <1>1, <1>2
<1>5. groups'[requests[r].user]
        = (groups[requests[r].user] \ RoleGroups) \cup {RoleGroup[requests[r].role]}
  BY <1>1, <1>2 DEF SyncedGroups
<1>6. \A u \in Users \ {requests[r].user} : groups'[u] = groups[u]
  BY <1>1, <1>2 DEF SyncedGroups
<1> QED
  BY <1>2, <1>3, <1>4, <1>5, <1>6

LEMMA GroupsStep ==
  ASSUME AccountShapeInv, AccountShapeInv', OneInv, GroupsInv, [AccountNext]_accountVars
  PROVE  GroupsInv'
<1> DEFINE Follows(u) == groups[u] = {RoleGroup[users[u].role]}
           Synced(u, table) == \E q \in Requests : table[q].at = "sync" /\ table[q].user = u
<1> SUFFICES ASSUME accountMode' \cap {"same", "stop"} = {}
             PROVE  /\ \A u \in Users :
                         \/ users'[u] = NoUser
                         \/ groups'[u] = {RoleGroup[users'[u].role]}
                         \/ Synced(u, requests')
                    /\ \A s \in Requests :
                         requests'[s].at = "sync" =>
                           requests'[s].role = users'[requests'[s].user].role
  BY DEF GroupsInv, Exists
<1>0. /\ "same" \notin accountMode /\ "stop" \notin accountMode
      /\ \A r, s \in Requests : \A u \in Users :
           Concerns(requests[r], u) /\ Concerns(requests[s], u) => r = s
      /\ \A u \in Users : users[u] = NoUser \/ Follows(u) \/ Synced(u, requests)
      /\ \A s \in Requests :
           requests[s].at = "sync" => requests[s].role = users[requests[s].user].role
      /\ \A s \in Requests : requests[s] \in Request
  <2>1. accountMode' = accountMode
    <3>1. ASSUME NEW r \in Requests, NEW req \in Request, Starts(r, req)
          PROVE  accountMode' = accountMode
      BY <3>1, BeginsQuietly
    <3>2. ASSUME NEW r \in Requests, Statement(r)
          PROVE  accountMode' = accountMode
      BY <3>2, AccountGoesOn
    <3> QED
      BY <3>1, <3>2, AccountSteps DEF Statement, accountVars
  <2> QED
    BY <2>1 DEF OneInv, OnePerUser, GroupsInv, Exists, AccountShapeInv, AccountTypeOK
<1>1. ASSUME NEW r \in Requests, NEW req \in Request, Starts(r, req)
      PROVE  /\ \A u \in Users : \/ users'[u] = NoUser
                                 \/ groups'[u] = {RoleGroup[users'[u].role]}
                                 \/ Synced(u, requests')
             /\ \A s \in Requests : requests'[s].at = "sync" =>
                                      requests'[s].role = users'[requests'[s].user].role
  BY <1>0, <1>1, BeginsQuietly
<1>2. ASSUME NEW r \in Requests, Statement(r)
      PROVE  /\ \A u \in Users : \/ users'[u] = NoUser
                                 \/ groups'[u] = {RoleGroup[users'[u].role]}
                                 \/ Synced(u, requests')
             /\ \A s \in Requests : requests'[s].at = "sync" =>
                                      requests'[s].role = users'[requests'[s].user].role
  <2>1. /\ requests[r].at # "ready" /\ requests[r].user \in Users
        /\ \A s \in Requests \ {r} : requests'[s] = requests[s]
        /\ requests'[r].at # "ready" => /\ requests'[r].user = requests[r].user
                                        /\ requests'[r].role = requests[r].role
    BY <1>0, <1>2, AccountGoesOn, RequestFields
  \* Nobody else synchronises the user of this request.
  <2>2. \A s \in Requests \ {r} :
          requests[s].at = "sync" => requests[s].user \in Users \ {requests[r].user}
    BY <1>0, <2>1, RequestFields DEF Concerns
  <2>3. ASSUME \A u \in Users \ {requests[r].user} :
                 users'[u] = users[u] /\ groups'[u] = groups[u],
               requests'[r].at = "sync" => requests'[r].role = users'[requests[r].user].role,
               \/ requests'[r].at = "sync"
               \/ users'[requests[r].user] = NoUser
               \/ groups'[requests[r].user] = {RoleGroup[users'[requests[r].user].role]}
        PROVE  /\ \A u \in Users : \/ users'[u] = NoUser
                                   \/ groups'[u] = {RoleGroup[users'[u].role]}
                                   \/ Synced(u, requests')
               /\ \A s \in Requests : requests'[s].at = "sync" =>
                                        requests'[s].role = users'[requests'[s].user].role
    <3>1. ASSUME NEW u \in Users
          PROVE  \/ users'[u] = NoUser
                 \/ groups'[u] = {RoleGroup[users'[u].role]}
                 \/ Synced(u, requests')
      <4>1. CASE u = requests[r].user
        BY <2>1, <2>3, <4>1
      <4>2. CASE u # requests[r].user /\ Synced(u, requests)
        <5>1. PICK q \in Requests : requests[q].at = "sync" /\ requests[q].user = u
          BY <4>2
        <5> QED
          BY <2>1, <4>2, <5>1
      <4>3. CASE u # requests[r].user /\ ~ Synced(u, requests)
        BY <1>0, <2>3, <4>3
      <4> QED
        BY <4>1, <4>2, <4>3
    <3>2. ASSUME NEW s \in Requests, requests'[s].at = "sync"
          PROVE  requests'[s].role = users'[requests'[s].user].role
      <4>1. CASE s = r
        BY <2>1, <2>3, <3>2, <4>1
      <4>2. CASE s # r
        BY <1>0, <2>1, <2>2, <2>3, <3>2, <4>2
      <4> QED
        BY <4>1, <4>2
    <3> QED
      BY <3>1, <3>2
  \* The user of a request that synchronises nothing is synchronised by nobody.
  <2>4. requests[r].at # "sync" => ~ Synced(requests[r].user, requests)
    BY <2>2
  <2> HIDE DEF Synced
  <2>5. CASE InsertUser(r)
    <3>1. requests[r].at # "sync" /\ groups' = groups
      BY <2>5, Inserted
    <3>2. CASE Exists(requests[r].user)
      BY <1>0, <2>3, <2>4, <2>5, <3>1, <3>2, Inserted DEF Exists
    <3>3. CASE ~ Exists(requests[r].user)
      <4>1. /\ users'[requests[r].user] = NewUser(requests[r].role)
            /\ requests'[r].at = "sync"
            /\ \A u \in Users \ {requests[r].user} : users'[u] = users[u]
        BY <2>5, <3>3, Inserted
      <4>2. requests'[r].role = users'[requests[r].user].role
        BY <2>1, <4>1 DEF NewUser
      <4> QED
        BY <2>3, <3>1, <4>1, <4>2
    <3> QED
      BY <3>2, <3>3
  <2>6. CASE UpdateUser(r)
    <3>1. requests[r].at # "sync" /\ groups' = groups /\ Exists(requests[r].user)
      BY <2>6, Updated
    <3>2. CASE requests[r].role = "disabled"
      BY <1>0, <2>3, <2>4, <2>6, <3>1, <3>2, Updated DEF Exists
    <3>3. CASE requests[r].role # "disabled"
      BY <2>1, <2>3, <2>6, <3>1, <3>3, Updated
    <3> QED
      BY <3>2, <3>3
  <2>7. CASE SyncRoleGroup(r)
    BY <1>0, <2>3, <2>7, SyncedIsTheRole
  <2>8. CASE FindUser(r) \/ ProtectLastActiveAdmin(r)
    <3>1. /\ requests[r].at \in {"find", "count"} /\ UNCHANGED <<users, groups>>
          /\ requests'[r].at \in {"ready", "count", "update"}
      <4>1. requests \in [Requests -> Request] /\ Ready.at = "ready"
        BY DEF AccountShapeInv, AccountTypeOK, Ready
      <4>2. requests[r].at \in {"find", "count"}
        BY <2>8 DEF FindUser, ProtectLastActiveAdmin
      <4>3. requests[r].kind = "admin"
        BY <4>1, <4>2, RequestFields
      <4>4. \A at \in {"count", "update"} : [requests[r] EXCEPT !.at = at].at = at
        BY <4>1, <2>1, <4>3, ContinuedRequest
      <4>5. \/ requests'[r] = Ready
            \/ \E at \in {"count", "update"} : requests'[r] = [requests[r] EXCEPT !.at = at]
        BY <2>8, <4>1 DEF FindUser, ProtectLastActiveAdmin, Finish, Continue
      <4>6. UNCHANGED <<users, groups>>
        BY <2>8 DEF FindUser, ProtectLastActiveAdmin
      <4> QED
        BY <4>1, <4>2, <4>4, <4>5, <4>6
    <3> QED
      BY <1>0, <2>1, <2>3, <2>4, <3>1
  <2>9. CASE Lose(r)
    BY <1>0, <2>9 DEF Lose
  <2> QED
    BY <1>2, <2>5, <2>6, <2>7, <2>8, <2>9 DEF Statement
<1>3. CASE UNCHANGED accountVars
  BY <1>0, <1>3 DEF accountVars
<1> QED
  BY <1>1, <1>2, <1>3, AccountSteps DEF Statement

-----------------------------------------------------------------------------
(* Admins are made by admins.                                              *)

\* The only new founder is a first user who is written as an admin.
LEMMA FoundersStay ==
  ASSUME AccountShapeInv, NEW r \in Requests, Statement(r), NEW u \in Founders'
  PROVE  \/ u \in Founders
         \/ u = requests[r].user /\ Founding(requests[r]) /\ ~ Founding(requests'[r])
<1>1. u \in Users /\ users'[u] # NoUser /\ users'[u].role = "admin" /\ u \notin appointed'
  BY DEF Founders, IsAdmin, Exists
<1>2. CASE InsertUser(r)
  <2>1. CASE Exists(requests[r].user)
    BY <1>1, <1>2, <2>1, Inserted DEF Founders, IsAdmin, Exists
  <2>2. CASE ~ Exists(requests[r].user) /\ u # requests[r].user
    <3>1. users'[u] = users[u] /\ appointed \subseteq appointed'
      BY <1>1, <1>2, <2>2, Inserted
    <3> QED
      BY <1>1, <3>1 DEF Founders, IsAdmin, Exists
  <2>3. CASE ~ Exists(requests[r].user) /\ u = requests[r].user
    <3>1. /\ users'[u] = NewUser(requests[r].role) /\ requests[r].at = "insert"
          /\ requests'[r].at = "sync" /\ requests[r].kind \in {"create", "provider"}
          /\ requests[r].kind = "provider" => u \in appointed'
      BY <1>1, <1>2, <2>3, Inserted
    <3> QED
      BY <1>1, <2>3, <3>1 DEF NewUser, Founding, Creation
  <2> QED
    BY <2>1, <2>2, <2>3
<1>3. CASE UpdateUser(r)
  <2>1. appointed \subseteq appointed' /\ Exists(requests[r].user)
    BY <1>3, Updated
  <2>2. CASE u # requests[r].user
    <3>1. users'[u] = users[u]
      BY <1>1, <1>3, <2>2, Updated
    <3> QED
      BY <1>1, <2>1, <3>1 DEF Founders, IsAdmin, Exists
  <2>3. CASE u = requests[r].user
    <3>1. users[u].role = "admin"
      <4>1. CASE requests[r].role = "disabled"
        BY <1>1, <1>3, <2>3, <4>1, Updated
      <4>2. CASE requests[r].role # "disabled"
        BY <1>1, <1>3, <2>3, <4>2, Updated
      <4> QED
        BY <4>1, <4>2
    <3> QED
      BY <1>1, <2>1, <2>3, <3>1 DEF Founders, IsAdmin
  <2> QED
    BY <2>2, <2>3
<1>4. CASE FindUser(r) \/ ProtectLastActiveAdmin(r) \/ SyncRoleGroup(r) \/ Lose(r)
  BY <1>1, <1>4, Otherwise DEF Founders, IsAdmin, Exists
<1> QED
  BY <1>2, <1>3, <1>4 DEF Statement

LEMMA FoundersStep ==
  ASSUME AccountShapeInv, OneInv, FoundersInv, [AccountNext]_accountVars
  PROVE  FoundersInv'
<1>1. ASSUME NEW r \in Requests, NEW req \in Request, Starts(r, req)
      PROVE  FoundersInv'
  <2>1. /\ accountMode' = accountMode /\ requests'[r] = req
        /\ \A s \in Requests \ {r} : requests'[s] = requests[s]
    BY <1>1, BeginsQuietly
  <2>2. Founders' = Founders
    BY <1>1, BeginsQuietly DEF Founders, IsAdmin, Exists
  <2>3. Founding(req) => Founders = {}
    BY <1>1 DEF Starts, Create, Administrate, Founding, Creation, Founders, AdminExists
  <2> QED
    BY <2>1, <2>2, <2>3 DEF FoundersInv
<1>2. ASSUME NEW r \in Requests, Statement(r)
      PROVE  FoundersInv'
  <2> SUFFICES ASSUME "first" \notin accountMode'
               PROVE  /\ \A u, v \in Founders' : u = v
                      /\ \A s \in Requests : Founding(requests'[s]) => Founders' = {}
    BY DEF FoundersInv
  <2>1. /\ "first" \notin accountMode
        /\ \A s \in Requests \ {r} : requests'[s] = requests[s]
    BY <1>2, AccountGoesOn
  <2>2. /\ \A u, v \in Founders : u = v
        /\ \A s \in Requests : Founding(requests[s]) => Founders = {}
    BY <2>1 DEF FoundersInv
  <2>3. \A u \in Founders' :
          \/ u \in Founders
          \/ u = requests[r].user /\ Founding(requests[r]) /\ ~ Founding(requests'[r])
    BY <1>2, FoundersStay
  <2>4. Founding(requests'[r]) => Founding(requests[r])
    <3>1. requests'[r].at = "insert" => requests[r].at = "insert"
      <4>1. CASE InsertUser(r)
        BY <4>1, Inserted
      <4>2. CASE ~ InsertUser(r)
        BY <1>2, <4>2, NotToInsert
      <4> QED
        BY <4>1, <4>2
    <3> QED
      BY <1>2, <3>1, AccountGoesOn DEF Founding, Creation
  <2>5. CASE Founding(requests[r]) /\ ~ Founding(requests'[r])
    <3>1. \A s \in Requests : ~ Founding(requests'[s])
      BY <2>1, <2>5 DEF OneInv, OneCreation, Founding
    <3> QED
      BY <2>2, <2>3, <2>5, <3>1
  <2>6. CASE ~ (Founding(requests[r]) /\ ~ Founding(requests'[r]))
    <3>1. Founders' \subseteq Founders
      BY <2>3, <2>6
    <3>2. \A s \in Requests : Founding(requests'[s]) => Founding(requests[s])
      BY <2>1, <2>4
    <3> QED
      BY <2>2, <3>1, <3>2
  <2> QED
    BY <2>5, <2>6
<1>3. CASE UNCHANGED accountVars
  BY <1>3 DEF accountVars, FoundersInv, Founders, Founding, Creation, IsAdmin, Exists
<1> QED
  BY <1>1, <1>2, <1>3, AccountSteps DEF Statement

-----------------------------------------------------------------------------
(* The theorems.                                                           *)

LEMMA AccountsStart ==
  ASSUME AccountInit
  PROVE  AccountsInd
<1>1. /\ users = [u \in Users |-> NoUser] /\ groups = [u \in Users |-> {}]
      /\ requests = [r \in Requests |-> Ready] /\ started = 0 /\ appointed = {}
  BY DEF AccountInit
<1>2. Ready \in Request /\ Ready.at = "ready"
  BY DEF Ready, Request
<1>3. \A r \in Requests : requests[r].at = "ready"
  BY <1>1, <1>2
<1>4. AccountShapeInv
  BY AccountAssumption, <1>1, <1>2, <1>3 DEF AccountShapeInv, AccountTypeOK, RequestsInv
<1>5. OneInv /\ RemovalInv
  BY <1>3 DEF OneInv, OneRemoval, OneCreation, OnePerUser, RemovalInv, Removal, Creation, Concerns
<1>6. \A u \in Users : ~ Exists(u)
  BY <1>1 DEF Exists
<1>7. GroupsInv /\ FoundersInv
  BY <1>3, <1>6 DEF GroupsInv, FoundersInv, Founders, Founding, Creation, IsAdmin
<1> QED
  BY <1>4, <1>5, <1>7 DEF AccountsInd

LEMMA AccountsStep ==
  ASSUME AccountsInd, [AccountNext]_accountVars
  PROVE  AccountsInd'
<1>1. AccountShapeInv'
  BY AccountShapeStep DEF AccountsInd
<1>2. OneInv'
  BY InvStep DEF AccountsInd
<1>3. RemovalInv'
  BY <1>2, RemovalStep DEF AccountsInd
<1>4. GroupsInv'
  BY <1>1, GroupsStep DEF AccountsInd
<1>5. FoundersInv'
  BY FoundersStep DEF AccountsInd
<1> QED
  BY <1>1, <1>2, <1>3, <1>4, <1>5 DEF AccountsInd

\* The inductive invariant: what requests that go on have seen is still so.
THEOREM AccountsAlways ==
  AccountSpec => []AccountsInd
<1>1. AccountInit => AccountsInd
  BY AccountsStart
<1>2. AccountsInd /\ [AccountNext]_accountVars => AccountsInd'
  BY AccountsStep
<1> QED
  BY <1>1, <1>2, PTL DEF AccountSpec

\* Users, groups and requests keep their shapes; the role group of a user whose requests
\* are done is that of the role (syncRoleGroup), unless requests for one user overlap or
\* are lost; and there is one founder at most, unless first users overlap.
THEOREM AccountsAgree ==
  AccountSpec => []AccountInv
<1>1. ASSUME AccountsInd
      PROVE  AccountInv
  <2>1. AccountTypeOK
    BY <1>1 DEF AccountsInd, AccountShapeInv
  <2>2. RoleGroupsFollowRoles
    BY <1>1 DEF AccountsInd, GroupsInv, RoleGroupsFollowRoles, Concerns
  <2>3. AdminsAreMadeByAdmins
    <3> SUFFICES ASSUME "first" \notin accountMode
                 PROVE  Cardinality(Founders) <= 1
      BY DEF AdminsAreMadeByAdmins, Founders
    <3>1. \A u, v \in Founders : u = v
      BY <1>1 DEF AccountsInd, FoundersInv
    <3>2. CASE Founders = {}
      BY <3>2, FS_EmptySet
    <3>3. CASE Founders # {}
      <4>1. PICK u \in Founders : Founders = {u}
        BY <3>1, <3>3
      <4>2. Cardinality({u}) = 1
        BY FS_Singleton
      <4> QED
        BY <4>1, <4>2
    <3> QED
      BY <3>2, <3>3
  <2> QED
    BY <2>1, <2>2, <2>3 DEF AccountInv
<1> QED
  BY <1>1, AccountsAlways, PTL

\* "Cannot demote the last active admin" and "Cannot deactivate the last active admin"
\* (services/admin.ts): promotions, registrations, lost requests and one removal at a
\* time never leave a wiki that has an active admin without one.
THEOREM AnAdminRemainsHolds ==
  AccountSpec => AnAdminRemains
<1>1. ASSUME AccountsInd, [AccountNext]_accountVars
      PROVE  [ActiveAdmins # {} /\ "admins" \notin accountMode => ActiveAdmins' # {}]_accountVars
  <2> SUFFICES ASSUME AccountNext, ActiveAdmins # {}, "admins" \notin accountMode
               PROVE  ActiveAdmins' # {}
    BY <1>1
  <2>1. AccountShapeInv /\ RemovalInv
    BY <1>1 DEF AccountsInd
  <2>2. ASSUME NEW r \in Requests, NEW req \in Request, Starts(r, req)
        PROVE  ActiveAdmins' # {}
    <3>1. users' = users
      BY <2>1, <2>2, BeginsQuietly
    <3>2. ActiveAdmins' = ActiveAdmins
      BY <3>1 DEF ActiveAdmins, IsAdmin, IsUserActive, Exists
    <3> QED
      BY <3>2
  <2>3. ASSUME NEW r \in Requests, Statement(r)
        PROVE  ActiveAdmins' # {}
    <3>1. CASE UpdateUser(r) /\ Removal(requests[r])
      <4>1. PICK x \in ActiveAdmins : x # requests[r].user
        BY <2>1, <3>1, Updated DEF RemovalInv, AnotherAdmin
      <4>2. x \in ActiveAdmins'
        BY <2>1, <2>3, <4>1, AdminsStay
      <4> QED
        BY <4>2
    <3>2. CASE ~ (UpdateUser(r) /\ Removal(requests[r]))
      BY <2>1, <2>3, <3>2, AdminsStay
    <3> QED
      BY <3>1, <3>2
  <2> QED
    BY <2>2, <2>3, AccountSteps DEF Statement
<1> QED
  BY <1>1, AccountsAlways, PTL DEF AccountSpec, AnAdminRemains

=============================================================================
