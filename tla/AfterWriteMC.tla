------------------------------ MODULE AfterWriteMC ------------------------------
(***************************************************************************)
(* What the server does after a page has been written, for TLC: the Git    *)
(* mirror, the automation rules and the webhooks.  A behaviour is one of   *)
(* one part; the others rest in an initial state of theirs.                *)
(***************************************************************************)
EXTENDS GitMirror, WebhookAutomation

CONSTANTS p1, p2, s1, s2, k1, k2, b1, b2, f1, f2, v1

VARIABLE part   \* "mirror", "webhooks" or "automation"

afterWriteVars == <<part, gitVars, hookVars, autoVars>>

\* Failing commits and imports, and conflicts, only beside the properties that bear them.
MirrorModes == {{"busy", "down"}, {"authoritative", "busy", "down", "restart"},
                {"error"}, {"authoritative", "conflict"}}

DeliveryModes == {{"overlap", "retry"}, {"disable"}, {"stop"}}

Rule(label, folder, addLabel, moveTo, fire, stop) ==
  [label |-> label, folder |-> folder, addLabel |-> addLabel, moveTo |-> moveTo,
   fire |-> fire, stop |-> stop]

\* Rules that enable one another, that undo each other's moves, and that stop.
SomeRules ==
  {Rule(NoValue, NoValue, b2, NoValue, v1, FALSE), Rule(b2, NoValue, b1, f2, v1, FALSE),
   Rule(b1, f2, NoValue, f1, v1, TRUE), Rule(NoValue, f1, b1, NoValue, NoValue, TRUE)}

\* The state in which the parts rest that do not move.
GitRests == gitMode = {"error"} /\ pages = EmptyTree /\ remote = EmptyTree
HooksRest == hookMode = {"stop"}
RulesRest == rules = <<>> /\ page = [labels |-> {}, folder |-> f1, active |-> TRUE] /\ taken = {}

AfterWriteInit ==
  /\ part \in {"mirror", "webhooks", "automation"}
  /\ GitInit /\ HookInit /\ AutoInit(SomeRules)
  /\ part # "mirror" => GitRests
  /\ part # "webhooks" => HooksRest
  /\ part # "automation" => RulesRest

MirrorStep ==
  part = "mirror" /\ GitNext /\ UNCHANGED <<hookVars, autoVars>>
WebhookStep ==
  part = "webhooks" /\ HookNext /\ UNCHANGED <<gitVars, autoVars>>
RuleStep ==
  /\ part = "automation" /\ AutoNext(SomeRules)
  /\ UNCHANGED <<gitVars, hookVars>>

AfterWriteNext ==
  /\ MirrorStep \/ WebhookStep \/ RuleStep
  /\ UNCHANGED part

\* At rest only the interval of the mirror is enabled.
AfterWriteSpec ==
  /\ AfterWriteInit /\ [][AfterWriteNext]_afterWriteVars
  /\ JobsEnd /\ WF_gitVars(part = "mirror" /\ RequestSync)
  /\ HookFairness

=============================================================================
