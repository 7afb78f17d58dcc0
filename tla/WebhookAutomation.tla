-------------------------- MODULE WebhookAutomation ---------------------------
(***************************************************************************)
(* What a page event sets off outside the wiki (services/webhooks.ts). Two *)
(* parts that share no state: the rules that are applied to the page of an *)
(* event before it is published (webhooks/automation.ts), and the          *)
(* deliveries to those who subscribed to it (webhooks/delivery.ts).        *)
(***************************************************************************)
EXTENDS Naturals, Sequences, FiniteSets, SequencesExt

-----------------------------------------------------------------------------
(* Subscriptions and deliveries (webhooks/delivery.ts,                     *)
(* webhooks/subscriptions.ts and their repositories).                      *)
(*                                                                         *)
(* Publishing an event inserts a row for every subscription that wants it; *)
(* the loop of due deliveries reads rows, looks up their subscriptions and *)
(* sends them, all at once.  Nothing claims a row, so calls may overlap.   *)
(*                                                                         *)
(* Of nextAttemptAt only the order matters: queue holds the rows that have *)
(* one, the earliest first, and the first dueCount of them are due.        *)

CONSTANTS
  Subscriptions,
  Calls,         \* calls of the loop, or of retryDelivery, that are under way
  EventTypes,
  MaxAttempts,   \* policy.maxAttempts
  DueLimit,      \* how many rows one call of the loop reads
  MaxDeliveries, \* bound on the rows
  MaxChanges,    \* bound on changes of subscriptions, retries by hand and stops
  HookModes      \* sets of the things that may happen, see HookActs

\* "overlap": a call of the loop starts while another is under way.
\* "retry": an administrator retries a delivery.  "stop": the server stops.
\* "disable": subscriptions are disabled or deleted.  "crowd": more deliveries
\* are due than a call reads, in a mode that disables subscriptions.
HookActs == {"overlap", "retry", "stop", "disable", "crowd"}

VARIABLES
  hookMode,
  subscriptions, \* the event types each enabled subscription wants, {} when it is
                 \* disabled or deleted
  deliveries,    \* the rows, in the order of their insertion
  queue,
  dueCount,
  publishing,    \* the types of events whose rows are still to be inserted
  calls,
  acknowledged,  \* deliveries that the endpoint has answered with success
  changes

hookVars == <<hookMode, subscriptions, deliveries, queue, dueCount, publishing, calls,
              acknowledged, changes>>

table == <<deliveries, queue, dueCount>>

\* What a call has read of a row and uses until it writes the row.
Row(id) == [id |-> id, attempts |-> deliveries[id].attempts]
IdleCall == [at |-> "idle", rows |-> <<>>, sending |-> {}]

HookInit ==
  /\ hookMode \in HookModes
  /\ subscriptions = [s \in Subscriptions |-> EventTypes]
  /\ deliveries = <<>> /\ queue = <<>> /\ dueCount = 0
  /\ publishing = <<>>
  /\ calls = [c \in Calls |-> IdleCall]
  /\ acknowledged = {}
  /\ changes = 0

-----------------------------------------------------------------------------
(* The rows of webhook_deliveries.                                         *)

\* A row whose nextAttemptAt becomes null, now, or some time later.
Unqueued(id) == SelectSeq(queue, LAMBDA other : other # id)
DueWithout(id) == Cardinality({n \in 1 .. dueCount : queue[n] # id})

NeverAgain(id) == queue' = Unqueued(id) /\ dueCount' = DueWithout(id)

DueNow(id) ==
  /\ queue' = InsertAt(Unqueued(id), DueWithout(id) + 1, id)
  /\ dueCount' = DueWithout(id) + 1

DueLater(id) ==
  /\ dueCount' = DueWithout(id)
  /\ \E n \in dueCount' + 1 .. Len(Unqueued(id)) + 1 : queue' = InsertAt(Unqueued(id), n, id)

\* Not delivered, and attempts are left.
IsOpen(id) == deliveries[id].status # "succeeded" /\ deliveries[id].attempts < MaxAttempts

\* Faulty: rows that have been tried are not read.
ListDueUntried ==
  LET due == SelectSeq(SubSeq(queue, 1, dueCount), LAMBDA id : deliveries[id].attempts = 0)
  IN  SubSeq(due, 1, IF Len(due) < DueLimit THEN Len(due) ELSE DueLimit)

\* The earliest rows that are open and due.
ListDue ==
  LET due == SelectSeq(SubSeq(queue, 1, dueCount), IsOpen)
  IN  SubSeq(due, 1, IF Len(due) < DueLimit THEN Len(due) ELSE DueLimit)

\* Faulty: one attempt short.
RetryAtShort(id, attempts) ==
  IF attempts + 1 >= MaxAttempts THEN NeverAgain(id) ELSE DueLater(id)

\* No next attempt when they are used up.
RetryAt(id, attempts) == IF attempts >= MaxAttempts THEN NeverAgain(id) ELSE DueLater(id)

-----------------------------------------------------------------------------
(* Subscriptions.                                                          *)

\* create, update and delete; update changes the types or disables.
ChangeSubscription(s) ==
  /\ changes < MaxChanges /\ changes' = changes + 1
  /\ \E types \in SUBSET EventTypes :
       /\ types # subscriptions[s]
       /\ types = {} => "disable" \in hookMode
       /\ subscriptions' = [subscriptions EXCEPT ![s] = types]
  /\ UNCHANGED <<hookMode, table, publishing, calls, acknowledged>>

-----------------------------------------------------------------------------
(* Publishing.                                                             *)

\* publish: the event, then the ones that automation rules fire.
Publish ==
  /\ publishing = <<>>
  /\ Len(deliveries) < MaxDeliveries
  /\ \E event \in EventTypes, extra \in {<<>>} \cup {<<type>> : type \in EventTypes} :
       publishing' = <<event>> \o extra
  /\ UNCHANGED <<hookMode, subscriptions, table, calls, acknowledged, changes>>

Wanting(type) == {s \in Subscriptions : type \in subscriptions[s]}

\* A call of processDueDeliveries may start while another runs only in some modes.
MayStart(c) ==
  /\ calls[c] = IdleCall
  /\ "overlap" \notin hookMode => \A other \in Calls : calls[other] = IdleCall

\* Bounds: a publication that goes over them stays where it is.
Fits(rows) ==
  /\ Len(deliveries) + rows <= MaxDeliveries
  /\ "disable" \in hookMode /\ "crowd" \notin hookMode => Len(queue) + rows <= DueLimit

\* enqueue: a row that is due at once for every enabled subscription.
Enqueue ==
  /\ publishing # <<>>
  /\ publishing' = Tail(publishing)
  /\ Fits(Cardinality(Wanting(Head(publishing))))
  /\ \E rows \in SetToSeqs(Wanting(Head(publishing))) :
       LET ids == [n \in DOMAIN rows |-> Len(deliveries) + n]
       IN  /\ deliveries' = deliveries \o
                [n \in DOMAIN rows |-> [sub |-> rows[n], status |-> "pending", attempts |-> 0]]
           /\ queue' = SubSeq(queue, 1, dueCount) \o ids
                         \o SubSeq(queue, dueCount + 1, Len(queue))
           /\ dueCount' = dueCount + Len(rows)
  /\ UNCHANGED <<hookMode, subscriptions, calls, acknowledged, changes>>

-----------------------------------------------------------------------------
(* The loop of due deliveries.                                             *)

\* The timer of the server, once a minute, and at the end of publish, which does not
\* await it.
ProcessDue(c) ==
  /\ MayStart(c)
  /\ ListDue # <<>>
  /\ calls' = [calls EXCEPT ![c] =
       [IdleCall EXCEPT !.at = "loop", !.rows = [n \in DOMAIN ListDue |-> Row(ListDue[n])]]]
  /\ UNCHANGED <<hookMode, subscriptions, table, publishing, acknowledged, changes>>

\* One row after the other: the subscription is looked up, and when it is enabled the
\* delivery starts and is not awaited.
StartDelivery(c) ==
  /\ calls[c].rows # <<>>
  /\ LET row == Head(calls[c].rows)
         enabled == subscriptions[deliveries[row.id].sub] # {}
     IN  calls' = [calls EXCEPT ![c].rows = Tail(@),
                                ![c].sending = IF enabled THEN @ \cup {row} ELSE @]
  /\ UNCHANGED <<hookMode, subscriptions, table, publishing, acknowledged, changes>>

\* deliver, when the answer is there or 8 seconds have passed: the attempts are
\* those of the row as it was read.
Answer(c, row, delivered) ==
  /\ row \in calls[c].sending
  /\ LET attempts == row.attempts + 1
         status == IF delivered THEN "succeeded" ELSE "failed"
     IN  /\ deliveries' =
              [deliveries EXCEPT ![row.id].status = status, ![row.id].attempts = attempts]
         /\ IF delivered THEN NeverAgain(row.id) ELSE RetryAt(row.id, attempts)
  /\ acknowledged' = IF delivered THEN acknowledged \cup {row.id} ELSE acknowledged
  /\ calls' = [calls EXCEPT ![c].sending = @ \ {row}]
  /\ UNCHANGED <<hookMode, subscriptions, publishing, changes>>

FinishCall(c) ==
  /\ calls[c].at = "loop" /\ calls[c].rows = <<>> /\ calls[c].sending = {}
  /\ calls' = [calls EXCEPT ![c] = IdleCall]
  /\ UNCHANGED <<hookMode, subscriptions, table, publishing, acknowledged, changes>>

\* retryDelivery: the row is due now, and is read again and sent whatever its attempts.
Retry(c, id) ==
  /\ "retry" \in hookMode
  /\ changes < MaxChanges /\ changes' = changes + 1
  /\ calls[c] = IdleCall
  /\ id \in DOMAIN deliveries
  /\ subscriptions[deliveries[id].sub] # {}
  /\ deliveries' = [deliveries EXCEPT ![id].status = "pending"]
  /\ DueNow(id)
  /\ calls' = [calls EXCEPT ![c] = [at |-> "loop", rows |-> <<>>, sending |-> {Row(id)}]]
  /\ UNCHANGED <<hookMode, subscriptions, publishing, acknowledged>>

\* Another row becomes due.
Elapse ==
  /\ dueCount < Len(queue)
  /\ dueCount' = dueCount + 1
  /\ UNCHANGED <<hookMode, subscriptions, deliveries, queue, publishing, calls, acknowledged,
                 changes>>

\* The server stops and starts: the rows are what is left.
StopAndStart ==
  /\ "stop" \in hookMode
  /\ changes < MaxChanges /\ changes' = changes + 1
  /\ publishing' = <<>>
  /\ calls' = [c \in Calls |-> IdleCall]
  /\ UNCHANGED <<hookMode, subscriptions, table, acknowledged>>

HookNext ==
  \/ \E s \in Subscriptions : ChangeSubscription(s)
  \/ Publish
  \/ Enqueue
  \/ \E c \in Calls :
       \/ ProcessDue(c)
       \/ StartDelivery(c)
       \/ FinishCall(c)
       \/ \E row \in calls[c].sending, delivered \in BOOLEAN : Answer(c, row, delivered)
       \/ \E id \in DOMAIN deliveries : Retry(c, id)
  \/ Elapse
  \/ StopAndStart

\* Requests end by their timeout, time passes and the timer fires.
HookFairness ==
  /\ WF_hookVars(Elapse)
  /\ \A c \in Calls :
       /\ WF_hookVars(ProcessDue(c))
       /\ WF_hookVars(StartDelivery(c))
       /\ WF_hookVars(FinishCall(c))
       /\ WF_hookVars(\E row \in calls[c].sending, delivered \in BOOLEAN :
                         Answer(c, row, delivered))

HookSpec == HookInit /\ [][HookNext]_hookVars /\ HookFairness

-----------------------------------------------------------------------------
(* Properties.                                                             *)

Delivery == [sub : Subscriptions, status : {"pending", "failed", "succeeded"}, attempts : Nat]

HookTypeOK ==
  /\ subscriptions \in [Subscriptions -> SUBSET EventTypes]
  /\ deliveries \in Seq(Delivery)
  /\ queue \in Seq(DOMAIN deliveries) /\ IsInjective(queue)
  /\ dueCount \in 0 .. Len(queue)
  /\ acknowledged \subseteq DOMAIN deliveries
  /\ \A c \in Calls :
       /\ calls[c].at \in {"idle", "loop"}
       /\ \A row \in calls[c].sending \cup ToSet(calls[c].rows) :
            row.id \in DOMAIN deliveries /\ row.attempts \in Nat

\* A delivery that is open has a time for its next attempt, and one that is closed
\* comes back only through a call that is under way or a retry by hand, whatever
\* calls overlap and overwrite each other's attempts.
OpenDeliveriesAreQueued ==
  \A id \in DOMAIN deliveries : IsOpen(id) => id \in ToSet(queue)

\* Once an endpoint has acknowledged a delivery it does not get it again, unless calls
\* overlap, an administrator asks for it or the server stops.
AcknowledgedIsNotSentAgain ==
  [][ hookMode \cap {"overlap", "retry", "stop"} = {} =>
        \A c \in Calls : \A row \in calls'[c].sending \ calls[c].sending :
          row.id \notin acknowledged ]_hookVars

HasEnded(id) ==
  id \in DOMAIN deliveries /\ (~ IsOpen(id) \/ subscriptions[deliveries[id].sub] = {})

\* Every delivery is acknowledged or uses up its attempts, or its subscription is
\* disabled; though calls overlap, overwrite each other and are lost.
EveryDeliveryEnds ==
  "crowd" \notin hookMode =>
    \A id \in 1 .. MaxDeliveries : [](id \in DOMAIN deliveries => <>HasEnded(id))

\* The deliveries keep their shape, and every open one has its next attempt.
HookInv == HookTypeOK /\ OpenDeliveriesAreQueued

\* Deliveries end, and one that was acknowledged has ended.
DeliveriesEnd == AcknowledgedIsNotSentAgain /\ EveryDeliveryEnds

-----------------------------------------------------------------------------
(* Automation rules (webhooks/automation.ts, shared.ts): before an event   *)
(* is sent to the webhooks the enabled rules are applied to its page, one  *)
(* after the other, each to what the one before has left.                  *)
(*                                                                         *)
(* One publication runs while administrators change the rules. A label     *)
(* stands for the conditions on the row, the folder of a page for its      *)
(* path; writes go through the page service, which refuses pages that are  *)
(* not active and moves to a path that is taken.                           *)

CONSTANTS
  Labels,
  Folders,
  Events,          \* event types that rules fire
  NoValue,         \* a condition or an action that a rule does not have
  MaxRules,        \* bound on the rules
  MaxRuleChanges   \* bound on changes of rules during the publication

RuleConfigs ==
  { r \in [label : Labels \cup {NoValue}, folder : Folders \cup {NoValue},
           addLabel : Labels \cup {NoValue}, moveTo : Folders \cup {NoValue},
           fire : Events \cup {NoValue}, stop : BOOLEAN] :
      {r.addLabel, r.moveTo, r.fire} # {NoValue} }

VARIABLES
  rules,       \* the enabled rules of the event's type, in the order of priority
  page,        \* the row of the event's page
  taken,       \* the folders in which another page has the page's last segment
  todo,        \* the rules that the publication has still to look at
  current,     \* the row that the publication has last read or written
  data,        \* event.data.page, as it will be sent
  extraEvents,
  turn,        \* "begin", "rule", "move", or "end"
  ruleChanges,
  asked        \* the rules and the page as the publication has found them

autoVars == <<rules, page, taken, todo, current, data, extraEvents, turn, ruleChanges, asked>>

PageRow == [labels : SUBSET Labels, folder : Folders, active : BOOLEAN]

Short(set) == UNION {[1 .. n -> set] : n \in 0 .. MaxRules}

AutoInit(Configs) ==
  /\ rules \in Short(Configs)
  /\ page \in PageRow
  /\ taken \in SUBSET (Folders \ {page.folder})
  /\ todo = <<>> /\ extraEvents = <<>>
  /\ current = page /\ data = page
  /\ turn = "begin"
  /\ ruleChanges = 0
  /\ asked = [rules |-> rules, page |-> page]

-----------------------------------------------------------------------------
(* The administrator's rules, cleaned when they are written.               *)

MayChangeRules == ruleChanges < MaxRuleChanges /\ ruleChanges' = ruleChanges + 1

CreateRule(config) ==
  /\ MayChangeRules
  /\ Len(rules) < MaxRules
  /\ \E n \in 1 .. Len(rules) + 1 : rules' = InsertAt(rules, n, config)
  /\ UNCHANGED <<page, taken, todo, current, data, extraEvents, turn, asked>>

\* update: another configuration, or another priority.
UpdateRule(n, config) ==
  /\ MayChangeRules
  /\ n \in DOMAIN rules
  /\ \E place \in DOMAIN rules : rules' = InsertAt(RemoveAt(rules, n), place, config)
  /\ UNCHANGED <<page, taken, todo, current, data, extraEvents, turn, asked>>

\* delete, or update to disabled.
DeleteRule(n) ==
  /\ MayChangeRules
  /\ n \in DOMAIN rules
  /\ rules' = RemoveAt(rules, n)
  /\ UNCHANGED <<page, taken, todo, current, data, extraEvents, turn, asked>>

-----------------------------------------------------------------------------
(* The publication.                                                        *)

\* findPageForEvent and the enabled rules, which are read once.
Begin ==
  /\ turn = "begin"
  /\ todo' = rules
  /\ current' = page
  /\ asked' = [rules |-> rules, page |-> page]
  /\ turn' = "rule"
  /\ UNCHANGED <<rules, page, taken, data, extraEvents, ruleChanges>>

\* conditionsMatch of the context: what the row holds now.
ConditionsMatch(rule, row) ==
  /\ rule.label = NoValue \/ rule.label \in row.labels
  /\ rule.folder = NoValue \/ rule.folder = row.folder

\* pageService.update and move: what the service answers, or the row as it was.
Updated(row, rule) ==
  IF row.active /\ rule.addLabel # NoValue
  THEN [row EXCEPT !.labels = @ \cup {rule.addLabel}] ELSE row

Moved(row, rule) ==
  IF row.active /\ rule.moveTo \notin {NoValue} \cup taken
  THEN [row EXCEPT !.folder = rule.moveTo] ELSE row

SkipRule ==
  /\ turn = "rule" /\ todo # <<>>
  /\ ~ ConditionsMatch(Head(todo), current)
  /\ todo' = Tail(todo)
  /\ UNCHANGED <<rules, page, taken, current, data, extraEvents, turn, ruleChanges, asked>>

\* The labels, status and review date of applyPageActions, in one update.
ApplyUpdate ==
  /\ turn = "rule" /\ todo # <<>>
  /\ ConditionsMatch(Head(todo), current)
  /\ page' = Updated(current, Head(todo))
  /\ current' = page'
  /\ turn' = "move"
  /\ UNCHANGED <<rules, taken, todo, data, extraEvents, ruleChanges, asked>>

\* Faulty: the event that a rule fires carries the page as it was before the rule.
ApplyMoveStaleEvent ==
  /\ turn = "move"
  /\ page' = Moved(current, Head(todo))
  /\ current' = page' /\ data' = page'
  /\ extraEvents' = IF Head(todo).fire = NoValue THEN extraEvents
                    ELSE Append(extraEvents, [type |-> Head(todo).fire, data |-> data])
  /\ todo' = IF Head(todo).stop THEN <<>> ELSE Tail(todo)
  /\ turn' = "rule"
  /\ UNCHANGED <<rules, taken, ruleChanges, asked>>

\* The move, the event that the rule fires, and the end of the loop when it stops.
ApplyMove ==
  /\ turn = "move"
  /\ page' = Moved(current, Head(todo))
  /\ current' = page' /\ data' = page'
  /\ extraEvents' = IF Head(todo).fire = NoValue THEN extraEvents
                    ELSE Append(extraEvents, [type |-> Head(todo).fire, data |-> data'])
  /\ todo' = IF Head(todo).stop THEN <<>> ELSE Tail(todo)
  /\ turn' = "rule"
  /\ UNCHANGED <<rules, taken, ruleChanges, asked>>

\* The payload is sent, then the extra events: Webhooks.Publish.
SendPayload ==
  /\ turn = "rule" /\ todo = <<>>
  /\ turn' = "end"
  /\ UNCHANGED <<rules, page, taken, todo, current, data, extraEvents, ruleChanges, asked>>

AutoNext(Configs) ==
  \/ \E config \in Configs : CreateRule(config) \/ \E n \in 1 .. MaxRules : UpdateRule(n, config)
  \/ \E n \in 1 .. MaxRules : DeleteRule(n)
  \/ Begin \/ SkipRule \/ ApplyUpdate \/ ApplyMove \/ SendPayload

-----------------------------------------------------------------------------
(* Properties.                                                             *)

\* What the rules mean: the first that matches is applied, and unless it stops the
\* others go on with the page it has left.
RuleResult(row, rule) == Moved(Updated(row, rule), rule)

AsFound == [row |-> asked.page, sent |-> asked.page, fired |-> <<>>, stopped |-> FALSE]

AfterRule(before, rule) ==
  LET row == RuleResult(before.row, rule)
  IN  IF before.stopped \/ ~ ConditionsMatch(rule, before.row) THEN before
      ELSE [row |-> row, sent |-> row, stopped |-> rule.stop,
            fired |-> IF rule.fire = NoValue THEN before.fired
                      ELSE Append(before.fired, [type |-> rule.fire, data |-> row])]

Meaning ==
  LET Outcome[n \in 0 .. Len(asked.rules)] ==
        IF n = 0 THEN AsFound ELSE AfterRule(Outcome[n - 1], asked.rules[n])
  IN  Outcome[Len(asked.rules)]

\* What is sent and what is left of the page is what the rules mean that were enabled
\* when the publication began, however they are changed while it goes on.
RulesAreAppliedAsFound ==
  turn = "end" => /\ page = Meaning.row
                  /\ data = Meaning.sent
                  /\ extraEvents = Meaning.fired

=============================================================================
