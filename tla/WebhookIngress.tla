---------------------------- MODULE WebhookIngress ----------------------------
(***************************************************************************)
(* Inbound webhooks of one workspace: the triggers users manage and the    *)
(* deliveries that senders sign, repeat and retry.                         *)
(*   lib/webhooks/service.ts, ingress.ts, protocol.ts, policy.ts,          *)
(*   repository.ts, app/api/hooks/[publicId]/route.ts                      *)
(*                                                                         *)
(* A delivery is accepted in one transaction, after its trigger has been   *)
(* read and its signature verified outside it; the trigger may change      *)
(* meanwhile.  A sender that gets no answer delivers again, with the same  *)
(* event and a new timestamp.                                              *)
(***************************************************************************)
EXTENDS RunAdmission

CONSTANTS
  Triggers,       \* webhook trigger ids
  Deliveries,     \* deliveries in flight at once
  Events,         \* events senders report under an event id
  Payloads,       \* payloads they send without one
  ReplayWindow,   \* WEBHOOK_REPLAY_WINDOW_SECONDS
  EventRetention, \* WEBHOOK_EVENT_RETENTION_DAYS, in ticks
  MaxSecret       \* bound of the model: rotations of a secret

ASSUME WebhookAssumption ==
  /\ ReplayWindow \in Nat \ {0} /\ EventRetention \in Nat \ {0} /\ MaxSecret \in Nat \ {0}
  /\ "WEBHOOK_ACCEPTED_MINUTE" \in Metrics

VARIABLES
  trigger,   \* trigger[t]: the row, or NoTrigger
  events,    \* the rows of workflow_webhook_events
  delivery   \* delivery[d]: the delivery that has been verified and not yet accepted

webhookVars == <<trigger, events, delivery>>

NoTrigger == [status |-> "none"]
DeletedTrigger == [status |-> "deleted"]
LiveTrigger(w) == [status |-> "live", enabled |-> TRUE, workflow |-> w, secret |-> 1]
NoDelivery == [pc |-> "idle"]

WebhookInit ==
  /\ trigger = [t \in Triggers |-> NoTrigger]
  /\ events = {}
  /\ delivery = [d \in Deliveries |-> NoDelivery]

-------------------------------------------------------------------------------
(* Trigger management.  Each call ends in one UPDATE of a row not yet deleted. *)
TriggerBecomes(t, row) ==
  /\ trigger' = [trigger EXCEPT ![t] = row]
  /\ UNCHANGED <<events, delivery>>

IsLive(t) == trigger[t].status = "live"

createWorkflowWebhook(t, w) ==
  /\ trigger[t] = NoTrigger /\ workflow[w] # "deleted"
  /\ TriggerBecomes(t, LiveTrigger(w))

updateWorkflowWebhook(t, w) ==
  /\ IsLive(t) /\ workflow[w] # "deleted" /\ w # trigger[t].workflow
  /\ TriggerBecomes(t, [trigger[t] EXCEPT !.workflow = w])

setWorkflowWebhookEnabled(t) ==
  /\ IsLive(t)
  /\ TriggerBecomes(t, [trigger[t] EXCEPT !.enabled = ~@])

deleteWorkflowWebhook(t) ==
  /\ IsLive(t)
  /\ TriggerBecomes(t, DeletedTrigger)

(* secret stands for the active secret itself; secretVersion, which two         *)
(* rotations at once may both set to the same number, is left out.           *)
rotateWorkflowWebhookSecret(t) ==
  /\ IsLive(t) /\ trigger[t].secret < MaxSecret
  /\ TriggerBecomes(t, [trigger[t] EXCEPT !.secret = @ + 1])

-------------------------------------------------------------------------------
(* validateWebhookTimestamp: the sender's clock may be ahead or behind.      *)
WithinReplayWindow(timestamp) ==
  /\ clock - timestamp <= ReplayWindow
  /\ timestamp - clock <= ReplayWindow

(* Mutated form of createWebhookDedupeKey: the event id is not used.         *)
PayloadKeyOnly(event, timestamp) ==
  <<"payload", event, (timestamp \div ReplayWindow) * ReplayWindow>>

(* createWebhookDedupeKey: an event id stands for itself; a payload without  *)
(* one is the same delivery within one window of the signed timestamp.      *)
DedupeKey(event, timestamp) ==
  IF event \in Events THEN <<"event", event, 0>>
  ELSE <<"payload", event, (timestamp \div ReplayWindow) * ReplayWindow>>

(* The first half of ingestWebhookDelivery.  A rejected delivery changes     *)
(* nothing: the rate limit in Redis, the trigger, the timestamp and the      *)
(* signature under the trigger's active secret all say no before it writes. *)
VerifyDelivery(d, t, event, timestamp, secret) ==
  /\ delivery[d] = NoDelivery
  /\ IsLive(t) /\ trigger[t].enabled
  /\ WithinReplayWindow(timestamp)
  /\ secret = trigger[t].secret
  /\ delivery' = [delivery EXCEPT ![d] =
       [pc |-> "verified", trigger |-> t, workflow |-> trigger[t].workflow,
        key |-> DedupeKey(event, timestamp), now |-> clock]]
  /\ UNCHANGED <<trigger, events>>

(* createWebhookIdempotencyKey, and webhookOperationKey of the quota.        *)
RunKey(d) == <<"webhook", delivery[d].trigger, delivery[d].key>>

EventOf(t, key) == {ev \in events : ev.trigger = t /\ ev.key = key}

(* The unique index (trigger, dedupeKey).                                   *)
IsNew(d) == EventOf(delivery[d].trigger, delivery[d].key) = {}

Answered(d) ==
  /\ delivery' = [delivery EXCEPT ![d] = NoDelivery]
  /\ UNCHANGED trigger

RecordEvent(d, status, run) ==
  events' = events \cup
    {[trigger |-> delivery[d].trigger, key |-> delivery[d].key, status |-> status, run |-> run,
      workflow |-> delivery[d].workflow, expires |-> delivery[d].now + EventRetention]}

(* validateAutomationOrigin: the event and its trigger are there before the  *)
(* run; a trigger that was deleted still is.                                 *)
EventExists(d) ==
  \E ev \in events' :
    /\ ev.trigger = delivery[d].trigger /\ ev.key = delivery[d].key
    /\ trigger[ev.trigger] # NoTrigger

CanAccept(d) == CanAdmit(ledger, "WEBHOOK_ACCEPTED_MINUTE", RunKey(d), clock)
Accepted(d) == Admit(ledger, "WEBHOOK_ACCEPTED_MINUTE", RunKey(d), clock)

(* 202 duplicate: only lastSeenAt and duplicateCount change.                 *)
AcceptDuplicate(d) ==
  /\ delivery[d].pc = "verified" /\ ~IsNew(d)
  /\ Answered(d)
  /\ UNCHANGED <<events, runs, dispatches, ledger>>

AcceptSkipped(d) ==
  /\ delivery[d].pc = "verified" /\ IsNew(d) /\ CanAccept(d)
  /\ workflow[delivery[d].workflow] # "enabled"
  /\ ledger' = Accepted(d)
  /\ RecordEvent(d, "SKIPPED", "none")
  /\ Answered(d)
  /\ UNCHANGED <<runs, dispatches>>

(* Mutated form of SameWorkflow: the run found under the key is not compared. *)
AnyWorkflow(d) == \A r \in RunsWithKey(RunKey(d)) : r.workflow \in Workflows

(* The run of the key, if there is one, must be of the same workflow.        *)
SameWorkflow(d) == \A r \in RunsWithKey(RunKey(d)) : r.workflow = delivery[d].workflow

AcceptTriggered(d) ==
  /\ delivery[d].pc = "verified" /\ IsNew(d) /\ CanAccept(d)
  /\ workflow[delivery[d].workflow] = "enabled" /\ SameWorkflow(d)
  /\ RecordEvent(d, "TRIGGERED", RunKey(d))
  /\ EventExists(d)
  /\ MayStart(Accepted(d), RunKey(d), clock)
  /\ StartRun(Accepted(d), RunKey(d), delivery[d].workflow, clock)
  /\ Answered(d)

(* 429 or 503: a quota, a rate limit, a missing resource, a conflicting run  *)
(* or a lost connection rolls the whole transaction back.                   *)
RefuseDelivery(d) ==
  /\ delivery[d].pc = "verified"
  /\ Answered(d)
  /\ UNCHANGED <<events, runs, dispatches, ledger>>

(* purgeExpiredWebhookEvents                                                 *)
KeptEvents == {ev \in events : ev.expires >= clock}

ManageTriggers ==
  \E t \in Triggers :
    \/ \E w \in Workflows : createWorkflowWebhook(t, w) \/ updateWorkflowWebhook(t, w)
    \/ setWorkflowWebhookEnabled(t)
    \/ deleteWorkflowWebhook(t)
    \/ rotateWorkflowWebhookSecret(t)

Receive ==
  \E d \in Deliveries, t \in Triggers, event \in Events \cup Payloads, timestamp \in Now,
     secret \in 1..MaxSecret : VerifyDelivery(d, t, event, timestamp, secret)

Accept(d) ==
  \/ AcceptDuplicate(d)
  \/ AcceptSkipped(d)
  \/ AcceptTriggered(d)
  \/ RefuseDelivery(d)
===============================================================================
