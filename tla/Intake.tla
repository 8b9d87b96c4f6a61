-------------------------------- MODULE Intake --------------------------------
(***************************************************************************)
(* Everything that starts workflow runs in one workspace, together: users, *)
(* schedules and webhooks, over the same runs and the same quotas, with    *)
(* the maintenance the scheduler process runs (worker/workflow-scheduler). *)
(***************************************************************************)
EXTENDS Schedules, WebhookIngress

vars == <<clock, ledger, admissionVars, scheduleVars, webhookVars>>

Init == AdmissionInit /\ ScheduleInit /\ WebhookInit

RequestStep ==
  /\ \E u \in Requesters :
       \/ \E w \in Workflows, k \in ClientKeys : RequestRun(u, w, <<"user", k>>)
       \/ RecheckKey(u)
       \/ \E limited \in BOOLEAN : CommitRun(u, limited)
  /\ UNCHANGED <<clock, scheduleVars, webhookVars>>

WorkflowStep ==
  /\ \E w \in Workflows, state \in WorkflowStates : SetWorkflow(w, state)
  /\ UNCHANGED <<clock, scheduleVars, webhookVars>>

ScheduleEditStep ==
  /\ UserStep \/ RowStep
  /\ UNCHANGED <<clock, ledger, admissionVars, webhookVars>>

PollStep(p) == Poll(p) /\ UNCHANGED <<clock, ledger, admissionVars, webhookVars>>
AbandonStep(p) == AbandonPoll(p) /\ UNCHANGED <<clock, ledger, admissionVars, webhookVars>>
ProcessStep(p, s) == Process(p, s) /\ UNCHANGED <<clock, workflow, request, webhookVars>>

ManageStep == ManageTriggers /\ UNCHANGED <<clock, ledger, admissionVars, scheduleVars>>
ReceiveStep == Receive /\ UNCHANGED <<clock, ledger, admissionVars, scheduleVars>>
AcceptStep(d) == Accept(d) /\ UNCHANGED <<clock, workflow, request, scheduleVars>>

(* resolveWorkflowRunPrincipal, asked each time a worker takes the run up:   *)
(* the user who started it, or the row that links it.                        *)
HasPrincipal(key) ==
  \/ key[1] = "user"
  \/ \E o \in occurrences : o.status = "TRIGGERED" /\ o.run = key
  \/ \E ev \in events :
       ev.status = "TRIGGERED" /\ ev.run = key /\ trigger[ev.trigger] # NoTrigger

(* The cleanup a scheduler process runs after a poll.  It deletes rows that  *)
(* are weeks old and calls last seconds: no call or poll in flight began    *)
(* before the rows it deletes.                                              *)
NothingInFlight ==
  /\ \A e \in Editors : editor[e].pc = "idle"
  /\ \A p \in Schedulers : scheduler[p] = NoPoll
  /\ \A d \in Deliveries : delivery[d] = NoDelivery

Maintenance ==
  /\ NothingInFlight
  /\ occurrences' = KeptOccurrences
  /\ events' = KeptEvents
  /\ ledger' = PurgeAdmissions(ledger)
  /\ <<occurrences, events, ledger>>' # <<occurrences, events, ledger>>
  /\ UNCHANGED <<clock, admissionVars, schedule, scheduler, editor, offTime, trigger, delivery>>

TickStep == Tick /\ UNCHANGED <<ledger, admissionVars, scheduleVars, webhookVars>>

Next ==
  \/ RequestStep
  \/ WorkflowStep
  \/ ScheduleEditStep
  \/ \E p \in Schedulers : PollStep(p) \/ AbandonStep(p) \/ \E s \in Schedules : ProcessStep(p, s)
  \/ ManageStep
  \/ ReceiveStep
  \/ \E d \in Deliveries : AcceptStep(d)
  \/ Maintenance
  \/ TickStep

Spec == Init /\ [][Next]_vars

(* A scheduler process polls on a timer and, when it dies, is started again. *)
(* It does not die, and no other schedule throws, each time just before the  *)
(* turn of the same schedule.                                               *)
Fairness ==
  \A p \in Schedulers :
    /\ WF_vars(PollStep(p))
    /\ \A s \in Schedules : SF_vars(ProcessStep(p, s))

FairSpec == Spec /\ Fairness

-------------------------------------------------------------------------------
(* An occurrence or an event that says TRIGGERED has the run of its key, of  *)
(* the workflow it was for, with the dispatch row that gets it executed:    *)
(* also when the history was purged meanwhile and the key came back, unless  *)
(* it is an instant that was once dealt with off its time, before it came   *)
(* or when it was too old.                                                   *)
TriggeredHasItsRun ==
  /\ \A o \in occurrences : o.status = "TRIGGERED" =>
       /\ [key |-> o.run, workflow |-> ScheduleOwner[o.schedule]] \in runs
       /\ o.run \in dispatches \/ <<o.schedule, o.at>> \in offTime
  /\ \A ev \in events : ev.status = "TRIGGERED" =>
       /\ [key |-> ev.run, workflow |-> ev.workflow] \in runs
       /\ ev.run \in dispatches

(* A run that will be executed was charged to the start quota, under its     *)
(* operation key, in the transaction that created it or, when two client    *)
(* keys fold into one, in the transaction of the other; and from its first   *)
(* moment there is somebody on whose behalf a worker can execute it.         *)
StartsAreAccountedFor ==
  [][\A key \in dispatches' \ dispatches :
       /\ IsAdmitted(ledger', "WORKFLOW_START_DAY", OperationKey(key))
       /\ HasPrincipal(key)']_vars

(* The workspace never has more schedules active than its plan allows,       *)
(* however its users' creations and activations interleave.                 *)
ActiveWithinQuota == Cardinality(Active) <= ActiveLimit

(* A row that is armed for an instant of another definition than its own.    *)
Timing(row) == <<row.type, row.every, row.runAt>>
IsMismatched(row) ==
  /\ row.status = "live" /\ row.next # Never
  /\ \/ row.type = "CRON" /\ row.next \notin CronInstants
     \/ row.type = "ONE_TIME" /\ row.next # row.runAt

(* A call that changes no timing writes over an edit it has not seen.        *)
WritesOverTiming(e, s) ==
  /\ WriteSchedule(e) /\ editor[e].op = "input" /\ editor[e].schedule = s
  /\ Timing(editor[e].row) # Timing(schedule[s])

(* A run starts only for an instant of the schedule's own definition, one    *)
(* that has come by the time of the poll and not longer ago than the grace   *)
(* period, whatever policy, edit or downtime lies between.  The exception is *)
(* a row whose definition and nextRunAt are of two edits, and only a call    *)
(* that wrote an old definition over a new one leaves such a row.            *)
TriggeredOnTime ==
  [][/\ \A p \in Schedulers, s \in Schedules, o \in occurrences' \ occurrences :
          ProcessStep(p, s) /\ o.status = "TRIGGERED" /\ o.schedule = s =>
            \/ /\ o.at <= scheduler[p].now /\ scheduler[p].now - o.at <= Grace
               /\ schedule[s].type = "CRON" => o.at \in CronInstants
            \/ IsMismatched(schedule[s])
     /\ \A s \in Schedules :
          IsMismatched(schedule'[s]) /\ ~IsMismatched(schedule[s]) =>
            \E e \in Editors : WritesOverTiming(e, s)]_vars

(* Dealing with an instant leaves nothing due at the time of that poll: a    *)
(* schedule that was down for long makes up for one instant at most.        *)
NoBackfill ==
  [][\A p \in Schedulers, s \in Schedules :
       occurrences' # occurrences /\ ProcessStep(p, s)
         => ~(IsDue(schedule'[s], scheduler[p].now))]_vars

WebhookRuns(t, event) ==
  {r \in runs : r.key[1] = "webhook" /\ r.key[2] = t /\ r.key[3][2] = event}

(* However often, however late and in whatever window an event is delivered, *)
(* and whether or not its history was purged, it starts one run.            *)
EventStartsOneRun ==
  \A t \in Triggers, event \in Events : Cardinality(WebhookRuns(t, event)) <= 1

(* An instant that is due and not recorded is recorded in the end, unless    *)
(* the schedule is changed so that it is no longer due.                     *)
DueUnrecorded(s) == Due(s, clock) /\ OccurrenceAt(s, calculateDueSchedule(schedule[s], clock).at) = {}
DueIsRecorded == \A s \in Schedules : DueUnrecorded(s) ~> ~DueUnrecorded(s)
===============================================================================
