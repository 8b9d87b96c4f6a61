------------------------------ MODULE Schedules ------------------------------
(***************************************************************************)
(* Workflow schedules of one workspace: the users who create, edit, enable *)
(* and delete them, and the scheduler processes that turn due instants     *)
(* into occurrences and runs.                                              *)
(*   lib/schedules/service.ts, processor.ts, scheduler.ts                  *)
(*                                                                         *)
(* A user's call reads the schedule first, outside any transaction, and    *)
(* writes later; a scheduler works through a list of ids with the time it  *)
(* read when its poll began.  One schedule is processed in one transaction *)
(* that holds its row: one step here.                                      *)
(***************************************************************************)
EXTENDS RunAdmission, ScheduleCalculator

CONSTANTS
  Schedules,      \* schedule ids
  Definitions,    \* what users ask for: records [type, every, runAt, misfire]
  ScheduleOwner,  \* ScheduleOwner[s]: the workflow schedule s starts
  Schedulers,     \* scheduler processes
  BatchSize,      \* SCHEDULER_BATCH_SIZE
  Editors,        \* users at work on schedules
  ActiveLimit     \* limits.activeSchedules

(* validateScheduleInput: each type has its own field and no other.          *)
ValidDefinition(def) ==
  /\ def.misfire \in {"SKIP", "FIRE_ONCE"}
  /\ \/ def.type = "CRON" /\ def.every = Never /\ def.runAt = Never
     \/ def.type = "INTERVAL" /\ def.every \in Nat \ {0} /\ def.runAt = Never
     \/ def.type = "ONE_TIME" /\ def.every = Never /\ def.runAt \in Nat

(* Calendars repeat, both ways: an expression has a next instant and, for    *)
(* one whose time came, a last one.  The grace period is a day at most (env.ts), and what   *)
(* maintenance deletes is a day old at least (retention.ts).                 *)
ASSUME SchedulesAssumption ==
  /\ \A def \in Definitions : ValidDefinition(def)
  /\ ScheduleOwner \in [Schedules -> Workflows]
  /\ ActiveLimit \in Nat \ {0} /\ BatchSize \in Nat \ {0}
  /\ \A now \in Now : \E t \in CronInstants : t > now
  /\ 0 \in CronInstants
  /\ Grace <= Retention

VARIABLES
  schedule,     \* schedule[s]: the row, or NoSchedule
  occurrences,  \* the rows of workflow_schedule_occurrences
  scheduler,    \* scheduler[p]: the poll p is in
  editor,       \* editor[e]: the call e is in
  offTime       \* history: instants that were recorded off their time

scheduleVars == <<schedule, occurrences, scheduler, editor, offTime>>

NoSchedule == [status |-> "none"]
Deleted == [status |-> "deleted"]
Row(def, next) ==
  [status |-> "live", enabled |-> TRUE, type |-> def.type, every |-> def.every,
   runAt |-> def.runAt, misfire |-> def.misfire, next |-> next, processed |-> FALSE]

ScheduleKey(s, at) == <<"schedule", s, at>>
OccurrenceAt(s, at) == {o \in occurrences : o.schedule = s /\ o.at = at}

Live(s) == schedule[s].status = "live"
Active == {s \in Schedules : Live(s) /\ schedule[s].enabled}
Due(s, now) == s \in Active /\ IsDue(schedule[s], now)

(* The row lock on the workspace that lockActiveScheduleUsage takes and the  *)
(* transaction keeps while it creates or enables.                           *)
WorkspaceFree == \A e \in Editors : editor[e].pc # "counted"

HasQuota(active) == active < ActiveLimit

NoPoll == [due |-> {}, now |-> 0]

ScheduleInit ==
  /\ schedule = [s \in Schedules |-> NoSchedule]
  /\ occurrences = {}
  /\ scheduler = [p \in Schedulers |-> NoPoll]
  /\ editor = [e \in Editors |-> [pc |-> "idle"]]
  /\ offTime = {}

-------------------------------------------------------------------------------
(* Users.  An editor's call is [op, schedule, row]: what it is about to      *)
(* write and the schedule it was read from.                                 *)
EditorBecomes(e, call) == editor' = [editor EXCEPT ![e] = call]
Return(e) == EditorBecomes(e, [pc |-> "idle"])

(* createWorkflowSchedule computes nextRunAt before it locks the workspace.  *)
CreateSchedule(e, s, def) ==
  /\ editor[e].pc = "idle" /\ schedule[s] = NoSchedule
  /\ \A f \in Editors : editor[f].pc # "idle" => editor[f].schedule # s
  /\ workflow[ScheduleOwner[s]] # "deleted"
  /\ EditorBecomes(e, [pc |-> "read", op |-> "create", schedule |-> s,
       row |-> Row(def, initialNextRunAt(def, clock))])
  /\ UNCHANGED <<schedule, occurrences, scheduler, offTime>>

(* setWorkflowScheduleEnabled(true) judges the row it has read.              *)
MayEnable(row) ==
  /\ ~(row.type = "ONE_TIME" /\ row.processed)
  /\ row.next # Never

EnableSchedule(e, s) ==
  /\ editor[e].pc = "idle" /\ Live(s) /\ MayEnable(schedule[s])
  /\ EditorBecomes(e, [pc |-> "read", op |-> "enable", schedule |-> s])
  /\ UNCHANGED <<schedule, occurrences, scheduler, offTime>>

(* updateWorkflowSchedule: a processed schedule keeps its timing, but its    *)
(* misfire policy may change; either change recomputes nextRunAt from now.   *)
(* A call that changes neither writes the definition it has read all the     *)
(* same, and leaves nextRunAt as it is then.                                 *)
MayEdit(row, def) ==
  row.processed => <<def.type, def.every, def.runAt>> = <<row.type, row.every, row.runAt>>

EditSchedule(e, s, def) ==
  /\ editor[e].pc = "idle" /\ Live(s) /\ MayEdit(schedule[s], def)
  /\ EditorBecomes(e, [pc |-> "read", op |-> "edit", schedule |-> s,
       row |-> Row(def, initialNextRunAt(def, clock))])
  /\ UNCHANGED <<schedule, occurrences, scheduler, offTime>>

EditInput(e, s) ==
  /\ editor[e].pc = "idle" /\ Live(s)
  /\ EditorBecomes(e, [pc |-> "read", op |-> "input", schedule |-> s, row |-> Row(schedule[s], Never)])
  /\ UNCHANGED <<schedule, occurrences, scheduler, offTime>>

(* Mutated form of CountActive: without FOR UPDATE on the workspace row.     *)
CountActiveUnlocked(e) ==
  /\ editor[e].pc = "read" /\ editor[e].op \in {"create", "enable"}
  /\ IF HasQuota(Cardinality(Active))
     THEN EditorBecomes(e, [editor[e] EXCEPT !.pc = "counted"])
     ELSE Return(e)
  /\ UNCHANGED <<schedule, occurrences, scheduler, offTime>>

CountActive(e) ==
  /\ editor[e].pc = "read" /\ editor[e].op \in {"create", "enable"}
  /\ WorkspaceFree
  /\ IF HasQuota(Cardinality(Active))
     THEN EditorBecomes(e, [editor[e] EXCEPT !.pc = "counted"])
     ELSE Return(e)
  /\ UNCHANGED <<schedule, occurrences, scheduler, offTime>>

(* The last statement of each call writes the columns it sets, whatever the  *)
(* row has become, unless it has been deleted.                              *)
Written(call, row) ==
  CASE call.op = "create" -> call.row
    [] call.op = "enable" -> [row EXCEPT !.enabled = TRUE]
    [] call.op = "edit" -> [call.row EXCEPT !.enabled = row.enabled, !.processed = row.processed]
    [] call.op = "input" -> [call.row EXCEPT !.enabled = row.enabled, !.processed = row.processed,
                                             !.next = row.next]

WriteSchedule(e) ==
  LET call == editor[e]
      s == call.schedule
  IN  /\ call.pc # "idle"
      /\ call.pc = (IF call.op \in {"edit", "input"} THEN "read" ELSE "counted")
      /\ schedule' = IF schedule[s] = Deleted THEN schedule
                     ELSE [schedule EXCEPT ![s] = Written(call, @)]
      /\ Return(e)
      /\ UNCHANGED <<occurrences, scheduler, offTime>>

DisableSchedule(s) ==
  /\ Live(s) /\ schedule[s].enabled
  /\ schedule' = [schedule EXCEPT ![s].enabled = FALSE]
  /\ UNCHANGED <<occurrences, scheduler, editor, offTime>>

DeleteSchedule(s) ==
  /\ Live(s)
  /\ schedule' = [schedule EXCEPT ![s] = Deleted]
  /\ UNCHANGED <<occurrences, scheduler, editor, offTime>>

-------------------------------------------------------------------------------
(* Schedulers.  processDueSchedules reads the time and lists due schedules   *)
(* once per poll: a batch of them, in no order.                              *)
IsBatch(batch, now) ==
  LET due == {s \in Schedules : Due(s, now)}
  IN  batch \subseteq due /\ Cardinality(batch) = Min({BatchSize, Cardinality(due)})

(* Mutated form of Poll: the time is read once, when the process starts.     *)
PollAtStartTime(p) ==
  /\ scheduler[p].due = {} /\ \E s \in Schedules : Due(s, clock)
  /\ \E batch \in SUBSET Schedules :
       /\ IsBatch(batch, clock)
       /\ scheduler' = [scheduler EXCEPT ![p] = [due |-> batch, now |-> 0]]
  /\ UNCHANGED <<schedule, occurrences, editor, offTime>>

Poll(p) ==
  /\ scheduler[p].due = {} /\ \E s \in Schedules : Due(s, clock)
  /\ \E batch \in SUBSET Schedules :
       /\ IsBatch(batch, clock)
       /\ scheduler' = [scheduler EXCEPT ![p] = [due |-> batch, now |-> clock]]
  /\ UNCHANGED <<schedule, occurrences, editor, offTime>>

(* A poll ends early when its process dies or one schedule throws anything   *)
(* but an AppError: the rest of the batch waits for a later poll.            *)
AbandonPoll(p) ==
  /\ scheduler[p].due # {}
  /\ scheduler' = [scheduler EXCEPT ![p] = NoPoll]
  /\ UNCHANGED <<schedule, occurrences, editor, offTime>>

(* Whose turn it is in the poll, under the time the poll has read; the query *)
(* of processOneSchedule tests again that the schedule is due.               *)
Turn(p, s) ==
  /\ s \in scheduler[p].due
  /\ scheduler' = [scheduler EXCEPT ![p] =
       IF @.due = {s} THEN NoPoll ELSE [due |-> @.due \ {s}, now |-> @.now]]
  /\ UNCHANGED editor

StillDue(p, s) == Due(s, scheduler[p].now)
DecisionOf(p, s) == calculateDueSchedule(schedule[s], scheduler[p].now)

(* The unique index (schedule, scheduledFor): an instant already recorded    *)
(* makes the transaction write nothing, nextRunAt included.                 *)
Unrecorded(s, at) == OccurrenceAt(s, at) = {}

IsOnTime(d, now) == d.at <= now /\ (d.action = "TRIGGER" => now - d.at <= Grace)

Record(p, s, d, status, key) ==
  /\ occurrences' = occurrences \cup
       {[schedule |-> s, at |-> d.at, status |-> status, run |-> key, created |-> clock]}
  /\ offTime' = IF IsOnTime(d, scheduler[p].now) THEN offTime ELSE offTime \cup {<<s, d.at>>}

(* validateAutomationOrigin: the occurrence is there before its run.         *)
OriginExists(s, at) == \E o \in occurrences' : o.schedule = s /\ o.at = at

(* enabled, nextRunAt and lastProcessedAt after an instant is dealt with.    *)
Advance(s, d, terminal) ==
  schedule' = [schedule EXCEPT
    ![s].enabled = @ /\ ~terminal, ![s].next = d.next, ![s].processed = TRUE]

NotDueAnymore(p, s) ==
  /\ Turn(p, s) /\ ~StillDue(p, s)
  /\ UNCHANGED <<schedule, occurrences, offTime, runs, dispatches, ledger>>

AlreadyRecorded(p, s) ==
  /\ Turn(p, s) /\ StillDue(p, s)
  /\ ~Unrecorded(s, DecisionOf(p, s).at)
  /\ UNCHANGED <<schedule, occurrences, offTime, runs, dispatches, ledger>>

(* A schedule of a deleted workflow ends with the instant it skips.          *)
SkipInstant(p, s) ==
  LET d == DecisionOf(p, s)
      state == workflow[ScheduleOwner[s]]
  IN  /\ Turn(p, s) /\ StillDue(p, s) /\ Unrecorded(s, d.at)
      /\ state = "enabled" => d.action = "SKIP"
      /\ Record(p, s, d, "SKIPPED", "none")
      /\ Advance(s, d, state = "deleted" \/ d.terminal)
      /\ UNCHANGED <<runs, dispatches, ledger>>

TriggerInstant(p, s) ==
  LET d == DecisionOf(p, s)
      key == ScheduleKey(s, d.at)
  IN  /\ Turn(p, s) /\ StillDue(p, s) /\ Unrecorded(s, d.at)
      /\ workflow[ScheduleOwner[s]] = "enabled" /\ d.action = "TRIGGER"
      /\ Record(p, s, d, "TRIGGERED", key)
      /\ OriginExists(s, d.at)
      /\ MayStart(ledger, key, clock)
      /\ StartRun(ledger, key, ScheduleOwner[s], clock)
      /\ Advance(s, d, d.terminal)

(* An AppError of the run's creation is caught inside the transaction, which *)
(* goes on to commit: before the insert of the run (a resource of the        *)
(* definition is gone) or after it (rate limit, quota), when only the        *)
(* savepoint of the admission is undone.                                    *)
FailInstant(p, s, inserted) ==
  LET d == DecisionOf(p, s)
      key == ScheduleKey(s, d.at)
  IN  /\ Turn(p, s) /\ StillDue(p, s) /\ Unrecorded(s, d.at)
      /\ workflow[ScheduleOwner[s]] = "enabled" /\ d.action = "TRIGGER"
      /\ inserted => ~HasRun(key)
      /\ runs' = IF inserted THEN Inserted(key, ScheduleOwner[s]) ELSE runs
      /\ Record(p, s, d, "FAILED", "none")
      /\ Advance(s, d, d.terminal)
      /\ UNCHANGED <<dispatches, ledger>>

(* purgeScheduleOccurrences                                                  *)
KeptOccurrences == {o \in occurrences : o.created >= Cutoff}

UserStep ==
  \E e \in Editors :
    \/ \E s \in Schedules, def \in Definitions :
         CreateSchedule(e, s, def) \/ EditSchedule(e, s, def)
    \/ \E s \in Schedules : EnableSchedule(e, s) \/ EditInput(e, s)
    \/ CountActive(e)
    \/ WriteSchedule(e)

RowStep == \E s \in Schedules : DisableSchedule(s) \/ DeleteSchedule(s)

Process(p, s) ==
  \/ NotDueAnymore(p, s)
  \/ AlreadyRecorded(p, s)
  \/ SkipInstant(p, s)
  \/ TriggerInstant(p, s)
  \/ \E inserted \in BOOLEAN : FailInstant(p, s, inserted)
===============================================================================
