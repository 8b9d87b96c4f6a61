------------------------------- MODULE Dispatch -------------------------------
(***************************************************************************)
(* Delivering one workflow run to a worker: its outbox row in              *)
(* workflow_run_dispatches, the capacity reservations taken for it, its    *)
(* BullMQ jobs, the dispatch passes that fill the queue and the worker     *)
(* slots that empty it.                                                    *)
(*   lib/workflows/outbox.ts, queue.ts, worker.ts, executor.ts (handoff),  *)
(*   approval-service.ts (continuation)                                    *)
(*                                                                         *)
(* The run itself is RunLifecycle: what a worker does between claiming and *)
(* leaving it is RunExecution's matter.  BullMQ is modelled from how the   *)
(* code uses it: a job id is added once, a job whose worker died is        *)
(* delivered a second time and failed after that.                          *)
(***************************************************************************)
EXTENDS RunLifecycle, FiniteSets

CONSTANTS
  Dispatchers,      \* passes of dispatchPendingWorkflowRuns that may overlap
  Workers,          \* worker slots
  Process,          \* Process[x]: the workerId a pass or a slot runs under
  MaxAttempts,      \* policy.maxRetries + 1
  MaxGeneration,    \* bound of the model: dispatch generations
  MaxReservations,  \* bound of the model: reservations taken per generation
  Faults,           \* which of FaultKind may happen
  MaxFaults         \* bound of the model: how often

(* A pass dies or throws before or after its job is on the queue; a worker  *)
(* process dies, or a statement of its job fails; a reservation expires     *)
(* while its job waits, before or after the pass has settled the row; a     *)
(* live owner's heartbeats do not come through.                             *)
FaultKind == {"passFails", "passFailsAfterEnqueue", "workerDies", "workerFails",
              "slowQueue", "slowPass", "slowHeartbeat"}

(* dispatcherId and ownerId while nobody has claimed or reserved.           *)
Nobody == "nobody"

ASSUME DispatchAssumption ==
  /\ DOMAIN Process = Dispatchers \cup Workers
  /\ \A x \in DOMAIN Process : Process[x] # Nobody
  /\ Faults \subseteq FaultKind
  /\ {MaxAttempts, MaxGeneration, MaxReservations, MaxFaults} \subseteq Nat

VARIABLES
  dispatch,     \* the workflow_run_dispatches row
  reservation,  \* reservation[g]: the latest reservation of source runId.g
  jobs,         \* jobs[g]: the BullMQ job of generation g
  pass,         \* pass[d]: the candidate dispatch pass d is busy with
  slot,         \* slot[w]: the job worker slot w is executing
  faults        \* how many faults have happened

vars == <<lifecycleVars, dispatch, reservation, jobs, pass, slot, faults>>
unchangedRun == UNCHANGED lifecycleVars

Generation == 0..MaxGeneration
ReservationId == 0..MaxReservations
ProcessId == {Process[x] : x \in DOMAIN Process}

DispatchRow ==
  [status : {"PENDING", "CLAIMED", "DISPATCHED", "FAILED"},
   generation : Generation, attempts : Nat,
   dispatcherId : ProcessId \cup {Nobody},
   lapsed : BOOLEAN]                         \* leaseExpiresAt < now

(* closed: released, or past its expiresAt, which no operation undoes.      *)
Reservation ==
  [id : ReservationId, owner : ProcessId \cup {Nobody}, state : {"live", "closed"},
   adopted : BOOLEAN]                        \* transferred to a worker

Job ==
  [state : {"absent", "waiting", "active", "done"},
   id : ReservationId, from : ProcessId \cup {Nobody},   \* the handoff in the job's data
   stalled : BOOLEAN]                        \* delivered again after a worker died

Pass == [pc : {"idle", "candidate", "claimed", "reserved", "enqueued"},
         generation : Generation, attempts : Nat, id : ReservationId]

Slot == [pc : {"idle", "adopting", "recovering", "claiming", "executing",
               "returning", "releasing"},    \* without and with a reservation adopted
         generation : Generation, token : Token \cup {NoToken}]

IdlePass == [pc |-> "idle", generation |-> 0, attempts |-> 0, id |-> 0]
IdleSlot == [pc |-> "idle", generation |-> 0, token |-> NoToken]

DispatchTypeOK ==
  /\ TypeOK
  /\ dispatch \in DispatchRow
  /\ reservation \in [Generation -> Reservation]
  /\ jobs \in [Generation -> Job]
  /\ pass \in [Dispatchers -> Pass]
  /\ slot \in [Workers -> Slot]
  /\ faults \in 0..MaxFaults

DispatchInit ==
  /\ Init
  /\ dispatch = [status |-> "PENDING", generation |-> 0, attempts |-> 0,
                 dispatcherId |-> Nobody, lapsed |-> FALSE]
  /\ reservation = [g \in Generation |->
       [id |-> 0, owner |-> Nobody, state |-> "closed", adopted |-> FALSE]]
  /\ jobs = [g \in Generation |->
       [state |-> "absent", id |-> 0, from |-> Nobody, stalled |-> FALSE]]
  /\ pass = [d \in Dispatchers |-> IdlePass]
  /\ slot = [w \in Workers |-> IdleSlot]
  /\ faults = 0

-------------------------------------------------------------------------------
May(kind) == kind \in Faults /\ faults < MaxFaults /\ faults' = faults + 1

(* releaseWorkspaceReservation by id and owner.                             *)
Released(g, id, process) ==
  IF reservation[g].id = id /\ reservation[g].owner = process
  THEN [reservation EXCEPT ![g].state = "closed"]
  ELSE reservation

-------------------------------------------------------------------------------
(* dispatchPendingWorkflowRuns: one candidate of one pass.                  *)

(* Mutated form of Claimable: a claim left by a dead pass is not retaken.   *)
ClaimableOnce ==
  \/ dispatch.status = "PENDING"
  \/ dispatch.status = "FAILED" /\ dispatch.attempts < MaxAttempts

(* The candidates' WHERE clause; nextAttemptAt and the retry delay only     *)
(* postpone the pass that finds the row.                                    *)
Claimable ==
  \/ dispatch.status = "PENDING"
  \/ dispatch.status = "FAILED" /\ dispatch.attempts < MaxAttempts
  \/ dispatch.status = "CLAIMED" /\ dispatch.lapsed

(* Mutated form of HoldsClaim: any claim will do.                           *)
AnyClaim(d) == d \in Dispatchers /\ dispatch.status = "CLAIMED"

HoldsClaim(d) == dispatch.status = "CLAIMED" /\ dispatch.dispatcherId = Process[d]

(* The guarded update every pass ends with; nothing happens if it no longer *)
(* holds the claim.                                                         *)
SettleDispatch(d, status_, attempts_) ==
  dispatch' = IF HoldsClaim(d)
              THEN [dispatch EXCEPT !.status = status_, !.attempts = attempts_, !.lapsed = FALSE]
              ELSE dispatch

SelectCandidate(d) ==
  /\ pass[d].pc = "idle" /\ Claimable
  /\ pass' = [pass EXCEPT ![d] =
       [pc |-> "candidate", generation |-> dispatch.generation,
        attempts |-> dispatch.attempts, id |-> 0]]
  /\ unchangedRun /\ UNCHANGED <<dispatch, reservation, jobs, slot, faults>>

(* The claim checks the status again, not the generation.                   *)
ClaimDispatch(d) ==
  /\ pass[d].pc = "candidate" /\ Claimable
  /\ dispatch' = [dispatch EXCEPT !.status = "CLAIMED", !.dispatcherId = Process[d],
                                  !.lapsed = FALSE, !.attempts = pass[d].attempts + 1]
  /\ pass' = [pass EXCEPT ![d].pc = "claimed"]
  /\ unchangedRun /\ UNCHANGED <<reservation, jobs, slot, faults>>

ClaimMissed(d) ==
  /\ pass[d].pc = "candidate" /\ ~Claimable
  /\ pass' = [pass EXCEPT ![d] = IdlePass]
  /\ unchangedRun /\ UNCHANGED <<dispatch, reservation, jobs, slot, faults>>

(* acquireWorkspaceReservation for source runId.generation: the live one of *)
(* that source, whoever owns it, or a new one.  Its `now` is the pass's: a  *)
(* pass that has outlived its claim inserts a row that is already expired.  *)
Reserve(d) ==
  /\ pass[d].pc = "claimed"
  /\ LET g == pass[d].generation IN
     \/ /\ reservation[g].state = "live"
        /\ pass' = [pass EXCEPT ![d].pc = "reserved", ![d].id = reservation[g].id]
        /\ UNCHANGED reservation
     \/ /\ reservation[g].state = "closed" /\ reservation[g].id < MaxReservations
        /\ \E state \in IF HoldsClaim(d) /\ ~dispatch.lapsed THEN {"live"} ELSE {"live", "closed"} :
             reservation' = [reservation EXCEPT ![g] =
               [id |-> @.id + 1, owner |-> Process[d], state |-> state, adopted |-> FALSE]]
        /\ pass' = [pass EXCEPT ![d].pc = "reserved", ![d].id = reservation'[g].id]
  /\ unchangedRun /\ UNCHANGED <<dispatch, jobs, slot, faults>>

(* The workspace is at its limit: back to PENDING, the attempt not counted. *)
Defer(d) ==
  /\ pass[d].pc = "claimed" /\ reservation[pass[d].generation].state = "closed"
  /\ SettleDispatch(d, "PENDING", pass[d].attempts)
  /\ pass' = [pass EXCEPT ![d] = IdlePass]
  /\ unchangedRun /\ UNCHANGED <<reservation, jobs, slot, faults>>

(* queue.add with the generation's job id: ignored while BullMQ knows it.   *)
Enqueued(d) ==
  LET g == pass[d].generation IN
  IF jobs[g].state = "absent"
  THEN [jobs EXCEPT ![g] = [state |-> "waiting", id |-> pass[d].id, from |-> Process[d],
                            stalled |-> FALSE]]
  ELSE jobs

Enqueue(d) ==
  /\ pass[d].pc = "reserved"
  /\ jobs' = Enqueued(d)
  /\ pass' = [pass EXCEPT ![d].pc = "enqueued"]
  /\ unchangedRun /\ UNCHANGED <<dispatch, reservation, slot, faults>>

MarkDispatched(d) ==
  /\ pass[d].pc = "enqueued"
  /\ SettleDispatch(d, "DISPATCHED", dispatch.attempts)
  /\ pass' = [pass EXCEPT ![d] = IdlePass]
  /\ unchangedRun /\ UNCHANGED <<reservation, jobs, slot, faults>>

PassFault(d) == May(IF pass[d].pc = "enqueued" THEN "passFailsAfterEnqueue" ELSE "passFails")

(* reserve or enqueue throws, or enqueue throws after Redis has taken the   *)
(* job, or the last update does: the catch block releases the reservation.  *)
DispatchFails(d) ==
  /\ pass[d].pc \in {"claimed", "reserved", "enqueued"}
  /\ PassFault(d)
  /\ reservation' = IF pass[d].pc = "claimed" THEN reservation
                    ELSE Released(pass[d].generation, pass[d].id, Process[d])
  /\ SettleDispatch(d, "FAILED", dispatch.attempts)
  /\ pass' = [pass EXCEPT ![d] = IdlePass]
  /\ unchangedRun /\ UNCHANGED <<jobs, slot>>

DispatcherDies(d) ==
  /\ pass[d].pc # "idle"
  /\ PassFault(d)
  /\ pass' = [pass EXCEPT ![d] = IdlePass]
  /\ unchangedRun /\ UNCHANGED <<dispatch, reservation, jobs, slot>>

-------------------------------------------------------------------------------
(* executeWorkflowRun: adopt the reservation, claim the run, leave it.      *)

TakeJob(w) ==
  /\ slot[w].pc = "idle"
  /\ \E g \in Generation :
       /\ jobs[g].state = "waiting"
       /\ jobs' = [jobs EXCEPT ![g].state = "active"]
       /\ slot' = [slot EXCEPT ![w] = [pc |-> "adopting", generation |-> g, token |-> NoToken]]
  /\ unchangedRun /\ UNCHANGED <<dispatch, reservation, pass, faults>>

(* transferWorkspaceReservation with the job's reservation id and owner.    *)
Adopts(w) ==
  LET g == slot[w].generation IN
  /\ reservation[g].state = "live"
  /\ reservation[g].id = jobs[g].id /\ reservation[g].owner = jobs[g].from

Adopt(w) ==
  /\ slot[w].pc = "adopting"
  /\ slot' = [slot EXCEPT ![w].pc = IF Adopts(w) THEN "claiming" ELSE "recovering"]
  /\ reservation' =
       IF Adopts(w)
       THEN [reservation EXCEPT ![slot[w].generation].owner = Process[w],
                                ![slot[w].generation].adopted = TRUE]
       ELSE reservation
  /\ unchangedRun /\ UNCHANGED <<dispatch, jobs, pass, faults>>

JobDone(w) ==
  /\ jobs' = [jobs EXCEPT ![slot[w].generation].state = "done"]
  /\ slot' = [slot EXCEPT ![w] = IdleSlot]

ReleaseAdopted(w) ==
  reservation' = Released(slot[w].generation, jobs[slot[w].generation].id, Process[w])

(* Mutated form of RecoverDispatch: whatever generation is dispatched.      *)
RecoverAnyGeneration(w) ==
  /\ slot[w].pc = "recovering"
  /\ dispatch.generation < MaxGeneration
  /\ dispatch' =
       IF dispatch.status = "DISPATCHED"
       THEN [dispatch EXCEPT !.status = "PENDING", !.generation = @ + 1,
                             !.dispatcherId = Nobody, !.lapsed = FALSE]
       ELSE dispatch
  /\ slot' = [slot EXCEPT ![w].pc = "returning"]
  /\ unchangedRun /\ UNCHANGED <<reservation, jobs, pass, faults>>

(* recoverExpiredWorkflowDispatch, after which executeWorkflowRun returns.  *)
RecoverDispatch(w) ==
  /\ slot[w].pc = "recovering"
  /\ dispatch.generation < MaxGeneration
  /\ dispatch' =
       IF dispatch.status = "DISPATCHED" /\ dispatch.generation = slot[w].generation
       THEN [dispatch EXCEPT !.status = "PENDING", !.generation = @ + 1,
                             !.dispatcherId = Nobody, !.lapsed = FALSE]
       ELSE dispatch
  /\ slot' = [slot EXCEPT ![w].pc = "returning"]
  /\ unchangedRun /\ UNCHANGED <<reservation, jobs, pass, faults>>

ClaimRun(w) ==
  /\ slot[w].pc = "claiming"
  /\ Claim
  /\ slot' = [slot EXCEPT ![w].pc = "executing", ![w].token = owner']
  /\ UNCHANGED <<dispatch, reservation, jobs, pass, faults>>

(* Somebody else has the run, or it is over, or waiting for an approval.    *)
ClaimRefused(w) ==
  /\ slot[w].pc = "claiming"
  /\ ~(status = "QUEUED" \/ (status = "RUNNING" /\ lease = "lapsed"))
  /\ slot' = [slot EXCEPT ![w].pc = "releasing"]
  /\ unchangedRun /\ UNCHANGED <<dispatch, reservation, jobs, pass, faults>>

OwnsRun(w) == slot[w].pc = "executing" /\ slot[w].token = owner

Heartbeat(w) ==
  /\ OwnsRun(w) /\ Renew
  /\ UNCHANGED <<dispatch, reservation, jobs, pass, slot, faults>>

LeaveRun(w) ==
  /\ slot[w].pc = "executing"
  /\ \/ OwnsRun(w) /\ \E verdict \in {"COMPLETED", "FAILED", "CANCELLED", "TIMED_OUT"} : Finish(verdict)
     \/ OwnsRun(w) /\ Pause
     \/ ~(OwnsRun(w) /\ status = "RUNNING" /\ lease \in {"live", "due"}) /\ unchangedRun
  /\ slot' = [slot EXCEPT ![w].pc = "releasing"]
  /\ UNCHANGED <<dispatch, reservation, jobs, pass, faults>>

(* A failed release is swallowed.  Until the job is done, a worker that     *)
(* dies leaves it to be delivered again.                                    *)
FinishJob(w) ==
  /\ slot[w].pc \in {"returning", "releasing"}
  /\ IF slot[w].pc = "releasing" THEN ReleaseAdopted(w) ELSE UNCHANGED reservation
  /\ JobDone(w)
  /\ unchangedRun /\ UNCHANGED <<dispatch, pass, faults>>

WorkerDies(w) ==
  /\ slot[w].pc # "idle"
  /\ May("workerDies")
  /\ slot' = [slot EXCEPT ![w] = IdleSlot]
  /\ unchangedRun /\ UNCHANGED <<dispatch, reservation, jobs, pass>>

(* A statement throws and the job fails; what was adopted is released.      *)
WorkerFails(w) ==
  /\ slot[w].pc \notin {"idle", "returning", "releasing"}
  /\ May("workerFails")
  /\ IF slot[w].pc \in {"claiming", "executing"} THEN ReleaseAdopted(w) ELSE UNCHANGED reservation
  /\ JobDone(w)
  /\ unchangedRun /\ UNCHANGED <<dispatch, pass>>

(* BullMQ: a job nobody works on is delivered once more, then failed.       *)
JobStalls(g) ==
  /\ jobs[g].state = "active"
  /\ \A w \in Workers : slot[w].pc # "idle" => slot[w].generation # g
  /\ jobs' = [jobs EXCEPT ![g].state = IF jobs[g].stalled THEN "done" ELSE "waiting",
                          ![g].stalled = TRUE]
  /\ unchangedRun /\ UNCHANGED <<dispatch, reservation, pass, slot, faults>>

-------------------------------------------------------------------------------
(* An approval sends the run back to the queue under a new generation.      *)
ResumeRun ==
  /\ Resume /\ issued < MaxClaims /\ dispatch.generation < MaxGeneration
  /\ dispatch' = [status |-> "PENDING", generation |-> dispatch.generation + 1, attempts |-> 0,
                  dispatcherId |-> Nobody, lapsed |-> FALSE]
  /\ UNCHANGED <<reservation, jobs, pass, slot, faults>>

CloseRun ==
  /\ \E verdict \in {"CANCELLED", "REJECTED", "EXPIRED"} : Close(verdict)
  /\ UNCHANGED <<dispatch, reservation, jobs, pass, slot, faults>>

CancelRun ==
  /\ RequestCancel
  /\ UNCHANGED <<dispatch, reservation, jobs, pass, slot, faults>>

(* A live owner renews at a third of the lease.                             *)
RunLeaseTick ==
  /\ LeaseTick
  /\ IF lease = "due" /\ \E w \in Workers : OwnsRun(w)
     THEN May("slowHeartbeat") ELSE UNCHANGED faults
  /\ UNCHANGED <<dispatch, reservation, jobs, pass, slot>>

(* A pass that still works under its claim.                                 *)
PassAtWork(d) == pass[d].pc \in {"claimed", "reserved", "enqueued"}

JobAwaited(g) == jobs[g].state \in {"waiting", "active"} /\ jobs[g].id = reservation[g].id

(* The reservation reaches its expiresAt.  With a timely handoff a worker   *)
(* adopts it before that.                                                   *)
ReservationLapses(g) ==
  /\ reservation[g].state = "live"
  /\ CASE reservation[g].adopted -> UNCHANGED faults
       [] ~reservation[g].adopted /\ dispatch.status = "CLAIMED"
            /\ (JobAwaited(g) \/ \E d \in Dispatchers : PassAtWork(d)) -> May("slowPass")
       [] ~reservation[g].adopted /\ dispatch.status # "CLAIMED" /\ JobAwaited(g) -> May("slowQueue")
       [] OTHER -> UNCHANGED faults
  /\ reservation' = [reservation EXCEPT ![g].state = "closed"]
  /\ unchangedRun /\ UNCHANGED <<dispatch, jobs, pass, slot>>

(* The claim's lease and the reservation taken under it have one `now` and  *)
(* one duration: the reservation is gone when the claim is, unless a worker *)
(* has adopted it.                                                          *)
LeasesAligned(g) == reservation[g].state = "live" => reservation[g].adopted

(* A timely pass settles its claim before the lease lapses.                 *)
DispatchLeaseLapses ==
  /\ dispatch.status = "CLAIMED" /\ ~dispatch.lapsed
  /\ \A g \in Generation : LeasesAligned(g)
  /\ IF \E d \in Dispatchers : PassAtWork(d) THEN May("slowPass") ELSE UNCHANGED faults
  /\ dispatch' = [dispatch EXCEPT !.lapsed = TRUE]
  /\ unchangedRun /\ UNCHANGED <<reservation, jobs, pass, slot>>

-------------------------------------------------------------------------------
DispatcherStep(d) ==
  \/ SelectCandidate(d) \/ ClaimDispatch(d) \/ ClaimMissed(d)
  \/ Reserve(d) \/ Defer(d) \/ Enqueue(d) \/ MarkDispatched(d)

WorkerStep(w) ==
  \/ TakeJob(w) \/ Adopt(w) \/ RecoverDispatch(w) \/ ClaimRun(w) 
  \/ ClaimRefused(w) \/ LeaveRun(w) \/ FinishJob(w)

TimePasses ==
  DispatchLeaseLapses \/ \E g \in Generation : ReservationLapses(g)

DispatchNext ==
  \/ \E d \in Dispatchers : DispatcherStep(d) \/ DispatchFails(d) \/ DispatcherDies(d)
  \/ \E w \in Workers : WorkerStep(w) \/ Heartbeat(w) \/ WorkerDies(w) \/ WorkerFails(w)
  \/ \E g \in Generation : JobStalls(g)
  \/ ResumeRun \/ CloseRun \/ CancelRun \/ RunLeaseTick
  \/ TimePasses

DispatchSpec == DispatchInit /\ [][DispatchNext]_vars

(* Passes come every five seconds and go on, workers take jobs and work on  *)
(* them, leases lapse.  A workspace is not at its limit for ever: a pass    *)
(* that is deferred again and again is one day not deferred.                *)
DispatchFairSpec ==
  /\ DispatchSpec
  /\ \A d \in Dispatchers : WF_vars(DispatcherStep(d)) /\ SF_vars(Reserve(d))
  /\ \A w \in Workers : WF_vars(WorkerStep(w))
  /\ WF_vars(DispatchLeaseLapses)
  /\ \A g \in Generation : WF_vars(ReservationLapses(g))

-------------------------------------------------------------------------------
(* A queued run is taken by a worker, or cancelled, or its dispatch fails   *)
(* as often as the policy allows - whatever dies, is deferred or is retried *)
(* on the way from the outbox to the worker.                                *)
Exhausted == dispatch.status = "FAILED" /\ dispatch.attempts >= MaxAttempts

QueuedRunStarts == (status = "QUEUED") ~> (status # "QUEUED" \/ Exhausted)

(* A claim is settled only by a pass of the process it names, and never by  *)
(* a pass that lost it to another process; an approval overrides it.        *)
ClaimsAreFenced ==
  [][dispatch.status = "CLAIMED" /\ dispatch'.status # "CLAIMED" =>
       \/ dispatch'.generation > dispatch.generation
       \/ \E d \in Dispatchers :
            /\ Process[d] = dispatch.dispatcherId
            /\ PassAtWork(d) /\ pass'[d].pc = "idle"
    ]_vars

(* Late and repeated deliveries do no harm: the generation moves on when    *)
(* the handoff of its own job fails, or by an approval, never because a job *)
(* of an earlier generation comes back.                                     *)
GenerationMovesOnByItsJob ==
  [][dispatch'.generation # dispatch.generation =>
       \/ status = "WAITING_APPROVAL" /\ status' = "QUEUED"
       \/ \E w \in Workers :
            slot[w].pc = "recovering" /\ slot[w].generation = dispatch.generation
    ]_vars

(* "The worker uses leases and stale-worker recovery to prevent a crashed   *)
(* worker from permanently blocking work" (docs/SUPERVISOR-SUBMISSION.md):  *)
(* a run whose worker has crashed still has a dispatch row that a pass will *)
(* take up, a job that will be delivered or a worker at work.               *)
CrashedRunIsRecoverable ==
  status = "RUNNING" =>
    \/ dispatch.status # "DISPATCHED"
    \/ \E g \in Generation : jobs[g].state \in {"waiting", "active"}
    \/ \E w \in Workers : slot[w].pc # "idle"
===============================================================================
