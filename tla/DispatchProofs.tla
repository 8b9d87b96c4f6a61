----------------------------- MODULE DispatchProofs -----------------------------
(***************************************************************************)
(* The delivery of one run, for any number of passes, worker slots and     *)
(* processes, and whatever faults: claims are settled by their process,    *)
(* generations move on by their own job, and of all the slots that jobs of *)
(* one run occupy at a time at most one owns the run.                      *)
(***************************************************************************)
EXTENDS Dispatch, TLAPS

(* What is not idle knows a generation that the row has reached.             *)
GenerationsAreReached ==
  /\ \A d \in Dispatchers : pass[d].pc # "idle" => pass[d].generation <= dispatch.generation
  /\ \A g \in Generation : jobs[g].state # "absent" => g <= dispatch.generation

(* A pass that has enqueued has a job to show, and so has a row that says    *)
(* so; the job may be of an earlier generation than the row.                 *)
DispatchedHasAJob ==
  /\ \A d \in Dispatchers : pass[d].pc = "enqueued" => jobs[pass[d].generation].state # "absent"
  /\ dispatch.status = "DISPATCHED" => \E g \in Generation : jobs[g].state # "absent"

(* A slot works on an active job, and no two on the same.                    *)
OneSlotPerJob ==
  /\ \A w \in Workers : slot[w].pc # "idle" => jobs[slot[w].generation].state = "active"
  /\ \A v, w \in Workers :
       slot[v].pc # "idle" /\ slot[w].pc # "idle" /\ slot[v].generation = slot[w].generation => v = w

(* Tokens are held by one slot each.                                         *)
TokensAreHeldOnce ==
  /\ owner <= issued /\ (status \in {"QUEUED", "WAITING_APPROVAL"} => owner = NoToken)
  /\ \A w \in Workers : slot[w].pc = "executing" => slot[w].token \in 1..issued
  /\ \A v, w \in Workers :
       slot[v].pc = "executing" /\ slot[w].pc = "executing" /\ slot[v].token = slot[w].token => v = w

DeliveryInv ==
  /\ DispatchTypeOK /\ GenerationsAreReached /\ DispatchedHasAJob
  /\ OneSlotPerJob /\ TokensAreHeldOnce

(* Jobs of several generations may be at work at once, and one of them at    *)
(* most executes the run under the token in its row: never one that is       *)
(* waiting for a decision or for its next delivery.                          *)
OneSlotOwnsTheRun ==
  /\ \A v, w \in Workers : OwnsRun(v) /\ OwnsRun(w) => v = w
  /\ \A w \in Workers : OwnsRun(w) => status \notin {"QUEUED", "WAITING_APPROVAL"}

-------------------------------------------------------------------------------
(* Which actions write which variable.                                       *)
LEMMA RowIsWrittenBy ==
  ASSUME [DispatchNext]_vars
  PROVE  \/ UNCHANGED dispatch
         \/ \E d \in Dispatchers :
              ClaimDispatch(d) \/ Defer(d) \/ MarkDispatched(d) \/ DispatchFails(d)
         \/ \E w \in Workers : RecoverDispatch(w)
         \/ ResumeRun \/ DispatchLeaseLapses
BY DEF DispatchNext, DispatcherStep, WorkerStep, TimePasses, vars, SelectCandidate, ClaimMissed,
       Reserve, Enqueue, DispatcherDies, TakeJob, Adopt, ClaimRun, ClaimRefused, LeaveRun, FinishJob,
       Heartbeat, WorkerDies, WorkerFails, JobStalls, CloseRun, CancelRun, RunLeaseTick,
       ReservationLapses

LEMMA ReservationIsWrittenBy ==
  ASSUME [DispatchNext]_vars
  PROVE  \/ UNCHANGED reservation
         \/ \E d \in Dispatchers : Reserve(d) \/ DispatchFails(d)
         \/ \E w \in Workers : Adopt(w) \/ FinishJob(w) \/ WorkerFails(w)
         \/ \E g \in Generation : ReservationLapses(g)
BY DEF DispatchNext, DispatcherStep, WorkerStep, TimePasses, vars, SelectCandidate, ClaimDispatch,
       ClaimMissed, Defer, Enqueue, MarkDispatched, DispatcherDies, TakeJob, RecoverDispatch,
       ClaimRun, ClaimRefused, LeaveRun, Heartbeat, WorkerDies, JobStalls, ResumeRun, CloseRun,
       CancelRun, RunLeaseTick, DispatchLeaseLapses

LEMMA JobsAreWrittenBy ==
  ASSUME [DispatchNext]_vars
  PROVE  \/ UNCHANGED jobs
         \/ \E d \in Dispatchers : Enqueue(d)
         \/ \E w \in Workers : TakeJob(w) \/ FinishJob(w) \/ WorkerFails(w)
         \/ \E g \in Generation : JobStalls(g)
BY DEF DispatchNext, DispatcherStep, WorkerStep, TimePasses, vars, SelectCandidate, ClaimDispatch,
       ClaimMissed, Reserve, Defer, MarkDispatched, DispatchFails, DispatcherDies, Adopt,
       RecoverDispatch, ClaimRun, ClaimRefused, LeaveRun, Heartbeat, WorkerDies, ResumeRun, CloseRun,
       CancelRun, RunLeaseTick, DispatchLeaseLapses, ReservationLapses

LEMMA PassesAreMovedBy ==
  ASSUME [DispatchNext]_vars
  PROVE  \/ UNCHANGED pass
         \/ \E d \in Dispatchers : DispatcherStep(d) \/ DispatchFails(d) \/ DispatcherDies(d)
BY DEF DispatchNext, WorkerStep, TimePasses, vars, TakeJob, Adopt, RecoverDispatch, ClaimRun,
       ClaimRefused, LeaveRun, FinishJob, Heartbeat, WorkerDies, WorkerFails, JobStalls, ResumeRun,
       CloseRun, CancelRun, RunLeaseTick, DispatchLeaseLapses, ReservationLapses

LEMMA SlotsAreMovedBy ==
  ASSUME [DispatchNext]_vars
  PROVE  \/ UNCHANGED slot
         \/ \E w \in Workers : WorkerStep(w) \/ WorkerDies(w) \/ WorkerFails(w)
BY DEF DispatchNext, DispatcherStep, TimePasses, vars, SelectCandidate, ClaimDispatch, ClaimMissed,
       Reserve, Defer, Enqueue, MarkDispatched, DispatchFails, DispatcherDies, Heartbeat, JobStalls,
       ResumeRun, CloseRun, CancelRun, RunLeaseTick, DispatchLeaseLapses, ReservationLapses

(* The run moves as RunLifecycle says.                                       *)
LEMMA RunIsMovedBy ==
  ASSUME [DispatchNext]_vars
  PROVE  \/ unchangedRun
         \/ \E w \in Workers : ClaimRun(w) \/ Heartbeat(w) \/ LeaveRun(w)
         \/ ResumeRun \/ CloseRun \/ CancelRun \/ RunLeaseTick
BY DEF DispatchNext, DispatcherStep, WorkerStep, TimePasses, vars, SelectCandidate, ClaimDispatch,
       ClaimMissed, Reserve, Defer, Enqueue, MarkDispatched, DispatchFails, DispatcherDies, TakeJob,
       Adopt, RecoverDispatch, ClaimRefused, FinishJob, WorkerDies, WorkerFails, JobStalls,
       DispatchLeaseLapses, ReservationLapses, unchangedRun

LEMMA RunStepIs ==
  ASSUME [DispatchNext]_vars
  PROVE  [Next]_lifecycleVars
BY RunIsMovedBy
   DEF ClaimRun, Heartbeat, LeaveRun, ResumeRun, CloseRun, CancelRun, RunLeaseTick, unchangedRun, Next

-------------------------------------------------------------------------------
(* The types.                                                                *)
LEMMA ProcessesAre ==
  ASSUME NEW x \in Dispatchers \cup Workers
  PROVE  Process[x] \in ProcessId
BY DispatchAssumption DEF ProcessId

LEMMA RunStaysTyped ==
  ASSUME TypeOK, [Next]_lifecycleVars
  PROVE  TypeOK'
<1> USE MaxClaimsAssumption DEF TypeOK
<1>1. CASE Claim
  BY <1>1 DEF Claim, Token, Status, Lease
<1>2. CASE \E verdict \in {"COMPLETED", "FAILED", "CANCELLED", "TIMED_OUT"} : Finish(verdict)
  BY <1>2 DEF Finish, Status, Terminal, Lease
<1>3. CASE \E verdict \in {"CANCELLED", "REJECTED", "EXPIRED"} : Close(verdict)
  BY <1>3 DEF Close, Status, Terminal, Lease
<1>4. CASE Renew \/ LeaseTick \/ RequestCancel \/ Pause \/ Resume \/ UNCHANGED lifecycleVars
  BY <1>4 DEF Renew, LeaseTick, RequestCancel, Pause, Resume, lifecycleVars, Status, Lease
<1> QED BY <1>1, <1>2, <1>3, <1>4 DEF Next

LEMMA RowStaysTyped ==
  ASSUME DispatchTypeOK, [DispatchNext]_vars
  PROVE  dispatch' \in DispatchRow /\ dispatch'.generation >= dispatch.generation
<1> USE DEF DispatchTypeOK
<1>1. dispatch \in DispatchRow /\ dispatch.generation \in Nat
  BY DispatchAssumption DEF DispatchRow, Generation
<1>2. ASSUME NEW d \in Dispatchers, NEW status_ \in {"PENDING", "DISPATCHED", "FAILED"},
             NEW attempts_ \in Nat, SettleDispatch(d, status_, attempts_)
      PROVE  dispatch' \in DispatchRow /\ dispatch'.generation = dispatch.generation
  BY <1>1, <1>2 DEF SettleDispatch, DispatchRow
<1>3. ASSUME NEW d \in Dispatchers, ClaimDispatch(d)
      PROVE  dispatch' \in DispatchRow /\ dispatch'.generation = dispatch.generation
  <2>1. Process[d] \in ProcessId /\ pass[d].attempts + 1 \in Nat
    BY ProcessesAre DEF Pass
  <2> QED BY <1>1, <1>3, <2>1 DEF ClaimDispatch, DispatchRow
<1>4. ASSUME NEW d \in Dispatchers, Defer(d) \/ MarkDispatched(d) \/ DispatchFails(d)
      PROVE  dispatch' \in DispatchRow /\ dispatch'.generation = dispatch.generation
  <2>1. dispatch.attempts \in Nat /\ pass[d].attempts \in Nat
    BY DEF DispatchRow, Pass
  <2> QED BY <1>2, <1>4, <2>1 DEF Defer, MarkDispatched, DispatchFails
<1>5. ASSUME NEW w \in Workers, RecoverDispatch(w)
      PROVE  dispatch' \in DispatchRow /\ dispatch'.generation >= dispatch.generation
  <2>1. dispatch.generation + 1 \in Generation /\ dispatch.generation + 1 >= dispatch.generation
    BY <1>1, <1>5, DispatchAssumption DEF RecoverDispatch, Generation, DispatchRow
  <2> DEFINE row == [dispatch EXCEPT !.status = "PENDING", !.generation = dispatch.generation + 1,
                                     !.dispatcherId = Nobody, !.lapsed = FALSE]
  <2>2. row \in DispatchRow /\ row.generation = dispatch.generation + 1
    BY <1>1, <2>1 DEF DispatchRow
  <2>3. dispatch' \in {dispatch, row}
    BY <1>5 DEF RecoverDispatch
  <2> HIDE DEF row
  <2> QED BY <1>1, <2>1, <2>2, <2>3
<1>6. ASSUME ResumeRun
      PROVE  dispatch' \in DispatchRow /\ dispatch'.generation >= dispatch.generation
  <2>1. dispatch.generation + 1 \in Generation /\ dispatch.generation + 1 >= dispatch.generation
    BY <1>1, <1>6, DispatchAssumption DEF ResumeRun, Generation, DispatchRow
  <2> QED BY <1>1, <1>6, <2>1 DEF ResumeRun, DispatchRow
<1>7. ASSUME DispatchLeaseLapses
      PROVE  dispatch' \in DispatchRow /\ dispatch'.generation = dispatch.generation
  BY <1>1, <1>7 DEF DispatchLeaseLapses, DispatchRow
<1> QED BY <1>1, <1>3, <1>4, <1>5, <1>6, <1>7, RowIsWrittenBy

LEMMA ReservationsStayTyped ==
  ASSUME DispatchTypeOK, [DispatchNext]_vars
  PROVE  reservation' \in [Generation -> Reservation]
<1> USE DEF DispatchTypeOK
<1>1. ASSUME NEW g \in Generation
      PROVE  [reservation EXCEPT ![g].state = "closed"] \in [Generation -> Reservation]
  BY DEF Reservation
<1>2. \A d \in Dispatchers : pass[d].generation \in Generation
  BY DEF Pass
<1>3. \A w \in Workers : slot[w].generation \in Generation
  BY DEF Slot
<1>4. ASSUME NEW d \in Dispatchers, Reserve(d)
      PROVE  reservation' \in [Generation -> Reservation]
  <2> DEFINE g == pass[d].generation
  <2>1. CASE reservation[g].state = "closed" /\ reservation[g].id < MaxReservations
    <3>1. reservation[g].id + 1 \in ReservationId
      BY <1>2, <2>1, DispatchAssumption DEF ReservationId, Reservation
    <3>2. Process[d] \in ProcessId
      BY ProcessesAre
    <3>3. \A state \in {"live", "closed"} :
            [id |-> reservation[g].id + 1, owner |-> Process[d], state |-> state, adopted |-> FALSE]
              \in Reservation
      BY <3>1, <3>2 DEF Reservation
    <3>4. PICK state \in {"live", "closed"} :
            reservation' = [reservation EXCEPT ![g] =
              [id |-> reservation[g].id + 1, owner |-> Process[d], state |-> state, adopted |-> FALSE]]
      BY <1>4, <2>1 DEF Reserve
    <3> QED BY <1>2, <3>3, <3>4
  <2>2. CASE UNCHANGED reservation
    BY <2>2
  <2> QED BY <1>4, <2>1, <2>2 DEF Reserve
<1>5. ASSUME NEW w \in Workers, Adopt(w)
      PROVE  reservation' \in [Generation -> Reservation]
  <2>1. Process[w] \in ProcessId
    BY ProcessesAre
  <2> QED BY <1>3, <1>5, <2>1 DEF Adopt, Reservation
<1>6. ASSUME NEW d \in Dispatchers, DispatchFails(d)
      PROVE  reservation' \in [Generation -> Reservation]
  BY <1>1, <1>2, <1>6 DEF DispatchFails, Released
<1>7. ASSUME NEW w \in Workers, FinishJob(w) \/ WorkerFails(w)
      PROVE  reservation' \in [Generation -> Reservation]
  BY <1>1, <1>3, <1>7 DEF FinishJob, WorkerFails, ReleaseAdopted, Released
<1>8. ASSUME NEW g \in Generation, ReservationLapses(g)
      PROVE  reservation' \in [Generation -> Reservation]
  BY <1>1, <1>8 DEF ReservationLapses
<1> QED BY <1>4, <1>5, <1>6, <1>7, <1>8, ReservationIsWrittenBy

LEMMA JobsStayTyped ==
  ASSUME DispatchTypeOK, [DispatchNext]_vars
  PROVE  jobs' \in [Generation -> Job]
<1> USE DEF DispatchTypeOK
<1>1. \A w \in Workers : slot[w].generation \in Generation
  BY DEF Slot
<1>2. ASSUME NEW d \in Dispatchers, Enqueue(d)
      PROVE  jobs' \in [Generation -> Job]
  <2>1. Process[d] \in ProcessId /\ pass[d].id \in ReservationId /\ pass[d].generation \in Generation
    BY ProcessesAre DEF Pass
  <2>2. [state |-> "waiting", id |-> pass[d].id, from |-> Process[d], stalled |-> FALSE] \in Job
    BY <2>1 DEF Job
  <2> QED BY <1>2, <2>1, <2>2 DEF Enqueue, Enqueued
<1>3. ASSUME NEW w \in Workers, TakeJob(w)
      PROVE  jobs' \in [Generation -> Job]
  BY <1>3 DEF TakeJob, Job
<1>4. ASSUME NEW w \in Workers, FinishJob(w) \/ WorkerFails(w)
      PROVE  jobs' \in [Generation -> Job]
  BY <1>1, <1>4 DEF FinishJob, WorkerFails, JobDone, Job
<1>5. ASSUME NEW g \in Generation, JobStalls(g)
      PROVE  jobs' \in [Generation -> Job]
  BY <1>5 DEF JobStalls, Job
<1> QED BY <1>2, <1>3, <1>4, <1>5, JobsAreWrittenBy

LEMMA PassesStayTyped ==
  ASSUME DispatchTypeOK, [DispatchNext]_vars
  PROVE  pass' \in [Dispatchers -> Pass]
<1> USE DEF DispatchTypeOK
<1>1. IdlePass \in Pass
  BY DispatchAssumption DEF IdlePass, Pass, Generation, ReservationId
<1>2. ASSUME NEW d \in Dispatchers, SelectCandidate(d)
      PROVE  pass' \in [Dispatchers -> Pass]
  <2>1. [pc |-> "candidate", generation |-> dispatch.generation, attempts |-> dispatch.attempts,
         id |-> 0] \in Pass
    BY DispatchAssumption DEF DispatchRow, Pass, ReservationId
  <2> QED BY <1>2, <2>1 DEF SelectCandidate
<1>3. ASSUME NEW d \in Dispatchers, Reserve(d)
      PROVE  pass' \in [Dispatchers -> Pass]
  <2>1. reservation'[pass[d].generation].id \in ReservationId
    BY ReservationsStayTyped DEF Reservation, Pass
  <2>2. pass' = [pass EXCEPT ![d].pc = "reserved", ![d].id = reservation'[pass[d].generation].id]
    BY <1>3 DEF Reserve
  <2> QED BY <2>1, <2>2 DEF Pass
<1>4. ASSUME NEW d \in Dispatchers, ClaimDispatch(d) \/ Enqueue(d)
      PROVE  pass' \in [Dispatchers -> Pass]
  BY <1>4 DEF ClaimDispatch, Enqueue, Pass
<1>5. ASSUME NEW d \in Dispatchers,
             ClaimMissed(d) \/ Defer(d) \/ MarkDispatched(d) \/ DispatchFails(d) \/ DispatcherDies(d)
      PROVE  pass' \in [Dispatchers -> Pass]
  BY <1>1, <1>5 DEF ClaimMissed, Defer, MarkDispatched, DispatchFails, DispatcherDies
<1> QED BY <1>2, <1>3, <1>4, <1>5, PassesAreMovedBy DEF DispatcherStep

LEMMA SlotsStayTyped ==
  ASSUME DispatchTypeOK, [DispatchNext]_vars
  PROVE  slot' \in [Workers -> Slot]
<1> USE DEF DispatchTypeOK
<1>1. IdleSlot \in Slot
  BY DispatchAssumption DEF IdleSlot, Slot, Generation
<1>2. ASSUME NEW w \in Workers, TakeJob(w)
      PROVE  slot' \in [Workers -> Slot]
  BY <1>2 DEF TakeJob, Slot
<1>3. ASSUME NEW w \in Workers, ClaimRun(w)
      PROVE  slot' \in [Workers -> Slot]
  <2>1. owner' \in Token
    BY <1>3, MaxClaimsAssumption DEF ClaimRun, Claim, TypeOK, Token
  <2> QED BY <1>3, <2>1 DEF ClaimRun, Slot
<1>4. ASSUME NEW w \in Workers, Adopt(w) \/ RecoverDispatch(w) \/ ClaimRefused(w) \/ LeaveRun(w)
      PROVE  slot' \in [Workers -> Slot]
  BY <1>4 DEF Adopt, RecoverDispatch, ClaimRefused, LeaveRun, Slot
<1>5. ASSUME NEW w \in Workers, FinishJob(w) \/ WorkerDies(w) \/ WorkerFails(w)
      PROVE  slot' \in [Workers -> Slot]
  BY <1>1, <1>5 DEF FinishJob, WorkerDies, WorkerFails, JobDone
<1> QED BY <1>2, <1>3, <1>4, <1>5, SlotsAreMovedBy DEF WorkerStep

LEMMA FaultsStayBounded ==
  ASSUME DispatchTypeOK, [DispatchNext]_vars
  PROVE  faults' \in 0..MaxFaults
<1>1. faults \in 0..MaxFaults /\ MaxFaults \in Nat
  BY DispatchAssumption DEF DispatchTypeOK
<1>2. \A kind : May(kind) => faults' \in 0..MaxFaults
  BY <1>1 DEF May
<1>3. UNCHANGED faults \/ \E kind : May(kind)
  BY DEF DispatchNext, DispatcherStep, WorkerStep, TimePasses, vars, SelectCandidate, ClaimDispatch,
         ClaimMissed, Reserve, Defer, Enqueue, MarkDispatched, DispatchFails, DispatcherDies,
         PassFault, TakeJob, Adopt, RecoverDispatch, ClaimRun, ClaimRefused, LeaveRun, FinishJob,
         Heartbeat, WorkerDies, WorkerFails, JobStalls, ResumeRun, CloseRun, CancelRun,
         RunLeaseTick, DispatchLeaseLapses, ReservationLapses
<1> QED BY <1>1, <1>2, <1>3

LEMMA TypeStep ==
  ASSUME DispatchTypeOK, [DispatchNext]_vars
  PROVE  DispatchTypeOK'
<1>1. TypeOK'
  BY RunStaysTyped, RunStepIs DEF DispatchTypeOK
<1> QED
  BY <1>1, RowStaysTyped, ReservationsStayTyped, JobsStayTyped, PassesStayTyped, SlotsStayTyped,
     FaultsStayBounded DEF DispatchTypeOK

-------------------------------------------------------------------------------
(* A job once added stays known, and is added for the candidate of a pass.   *)
LEMMA JobsStayKnown ==
  ASSUME DispatchTypeOK, OneSlotPerJob, [DispatchNext]_vars, NEW g \in Generation
  PROVE  /\ jobs[g].state # "absent" => jobs'[g].state # "absent"
         /\ jobs[g].state = "absent" /\ jobs'[g].state # "absent" =>
              \E d \in Dispatchers : Enqueue(d) /\ pass[d].pc # "idle" /\ pass[d].generation = g
<1>1. jobs \in [Generation -> Job] /\ \A w \in Workers : slot[w].generation \in Generation
  BY DEF DispatchTypeOK, Slot
<1>2. ASSUME NEW d \in Dispatchers, Enqueue(d)
      PROVE  /\ jobs[g].state # "absent" => jobs'[g].state # "absent"
             /\ jobs[g].state = "absent" /\ jobs'[g].state # "absent" =>
                  pass[d].pc # "idle" /\ pass[d].generation = g
  BY <1>1, <1>2 DEF Enqueue, Enqueued
<1>3. ASSUME NEW w \in Workers, TakeJob(w)
      PROVE  (jobs[g].state = "absent") <=> (jobs'[g].state = "absent")
  BY <1>1, <1>3 DEF TakeJob, Job
<1>4. ASSUME NEW w \in Workers, FinishJob(w) \/ WorkerFails(w)
      PROVE  (jobs[g].state = "absent") <=> (jobs'[g].state = "absent")
  <2>1. slot[w].pc # "idle" /\ jobs[slot[w].generation].state = "active"
    BY <1>4 DEF FinishJob, WorkerFails, OneSlotPerJob
  <2> QED BY <1>1, <1>4, <2>1 DEF FinishJob, WorkerFails, JobDone, Job
<1>5. ASSUME NEW h \in Generation, JobStalls(h)
      PROVE  (jobs[g].state = "absent") <=> (jobs'[g].state = "absent")
  BY <1>1, <1>5 DEF JobStalls, Job
<1> QED BY <1>2, <1>3, <1>4, <1>5, JobsAreWrittenBy

LEMMA GenerationsStep ==
  ASSUME DispatchTypeOK, OneSlotPerJob, GenerationsAreReached, [DispatchNext]_vars
  PROVE  GenerationsAreReached'
<1>1. /\ dispatch.generation \in Nat /\ dispatch'.generation \in Nat
      /\ dispatch'.generation >= dispatch.generation
  <2>1. dispatch \in DispatchRow
    BY DEF DispatchTypeOK
  <2> QED BY <2>1, RowStaysTyped, DispatchAssumption DEF DispatchRow, Generation
<1>2. ASSUME NEW g \in Generation, jobs'[g].state # "absent"
      PROVE  g <= dispatch'.generation
  <2>1. g <= dispatch.generation
    BY <1>2, JobsStayKnown DEF GenerationsAreReached
  <2> QED BY <1>1, <2>1, DispatchAssumption DEF Generation
<1>3. ASSUME NEW d \in Dispatchers, pass'[d].pc # "idle"
      PROVE  pass'[d].generation <= dispatch'.generation
  <2>1. pass \in [Dispatchers -> Pass] /\ pass[d].generation \in Nat
    BY DispatchAssumption DEF DispatchTypeOK, Pass, Generation
  <2>2. ASSUME NEW e \in Dispatchers, DispatcherStep(e) \/ DispatchFails(e) \/ DispatcherDies(e)
        PROVE  \/ pass[d].pc # "idle" /\ pass'[d].generation = pass[d].generation
               \/ pass'[d].generation = dispatch.generation
    <3>1. CASE SelectCandidate(e)
      BY <1>3, <2>1, <3>1 DEF SelectCandidate
    <3>2. CASE ClaimDispatch(e) \/ Reserve(e) \/ Enqueue(e)
      BY <1>3, <2>1, <3>2 DEF ClaimDispatch, Reserve, Enqueue, Pass
    <3>3. CASE ClaimMissed(e) \/ Defer(e) \/ MarkDispatched(e) \/ DispatchFails(e) \/ DispatcherDies(e)
      BY <1>3, <2>1, <3>3
         DEF ClaimMissed, Defer, MarkDispatched, DispatchFails, DispatcherDies, IdlePass
    <3> QED BY <2>2, <3>1, <3>2, <3>3 DEF DispatcherStep
  <2>3. \/ pass[d].pc # "idle" /\ pass'[d].generation = pass[d].generation
        \/ pass'[d].generation = dispatch.generation
    BY <1>3, <2>2, PassesAreMovedBy
  <2> QED BY <1>1, <2>1, <2>3 DEF GenerationsAreReached
<1> QED BY <1>2, <1>3 DEF GenerationsAreReached

LEMMA DispatchedStep ==
  ASSUME DispatchTypeOK, OneSlotPerJob, DispatchedHasAJob, [DispatchNext]_vars
  PROVE  DispatchedHasAJob'
<1>1. \A g \in Generation : jobs[g].state # "absent" => jobs'[g].state # "absent"
  BY JobsStayKnown
<1>2. pass \in [Dispatchers -> Pass] /\ \A d \in Dispatchers : pass[d].generation \in Generation
  BY DEF DispatchTypeOK, Pass
<1>3. ASSUME NEW d \in Dispatchers, pass'[d].pc = "enqueued"
      PROVE  jobs'[pass'[d].generation].state # "absent"
  <2>1. CASE Enqueue(d)
    <3>1. pass'[d].generation = pass[d].generation
      BY <1>2, <2>1 DEF Enqueue
    <3> QED BY <1>2, <2>1, <3>1 DEF Enqueue, Enqueued, DispatchTypeOK
  <2>2. ASSUME NEW e \in Dispatchers, DispatcherStep(e) \/ DispatchFails(e) \/ DispatcherDies(e),
               ~Enqueue(d)
        PROVE  pass'[d] = pass[d]
    <3>1. CASE SelectCandidate(e) \/ ClaimDispatch(e) \/ Reserve(e)
      BY <1>2, <1>3, <3>1 DEF SelectCandidate, ClaimDispatch, Reserve, Pass
    <3>2. CASE Enqueue(e)
      BY <1>2, <1>3, <2>2, <3>2 DEF Enqueue
    <3>3. CASE ClaimMissed(e) \/ Defer(e) \/ MarkDispatched(e) \/ DispatchFails(e) \/ DispatcherDies(e)
      BY <1>2, <1>3, <3>3
         DEF ClaimMissed, Defer, MarkDispatched, DispatchFails, DispatcherDies, IdlePass
    <3> QED BY <2>2, <3>1, <3>2, <3>3 DEF DispatcherStep
  <2>3. CASE ~Enqueue(d)
    <3>1. pass'[d] = pass[d]
      BY <2>2, <2>3, PassesAreMovedBy
    <3> QED BY <1>1, <1>2, <1>3, <3>1 DEF DispatchedHasAJob
  <2> QED BY <2>1, <2>3
<1>4. ASSUME dispatch'.status = "DISPATCHED"
      PROVE  \E g \in Generation : jobs[g].state # "absent"
  <2>1. dispatch \in DispatchRow
    BY DEF DispatchTypeOK
  <2>2. CASE dispatch.status = "DISPATCHED"
    BY <2>2 DEF DispatchedHasAJob
  <2>3. CASE dispatch.status # "DISPATCHED"
    <3>1. ASSUME NEW d \in Dispatchers,
                 ClaimDispatch(d) \/ Defer(d) \/ MarkDispatched(d) \/ DispatchFails(d)
          PROVE  pass[d].pc = "enqueued"
      BY <1>4, <2>1, <2>3, <3>1
         DEF ClaimDispatch, Defer, MarkDispatched, DispatchFails, SettleDispatch, DispatchRow
    <3>2. ASSUME (\E w \in Workers : RecoverDispatch(w)) \/ ResumeRun \/ DispatchLeaseLapses
          PROVE  FALSE
      BY <1>4, <2>1, <2>3, <3>2 DEF RecoverDispatch, ResumeRun, DispatchLeaseLapses, DispatchRow
    <3>3. PICK d \in Dispatchers : pass[d].pc = "enqueued"
      BY <1>4, <2>3, <3>1, <3>2, RowIsWrittenBy
    <3> QED BY <1>2, <3>3 DEF DispatchedHasAJob
  <2> QED BY <2>2, <2>3
<1> QED BY <1>1, <1>3, <1>4 DEF DispatchedHasAJob

(* Slots and jobs move together.                                             *)
LEMMA JobsAndSlots ==
  ASSUME [DispatchNext]_vars
  PROVE  \/ UNCHANGED <<jobs, slot>>
         \/ (\E d \in Dispatchers : Enqueue(d)) \/ (\E g \in Generation : JobStalls(g))
         \/ \E w \in Workers :
              \/ TakeJob(w) \/ FinishJob(w) \/ WorkerFails(w) \/ WorkerDies(w)
              \/ Adopt(w) \/ RecoverDispatch(w) \/ ClaimRun(w) \/ ClaimRefused(w) \/ LeaveRun(w)
BY JobsAreWrittenBy, SlotsAreMovedBy DEF WorkerStep

LEMMA SlotsStep ==
  ASSUME DispatchTypeOK, OneSlotPerJob, [DispatchNext]_vars
  PROVE  OneSlotPerJob'
<1> USE DEF OneSlotPerJob
<1>1. /\ jobs \in [Generation -> Job] /\ slot \in [Workers -> Slot]
      /\ \A w \in Workers : slot[w].generation \in Generation
  BY DEF DispatchTypeOK, Slot
<1>2. CASE UNCHANGED <<jobs, slot>>
  BY <1>2
<1>3. ASSUME NEW d \in Dispatchers, Enqueue(d) PROVE OneSlotPerJob'
  <2>1. UNCHANGED slot /\ \A g \in Generation : jobs[g].state = "active" => jobs'[g] = jobs[g]
    BY <1>1, <1>3 DEF Enqueue, Enqueued
  <2> QED BY <1>1, <2>1
<1>4. ASSUME NEW g \in Generation, JobStalls(g) PROVE OneSlotPerJob'
  <2>1. /\ UNCHANGED slot /\ \A w \in Workers : slot[w].pc # "idle" => slot[w].generation # g
        /\ \A h \in Generation : h # g => jobs'[h] = jobs[h]
    BY <1>1, <1>4 DEF JobStalls
  <2> QED BY <1>1, <2>1
<1>5. ASSUME NEW w \in Workers, TakeJob(w) PROVE OneSlotPerJob'
  <2>1. PICK g \in Generation :
          /\ jobs[g].state = "waiting" /\ jobs' = [jobs EXCEPT ![g].state = "active"]
          /\ slot' = [slot EXCEPT ![w] = [pc |-> "adopting", generation |-> g, token |-> NoToken]]
    BY <1>5 DEF TakeJob
  <2>2. jobs'[g].state = "active" /\ \A h \in Generation : h # g => jobs'[h] = jobs[h]
    BY <1>1, <2>1 DEF Job
  <2>3. slot'[w].generation = g /\ \A v \in Workers : v # w => slot'[v] = slot[v]
    BY <1>1, <2>1
  <2>4. \A v \in Workers : slot[v].pc # "idle" => slot[v].generation # g
    BY <1>1, <2>1
  <2> QED BY <1>1, <2>2, <2>3, <2>4
<1>6. ASSUME NEW w \in Workers, FinishJob(w) \/ WorkerFails(w) PROVE OneSlotPerJob'
  <2>1. slot[w].pc # "idle" /\ JobDone(w)
    BY <1>6 DEF FinishJob, WorkerFails
  <2>2. /\ slot'[w].pc = "idle" /\ \A v \in Workers : v # w => slot'[v] = slot[v]
        /\ \A h \in Generation : h # slot[w].generation => jobs'[h] = jobs[h]
    BY <1>1, <2>1 DEF JobDone, IdleSlot
  <2> QED BY <1>1, <2>1, <2>2
<1>7. ASSUME NEW w \in Workers, WorkerDies(w) PROVE OneSlotPerJob'
  <2>1. /\ UNCHANGED jobs /\ slot'[w].pc = "idle"
        /\ \A v \in Workers : v # w => slot'[v] = slot[v]
    BY <1>1, <1>7 DEF WorkerDies, IdleSlot
  <2> QED BY <1>1, <2>1
<1>8. ASSUME NEW w \in Workers,
             Adopt(w) \/ RecoverDispatch(w) \/ ClaimRun(w) \/ ClaimRefused(w) \/ LeaveRun(w)
      PROVE  OneSlotPerJob'
  <2>1. /\ UNCHANGED jobs /\ slot[w].pc # "idle" /\ slot'[w].generation = slot[w].generation
        /\ \A v \in Workers : v # w => slot'[v] = slot[v]
    BY <1>1, <1>8 DEF Adopt, RecoverDispatch, ClaimRun, ClaimRefused, LeaveRun, Slot
  <2> QED BY <1>1, <2>1
<1> QED BY <1>2, <1>3, <1>4, <1>5, <1>6, <1>7, <1>8, JobsAndSlots

(* A claim issues a fresh token, and nothing else gives a slot one.          *)
LEMMA TokensStep ==
  ASSUME DispatchTypeOK, TokensAreHeldOnce, [DispatchNext]_vars
  PROVE  TokensAreHeldOnce'
<1>1. /\ slot \in [Workers -> Slot] /\ issued \in Nat /\ owner \in Nat
      /\ \A w \in Workers : slot[w].token \in Nat
  BY MaxClaimsAssumption DEF DispatchTypeOK, TypeOK, Slot, Token, NoToken
<1>2. ASSUME NEW w \in Workers, ClaimRun(w) PROVE TokensAreHeldOnce'
  <2>1. /\ issued' = issued + 1 /\ owner' = issued + 1 /\ status' = "RUNNING"
        /\ slot'[w].token = issued + 1 /\ \A v \in Workers : v # w => slot'[v] = slot[v]
    BY <1>1, <1>2 DEF ClaimRun, Claim, Slot
  <2> QED BY <1>1, <2>1 DEF TokensAreHeldOnce
<1>3. ASSUME \A w \in Workers : ~ClaimRun(w) PROVE TokensAreHeldOnce'
  <2>1. /\ issued' = issued /\ owner' \in {owner, NoToken}
        /\ status' \in {"QUEUED", "WAITING_APPROVAL"} => owner' = NoToken
    <3>1. CASE unchangedRun
      BY <3>1 DEF unchangedRun, lifecycleVars, TokensAreHeldOnce
    <3>2. CASE \E w \in Workers : Heartbeat(w)
      BY <3>2 DEF Heartbeat, Renew
    <3>3. CASE \E w \in Workers : LeaveRun(w)
      <4>1. CASE unchangedRun
        BY <4>1, <3>1
      <4>2. CASE Pause
        BY <4>2 DEF Pause
      <4>3. ASSUME NEW verdict \in {"COMPLETED", "FAILED", "CANCELLED", "TIMED_OUT"}, Finish(verdict)
            PROVE  issued' = issued /\ owner' = owner /\ status' \notin {"QUEUED", "WAITING_APPROVAL"}
        BY <4>3 DEF Finish
      <4> QED BY <3>3, <4>1, <3>1, <4>2, <4>3 DEF LeaveRun
    <3>4. CASE ResumeRun
      BY <3>4 DEF ResumeRun, Resume
    <3>5. CASE CloseRun
      BY <3>5 DEF CloseRun, Close
    <3>6. CASE CancelRun
      BY <3>6 DEF CancelRun, RequestCancel
    <3>7. CASE RunLeaseTick
      BY <3>7 DEF RunLeaseTick, LeaseTick
    <3> QED BY <1>3, <3>1, <3>2, <3>3, <3>4, <3>5, <3>6, <3>7, RunIsMovedBy
  <2>2. \A v \in Workers : slot'[v].pc = "executing" => slot'[v] = slot[v]
    <3> SUFFICES ASSUME NEW v \in Workers, slot'[v].pc = "executing" PROVE slot'[v] = slot[v]
      OBVIOUS
    <3>1. ASSUME NEW w \in Workers,
                 TakeJob(w) \/ Adopt(w) \/ RecoverDispatch(w) \/ ClaimRefused(w) \/ LeaveRun(w)
          PROVE  slot'[v] = slot[v]
      BY <1>1, <3>1 DEF TakeJob, Adopt, RecoverDispatch, ClaimRefused, LeaveRun, Slot
    <3>2. ASSUME NEW w \in Workers, FinishJob(w) \/ WorkerFails(w) \/ WorkerDies(w)
          PROVE  slot'[v] = slot[v]
      BY <1>1, <3>2 DEF FinishJob, WorkerFails, WorkerDies, JobDone, IdleSlot
    <3> QED BY <1>3, <3>1, <3>2, SlotsAreMovedBy DEF WorkerStep
  <2> QED BY <1>1, <2>1, <2>2 DEF TokensAreHeldOnce, NoToken
<1> QED BY <1>2, <1>3

-------------------------------------------------------------------------------
(* The inductive invariant of delivery: jobs, slots, passes and tokens fit   *)
(* together, at every fault and whatever the number of processes.            *)
THEOREM InvCorrect == DispatchSpec => []DeliveryInv
<1>1. DispatchInit => DeliveryInv
  <2> SUFFICES ASSUME DispatchInit PROVE DeliveryInv
    OBVIOUS
  <2>1. TypeOK
    BY MaxClaimsAssumption DEF DispatchInit, Init, TypeOK, Status, Lease
  <2>2. 0 \in Generation /\ 0 \in ReservationId /\ 0 \in 0..MaxFaults
    BY DispatchAssumption DEF Generation, ReservationId
  <2>3. IdlePass \in Pass /\ IdleSlot \in Slot
    BY <2>2 DEF IdlePass, Pass, IdleSlot, Slot
  <2>4. DispatchTypeOK
    BY <2>1, <2>2, <2>3 DEF DispatchInit, DispatchTypeOK, DispatchRow, Reservation, Job
  <2>5. /\ \A d \in Dispatchers : pass[d].pc = "idle"
        /\ \A w \in Workers : slot[w].pc = "idle"
        /\ \A g \in Generation : jobs[g].state = "absent"
        /\ dispatch.status = "PENDING" /\ owner = NoToken /\ issued = 0
    BY DEF DispatchInit, Init, IdlePass, IdleSlot
  <2> QED
    BY <2>4, <2>5 DEF DeliveryInv, GenerationsAreReached, DispatchedHasAJob, OneSlotPerJob,
                      TokensAreHeldOnce, NoToken
<1>2. DeliveryInv /\ [DispatchNext]_vars => DeliveryInv'
  BY TypeStep, GenerationsStep, DispatchedStep, SlotsStep, TokensStep DEF DeliveryInv
<1> QED BY <1>1, <1>2, PTL DEF DispatchSpec

(* Jobs of one run that are delivered at once, late or again, by workers     *)
(* that were thought dead too, do not make it run twice under its token.     *)
THEOREM OwnerCorrect == DispatchSpec => []OneSlotOwnsTheRun
<1>1. DeliveryInv => OneSlotOwnsTheRun
  BY MaxClaimsAssumption
     DEF DeliveryInv, TokensAreHeldOnce, OneSlotOwnsTheRun, OwnsRun, NoToken, DispatchTypeOK, TypeOK
<1> QED BY <1>1, InvCorrect, PTL

(* Whatever the passes and the jobs do to a run is a step of its lifecycle:  *)
(* Dispatch implements the RunLifecycle that RunExecution implements.        *)
THEOREM DeliveryImplementsLifecycle == DispatchSpec => Spec
<1>1. DispatchInit => Init
  BY DEF DispatchInit
<1>2. [DispatchNext]_vars => [Next]_lifecycleVars
  BY RunStepIs
<1> QED BY <1>1, <1>2, PTL DEF DispatchSpec, Spec

(* A claim in workflow_run_dispatches is settled by a pass of the process it *)
(* names, by nobody who lost it, unless an approval starts a generation.     *)
THEOREM ClaimsCorrect == DispatchSpec => ClaimsAreFenced
<1> DEFINE Fenced ==
      dispatch.status = "CLAIMED" /\ dispatch'.status # "CLAIMED" =>
        \/ dispatch'.generation > dispatch.generation
        \/ \E d \in Dispatchers :
             /\ Process[d] = dispatch.dispatcherId
             /\ PassAtWork(d) /\ pass'[d].pc = "idle"
<1>1. DeliveryInv /\ [DispatchNext]_vars => Fenced
  <2> SUFFICES ASSUME DispatchTypeOK, [DispatchNext]_vars,
                      dispatch.status = "CLAIMED", dispatch'.status # "CLAIMED"
               PROVE  \/ dispatch'.generation > dispatch.generation
                      \/ \E d \in Dispatchers :
                           /\ Process[d] = dispatch.dispatcherId
                           /\ PassAtWork(d) /\ pass'[d].pc = "idle"
    BY DEF DeliveryInv
  <2>1. /\ dispatch \in DispatchRow /\ dispatch.generation \in Nat
        /\ pass \in [Dispatchers -> Pass]
    BY DispatchAssumption DEF DispatchTypeOK, DispatchRow, Generation
  <2>2. ASSUME NEW d \in Dispatchers, ClaimDispatch(d) PROVE FALSE
    BY <2>1, <2>2 DEF ClaimDispatch, DispatchRow
  <2>3. ASSUME NEW w \in Workers, RecoverDispatch(w) PROVE FALSE
    BY <2>3 DEF RecoverDispatch
  <2>4. ASSUME ResumeRun PROVE dispatch'.generation > dispatch.generation
    BY <2>1, <2>4 DEF ResumeRun
  <2>5. ASSUME NEW d \in Dispatchers, Defer(d) \/ MarkDispatched(d) \/ DispatchFails(d)
        PROVE  Process[d] = dispatch.dispatcherId /\ PassAtWork(d) /\ pass'[d].pc = "idle"
    <3>1. HoldsClaim(d)
      BY <2>5 DEF Defer, MarkDispatched, DispatchFails, SettleDispatch
    <3>2. PassAtWork(d) /\ pass'[d] = IdlePass
      BY <2>1, <2>5 DEF Defer, MarkDispatched, DispatchFails, PassAtWork
    <3> QED BY <3>1, <3>2 DEF HoldsClaim, IdlePass
  <2>6. ~DispatchLeaseLapses
    BY <2>1 DEF DispatchLeaseLapses, DispatchRow
  <2> QED BY <2>2, <2>3, <2>4, <2>5, <2>6, RowIsWrittenBy
<1> HIDE DEF Fenced
<1>2. DispatchSpec => [][Fenced]_vars
  BY <1>1, InvCorrect, PTL DEF DispatchSpec
<1> QED BY <1>2 DEF Fenced, ClaimsAreFenced

(* recoverExpiredWorkflowDispatch, called for a job of an earlier            *)
(* generation, leaves the row alone; only its own job, or an approval, moves *)
(* the generation on.                                                        *)
THEOREM GenerationCorrect == DispatchSpec => GenerationMovesOnByItsJob
<1> DEFINE Moves ==
      dispatch'.generation # dispatch.generation =>
        \/ status = "WAITING_APPROVAL" /\ status' = "QUEUED"
        \/ \E w \in Workers : slot[w].pc = "recovering" /\ slot[w].generation = dispatch.generation
<1>1. DeliveryInv /\ [DispatchNext]_vars => Moves
  <2> SUFFICES ASSUME DispatchTypeOK, [DispatchNext]_vars,
                      dispatch'.generation # dispatch.generation
               PROVE  \/ status = "WAITING_APPROVAL" /\ status' = "QUEUED"
                      \/ \E w \in Workers :
                           slot[w].pc = "recovering" /\ slot[w].generation = dispatch.generation
    BY DEF DeliveryInv
  <2>1. dispatch \in DispatchRow
    BY DEF DispatchTypeOK
  <2>2. ASSUME NEW d \in Dispatchers,
               ClaimDispatch(d) \/ Defer(d) \/ MarkDispatched(d) \/ DispatchFails(d)
        PROVE  FALSE
    BY <2>1, <2>2 DEF ClaimDispatch, Defer, MarkDispatched, DispatchFails, SettleDispatch, DispatchRow
  <2>3. ~DispatchLeaseLapses
    BY <2>1 DEF DispatchLeaseLapses, DispatchRow
  <2>4. ASSUME NEW w \in Workers, RecoverDispatch(w)
        PROVE  slot[w].pc = "recovering" /\ slot[w].generation = dispatch.generation
    BY <2>4 DEF RecoverDispatch
  <2>5. ASSUME ResumeRun PROVE status = "WAITING_APPROVAL" /\ status' = "QUEUED"
    BY <2>5 DEF ResumeRun, Resume
  <2> QED BY <2>2, <2>3, <2>4, <2>5, RowIsWrittenBy
<1> HIDE DEF Moves
<1>2. DispatchSpec => [][Moves]_vars
  BY <1>1, InvCorrect, PTL DEF DispatchSpec
<1> QED BY <1>2 DEF Moves, GenerationMovesOnByItsJob
===============================================================================
