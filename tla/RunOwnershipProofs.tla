-------------------------- MODULE RunOwnershipProofs --------------------------
(***************************************************************************)
(* What the fencing of a run by token and lease achieves: success of a     *)
(* step only at the resume point and under the current token, completion   *)
(* only at the end of the graph, one request per waiting run; that         *)
(* RunExecution implements RunLifecycle; and that an execution keeps to    *)
(* the policy's bounds.                                                    *)
(***************************************************************************)
EXTENDS RunExecutionProofs, FiniteSetTheorems

(* The run got to an end of the graph and has no resume point left.         *)
AtEnd == run.cur = NoStep /\ \E s \in Succeeded : NoStep \in Edges[s]

(* Where an execution that holds the run's token is.                        *)
InPlace(w) == IF exec[w].step = NoStep THEN AtEnd ELSE exec[w].step = ResumeStep(run.cur)

(* What the fencing by token amounts to: tokens are held by one execution   *)
(* each, and whoever holds the run's token is where the run is.             *)
OwnInv ==
  /\ \A v, w \in Workers : v # w /\ exec[v].pc \in Active /\ exec[w].pc \in Active
                             => exec[v].token # exec[w].token
  /\ run.status \in {"QUEUED", "WAITING_APPROVAL"} => run.token = NoToken
  /\ \A w \in Workers : exec[w].pc \in InLoop /\ OwnsRun(w) => InPlace(w)
  /\ \A w \in Workers : exec[w].pc = "finishing" /\ exec[w].verdict = "COMPLETED" /\ OwnsRun(w) => AtEnd
  /\ run.status = "COMPLETED" => AtEnd

-------------------------------------------------------------------------------
(* Where the local states of executions come from.                          *)
LEMMA Origins ==
  ASSUME TypeInv, [Next]_vars, NEW v \in Workers
  PROVE  /\ exec'[v].pc \in InLoop =>
              \/ /\ exec[v].pc \in InLoop
                 /\ exec'[v].step = exec[v].step /\ exec'[v].token = exec[v].token
              \/ ClaimGrant(v) /\ exec'[v].step = ResumeStep(run.cur) /\ exec'[v].token = issued'
              \/ StepSucceeds(v) /\ exec'[v].step = run'.cur /\ exec'[v].token = exec[v].token
         /\ exec'[v].pc = "finishing" =>
              \/ /\ exec[v].pc = "finishing"
                 /\ exec'[v].verdict = exec[v].verdict /\ exec'[v].token = exec[v].token
              \/ ClaimGrant(v) /\ exec'[v].verdict = "FAILED" /\ exec'[v].token = issued'
              \/ /\ exec[v].pc \in InLoop /\ exec'[v].token = exec[v].token
                 /\ exec'[v].verdict = "COMPLETED" => ReachEnd(v)
<1>0. exec \in [Workers -> Execution] /\ exec[v] \in Execution /\ Idle.pc = "idle" /\ run \in Run
  BY DEF TypeInv, TypeOK, Idle
<1>1. CASE exec'[v] = exec[v]
  BY <1>1
<1>2. CASE ClaimRead(v) \/ InterruptStale(v)
  <2>1. exec'[v].pc \in {"interrupting", "granting"}
    <3>1. CASE ClaimRead(v)
      BY <1>0, <3>1 DEF ClaimRead, Idle
    <3>2. CASE InterruptStale(v)
      BY <1>0, <3>2 DEF InterruptStale, Execution
    <3> QED BY <1>2, <3>1, <3>2
  <2> QED BY <2>1 DEF InLoop
<1>3. CASE ClaimGrant(v)
  <2>1. PICK found \in BOOLEAN : exec' = [exec EXCEPT ![v] =
         [Idle EXCEPT !.token = issued', !.step = ResumeStep(run.cur),
                      !.pc = IF found THEN "loop" ELSE "finishing",
                      !.verdict = IF found THEN "NONE" ELSE "FAILED"]]
    BY <1>3 DEF ClaimGrant
  <2>2. /\ exec'[v].token = issued' /\ exec'[v].step = ResumeStep(run.cur)
        /\ exec'[v].pc = IF found THEN "loop" ELSE "finishing"
        /\ exec'[v].verdict = IF found THEN "NONE" ELSE "FAILED"
    BY <1>0, <2>1 DEF Idle
  <2> QED BY <1>3, <2>2 DEF InLoop
<1>left. /\ Leave(v) => exec'[v].pc = "idle"
         /\ \A d : Settle(v, d) => /\ exec'[v].pc = "finishing" /\ exec'[v].verdict = d
                                   /\ exec'[v].token = exec[v].token
  <2>1. Leave(v) => exec'[v].pc = "idle"
    BY <1>0 DEF Leave
  <2>2. ASSUME NEW d, Settle(v, d)
        PROVE  exec'[v].pc = "finishing" /\ exec'[v].verdict = d /\ exec'[v].token = exec[v].token
    BY <1>0, <2>2 DEF Settle, Execution
  <2> QED BY <2>1, <2>2
<1>4. CASE ReadRun(v)
  <2>1. /\ exec[v].pc = "loop"
        /\ \/ Leave(v) \/ Settle(v, "CANCELLED") \/ Settle(v, "TIMED_OUT") \/ Settle(v, "FAILED")
           \/ exec' = [exec EXCEPT ![v].pc = "numbering"]
    BY <1>4 DEF ReadRun
  <2> QED BY <1>0, <1>left, <2>1 DEF Execution, InLoop
<1>5. CASE ReachEnd(v)
  BY <1>left, <1>5 DEF ReachEnd, InLoop
<1>6. CASE ReadLatestAttempt(v) \/ InsertAttempt(v)
  BY <1>0, <1>6 DEF ReadLatestAttempt, InsertAttempt, Execution, InLoop
<1>7. CASE StepSucceeds(v)
  <2>1. PICK next \in Edges[exec[v].step] :
          /\ exec' = [exec EXCEPT ![v].pc = "loop", ![v].step = next, ![v].row = 0]
          /\ run' = [run EXCEPT !.cur = next]
    BY <1>7 DEF StepSucceeds
  <2>2. exec'[v].pc = "loop" /\ exec'[v].step = next /\ exec'[v].token = exec[v].token /\ run'.cur = next
    BY <1>0, <2>1 DEF Execution, Run
  <2> QED BY <1>7, <2>2
<1>8. CASE StepPauses(v) \/ StepFails(v)
  <2>1. /\ exec[v].pc = "executing"
        /\ \/ Leave(v)
           \/ Settle(v, "CANCELLED") \/ Settle(v, "TIMED_OUT") \/ Settle(v, "FAILED")
           \/ exec' = [exec EXCEPT ![v].pc = "loop", ![v].row = 0]
    BY <1>8 DEF StepPauses, StepFails
  <2> QED BY <1>0, <1>left, <2>1 DEF Execution, InLoop
<1>9. CASE HeartbeatFails(v) \/ WatcherSeesCancel(v) \/ TotalTimeout(v)
  <2>1. /\ exec[v].pc \in InLoop
        /\ exec' \in {[exec EXCEPT ![v].lost = TRUE], [exec EXCEPT ![v].cancel = TRUE], [exec EXCEPT ![v].timedOut = TRUE]}
    BY <1>9 DEF HeartbeatFails, WatcherSeesCancel, TotalTimeout, Watched, InLoop
  <2>2. exec'[v].pc = exec[v].pc /\ exec'[v].step = exec[v].step /\ exec'[v].token = exec[v].token
    BY <1>0, <2>1 DEF Execution
  <2> QED BY <2>1, <2>2 DEF InLoop
<1>10. CASE ClaimRefused(v) \/ InsertConflict(v) \/ AdvanceFails(v) \/ FinishRun(v) \/ Crash(v)
  BY <1>0, <1>10 DEF ClaimRefused, InsertConflict, AdvanceFails, FinishRun, Crash, Leave, InLoop
<1>11. ASSUME NEW w \in Workers, w # v, WorkerStep(w) \/ ClaimRead(w) \/ Timers(w) \/ Crash(w)
       PROVE  exec'[v] = exec[v]
  BY <1>0, <1>11, OthersStay
<1>12. CASE HeartbeatRenews(v) \/ LeaseTick \/ RequestCancel \/ CancelWaiting \/ UNCHANGED vars
  BY <1>12, <1>1 DEF HeartbeatRenews, LeaseTick, RequestCancel, CancelWaiting, vars
<1>13. ASSUME NEW s \in Steps, Decision(s) PROVE exec'[v] = exec[v]
  BY <1>13 DEF Decision, Approve, Refuse
<1> QED BY <1>1, <1>2, <1>3, <1>4, <1>5, <1>6, <1>7, <1>8, <1>9, <1>10, <1>11, <1>12, <1>13 DEF Next, WorkerStep, Timers

(* A decision leaves the run to whoever claims it next.                     *)
LEMMA DecisionDisowns ==
  ASSUME TypeInv, NEW s \in Steps, Decision(s)
  PROVE  run'.token = NoToken
<1>1. CASE Approve(s)
  BY <1>1 DEF Approve
<1>2. ASSUME NEW st, Refuse(s, st) PROVE run'.token = NoToken
  BY <1>2 DEF Refuse, TypeInv, TypeOK, Run
<1> QED BY <1>1, <1>2 DEF Decision

(* How the resume point and the token of the run change.                    *)
LEMMA RowMoves ==
  ASSUME TypeInv, [Next]_vars
  PROVE  \/ run'.cur = run.cur /\ run'.token = run.token
         \/ \E w \in Workers : ClaimGrant(w) /\ run'.cur = run.cur /\ run'.token = issued'
         \/ \E w \in Workers : StepSucceeds(w) /\ run'.token = run.token
         \/ run'.token = NoToken
<1>0. run \in Run
  BY DEF TypeInv, TypeOK
<1>1. CASE run' = run
  BY <1>1
<1>2. ASSUME NEW w \in Workers, ClaimGrant(w) PROVE run'.cur = run.cur /\ run'.token = issued'
  BY <1>0, <1>2 DEF ClaimGrant, Run
<1>3. ASSUME NEW w \in Workers, StepSucceeds(w) PROVE run'.token = run.token
  BY <1>0, <1>3 DEF StepSucceeds, Run
<1>4. ASSUME NEW w \in Workers, StepPauses(w) PROVE run'.token = NoToken
  BY <1>0, <1>4 DEF StepPauses, Run
<1>5. ASSUME NEW w \in Workers, FinishRun(w) \/ HeartbeatRenews(w)
      PROVE  run'.cur = run.cur /\ run'.token = run.token
  BY <1>0, <1>5 DEF FinishRun, HeartbeatRenews, Run
<1>6. CASE LeaseTick \/ RequestCancel
  BY <1>0, <1>6 DEF LeaseTick, RequestCancel, Run
<1>7. CASE CancelWaiting
  BY <1>0, <1>7 DEF CancelWaiting, Run
<1>8. ASSUME NEW s \in Steps, Decision(s) PROVE run'.token = NoToken
  BY <1>8, DecisionDisowns
<1> QED BY <1>1, <1>2, <1>3, <1>4, <1>5, <1>6, <1>7, <1>8, RunChangedBy

(* A fresh token is nobody's; a token held is never NoToken.                *)
LEMMA Fresh ==
  ASSUME TypeInv, NEW w \in Workers, ClaimGrant(w)
  PROVE  /\ \A v \in Workers : exec[v].token # issued'
         /\ \A v \in Workers : v # w => exec'[v] = exec[v]
         /\ UNCHANGED <<attempts, request>>
         /\ exec[w].pc = "granting"
         /\ issued' # NoToken
<1>1. /\ issued' = issued + 1 /\ issued \in Nat /\ exec \in [Workers -> Execution]
      /\ \A v \in Workers : exec[v].token \in 0..issued
  BY BoundsAssumption DEF ClaimGrant, TypeInv, TypeOK, Placed
<1> QED BY <1>1 DEF ClaimGrant, NoToken

(* Reaching an end is not undone while the resume point stays.              *)
LEMMA EndStays ==
  ASSUME TypeInv, [Next]_vars, AtEnd, run'.cur = run.cur
  PROVE  AtEnd'
  BY HistoryStep, ReachedStays DEF AtEnd

(* A success moves the resume point along an edge of a step that has        *)
(* succeeded.                                                               *)
LEMMA SuccessEnters ==
  ASSUME TypeInv, NEW w \in Workers, StepSucceeds(w)
  PROVE  /\ exec[w].step \in Succeeded' /\ run'.cur \in Edges[exec[w].step]
         /\ exec'[w].step = run'.cur
<1>1. PICK next \in Edges[exec[w].step] :
        /\ run' = [run EXCEPT !.cur = next]
        /\ exec' = [exec EXCEPT ![w].pc = "loop", ![w].step = next, ![w].row = 0]
  BY DEF StepSucceeds
<1>2. run'.cur = next /\ exec'[w].step = next
  BY <1>1 DEF TypeInv, TypeOK, Run, Execution
<1> QED BY <1>2, WorkerSuccessReaches

(* Nothing is owned at first.                                               *)
LEMMA OwnInit == Init => OwnInv
  BY DEF Init, OwnInv, Idle, Active, InLoop, NoToken

(* Tokens stay unique, because each claim issues a fresh one.               *)
LEMMA UniqueStep ==
  ASSUME TypeInv, OwnInv, [Next]_vars, NEW v \in Workers, NEW w \in Workers, v # w,
         exec'[v].pc \in Active, exec'[w].pc \in Active
  PROVE  exec'[v].token # exec'[w].token
<1>1. ASSUME NEW u \in Workers, exec'[u].pc \in Active
      PROVE  \/ exec[u].pc \in Active /\ exec'[u].token = exec[u].token
             \/ ClaimGrant(u) /\ exec'[u].token = issued'
  BY <1>1, Origins DEF Active, InLoop, StepSucceeds
<1>2. CASE ClaimGrant(v)
  BY <1>1, <1>2, Fresh DEF Active
<1>3. CASE ClaimGrant(w)
  BY <1>1, <1>3, Fresh DEF Active
<1>4. CASE ~ClaimGrant(v) /\ ~ClaimGrant(w)
  BY <1>1, <1>4 DEF OwnInv
<1> QED BY <1>2, <1>3, <1>4

(* A queued or waiting run is nobody's.                                     *)
LEMMA NobodyStep ==
  ASSUME TypeInv, OwnInv, [Next]_vars, run'.status \in {"QUEUED", "WAITING_APPROVAL"}
  PROVE  run'.token = NoToken
<1>0. run \in Run /\ (run.status \in {"QUEUED", "WAITING_APPROVAL"} => run.token = NoToken)
  BY DEF TypeInv, TypeOK, OwnInv
<1>1. CASE run' = run
  BY <1>0, <1>1
<1>2. ASSUME NEW w \in Workers, ClaimGrant(w) \/ StepSucceeds(w) \/ HeartbeatRenews(w)
      PROVE  run'.status = "RUNNING"
  BY <1>0, <1>2 DEF ClaimGrant, StepSucceeds, HeartbeatRenews, MayRenew, MayAdvance, Run
<1>3. ASSUME NEW w \in Workers, StepPauses(w) PROVE run'.token = NoToken
  BY <1>0, <1>3 DEF StepPauses, Run
<1>4. ASSUME NEW w \in Workers, FinishRun(w), MayFinish(w) PROVE run'.status \in Verdict
  BY <1>0, <1>4 DEF FinishRun, Run, TypeInv, TypeOK, Execution
<1>5. CASE LeaseTick \/ RequestCancel
  BY <1>0, <1>5 DEF LeaseTick, RequestCancel, Run
<1>6. CASE CancelWaiting
  BY <1>0, <1>6 DEF CancelWaiting, Run
<1>7. ASSUME NEW s \in Steps, Decision(s) PROVE run'.token = NoToken
  BY <1>7, DecisionDisowns
<1> QED BY <1>1, <1>2, <1>3, <1>4, <1>5, <1>6, <1>7, RunChangedBy DEF Verdict

(* An execution that holds the token is at the resume point.                *)
LEMMA InPlaceStep ==
  ASSUME TypeInv, OwnInv, [Next]_vars, NEW v \in Workers, exec'[v].pc \in InLoop, OwnsRun(v)'
  PROVE  InPlace(v)'
<1>0. /\ run \in Run /\ ResumeStep(run.cur) \in Steps /\ NoStep \notin Steps
      /\ \A w \in Workers : exec[w].pc \in Active => exec[w].token # NoToken
      /\ run'.token = exec'[v].token
  BY StepsAssumption DEF TypeInv, TypeOK, Run, ResumeStep, Placed, OwnsRun
<1>1. \/ exec[v].pc \in InLoop /\ exec'[v].step = exec[v].step /\ exec'[v].token = exec[v].token
      \/ ClaimGrant(v) /\ exec'[v].step = ResumeStep(run.cur) /\ exec'[v].token = issued'
      \/ StepSucceeds(v) /\ exec'[v].step = run'.cur /\ exec'[v].token = exec[v].token
  BY Origins
<1>2. exec'[v].token # NoToken
  BY <1>0, <1>1, Fresh DEF Active, InLoop, StepSucceeds
<1>3. CASE StepSucceeds(v)
  <2>1. exec'[v].step = run'.cur /\ \E s \in Succeeded' : run'.cur \in Edges[s]
    BY <1>3, SuccessEnters
  <2> QED BY <2>1 DEF InPlace, AtEnd, ResumeStep
<1>4. CASE ClaimGrant(v)
  <2>1. run'.cur = run.cur
    BY <1>0, <1>4 DEF ClaimGrant, Run
  <2>2. exec'[v].step = ResumeStep(run.cur)
    BY <1>1, <1>4, Fresh DEF InLoop, StepSucceeds
  <2> QED BY <1>0, <2>1, <2>2 DEF InPlace, ResumeStep
<1>5. CASE /\ exec[v].pc \in InLoop /\ exec'[v].step = exec[v].step /\ exec'[v].token = exec[v].token
           /\ ~StepSucceeds(v) /\ ~ClaimGrant(v)
  <2>1. \A w \in Workers : ~ClaimGrant(w) \/ run'.token # issued'
    BY <1>0, <1>5, Fresh
  <2>2. ASSUME NEW w \in Workers, StepSucceeds(w), run'.token = run.token PROVE FALSE
    <3>1. run.token = exec[w].token /\ exec[w].pc \in Active
      BY <2>2 DEF StepSucceeds, MayAdvance, OwnsRun, Active
    <3>2. exec[w].token = exec[v].token /\ w # v /\ exec[v].pc \in Active
      BY <1>0, <1>5, <2>2, <3>1 DEF Active, InLoop
    <3> QED BY <3>1, <3>2 DEF OwnInv
  <2>3. run'.cur = run.cur /\ run'.token = run.token
    BY <1>0, <1>2, <2>1, <2>2, RowMoves
  <2>4. InPlace(v)
    BY <1>0, <1>5, <2>3 DEF OwnInv, OwnsRun
  <2>5. CASE exec[v].step = NoStep
    <3>1. AtEnd'
      BY <2>3, <2>4, <2>5, EndStays DEF InPlace
    <3> QED BY <1>5, <2>5, <3>1 DEF InPlace
  <2>6. CASE exec[v].step # NoStep
    <3>1. exec[v].step = ResumeStep(run.cur)
      BY <2>4, <2>6 DEF InPlace
    <3>2. exec'[v].step # NoStep /\ exec'[v].step = ResumeStep(run'.cur)
      BY <1>5, <2>3, <2>6, <3>1 DEF ResumeStep
    <3> QED BY <3>2 DEF InPlace, ResumeStep
  <2> QED BY <2>5, <2>6
<1> QED BY <1>1, <1>3, <1>4, <1>5

(* An execution that is about to report COMPLETED has got to the end.       *)
LEMMA FinishingStep ==
  ASSUME TypeInv, OwnInv, [Next]_vars, NEW v \in Workers,
         exec'[v].pc = "finishing", exec'[v].verdict = "COMPLETED", OwnsRun(v)'
  PROVE  AtEnd'
<1>0. /\ run'.token = exec'[v].token
      /\ \A w \in Workers : exec[w].pc \in Active => exec[w].token # NoToken
  BY DEF TypeInv, Placed, OwnsRun
<1>1. /\ exec'[v].token = exec[v].token /\ exec[v].pc \in Active /\ exec[v].pc # "granting"
      /\ \/ exec[v].pc = "finishing" /\ exec[v].verdict = "COMPLETED"
         \/ ReachEnd(v)
  BY Origins DEF Active, InLoop
<1>2. \A w \in Workers : ~ClaimGrant(w) \/ run'.token # issued'
  BY <1>0, <1>1, Fresh
<1>3. ASSUME NEW w \in Workers, StepSucceeds(w), run'.token = run.token PROVE FALSE
  <2>1. run.token = exec[w].token /\ exec[w].pc = "executing"
    BY <1>3 DEF StepSucceeds, MayAdvance, OwnsRun
  <2>2. exec[w].token = exec[v].token /\ w # v
    BY <1>0, <1>1, <1>3, <2>1 DEF ReachEnd
  <2> QED BY <1>1, <2>1, <2>2 DEF OwnInv, Active
<1>4. run'.cur = run.cur /\ run'.token = run.token
  BY <1>0, <1>1, <1>2, <1>3, RowMoves
<1>5. OwnsRun(v)
  BY <1>0, <1>1, <1>4 DEF OwnsRun
<1>6. AtEnd
  <2>1. CASE exec[v].pc = "finishing" /\ exec[v].verdict = "COMPLETED"
    BY <1>5, <2>1 DEF OwnInv
  <2>2. CASE ReachEnd(v)
    BY <1>5, <2>2 DEF OwnInv, ReachEnd, InPlace, InLoop
  <2> QED BY <1>1, <2>1, <2>2
<1> QED BY <1>4, <1>6, EndStays

(* Only its owner completes a run.                                          *)
LEMMA CompletedStep ==
  ASSUME TypeInv, OwnInv, [Next]_vars, run'.status = "COMPLETED"
  PROVE  AtEnd'
<1>0. run \in Run
  BY DEF TypeInv, TypeOK
<1>1. CASE run.status = "COMPLETED"
  BY <1>1, TerminalStep, EndStays DEF OwnInv, Terminal
<1>2. ASSUME NEW w \in Workers, FinishRun(w), MayFinish(w), run.status # "COMPLETED" PROVE AtEnd'
  <2>1. exec[w].verdict = "COMPLETED" /\ run'.cur = run.cur /\ exec[w].pc = "finishing"
    BY <1>0, <1>2 DEF FinishRun, Run
  <2>2. AtEnd
    BY <1>2, <2>1 DEF OwnInv, MayFinish
  <2> QED BY <2>1, <2>2, EndStays
<1>3. ASSUME NEW w \in Workers, ClaimGrant(w) \/ StepSucceeds(w) \/ StepPauses(w) \/ HeartbeatRenews(w)
      PROVE  run'.status \in {"RUNNING", "WAITING_APPROVAL"}
  BY <1>0, <1>3 DEF ClaimGrant, StepSucceeds, StepPauses, HeartbeatRenews, MayRenew, MayAdvance, Run
<1>4. CASE LeaseTick \/ RequestCancel \/ CancelWaiting
  BY <1>0, <1>4 DEF LeaseTick, RequestCancel, CancelWaiting, Run
<1>5. ASSUME NEW s \in Steps, Decision(s) PROVE run'.status \in {"QUEUED", "REJECTED", "EXPIRED"}
  <2>1. Approve(s) => run'.status = "QUEUED"
    BY DEF Approve
  <2>2. ASSUME NEW st, Refuse(s, st) PROVE run'.status = st
    BY <1>0, <2>2 DEF Refuse, Run
  <2> QED BY <1>5, <2>1, <2>2 DEF Decision
<1>6. CASE run' = run
  BY <1>1, <1>6
<1> QED BY <1>1, <1>2, <1>3, <1>4, <1>5, <1>6, RunChangedBy

(* Every step keeps the fencing invariant.                                  *)
LEMMA OwnStep == TypeInv /\ OwnInv /\ [Next]_vars => OwnInv'
<1> SUFFICES ASSUME TypeInv, OwnInv, [Next]_vars PROVE OwnInv'
  OBVIOUS
<1> QED BY UniqueStep, NobodyStep, InPlaceStep, FinishingStep, CompletedStep DEF OwnInv

(* A COMPLETED run got to the end of its graph: the verdict can only come   *)
(* from the execution that owns the run and stands where its resume point   *)
(* is.                                                                      *)
THEOREM CompletedCorrect == Spec => []CompletedReachedEnd
<1>1. OwnInv => CompletedReachedEnd
  BY DEF OwnInv, AtEnd, CompletedReachedEnd
<1> QED BY <1>1, TypeInit, TypeStep, OwnInit, OwnStep, PTL DEF Spec

-------------------------------------------------------------------------------
(* Approval gates.                                                          *)

Pending == {s \in Steps : request[s] = "PENDING"}

(* A waiting run has one request and one waiting attempt, both of its       *)
(* resume point; a run that is queued, running or being cancelled has none. *)
(* Of settled runs nothing is said: cancelling one may leave requests.      *)
GateInv ==
  /\ run.status = "WAITING_APPROVAL" =>
       /\ Pending = {ResumeStep(run.cur)}
       /\ \E n \in WaitingRows(ResumeStep(run.cur)) : WaitingRows(ResumeStep(run.cur)) = {n}
       /\ \A s \in Steps \ {ResumeStep(run.cur)} : WaitingRows(s) = {}
  /\ run.status \in {"QUEUED", "RUNNING", "CANCEL_REQUESTED"} =>
       Pending = {} /\ \A s \in Steps : WaitingRows(s) = {}

(* The waiting rows after the status of one row is set.                     *)
LEMMA WaitingAfterRowSet ==
  ASSUME attempts \in [Steps -> Seq(Attempt)],
         NEW s \in Steps, NEW n \in DOMAIN attempts[s], NEW st \in AttemptStatus, RowSet(s, n, st)
  PROVE  /\ \A t \in Steps \ {s} : WaitingRows(t)' = WaitingRows(t)
         /\ WaitingRows(s)' = IF st = "WAITING_APPROVAL" THEN WaitingRows(s) \cup {n} ELSE WaitingRows(s) \ {n}
<1>1. \A t \in Steps \ {s} : attempts'[t] = attempts[t]
  BY DEF RowSet
<1>2. /\ DOMAIN attempts'[s] = DOMAIN attempts[s]
      /\ \A m \in DOMAIN attempts[s] :
           attempts'[s][m] = IF m = n THEN [token |-> attempts[s][n].token, status |-> st] ELSE attempts[s][m]
  BY RowUpdate
<1>3. attempts'[s][n].status = st
  BY <1>2
<1>4. \A m \in DOMAIN attempts[s] : m # n => attempts'[s][m] = attempts[s][m]
  BY <1>2
<1>5. \A t \in Steps \ {s} : WaitingRows(t)' = WaitingRows(t)
  BY <1>1 DEF WaitingRows
<1>6. WaitingRows(s)' = {m \in DOMAIN attempts[s] : attempts'[s][m].status = "WAITING_APPROVAL"}
  BY <1>2 DEF WaitingRows
<1>7. ASSUME NEW m
      PROVE  m \in WaitingRows(s)' <=>
               m \in (IF st = "WAITING_APPROVAL" THEN WaitingRows(s) \cup {n} ELSE WaitingRows(s) \ {n})
  <2>1. CASE m = n
    BY <1>3, <1>6, <2>1
  <2>2. CASE m # n
    BY <1>4, <1>6, <2>2 DEF WaitingRows
  <2> QED BY <2>1, <2>2
<1>8. WaitingRows(s)' = IF st = "WAITING_APPROVAL" THEN WaitingRows(s) \cup {n} ELSE WaitingRows(s) \ {n}
  BY <1>7
<1> QED BY <1>5, <1>8

(* What leaves the requests and the waiting rows alone.                     *)
LEMMA WaitingUntouched ==
  ASSUME TypeInv, [Next]_vars,
         \A w \in Workers : ~StepPauses(w), ~CancelWaiting, \A s \in Steps : ~Decision(s)
  PROVE  request' = request /\ \A s \in Steps : WaitingRows(s)' = WaitingRows(s)
<1>0. /\ attempts \in [Steps -> Seq(Attempt)]
      /\ \A w \in Workers : Placed(exec[w], attempts, issued) /\ exec[w] \in Execution
  BY DEF TypeInv, TypeOK
<1>1. request' = request
  <2>1. ASSUME NEW w \in Workers, WorkerStep(w) PROVE request' = request
    BY <2>1 DEF WorkerStep, InterruptStale, ClaimGrant, ClaimRefused, ReadRun, ReadLatestAttempt, InsertAttempt,
                InsertConflict, StepSucceeds, AdvanceFails, StepFails, ReachEnd, FinishRun
  <2>2. ASSUME NEW w \in Workers, ClaimRead(w) \/ Timers(w) \/ Crash(w) PROVE request' = request
    BY <2>2 DEF ClaimRead, Timers, HeartbeatRenews, HeartbeatFails, WatcherSeesCancel, TotalTimeout, Crash
  <2>3. CASE LeaseTick \/ RequestCancel \/ UNCHANGED vars
    BY <2>3 DEF LeaseTick, RequestCancel, vars
  <2> QED BY <2>1, <2>2, <2>3 DEF Next
<1>2. ASSUME attempts' = attempts, NEW s \in Steps PROVE WaitingRows(s)' = WaitingRows(s)
  BY <1>2 DEF WaitingRows
<1>3. ASSUME NEW w \in Workers, InterruptStale(w), NEW s \in Steps PROVE WaitingRows(s)' = WaitingRows(s)
  <2>1. /\ DOMAIN attempts'[s] = DOMAIN attempts[s]
        /\ \A n \in DOMAIN attempts[s] :
             \/ attempts'[s][n] = attempts[s][n]
             \/ attempts[s][n].status = "RUNNING" /\ attempts'[s][n].status = "INTERRUPTED"
    BY <1>0, <1>3, InterruptedRows
  <2> QED BY <2>1 DEF WaitingRows
<1>4. ASSUME NEW w \in Workers, InsertAttempt(w), NEW s \in Steps PROVE WaitingRows(s)' = WaitingRows(s)
  <2> DEFINE t == exec[w].step
             row == [token |-> exec[w].token, status |-> "RUNNING"]
  <2>1. t \in Steps /\ row \in Attempt /\ row.status = "RUNNING"
    BY <1>0, <1>4 DEF InsertAttempt, Placed, Active, Attempt, AttemptStatus, Execution, NoToken
  <2>2. attempts' = [attempts EXCEPT ![t] = Append(@, row)]
    BY <1>4 DEF InsertAttempt
  <2> HIDE DEF t, row
  <2>3. /\ attempts' \in [Steps -> Seq(Attempt)] /\ Len(attempts[s]) \in Nat
        /\ Len(attempts'[s]) = Len(attempts[s]) + (IF s = t THEN 1 ELSE 0)
        /\ \A m \in DOMAIN attempts[s] : m \in DOMAIN attempts'[s] /\ attempts'[s][m] = attempts[s][m]
        /\ attempts'[t][Len(attempts[t]) + 1] = row
    BY <1>0, <2>1, <2>2, RowInsert, LenProperties
  <2>4. DOMAIN attempts[s] = 1..Len(attempts[s]) /\ DOMAIN attempts'[s] = 1..Len(attempts'[s])
    BY <1>0, <2>3, LenProperties
  <2>5. \A m \in DOMAIN attempts'[s] : m \in DOMAIN attempts[s] \/ (s = t /\ m = Len(attempts[t]) + 1)
    <3>1. CASE s = t
      <4>1. Len(attempts'[s]) = Len(attempts[s]) + 1
        BY <2>3, <3>1
      <4>2. \A m \in 1..(Len(attempts[s]) + 1) : m \in 1..Len(attempts[s]) \/ m = Len(attempts[s]) + 1
        BY <2>3
      <4> QED BY <2>4, <3>1, <4>1, <4>2
    <3>2. CASE s # t
      BY <2>3, <2>4, <3>2
    <3> QED BY <3>1, <3>2
  <2>6. ASSUME NEW m
        PROVE  /\ m \in DOMAIN attempts'[s] /\ attempts'[s][m].status = "WAITING_APPROVAL"
                    => m \in DOMAIN attempts[s] /\ attempts[s][m].status = "WAITING_APPROVAL"
               /\ m \in DOMAIN attempts[s] /\ attempts[s][m].status = "WAITING_APPROVAL"
                    => m \in DOMAIN attempts'[s] /\ attempts'[s][m].status = "WAITING_APPROVAL"
    <3>1. CASE m \in DOMAIN attempts[s]
      BY <2>3, <3>1
    <3>2. CASE m \notin DOMAIN attempts[s] /\ m \in DOMAIN attempts'[s]
      BY <2>1, <2>3, <2>5, <3>2
    <3> QED BY <3>1, <3>2
  <2>7. ASSUME NEW m PROVE m \in WaitingRows(s)' <=> m \in WaitingRows(s)
    BY <2>6 DEF WaitingRows
  <2> QED BY <2>7
<1>5. ASSUME NEW w \in Workers, StepSucceeds(w) \/ StepFails(w), attempts' # attempts, NEW s \in Steps
      PROVE  WaitingRows(s)' = WaitingRows(s)
  <2>1. PICK t \in Steps, n \in DOMAIN attempts[exec[w].step] :
          t = exec[w].step /\ n = exec[w].row /\ attempts[t][n].status = "RUNNING"
    BY <1>0, <1>5 DEF StepSucceeds, StepFails, MayAdvance, MayFailAttempt, MyAttempt, Placed
  <2>2. n \notin WaitingRows(t)
    BY <2>1 DEF WaitingRows
  <2>3. PICK st \in {"SUCCEEDED", "INTERRUPTED", "FAILED"} : RowSet(t, n, st)
    BY <1>5, <2>1 DEF StepSucceeds, StepFails, SetMyAttempt, RowSet
  <2>4. st \in AttemptStatus /\ st # "WAITING_APPROVAL"
    BY DEF AttemptStatus
  <2>5. WaitingRows(t)' = WaitingRows(t) \ {n} /\ \A u \in Steps \ {t} : WaitingRows(u)' = WaitingRows(u)
    BY <1>0, <2>1, <2>3, <2>4, WaitingAfterRowSet
  <2> QED BY <2>2, <2>5
<1> QED BY <1>1, <1>2, <1>3, <1>4, <1>5, RowsChangedBy

(* There is no gate before the first step.                                  *)
LEMMA GateInit == Init => GateInv
<1> SUFFICES ASSUME Init PROVE GateInv
  OBVIOUS
<1>1. run.status = "QUEUED" /\ Pending = {}
  BY DEF Init, Pending
<1>2. \A s \in Steps : attempts[s] = <<>>
  BY DEF Init
<1>3. \A s \in Steps : WaitingRows(s) = {}
  BY <1>2, EmptySeq, LenProperties DEF WaitingRows
<1> QED BY <1>1, <1>3 DEF GateInv

(* Pausing opens the gate of the resume point, and no other.                *)
LEMMA PauseOpensGate ==
  ASSUME TypeInv, OwnInv, GateInv, NEW w \in Workers, StepPauses(w)
  PROVE  GateInv'
<1>0. /\ attempts \in [Steps -> Seq(Attempt)] /\ request \in [Steps -> RequestStatus] /\ run \in Run
      /\ NoStep \notin Steps
  BY StepsAssumption DEF TypeInv, TypeOK
<1>1. PICK s \in Steps, n \in DOMAIN attempts[exec[w].step] : s = exec[w].step /\ n = exec[w].row
  BY DEF StepPauses, TypeInv, Placed
<1>2. s = ResumeStep(run.cur)
  BY <1>0, <1>1 DEF StepPauses, MayAdvance, OwnInv, InPlace, InLoop
<1>3. Pending = {} /\ \A t \in Steps : WaitingRows(t) = {}
  BY DEF GateInv, StepPauses, MayAdvance
<1>4. run'.status = "WAITING_APPROVAL" /\ run'.cur = run.cur
  BY <1>0 DEF StepPauses, Run
<1>5. request' = [request EXCEPT ![s] = "PENDING"]
  <2>1. request' = [request EXCEPT ![s] = IF request[s] = "NONE" THEN "PENDING" ELSE request[s]]
    BY <1>1 DEF StepPauses
  <2>2. request[s] = "NONE"
    BY <1>1, <1>3 DEF StepPauses, MayRequestApproval, Pending
  <2> QED BY <2>1, <2>2
<1>6. Pending' = {s}
  BY <1>0, <1>3, <1>5 DEF Pending
<1>7. RowSet(s, n, "WAITING_APPROVAL")
  BY <1>1 DEF StepPauses, SetMyAttempt, RowSet
<1>8. WaitingRows(s)' = {n} /\ \A t \in Steps \ {s} : WaitingRows(t)' = {}
  BY <1>0, <1>1, <1>3, <1>7, WaitingAfterRowSet DEF AttemptStatus
<1> QED BY <1>2, <1>4, <1>6, <1>8 DEF GateInv

(* An approval closes the gate behind it.                                   *)
LEMMA ApprovalClosesGate ==
  ASSUME TypeInv, GateInv, NEW s \in Steps, Approve(s)
  PROVE  GateInv'
<1>0. attempts \in [Steps -> Seq(Attempt)] /\ request \in [Steps -> RequestStatus]
  BY DEF TypeInv, TypeOK
<1>1. /\ s \in Pending /\ run.status = "WAITING_APPROVAL" /\ run'.status = "QUEUED"
      /\ request' = [request EXCEPT ![s] = "APPROVED"]
  BY DEF Approve, Decidable, Pending
<1>2. /\ Pending = {s} /\ s = ResumeStep(run.cur)
      /\ \A t \in Steps \ {s} : WaitingRows(t) = {}
  BY <1>1 DEF GateInv
<1>3. PICK n \in WaitingRows(s) : WaitingRows(s) = {n}
  BY <1>1, <1>2 DEF GateInv
<1>4. LatestWaiting(s) = n /\ n \in DOMAIN attempts[s]
  <2>1. LatestWaiting(s) \in WaitingRows(s)
    BY <1>0, <1>3, LatestExists
  <2> QED BY <1>3, <2>1 DEF WaitingRows
<1>5. RowSet(s, n, "SUCCEEDED")
  BY <1>4 DEF Approve, RowSet
<1>6. \A t \in Steps : WaitingRows(t)' = {}
  BY <1>0, <1>2, <1>3, <1>4, <1>5, WaitingAfterRowSet DEF AttemptStatus
<1>7. Pending' = {}
  BY <1>0, <1>1, <1>2 DEF Pending
<1> QED BY <1>1, <1>6, <1>7 DEF GateInv

(* Every step keeps the gate invariant.                                     *)
LEMMA GateStep == TypeInv /\ OwnInv /\ GateInv /\ [Next]_vars => GateInv'
<1> SUFFICES ASSUME TypeInv, OwnInv, GateInv, [Next]_vars PROVE GateInv'
  OBVIOUS
<1>0. run \in Run /\ \A w \in Workers : exec[w] \in Execution
  BY DEF TypeInv, TypeOK
<1>1. ASSUME NEW w \in Workers, StepPauses(w) PROVE GateInv'
  BY <1>1, PauseOpensGate
<1>2. ASSUME NEW s \in Steps, Approve(s) PROVE GateInv'
  BY <1>2, ApprovalClosesGate
<1>3. ASSUME CancelWaiting \/ \E s \in Steps : Refuse(s, "REJECTED") \/ Refuse(s, "EXPIRED") PROVE GateInv'
  <2>1. run'.status \in {"CANCELLED", "REJECTED", "EXPIRED"}
    BY <1>0, <1>3 DEF CancelWaiting, Refuse, Run
  <2> QED BY <2>1 DEF GateInv
<1>4. CASE (\A w \in Workers : ~StepPauses(w)) /\ ~CancelWaiting /\ \A s \in Steps : ~Decision(s)
  <2>1. request' = request /\ \A s \in Steps : WaitingRows(s)' = WaitingRows(s)
    BY <1>4, WaitingUntouched
  <2>2. /\ run'.status = "WAITING_APPROVAL" => run' = run
        /\ run'.status \in {"QUEUED", "RUNNING", "CANCEL_REQUESTED"} =>
             run.status \in {"QUEUED", "RUNNING", "CANCEL_REQUESTED"}
    <3>1. CASE run' = run
      BY <3>1
    <3>2. ASSUME NEW w \in Workers, ClaimGrant(w) \/ StepSucceeds(w) \/ HeartbeatRenews(w)
          PROVE  run.status \in {"QUEUED", "RUNNING"} /\ run'.status = "RUNNING"
      BY <1>0, <3>2 DEF ClaimGrant, Claimable, StepSucceeds, MayAdvance, HeartbeatRenews, MayRenew, Run
    <3>3. ASSUME NEW w \in Workers, FinishRun(w), MayFinish(w) PROVE run'.status \in Verdict
      BY <1>0, <3>3 DEF FinishRun, Run, Execution
    <3>4. CASE LeaseTick \/ RequestCancel
      BY <1>0, <3>4 DEF LeaseTick, RequestCancel, Run
    <3> QED BY <1>4, <3>1, <3>2, <3>3, <3>4, RunChangedBy DEF Verdict
  <2>3. Pending' = Pending
    BY <2>1 DEF Pending
  <2>4. CASE run'.status = "WAITING_APPROVAL"
    <3>1. run' = run /\ ResumeStep(run.cur) \in Steps
      BY <1>0, <2>2, <2>4, StepsAssumption DEF ResumeStep, Run
    <3>2. PICK s \in Steps : s = ResumeStep(run.cur)
      BY <3>1
    <3>3. /\ Pending = {s} /\ \E n \in WaitingRows(s) : WaitingRows(s) = {n}
          /\ \A t \in Steps \ {s} : WaitingRows(t) = {}
      BY <2>4, <3>1, <3>2 DEF GateInv
    <3>4. /\ Pending' = {s} /\ \E n \in WaitingRows(s)' : WaitingRows(s)' = {n}
          /\ \A t \in Steps \ {s} : WaitingRows(t)' = {}
      BY <2>1, <2>3, <3>3
    <3>5. ResumeStep(run.cur)' = s
      BY <3>1, <3>2 DEF ResumeStep
    <3> QED BY <2>4, <3>4, <3>5 DEF GateInv
  <2>5. CASE run'.status # "WAITING_APPROVAL"
    BY <2>1, <2>2, <2>3, <2>5 DEF GateInv
  <2> QED BY <2>4, <2>5
<1> QED BY <1>1, <1>2, <1>3, <1>4 DEF Decision

(* A waiting run has exactly one pending request and one waiting attempt,   *)
(* both of its resume point, and no owner.                                  *)
THEOREM WaitingCorrect == Spec => []WaitingHasOneRequest
<1>1. OwnInv /\ GateInv => WaitingHasOneRequest
  BY DEF OwnInv, GateInv, Pending, WaitingHasOneRequest
<1> QED BY <1>1, TypeInit, TypeStep, OwnInit, OwnStep, GateInit, GateStep, PTL DEF Spec

-------------------------------------------------------------------------------
(* Fencing of success.                                                      *)

(* Writing one status makes at most that row succeed.                       *)
LEMMA SucceedsThere ==
  ASSUME attempts \in [Steps -> Seq(Attempt)],
         NEW t \in Steps, NEW m \in DOMAIN attempts[t], NEW st \in AttemptStatus, RowSet(t, m, st),
         NEW s \in Steps, NEW n \in DOMAIN attempts[s],
         attempts'[s][n].status = "SUCCEEDED", attempts[s][n].status # "SUCCEEDED"
  PROVE  st = "SUCCEEDED" /\ s = t /\ n = m
<1>1. attempts'[s][n] = IF s = t /\ n = m THEN [token |-> attempts[t][m].token, status |-> st] ELSE attempts[s][n]
  BY RowUpdate
<1>2. s = t /\ n = m
  BY <1>1
<1>3. attempts'[s][n].status = st
  BY <1>1, <1>2
<1> QED BY <1>2, <1>3

(* A row succeeds by its worker or by an approval of its step.              *)
LEMMA SucceedsBy ==
  ASSUME TypeInv, [Next]_vars, NEW s \in Steps, NEW n \in DOMAIN attempts[s],
         attempts'[s][n].status = "SUCCEEDED", attempts[s][n].status # "SUCCEEDED"
  PROVE  \/ \E w \in Workers : StepSucceeds(w) /\ s = exec[w].step /\ n = exec[w].row
         \/ Approve(s)
<1>0. /\ attempts \in [Steps -> Seq(Attempt)]
      /\ \A w \in Workers : Placed(exec[w], attempts, issued)
  BY DEF TypeInv, TypeOK
<1>1. CASE attempts' = attempts
  BY <1>1
<1>2. ASSUME NEW w \in Workers, InterruptStale(w) PROVE FALSE
  <2>1. attempts'[s][n] = attempts[s][n] \/ attempts'[s][n].status = "INTERRUPTED"
    BY <1>0, <1>2, InterruptedRows
  <2> QED BY <2>1
<1>3. ASSUME NEW w \in Workers, InsertAttempt(w) PROVE FALSE
  <2> DEFINE t == exec[w].step
             row == [token |-> exec[w].token, status |-> "RUNNING"]
  <2>1. t \in Steps /\ row \in Attempt
    BY <1>3, TypeInv DEF InsertAttempt, TypeInv, TypeOK, Placed, Active, Attempt, AttemptStatus, Execution, NoToken
  <2>2. attempts' = [attempts EXCEPT ![t] = Append(@, row)]
    BY <1>3 DEF InsertAttempt
  <2> HIDE DEF t, row
  <2>3. attempts'[s][n] = attempts[s][n]
    BY <1>0, <2>1, <2>2, RowInsert
  <2> QED BY <2>3
<1>4. ASSUME NEW w \in Workers, StepSucceeds(w) \/ StepPauses(w) \/ StepFails(w), attempts' # attempts
      PROVE  StepSucceeds(w) /\ s = exec[w].step /\ n = exec[w].row
  <2>1. PICK st \in AttemptStatus :
          RowSet(exec[w].step, exec[w].row, st) /\ (st = "SUCCEEDED" => StepSucceeds(w))
    BY <1>4 DEF StepSucceeds, StepPauses, StepFails, SetMyAttempt, RowSet, AttemptStatus
  <2>2. exec[w].step \in Steps /\ exec[w].row \in DOMAIN attempts[exec[w].step]
    BY <1>0, <1>4 DEF StepSucceeds, StepPauses, StepFails, Placed
  <2> QED BY <1>0, <2>1, <2>2, SucceedsThere
<1>5. ASSUME CancelWaiting PROVE FALSE
  <2>1. PICK t \in Steps : attempts' = attempts \/ SetWaitingRows(t, "CANCELLED")
    BY <1>5 DEF CancelWaiting
  <2>2. attempts'[s][n] = attempts[s][n] \/ attempts'[s][n].status = "CANCELLED"
    BY <1>0, <2>1, WaitingRowsSet
  <2> QED BY <2>2
<1>6. ASSUME NEW t \in Steps, Decision(t) PROVE Approve(s)
  <2>1. LatestWaiting(t) \in DOMAIN attempts[t]
    BY <1>0, <1>6, LatestExists DEF Decision, Approve, Refuse, Decidable, WaitingRows
  <2>2. PICK st \in AttemptStatus : RowSet(t, LatestWaiting(t), st) /\ (st = "SUCCEEDED" => Approve(t))
    BY <1>6 DEF Decision, Approve, Refuse, AttemptStatus, RowSet
  <2> QED BY <1>0, <2>1, <2>2, SucceedsThere
<1> QED BY <1>1, <1>2, <1>3, <1>4, <1>5, <1>6, RowsChangedBy

(* What SuccessIsFenced asks of one row in one step.                        *)
Fenced(s, n) ==
  /\ s = ResumeStep(run.cur)
  /\ run'.cur \in Edges[s]
  /\ \/ /\ run.status = "RUNNING" /\ run.lease \in {"live", "due"}
        /\ attempts[s][n].token = run.token
     \/ run.status = "WAITING_APPROVAL" /\ run.token = NoToken

(* Both ways to succeed are fenced.                                         *)
LEMMA SuccessStep ==
  ASSUME TypeInv, OwnInv, GateInv, [Next]_vars, NEW s \in Steps, NEW n \in DOMAIN attempts[s],
         attempts'[s][n].status = "SUCCEEDED", attempts[s][n].status # "SUCCEEDED"
  PROVE  Fenced(s, n)
<1>1. ASSUME NEW w \in Workers, StepSucceeds(w), s = exec[w].step, n = exec[w].row PROVE Fenced(s, n)
  <2>1. exec[w].pc = "executing" /\ OwnsRun(w) /\ run.status = "RUNNING" /\ run.lease \in {"live", "due"}
    BY <1>1 DEF StepSucceeds, MayAdvance
  <2>2. attempts[s][n].token = run.token
    BY <1>1, <2>1 DEF TypeInv, Placed, OwnsRun
  <2>3. s = ResumeStep(run.cur)
    BY <1>1, <2>1, StepsAssumption DEF OwnInv, InPlace, InLoop
  <2>4. run'.cur \in Edges[s]
    BY <1>1, SuccessEnters
  <2> QED BY <2>1, <2>2, <2>3, <2>4 DEF Fenced
<1>2. CASE Approve(s)
  <2>1. /\ run.status = "WAITING_APPROVAL" /\ s \in Pending
        /\ run'.cur \in Edges[s]
    BY <1>2 DEF Approve, Decidable, Pending
  <2>2. run.token = NoToken /\ s = ResumeStep(run.cur)
    BY <2>1 DEF OwnInv, GateInv
  <2> QED BY <2>1, <2>2 DEF Fenced
<1> QED BY <1>1, <1>2, SucceedsBy

(* An attempt succeeds only at the resume point, and only for the execution *)
(* whose token the run carries on a lease that still holds, or by the       *)
(* approval the run waits for.                                              *)
THEOREM SuccessCorrect == Spec => SuccessIsFenced
<1>1. TypeInv /\ OwnInv /\ GateInv /\ [Next]_vars =>
        [\A s \in Steps : \A n \in DOMAIN attempts[s] :
           attempts'[s][n].status = "SUCCEEDED" /\ attempts[s][n].status # "SUCCEEDED" =>
             /\ s = ResumeStep(run.cur)
             /\ run'.cur \in Edges[s]
             /\ \/ /\ run.status = "RUNNING" /\ run.lease \in {"live", "due"}
                   /\ attempts[s][n].token = run.token
                \/ run.status = "WAITING_APPROVAL" /\ run.token = NoToken]_vars
  BY SuccessStep DEF Fenced
<1> QED BY <1>1, TypeInit, TypeStep, OwnInit, OwnStep, GateInit, GateStep, PTL DEF Spec, SuccessIsFenced

-------------------------------------------------------------------------------
(* RunExecution implements RunLifecycle.                                    *)

Claiming == {"interrupting", "granting"}

(* What a claim remembers of a lease it saw strictly expired still holds,   *)
(* as long as the run carries the token it read.                            *)
LeaseInv ==
  \A w \in Workers :
    exec[w].pc \in Claiming /\ exec[w].strict /\ run.status = "RUNNING" /\ OwnsRun(w) => run.lease = "lapsed"

(* No claim is under way at first.                                          *)
LEMMA LeaseInit == Init => LeaseInv
  BY DEF Init, LeaseInv, Idle, Claiming

(* A claim that remembers an expired lease has read it in the run.          *)
LEMMA ClaimOrigins ==
  ASSUME TypeInv, [Next]_vars, NEW v \in Workers, exec'[v].pc \in Claiming, exec'[v].strict
  PROVE  \/ exec[v].pc \in Claiming /\ exec[v].strict /\ exec'[v].token = exec[v].token
         \/ run' = run /\ run.lease = "lapsed"
<1>0. exec \in [Workers -> Execution] /\ exec[v] \in Execution
  BY DEF TypeInv, TypeOK
<1>1. CASE exec'[v] = exec[v]
  BY <1>1
<1>2. CASE ClaimRead(v)
  <2>1. exec'[v].strict = (Stale /\ run.lease = "lapsed")
    BY <1>0, <1>2 DEF ClaimRead, Idle
  <2> QED BY <1>2, <2>1 DEF ClaimRead
<1>3. CASE InterruptStale(v)
  BY <1>0, <1>3 DEF InterruptStale, Execution, Claiming
<1>4. CASE ClaimGrant(v)
  <2>1. exec'[v].pc \in {"loop", "finishing"}
    BY <1>0, <1>4 DEF ClaimGrant, Idle
  <2> QED BY <2>1 DEF Claiming
<1>left. (Leave(v) => exec'[v].pc = "idle") /\ \A d : Settle(v, d) => exec'[v].pc = "finishing"
  <2>1. Leave(v) => exec'[v].pc = "idle"
    BY <1>0 DEF Leave, Idle
  <2>2. ASSUME NEW d, Settle(v, d) PROVE exec'[v].pc = "finishing"
    BY <1>0, <2>2 DEF Settle, Execution
  <2> QED BY <2>1, <2>2
<1>5. CASE ReadRun(v) \/ ReachEnd(v) \/ StepPauses(v) \/ StepFails(v)
  <2>1. \/ Leave(v) \/ (\E d : Settle(v, d))
        \/ exec' = [exec EXCEPT ![v].pc = "numbering"]
        \/ exec' = [exec EXCEPT ![v].pc = "loop", ![v].row = 0]
    BY <1>5 DEF ReadRun, ReachEnd, StepPauses, StepFails
  <2> QED BY <1>0, <1>left, <2>1 DEF Execution, Claiming
<1>6. CASE ReadLatestAttempt(v) \/ InsertAttempt(v) \/ StepSucceeds(v)
  <2>1. ReadLatestAttempt(v) => exec'[v].pc = "inserting"
    BY <1>0 DEF ReadLatestAttempt, Execution
  <2>2. InsertAttempt(v) => exec'[v].pc = "executing"
    BY <1>0 DEF InsertAttempt, Execution
  <2>3. StepSucceeds(v) => exec'[v].pc = "loop"
    BY <1>0 DEF StepSucceeds, Execution
  <2> QED BY <1>6, <2>1, <2>2, <2>3 DEF Claiming
<1>7. CASE HeartbeatFails(v) \/ WatcherSeesCancel(v) \/ TotalTimeout(v)
  <2>1. /\ exec[v].pc \in InLoop
        /\ exec' \in {[exec EXCEPT ![v].lost = TRUE], [exec EXCEPT ![v].cancel = TRUE], [exec EXCEPT ![v].timedOut = TRUE]}
    BY <1>7 DEF HeartbeatFails, WatcherSeesCancel, TotalTimeout, Watched, InLoop
  <2> QED BY <1>0, <2>1 DEF Execution, InLoop, Claiming
<1>8. CASE ClaimRefused(v) \/ InsertConflict(v) \/ AdvanceFails(v) \/ FinishRun(v) \/ Crash(v)
  BY <1>left, <1>8 DEF ClaimRefused, InsertConflict, AdvanceFails, FinishRun, Crash, Leave, Claiming
<1>9. ASSUME NEW w \in Workers, w # v, WorkerStep(w) \/ ClaimRead(w) \/ Timers(w) \/ Crash(w)
      PROVE  exec'[v] = exec[v]
  BY <1>0, <1>9, OthersStay
<1>10. CASE HeartbeatRenews(v) \/ LeaseTick \/ RequestCancel \/ CancelWaiting \/ UNCHANGED vars
  BY <1>10, <1>1 DEF HeartbeatRenews, LeaseTick, RequestCancel, CancelWaiting, vars
<1>11. ASSUME NEW s \in Steps, Decision(s) PROVE exec'[v] = exec[v]
  BY <1>11 DEF Decision, Approve, Refuse
<1> QED BY <1>1, <1>2, <1>3, <1>4, <1>5, <1>6, <1>7, <1>8, <1>9, <1>10, <1>11 DEF Next, WorkerStep, Timers

(* Every step keeps what claims remember: only a new token revives a lease. *)
LEMMA LeaseStep == TypeInv /\ LeaseInv /\ [Next]_vars => LeaseInv'
<1> SUFFICES ASSUME TypeInv, LeaseInv, [Next]_vars, NEW v \in Workers,
                    exec'[v].pc \in Claiming, exec'[v].strict, run'.status = "RUNNING", run'.token = exec'[v].token
             PROVE  run'.lease = "lapsed"
  BY DEF LeaseInv, OwnsRun
<1>0. run \in Run /\ \A w \in Workers : exec[w] \in Execution
  BY DEF TypeInv, TypeOK
<1>1. CASE run' = run /\ run.lease = "lapsed"
  BY <1>1
<1>2. CASE exec[v].pc \in Claiming /\ exec[v].strict /\ exec'[v].token = exec[v].token
  <2>1. run.status = "RUNNING" /\ run.token = exec[v].token => run.lease = "lapsed"
    BY <1>2 DEF LeaseInv, OwnsRun
  <2>2. CASE run' = run
    BY <1>2, <2>1, <2>2
  <2>3. ASSUME NEW w \in Workers, ClaimGrant(w) PROVE FALSE
    <3>1. run'.token = issued'
      BY <1>0, <2>3 DEF ClaimGrant, Run
    <3> QED BY <1>2, <2>3, <3>1, Fresh
  <2>4. ASSUME NEW w \in Workers, StepSucceeds(w) \/ HeartbeatRenews(w) PROVE FALSE
    <3>1. run.status = "RUNNING" /\ run.lease \in {"live", "due"} /\ run'.token = run.token
      BY <1>0, <2>4 DEF StepSucceeds, MayAdvance, HeartbeatRenews, MayRenew, Run
    <3> QED BY <1>2, <2>1, <3>1
  <2>8. ~LeaseTick
    <3>1. LeaseTick => run.status = "RUNNING" /\ run.lease \in {"live", "due"} /\ run'.token = run.token
      BY <1>0 DEF LeaseTick, Run
    <3> QED BY <1>2, <2>1, <3>1
  <2>5. ASSUME NEW w \in Workers, StepPauses(w) \/ (FinishRun(w) /\ MayFinish(w)) PROVE FALSE
    <3>1. StepPauses(w) => run'.status = "WAITING_APPROVAL"
      BY <1>0 DEF StepPauses, Run
    <3>2. FinishRun(w) /\ MayFinish(w) => run'.status \in Verdict
      BY <1>0 DEF FinishRun, Run, Execution
    <3> QED BY <2>5, <3>1, <3>2 DEF Verdict
  <2>6. ~RequestCancel /\ ~CancelWaiting
    <3>1. RequestCancel => run'.status = "CANCEL_REQUESTED"
      BY <1>0 DEF RequestCancel, Run
    <3>2. CancelWaiting => run'.status = "CANCELLED"
      BY <1>0 DEF CancelWaiting, Run
    <3> QED BY <3>1, <3>2
  <2>7. ASSUME NEW s \in Steps, Decision(s) PROVE FALSE
    <3>1. Approve(s) => run'.status = "QUEUED"
      BY DEF Approve
    <3>2. ASSUME NEW st, Refuse(s, st) PROVE run'.status = st
      BY <1>0, <3>2 DEF Refuse, Run
    <3> QED BY <2>7, <3>1, <3>2 DEF Decision
  <2> QED BY <2>2, <2>3, <2>4, <2>5, <2>6, <2>7, <2>8, RunChangedBy
<1> QED BY <1>1, <1>2, ClaimOrigins

(* Every step of the execution is a step of the lifecycle, or none.         *)
LEMMA LifecycleStep ==
  ASSUME TypeInv, LeaseInv, [Next]_vars
  PROVE  [Lifecycle!Next]_(Lifecycle!lifecycleVars)
<1>0. run \in Run /\ \A w \in Workers : exec[w] \in Execution /\ Placed(exec[w], attempts, issued)
  BY DEF TypeInv, TypeOK
<1>1. ASSUME NEW w \in Workers, ClaimGrant(w) PROVE Lifecycle!Claim
  <2>1. run.status = "QUEUED" \/ (run.status = "RUNNING" /\ run.lease = "lapsed")
    BY <1>1 DEF ClaimGrant, Claimable, LeaseInv, OwnsRun, Claiming
  <2> QED BY <1>0, <1>1, <2>1 DEF ClaimGrant, Run, Lifecycle!Claim
<1>2. ASSUME \A w \in Workers : ~ClaimGrant(w) PROVE issued' = issued
  <2>1. ASSUME NEW w \in Workers, WorkerStep(w) PROVE issued' = issued
    BY <1>2, <2>1 DEF WorkerStep, InterruptStale, ClaimRefused, ReadRun, ReadLatestAttempt, InsertAttempt,
                InsertConflict, StepSucceeds, StepPauses, AdvanceFails, StepFails, ReachEnd, FinishRun
  <2>2. ASSUME NEW w \in Workers, ClaimRead(w) \/ Timers(w) \/ Crash(w) PROVE issued' = issued
    BY <2>2 DEF ClaimRead, Timers, HeartbeatRenews, HeartbeatFails, WatcherSeesCancel, TotalTimeout, Crash
  <2>3. CASE LeaseTick \/ RequestCancel \/ CancelWaiting \/ UNCHANGED vars
    BY <2>3 DEF LeaseTick, RequestCancel, CancelWaiting, vars
  <2>4. ASSUME NEW s \in Steps, Decision(s) PROVE issued' = issued
    BY <2>4 DEF Decision, Approve, Refuse
  <2> QED BY <2>1, <2>2, <2>3, <2>4 DEF Next
<1>3. ASSUME NEW w \in Workers, StepSucceeds(w)
      PROVE  run'.status = run.status /\ run'.token = run.token /\ run'.lease = run.lease
  BY <1>0, <1>3 DEF StepSucceeds, Run
<1>4. ASSUME NEW w \in Workers, StepPauses(w), issued' = issued PROVE Lifecycle!Pause
  BY <1>0, <1>4 DEF StepPauses, MayAdvance, Run, Lifecycle!Pause, Lifecycle!NoToken, NoToken
<1>5. ASSUME NEW w \in Workers, FinishRun(w), MayFinish(w), issued' = issued
      PROVE  \E verdict \in {"COMPLETED", "FAILED", "CANCELLED", "TIMED_OUT"} : Lifecycle!Finish(verdict)
  <2>1. exec[w].verdict \in {"COMPLETED", "FAILED", "CANCELLED", "TIMED_OUT"}
    BY <1>0, <1>5 DEF FinishRun, Placed, Execution, Verdict
  <2>2. Lifecycle!Finish(exec[w].verdict)
    BY <1>0, <1>5 DEF FinishRun, MayFinish, Run, Lifecycle!Finish
  <2> QED BY <2>1, <2>2
<1>6. ASSUME NEW w \in Workers, HeartbeatRenews(w) PROVE Lifecycle!Renew
  BY <1>0, <1>6 DEF HeartbeatRenews, MayRenew, Run, Lifecycle!Renew
<1>7. LeaseTick => Lifecycle!LeaseTick
  BY <1>0 DEF LeaseTick, Run, Lifecycle!LeaseTick
<1>8. RequestCancel => Lifecycle!RequestCancel
  BY <1>0 DEF RequestCancel, Run, Lifecycle!RequestCancel
<1>9. CancelWaiting => Lifecycle!Close("CANCELLED")
  BY <1>0 DEF CancelWaiting, Run, Lifecycle!Close, Lifecycle!NoToken, NoToken
<1>10. ASSUME NEW s \in Steps, Approve(s) PROVE Lifecycle!Resume
  BY <1>0, <1>10 DEF Approve, Decidable, Run, Lifecycle!Resume, Lifecycle!NoToken, NoToken
<1>11. ASSUME NEW s \in Steps, NEW st, Refuse(s, st) PROVE Lifecycle!Close(st)
  BY <1>0, <1>11 DEF Refuse, Decidable, Run, Lifecycle!Close, Lifecycle!NoToken, NoToken
<1>12. CASE \E w \in Workers : ClaimGrant(w)
  BY <1>1, <1>12 DEF Lifecycle!Next
<1>13. CASE \A w \in Workers : ~ClaimGrant(w)
  <2>1. issued' = issued
    BY <1>2, <1>13
  <2>2. CASE run' = run \/ \E w \in Workers : StepSucceeds(w)
    BY <1>3, <2>1, <2>2 DEF Lifecycle!lifecycleVars
  <2>3. CASE \E w \in Workers : StepPauses(w) \/ (FinishRun(w) /\ MayFinish(w)) \/ HeartbeatRenews(w)
    BY <1>4, <1>5, <1>6, <2>1, <2>3 DEF Lifecycle!Next
  <2>4. CASE LeaseTick \/ RequestCancel \/ CancelWaiting
    BY <1>7, <1>8, <1>9, <2>4 DEF Lifecycle!Next
  <2>5. CASE \E s \in Steps : Decision(s)
    BY <1>10, <1>11, <2>5 DEF Decision, Lifecycle!Next
  <2> QED BY <1>13, <2>2, <2>3, <2>4, <2>5, RunChangedBy
<1> QED BY <1>12, <1>13

(* The run rows that workers, approvers and cancellations write together    *)
(* follow the lifecycle the other components rely on.                       *)
THEOREM LifecycleCorrect == Spec => ImplementsLifecycle
<1>1. Init => Lifecycle!Init
  BY DEF Init, Lifecycle!Init, Lifecycle!NoToken, NoToken
<1>2. TypeInv /\ LeaseInv /\ [Next]_vars => [Lifecycle!Next]_(Lifecycle!lifecycleVars)
  BY LifecycleStep
<1> QED BY <1>1, <1>2, TypeInit, TypeStep, LeaseInit, LeaseStep, PTL DEF Spec, ImplementsLifecycle, Lifecycle!Spec

-------------------------------------------------------------------------------
(* Attempts of an execution.                                                *)

(* The rows that the execution with token t has created.                    *)
CreatedBy(t, s) == {n \in DOMAIN attempts[s] : attempts[s][n].token = t}
AllBy(t) == UNION {{<<s, n>> : n \in CreatedBy(t, s)} : s \in Steps}

WithinPolicy(t) ==
  /\ IsFiniteSet(AllBy(t)) /\ Cardinality(AllBy(t)) <= MaxSteps
  /\ \A s \in Steps : Cardinality(CreatedBy(t, s)) <= MaxRetries + 1

(* What an execution with token t that is at pc in step s may still spend:  *)
(* it has left the steps before s behind, may try s again, and has been     *)
(* counted when it goes on.                                                 *)
Budget(before, t, s, pc) ==
  /\ \A u \in Steps : CreatedBy(t, u) # {} => s = NoStep \/ u = s \/ <<u, s>> \in before
  /\ s \in Steps /\ pc # "executing" => Cardinality(CreatedBy(t, s)) <= MaxRetries
  /\ pc \in {"numbering", "inserting"} => Cardinality(AllBy(t)) < MaxSteps

HasBudget(before, w) == Budget(before, exec[w].token, exec[w].step, exec[w].pc)

BudgetInv(before) ==
  /\ \A t \in Token : WithinPolicy(t)
  /\ \A t \in Token, s \in Steps : t > issued => CreatedBy(t, s) = {}
  /\ \A w \in Workers : exec[w].pc \in InLoop => HasBudget(before, w)

(* The rows of an execution, one by one.                                    *)
LEMMA AllAre == \A t, p : p \in AllBy(t) <=> \E s \in Steps : \E n \in CreatedBy(t, s) : p = <<s, n>>
BY DEF AllBy

(* The rows of an execution for one step are finitely many.                 *)
LEMMA CreatedAreFew ==
  ASSUME TypeInv, NEW t, NEW s \in Steps
  PROVE  /\ IsFiniteSet(CreatedBy(t, s)) /\ Cardinality(CreatedBy(t, s)) \in Nat
         /\ CreatedBy(t, s) \subseteq 1..Len(attempts[s]) /\ Len(attempts[s]) \in Nat
<1>1. Len(attempts[s]) \in Nat /\ DOMAIN attempts[s] = 1..Len(attempts[s])
  BY LenProperties DEF TypeInv, TypeOK
<1>2. IsFiniteSet(1..Len(attempts[s])) /\ CreatedBy(t, s) \in SUBSET (1..Len(attempts[s]))
  BY <1>1, FS_Interval DEF CreatedBy
<1> QED BY <1>1, <1>2, FS_Subset, FS_CardinalityType

(* A step that inserts nothing leaves every row to the execution that       *)
(* created it.                                                              *)
LEMMA CreatedStays ==
  ASSUME TypeInv, [Next]_vars, \A w \in Workers : ~InsertAttempt(w)
  PROVE  /\ \A t : \A s \in Steps : CreatedBy(t, s)' = CreatedBy(t, s)
         /\ \A t : AllBy(t)' = AllBy(t)
<1>0. /\ attempts \in [Steps -> Seq(Attempt)]
      /\ \A w \in Workers : Placed(exec[w], attempts, issued)
  BY DEF TypeInv, TypeOK
<1> DEFINE Kept == \A s \in Steps : /\ DOMAIN attempts'[s] = DOMAIN attempts[s]
                                    /\ \A n \in DOMAIN attempts[s] : attempts'[s][n].token = attempts[s][n].token
<1>1. ASSUME attempts' = attempts PROVE Kept
  BY <1>1
<1>2. ASSUME NEW w \in Workers, InterruptStale(w) PROVE Kept
  BY <1>0, <1>2, InterruptedRows
<1>set. ASSUME NEW s \in Steps, NEW n \in DOMAIN attempts[s], NEW st \in AttemptStatus, RowSet(s, n, st)
        PROVE  Kept
  <2>1. \A t \in Steps : DOMAIN attempts'[t] = DOMAIN attempts[t]
    BY <1>0, <1>set, RowUpdate
  <2>2. RowsKeepTokens
    BY <1>0, <1>set, RowUpdateKeepsTokens
  <2> QED BY <2>1, <2>2 DEF RowsKeepTokens
<1>3. ASSUME NEW w \in Workers, StepSucceeds(w) \/ StepPauses(w) \/ StepFails(w), attempts' # attempts
      PROVE  Kept
  <2>1. /\ exec[w].step \in Steps /\ exec[w].row \in DOMAIN attempts[exec[w].step]
        /\ \E st \in AttemptStatus : RowSet(exec[w].step, exec[w].row, st)
    BY <1>0, <1>3 DEF StepSucceeds, StepPauses, StepFails, MayAdvance, MayFailAttempt, MyAttempt, SetMyAttempt,
                      RowSet, AttemptStatus, Placed
  <2> HIDE DEF Kept
  <2> QED BY <1>set, <2>1
<1>4. ASSUME CancelWaiting PROVE Kept
  BY <1>0, <1>4, WaitingRowsSet DEF CancelWaiting
<1>5. ASSUME NEW s \in Steps, Decision(s) PROVE Kept
  <2>1. LatestWaiting(s) \in DOMAIN attempts[s]
    BY <1>0, <1>5, LatestExists DEF Decision, Approve, Refuse, Decidable, WaitingRows
  <2>2. \E st \in AttemptStatus : RowSet(s, LatestWaiting(s), st)
    BY <1>5 DEF Decision, Approve, Refuse, AttemptStatus, RowSet
  <2> HIDE DEF Kept
  <2> QED BY <1>set, <2>1, <2>2
<1>6. Kept
  <2> HIDE DEF Kept
  <2> QED BY <1>1, <1>2, <1>3, <1>4, <1>5, RowsChangedBy
<1>7. ASSUME NEW t, NEW s \in Steps PROVE CreatedBy(t, s)' = CreatedBy(t, s)
  BY <1>6 DEF CreatedBy
<1>8. ASSUME NEW t PROVE AllBy(t)' = AllBy(t)
  BY <1>7 DEF AllBy
<1> QED BY <1>7, <1>8

(* An insert gives one row to the execution that makes it.                  *)
LEMMA CreatedByInsert ==
  ASSUME TypeInv, NEW w \in Workers, InsertAttempt(w), NEW t, t = exec[w].token, NEW s, s = exec[w].step
  PROVE  /\ t \in Token /\ s \in Steps
         /\ \E n : /\ n \notin CreatedBy(t, s)
                  /\ CreatedBy(t, s)' = CreatedBy(t, s) \cup {n}
                  /\ AllBy(t)' = AllBy(t) \cup {<<s, n>>} /\ <<s, n>> \notin AllBy(t)
         /\ \A t2 : \A s2 \in Steps : t2 # t \/ s2 # s => CreatedBy(t2, s2)' = CreatedBy(t2, s2)
         /\ \A t2 : t2 # t => AllBy(t2)' = AllBy(t2)
<1> DEFINE row == [token |-> t, status |-> "RUNNING"]
<1>1. s \in Steps /\ t \in Token
  BY DEF InsertAttempt, TypeInv, TypeOK, Placed, Active, Execution, NoToken
<1>2. /\ attempts \in [Steps -> Seq(Attempt)] /\ row \in Attempt
      /\ attempts' = [attempts EXCEPT ![s] = Append(@, row)]
  BY <1>1 DEF InsertAttempt, TypeInv, TypeOK, Attempt, AttemptStatus
<1>3. row.token = t
  OBVIOUS
<1> HIDE DEF row
<1>4. /\ attempts' \in [Steps -> Seq(Attempt)]
      /\ \A u \in Steps : Len(attempts'[u]) = Len(attempts[u]) + (IF u = s THEN 1 ELSE 0)
      /\ \A u \in Steps : \A m \in DOMAIN attempts[u] :
           m \in DOMAIN attempts'[u] /\ attempts'[u][m] = attempts[u][m]
      /\ attempts'[s][Len(attempts[s]) + 1] = row
  BY <1>1, <1>2, RowInsert
<1>5. ASSUME NEW u \in Steps
      PROVE  /\ Len(attempts[u]) \in Nat /\ DOMAIN attempts[u] = 1..Len(attempts[u])
             /\ DOMAIN attempts'[u] = 1..Len(attempts'[u])
  BY <1>2, <1>4, LenProperties
<1>6. PICK n : n = Len(attempts[s]) + 1
  OBVIOUS
<1>7. /\ n \notin DOMAIN attempts[s] /\ DOMAIN attempts'[s] = DOMAIN attempts[s] \cup {n}
      /\ attempts'[s][n].token = t
  <2>1. Len(attempts'[s]) = n /\ n = Len(attempts[s]) + 1
    BY <1>1, <1>4, <1>6
  <2>2. /\ Len(attempts[s]) \in Nat /\ DOMAIN attempts[s] = 1..Len(attempts[s])
        /\ DOMAIN attempts'[s] = 1..n
    BY <1>1, <1>5, <2>1
  <2> QED BY <1>3, <1>4, <1>6, <2>1, <2>2
<1>8. ASSUME NEW u \in Steps, u # s PROVE DOMAIN attempts'[u] = DOMAIN attempts[u]
  <2>1. Len(attempts[u]) \in Nat /\ Len(attempts'[u]) = Len(attempts[u]) + 0
    BY <1>4, <1>5, <1>8
  <2>2. Len(attempts'[u]) = Len(attempts[u])
    BY <2>1
  <2> QED BY <1>5, <2>2
<1>9. \A u \in Steps : \A m \in DOMAIN attempts[u] : attempts'[u][m].token = attempts[u][m].token
  BY <1>4
<1>10. CreatedBy(t, s)' = CreatedBy(t, s) \cup {n} /\ n \notin CreatedBy(t, s)
  BY <1>1, <1>7, <1>9 DEF CreatedBy
<1>11. ASSUME NEW t2, NEW s2 \in Steps, t2 # t \/ s2 # s PROVE CreatedBy(t2, s2)' = CreatedBy(t2, s2)
  <2>1. CASE s2 # s
    BY <1>8, <1>9, <2>1 DEF CreatedBy
  <2>2. CASE s2 = s /\ t2 # t
    BY <1>1, <1>7, <1>9, <2>2 DEF CreatedBy
  <2> QED BY <1>11, <2>1, <2>2
<1>12. ASSUME NEW t2, t2 # t PROVE AllBy(t2)' = AllBy(t2)
  BY <1>11, <1>12 DEF AllBy
<1>13. <<s, n>> \notin AllBy(t)
  BY <1>10, AllAre
<1>14. AllBy(t)' = AllBy(t) \cup {<<s, n>>}
  <2>1. ASSUME NEW p PROVE p \in AllBy(t)' <=> \E u \in Steps : \E m \in CreatedBy(t, u)' : p = <<u, m>>
    BY DEF AllBy
  <2>2. ASSUME NEW p
        PROVE  (\E u \in Steps : \E m \in CreatedBy(t, u)' : p = <<u, m>>) <=>
                 p = <<s, n>> \/ \E u \in Steps : \E m \in CreatedBy(t, u) : p = <<u, m>>
    BY <1>1, <1>10, <1>11
  <2>3. ASSUME NEW p PROVE p \in AllBy(t)' <=> p \in AllBy(t) \cup {<<s, n>>}
    BY <2>1, <2>2, AllAre
  <2> QED BY <2>3
<1> QED BY <1>1, <1>10, <1>11, <1>12, <1>13, <1>14

(* How an execution gets to its next place in the loop.                     *)
LEMMA LoopMoves ==
  ASSUME TypeInv, [Next]_vars, NEW v \in Workers, exec'[v].pc \in InLoop
  PROVE  \/ /\ exec[v].pc \in InLoop /\ ~InsertAttempt(v)
            /\ exec'[v].token = exec[v].token /\ exec'[v].step = exec[v].step
            /\ \/ exec'[v].pc = exec[v].pc
               \/ exec'[v].pc = "numbering" /\ exec[v].pc = "loop" /\ ~(StepCount(v) >= MaxSteps)
               \/ exec'[v].pc = "inserting" /\ exec[v].pc = "numbering"
               \/ exec'[v].pc = "loop" /\ exec[v].pc = "executing" /\ RetryAllowed(v)
         \/ /\ InsertAttempt(v) /\ exec[v].pc = "inserting" /\ exec'[v].pc = "executing"
            /\ exec'[v].token = exec[v].token /\ exec'[v].step = exec[v].step
         \/ ClaimGrant(v) /\ exec'[v].token = issued' /\ exec'[v].pc = "loop"
         \/ /\ StepSucceeds(v) /\ exec[v].pc = "executing" /\ exec'[v].pc = "loop"
            /\ exec'[v].token = exec[v].token /\ exec'[v].step \in Edges[exec[v].step]
<1>0. exec \in [Workers -> Execution] /\ exec[v] \in Execution /\ Idle.pc = "idle"
  BY DEF TypeInv, TypeOK, Idle
<1>left. (Leave(v) => exec'[v].pc = "idle") /\ \A d : Settle(v, d) => exec'[v].pc = "finishing"
  <2>1. Leave(v) => exec'[v].pc = "idle"
    BY <1>0 DEF Leave
  <2>2. ASSUME NEW d, Settle(v, d) PROVE exec'[v].pc = "finishing"
    BY <1>0, <2>2 DEF Settle, Execution
  <2> QED BY <2>1, <2>2
<1>1. CASE exec'[v] = exec[v]
  <2>1. ~InsertAttempt(v)
    BY <1>0, <1>1 DEF InsertAttempt, Execution
  <2> QED BY <1>1, <2>1
<1>2. CASE ClaimRead(v) \/ InterruptStale(v)
  <2>1. exec'[v].pc \in {"interrupting", "granting"}
    <3>1. CASE ClaimRead(v)
      BY <1>0, <3>1 DEF ClaimRead, Idle
    <3>2. CASE InterruptStale(v)
      BY <1>0, <3>2 DEF InterruptStale, Execution
    <3> QED BY <1>2, <3>1, <3>2
  <2> QED BY <2>1 DEF InLoop
<1>3. CASE ClaimGrant(v)
  <2>1. PICK found \in BOOLEAN : exec' = [exec EXCEPT ![v] =
         [Idle EXCEPT !.token = issued', !.step = ResumeStep(run.cur),
                      !.pc = IF found THEN "loop" ELSE "finishing",
                      !.verdict = IF found THEN "NONE" ELSE "FAILED"]]
    BY <1>3 DEF ClaimGrant
  <2>2. exec'[v].token = issued' /\ exec'[v].pc = IF found THEN "loop" ELSE "finishing"
    BY <1>0, <2>1 DEF Idle
  <2> QED BY <1>3, <2>2 DEF InLoop
<1>4. CASE ReadRun(v)
  <2>1. /\ exec[v].pc = "loop"
        /\ \/ Leave(v) \/ (\E d : Settle(v, d))
           \/ ~(StepCount(v) >= MaxSteps) /\ exec' = [exec EXCEPT ![v].pc = "numbering"]
    BY <1>4 DEF ReadRun
  <2>2. ~InsertAttempt(v)
    BY <2>1 DEF InsertAttempt
  <2>3. exec' = [exec EXCEPT ![v].pc = "numbering"] =>
          /\ exec'[v].pc = "numbering" /\ exec'[v].token = exec[v].token /\ exec'[v].step = exec[v].step
    BY <1>0 DEF Execution
  <2> QED BY <1>left, <2>1, <2>2, <2>3 DEF InLoop
<1>5. CASE ReachEnd(v)
  <2>1. Leave(v) \/ \E d : Settle(v, d)
    BY <1>5 DEF ReachEnd
  <2> QED BY <1>left, <2>1 DEF InLoop
<1>6. CASE ReadLatestAttempt(v)
  <2>1. exec[v].pc = "numbering" /\ ~InsertAttempt(v)
    BY <1>6 DEF ReadLatestAttempt, InsertAttempt
  <2>2. exec'[v].pc = "inserting" /\ exec'[v].token = exec[v].token /\ exec'[v].step = exec[v].step
    BY <1>0, <1>6 DEF ReadLatestAttempt, Execution
  <2> QED BY <2>1, <2>2 DEF InLoop
<1>7. CASE InsertAttempt(v)
  <2>1. /\ exec[v].pc = "inserting" /\ exec'[v].pc = "executing"
        /\ exec'[v].token = exec[v].token /\ exec'[v].step = exec[v].step
    BY <1>0, <1>7 DEF InsertAttempt, Execution
  <2> QED BY <1>7, <2>1
<1>8. CASE StepSucceeds(v)
  <2>1. PICK next \in Edges[exec[v].step] :
          exec' = [exec EXCEPT ![v].pc = "loop", ![v].step = next, ![v].row = 0]
    BY <1>8 DEF StepSucceeds
  <2>2. exec'[v].step = next /\ exec'[v].pc = "loop" /\ exec'[v].token = exec[v].token
    BY <1>0, <2>1 DEF Execution
  <2>3. exec[v].pc = "executing"
    BY <1>8 DEF StepSucceeds
  <2> QED BY <1>8, <2>2, <2>3
<1>9. CASE StepPauses(v)
  BY <1>left, <1>9 DEF StepPauses, InLoop
<1>10. CASE StepFails(v)
  <2>1. PICK retryable \in BOOLEAN :
          \/ Leave(v) \/ (\E d : Settle(v, d))
          \/ /\ FailureOutcome(v, retryable) = "RETRY"
             /\ exec' = [exec EXCEPT ![v].pc = "loop", ![v].row = 0]
    BY <1>10 DEF StepFails
  <2>2. FailureOutcome(v, retryable) = "RETRY" => RetryAllowed(v)
    BY DEF FailureOutcome
  <2>3. exec[v].pc = "executing" /\ ~InsertAttempt(v)
    BY <1>10 DEF StepFails, InsertAttempt
  <2>4. exec' = [exec EXCEPT ![v].pc = "loop", ![v].row = 0] =>
          exec'[v].pc = "loop" /\ exec'[v].token = exec[v].token /\ exec'[v].step = exec[v].step
    BY <1>0 DEF Execution
  <2> QED BY <1>left, <2>1, <2>2, <2>3, <2>4 DEF InLoop
<1>11. CASE HeartbeatFails(v) \/ WatcherSeesCancel(v) \/ TotalTimeout(v)
  <2>1. /\ exec[v].pc \in InLoop
        /\ exec' \in {[exec EXCEPT ![v].lost = TRUE], [exec EXCEPT ![v].cancel = TRUE], [exec EXCEPT ![v].timedOut = TRUE]}
    BY <1>11 DEF HeartbeatFails, WatcherSeesCancel, TotalTimeout, Watched, InLoop
  <2>2. exec'[v].pc = exec[v].pc /\ exec'[v].token = exec[v].token /\ exec'[v].step = exec[v].step
    BY <1>0, <2>1 DEF Execution
  <2>3. ~InsertAttempt(v)
    BY <1>0, <2>2 DEF InsertAttempt, Execution
  <2> QED BY <2>1, <2>2, <2>3
<1>12. CASE ClaimRefused(v) \/ InsertConflict(v) \/ AdvanceFails(v) \/ FinishRun(v) \/ Crash(v)
  BY <1>0, <1>12 DEF ClaimRefused, InsertConflict, AdvanceFails, FinishRun, Crash, Leave, InLoop
<1>13. ASSUME NEW w \in Workers, w # v, WorkerStep(w) \/ ClaimRead(w) \/ Timers(w) \/ Crash(w)
       PROVE  exec'[v] = exec[v]
  BY <1>0, <1>13, OthersStay
<1>14. CASE HeartbeatRenews(v) \/ LeaseTick \/ RequestCancel \/ CancelWaiting \/ UNCHANGED vars
  <2>1. exec'[v] = exec[v]
    BY <1>14 DEF HeartbeatRenews, LeaseTick, RequestCancel, CancelWaiting, vars
  <2> QED BY <1>1, <2>1
<1>15. ASSUME NEW s \in Steps, Decision(s) PROVE exec'[v] = exec[v]
  BY <1>15 DEF Decision, Approve, Refuse
<1> QED BY <1>1, <1>2, <1>3, <1>4, <1>5, <1>6, <1>7, <1>8, <1>9, <1>10, <1>11, <1>12, <1>13, <1>14, <1>15
        DEF Next, WorkerStep, Timers

(* An execution stays within the policy, by what it may still spend.        *)
LEMMA PolicyStep ==
  ASSUME TypeInv, NEW before, BudgetInv(before), [Next]_vars, NEW t \in Token
  PROVE  WithinPolicy(t)'
<1>1. WithinPolicy(t)
  BY DEF BudgetInv
<1>2. CASE \A w \in Workers : ~InsertAttempt(w)
  BY <1>1, <1>2, CreatedStays DEF WithinPolicy
<1>3. ASSUME NEW w \in Workers, InsertAttempt(w) PROVE WithinPolicy(t)'
  <2>1. CASE t # exec[w].token
    BY <1>1, <1>3, <2>1, CreatedByInsert DEF WithinPolicy
  <2>2. CASE t = exec[w].token
    <3>1. PICK s : s = exec[w].step
      OBVIOUS
    <3>2. exec[w].pc = "inserting"
      BY <1>3 DEF InsertAttempt
    <3>3. PICK n : /\ CreatedBy(t, s)' = CreatedBy(t, s) \cup {n} /\ n \notin CreatedBy(t, s)
                   /\ AllBy(t)' = AllBy(t) \cup {<<s, n>>} /\ <<s, n>> \notin AllBy(t)
      BY <1>3, <2>2, <3>1, CreatedByInsert
    <3>4. s \in Steps /\ \A s2 \in Steps : s2 # s => CreatedBy(t, s2)' = CreatedBy(t, s2)
      BY <1>3, <2>2, <3>1, CreatedByInsert
    <3>5. Cardinality(CreatedBy(t, s)) <= MaxRetries /\ Cardinality(AllBy(t)) < MaxSteps
      BY <2>2, <3>1, <3>2, <3>4 DEF BudgetInv, HasBudget, Budget, InLoop
    <3>6. IsFiniteSet(AllBy(t)) /\ Cardinality(AllBy(t)) \in Nat
      BY <1>1, FS_CardinalityType DEF WithinPolicy
    <3>7. IsFiniteSet(CreatedBy(t, s)) /\ Cardinality(CreatedBy(t, s)) \in Nat
      BY <3>4, CreatedAreFew
    <3>8. /\ IsFiniteSet(AllBy(t) \cup {<<s, n>>})
          /\ Cardinality(AllBy(t) \cup {<<s, n>>}) = Cardinality(AllBy(t)) + 1
      BY <3>3, <3>6, FS_AddElement
    <3>9. Cardinality(CreatedBy(t, s) \cup {n}) = Cardinality(CreatedBy(t, s)) + 1
      BY <3>3, <3>7, FS_AddElement
    <3>10. IsFiniteSet(AllBy(t)') /\ Cardinality(AllBy(t)') <= MaxSteps
      BY <3>3, <3>5, <3>6, <3>8, BoundsAssumption
    <3>11. Cardinality(CreatedBy(t, s)') <= MaxRetries + 1
      BY <3>3, <3>5, <3>7, <3>9, BoundsAssumption
    <3>12. ASSUME NEW s2 \in Steps PROVE Cardinality(CreatedBy(t, s2)') <= MaxRetries + 1
      BY <1>1, <3>4, <3>11 DEF WithinPolicy
    <3> QED BY <3>10, <3>12 DEF WithinPolicy
  <2> QED BY <2>1, <2>2
<1> QED BY <1>2, <1>3

(* Tokens that are not issued have created nothing.                         *)
LEMMA UnissuedStep ==
  ASSUME TypeInv, NEW before, BudgetInv(before), [Next]_vars,
         NEW t \in Token, NEW s \in Steps, t > issued'
  PROVE  CreatedBy(t, s)' = {}
<1>1. issued' = issued \/ \E w \in Workers : ClaimGrant(w)
  BY DEF Next, WorkerStep, Timers, vars, ClaimRead, InterruptStale, ClaimRefused, ReadRun, ReadLatestAttempt,
         InsertAttempt, InsertConflict, StepSucceeds, StepPauses, AdvanceFails, StepFails, ReachEnd, FinishRun,
         HeartbeatRenews, HeartbeatFails, WatcherSeesCancel, TotalTimeout, Crash, LeaseTick, RequestCancel,
         CancelWaiting, Decision, Approve, Refuse
<1>2. issued \in Nat /\ (issued' = issued \/ issued' = issued + 1)
  <2>1. issued \in Nat
    BY BoundsAssumption DEF TypeInv, TypeOK
  <2>2. ASSUME NEW w \in Workers, ClaimGrant(w) PROVE issued' = issued + 1
    BY <2>2 DEF ClaimGrant
  <2> QED BY <1>1, <2>1, <2>2
<1>3. CreatedBy(t, s) = {}
  BY <1>2, BoundsAssumption DEF BudgetInv, Token
<1>4. CASE \A w \in Workers : ~InsertAttempt(w)
  BY <1>3, <1>4, CreatedStays
<1>5. ASSUME NEW w \in Workers, InsertAttempt(w) PROVE CreatedBy(t, s)' = {}
  <2>1. exec[w].token \in 0..issued
    BY DEF TypeInv, Placed
  <2>2. t # exec[w].token
    BY <1>2, <2>1
  <2> QED BY <1>3, <1>5, <2>2, CreatedByInsert
<1> QED BY <1>4, <1>5

(* What an execution may still spend, a step later.                         *)
LEMMA SpendingStep ==
  ASSUME TypeInv, OwnInv, NEW before, IsOrder(before), BudgetInv(before), [Next]_vars,
         NEW v \in Workers, exec'[v].pc \in InLoop
  PROVE  HasBudget(before, v)'
<1>1. PICK t, s, pc : t = exec'[v].token /\ s = exec'[v].step /\ pc = exec'[v].pc
  OBVIOUS
<1>2. SUFFICES Budget(before, t, s, pc)'
  BY <1>1 DEF HasBudget
<1>3. MaxRetries \in Nat /\ MaxSteps \in Nat
  BY BoundsAssumption
<1>4. ASSUME exec[v].pc \in InLoop, exec[v].token = t, ~InsertAttempt(v)
      PROVE  AllBy(t)' = AllBy(t) /\ \A u \in Steps : CreatedBy(t, u)' = CreatedBy(t, u)
  <2>1. ASSUME NEW w \in Workers, InsertAttempt(w)
        PROVE  AllBy(t)' = AllBy(t) /\ \A u \in Steps : CreatedBy(t, u)' = CreatedBy(t, u)
    <3>1. w # v /\ exec[w].pc \in Active /\ exec[v].pc \in Active
      BY <1>4, <2>1 DEF InsertAttempt, Active, InLoop
    <3>2. t # exec[w].token
      BY <1>4, <3>1 DEF OwnInv
    <3> QED BY <2>1, <3>2, CreatedByInsert
  <2> QED BY <2>1, CreatedStays
<1>5. exec[v].pc \in InLoop => Budget(before, exec[v].token, exec[v].step, exec[v].pc)
  BY DEF BudgetInv, HasBudget
<1>6. CASE /\ exec[v].pc \in InLoop /\ ~InsertAttempt(v)
           /\ exec'[v].token = exec[v].token /\ exec'[v].step = exec[v].step
           /\ \/ exec'[v].pc = exec[v].pc
              \/ exec'[v].pc = "numbering" /\ exec[v].pc = "loop" /\ ~(StepCount(v) >= MaxSteps)
              \/ exec'[v].pc = "inserting" /\ exec[v].pc = "numbering"
              \/ exec'[v].pc = "loop" /\ exec[v].pc = "executing" /\ RetryAllowed(v)
  <2>1. t = exec[v].token /\ s = exec[v].step
    BY <1>1, <1>6
  <2>2. AllBy(t)' = AllBy(t) /\ \A u \in Steps : CreatedBy(t, u)' = CreatedBy(t, u)
    BY <1>4, <1>6, <2>1
  <2>3. Budget(before, t, s, exec[v].pc)
    BY <1>5, <1>6, <2>1
  <2>4. exec[v].pc = "loop" /\ ~(StepCount(v) >= MaxSteps) => Cardinality(AllBy(t)) < MaxSteps
    <3>1. t \in Token
      BY <1>6, <2>1 DEF TypeInv, TypeOK, Execution, Placed, Active, InLoop, NoToken
    <3>2. Cardinality(AllBy(t)) \in Nat
      BY <3>1, FS_CardinalityType DEF BudgetInv, WithinPolicy
    <3>3. StepCount(v) = Cardinality(AllBy(t))
      BY <2>1 DEF StepCount, AllBy, CreatedBy
    <3> QED BY <1>3, <3>2, <3>3
  <2>5. RetryAllowed(v) => Cardinality(CreatedBy(t, s)) <= MaxRetries
    BY <2>1 DEF RetryAllowed, CreatedFor, CreatedBy
  <2>6. \A u \in Steps : CreatedBy(t, u)' # {} => s = NoStep \/ u = s \/ <<u, s>> \in before
    BY <2>2, <2>3 DEF Budget
  <2>7. s \in Steps /\ pc # "executing" => Cardinality(CreatedBy(t, s)') <= MaxRetries
    BY <1>1, <1>6, <2>2, <2>3, <2>5 DEF Budget
  <2>8. pc \in {"numbering", "inserting"} => Cardinality(AllBy(t)') < MaxSteps
    BY <1>1, <1>6, <2>2, <2>3, <2>4 DEF Budget
  <2> QED BY <2>6, <2>7, <2>8 DEF Budget
<1>7. CASE /\ InsertAttempt(v) /\ exec[v].pc = "inserting" /\ exec'[v].pc = "executing"
           /\ exec'[v].token = exec[v].token /\ exec'[v].step = exec[v].step
  <2>1. t = exec[v].token /\ s = exec[v].step /\ pc = "executing"
    BY <1>1, <1>7
  <2>2. \A u \in Steps : u # s => CreatedBy(t, u)' = CreatedBy(t, u)
    BY <1>7, <2>1, CreatedByInsert
  <2>3. Budget(before, t, s, exec[v].pc)
    BY <1>5, <1>7, <2>1 DEF InLoop
  <2> QED BY <2>1, <2>2, <2>3 DEF Budget
<1>8. CASE ClaimGrant(v) /\ exec'[v].token = issued' /\ exec'[v].pc = "loop"
  <2>1. t = issued + 1 /\ t \in Token /\ t > issued /\ pc = "loop" /\ attempts' = attempts
    BY <1>1, <1>8, BoundsAssumption DEF ClaimGrant, TypeInv, TypeOK, Token
  <2>2. \A u \in Steps : CreatedBy(t, u)' = {}
    BY <2>1 DEF BudgetInv, CreatedBy
  <2>3. s \in Steps => Cardinality(CreatedBy(t, s)') <= MaxRetries
    BY <1>3, <2>2, FS_EmptySet
  <2> QED BY <2>1, <2>2, <2>3 DEF Budget
<1>9. CASE /\ StepSucceeds(v) /\ exec[v].pc = "executing" /\ exec'[v].pc = "loop"
           /\ exec'[v].token = exec[v].token /\ exec'[v].step \in Edges[exec[v].step]
  <2>1. PICK from : from = exec[v].step
    OBVIOUS
  <2>2. t = exec[v].token /\ pc = "loop" /\ s \in Edges[from] /\ from \in Steps /\ from # NoStep
    BY <1>1, <1>9, <2>1, StepsAssumption DEF TypeInv, Placed
  <2>3. AllBy(t)' = AllBy(t) /\ \A u \in Steps : CreatedBy(t, u)' = CreatedBy(t, u)
    BY <1>4, <1>9, <2>2 DEF InLoop, InsertAttempt
  <2>4. \A u \in Steps : CreatedBy(t, u) # {} => u = from \/ <<u, from>> \in before
    BY <1>5, <1>9, <2>1, <2>2 DEF Budget, InLoop
  <2>5. s # NoStep => s \in Steps /\ <<from, s>> \in before
    BY <2>2, StepsAssumption DEF IsOrder
  <2>6. ASSUME NEW u \in Steps, CreatedBy(t, u) # {}, s # NoStep PROVE <<u, s>> \in before
    BY <2>2, <2>4, <2>5, <2>6 DEF IsOrder
  <2>7. s \in Steps => CreatedBy(t, s) = {}
    BY <2>6, StepsAssumption DEF IsOrder
  <2>8. s \in Steps => Cardinality(CreatedBy(t, s)') <= MaxRetries
    BY <1>3, <2>3, <2>7, FS_EmptySet
  <2>9. \A u \in Steps : CreatedBy(t, u)' # {} => s = NoStep \/ u = s \/ <<u, s>> \in before
    BY <2>3, <2>6
  <2> QED BY <2>2, <2>8, <2>9 DEF Budget
<1> QED BY <1>6, <1>7, <1>8, <1>9, LoopMoves

(* Nothing is spent at first.                                               *)
LEMMA BudgetInit == ASSUME NEW before PROVE Init => BudgetInv(before)
<1> SUFFICES ASSUME Init PROVE BudgetInv(before)
  OBVIOUS
<1>1. ASSUME NEW t, NEW s \in Steps PROVE CreatedBy(t, s) = {}
  BY DEF Init, CreatedBy
<1>2. ASSUME NEW t PROVE AllBy(t) = {}
  BY <1>1 DEF AllBy
<1>3. ASSUME NEW t PROVE WithinPolicy(t)
  BY <1>1, <1>2, FS_EmptySet, BoundsAssumption DEF WithinPolicy
<1>4. \A w \in Workers : exec[w].pc \notin InLoop
  BY DEF Init, Idle, InLoop
<1> QED BY <1>1, <1>3, <1>4 DEF BudgetInv

(* One execution keeps to maxSteps and to maxRetries, whatever other        *)
(* executions insert beside it, in every definition without a cycle, which  *)
(* validateWorkflowGraph makes of all that are stored.                      *)
THEOREM AttemptsCorrect ==
  ASSUME IsAcyclic
  PROVE  Spec => []AttemptsBounded
<1>1. PICK before \in SUBSET (Steps \X Steps) : IsOrder(before)
  BY DEF IsAcyclic
<1>2. Init => TypeInv /\ OwnInv /\ BudgetInv(before)
  BY TypeInit, OwnInit, BudgetInit
<1>3. TypeInv /\ OwnInv /\ BudgetInv(before) /\ [Next]_vars => (TypeInv /\ OwnInv /\ BudgetInv(before))'
  <2> SUFFICES ASSUME TypeInv, OwnInv, BudgetInv(before), [Next]_vars
               PROVE  (TypeInv /\ OwnInv /\ BudgetInv(before))'
    OBVIOUS
  <2>1. BudgetInv(before)'
    BY <1>1, PolicyStep, UnissuedStep, SpendingStep DEF BudgetInv
  <2> QED BY <2>1, TypeStep, OwnStep
<1>4. BudgetInv(before) => AttemptsBounded
  BY DEF BudgetInv, WithinPolicy, AttemptsBounded, AllBy, CreatedBy
<1> QED BY <1>2, <1>3, <1>4, PTL DEF Spec
===============================================================================
