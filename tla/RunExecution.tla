----------------------------- MODULE RunExecution -----------------------------
(***************************************************************************)
(* One durable workflow run: its row, its step attempts and its approval   *)
(* requests in PostgreSQL, and the workers that execute it.                *)
(*   lib/workflows/executor.ts, service.ts (claim .. finish, cancel) and   *)
(*   approval-service.ts (pause, decide, expire).                          *)
(*                                                                         *)
(* Delivery is at least once: any idle worker may start executing the run  *)
(* at any time.  One action is one statement or transaction on the         *)
(* database, together with the synchronous code up to the next await.      *)
(***************************************************************************)
EXTENDS Naturals, Sequences, FiniteSets

CONSTANTS
  Workers,        \* slots that may execute the run concurrently
  Steps,          \* step ids of the definition snapshot
  Entry,          \* definition.entryStepId
  NoStep,         \* NULL in currentStepId / nextStepId
  Edges,          \* Edges[s]: the steps that may follow s
  ApprovalSteps,  \* the steps of type APPROVAL
  MaxRetries,     \* policy.maxRetries
  MaxSteps,       \* policy.maxSteps
  MaxClaims,      \* bound of the model: execution tokens ever issued
  Faults          \* whether processes die and statements fail

ASSUME StepsAssumption ==
  /\ Entry \in Steps /\ NoStep \notin Steps
  /\ ApprovalSteps \subseteq Steps
  /\ Edges \in [Steps -> SUBSET (Steps \cup {NoStep})]

ASSUME BoundsAssumption ==
  /\ MaxRetries \in Nat /\ MaxSteps \in Nat \ {0} /\ MaxClaims \in Nat \ {0}
  /\ Faults \in BOOLEAN

VARIABLES
  run,       \* the workflow_runs row
  issued,    \* execution tokens handed out by randomUUID()
  attempts,  \* attempts[s][n]: the workflow_step_runs row of step s, attempt n
  request,   \* request[s]: status of the workflow_approval_requests row of s
  exec       \* exec[w]: the local state of executeWorkflowRun in worker w

vars == <<run, issued, attempts, request, exec>>

-------------------------------------------------------------------------------
NoToken == 0
Token == 1..MaxClaims

Terminal == {"COMPLETED", "FAILED", "CANCELLED", "TIMED_OUT", "REJECTED", "EXPIRED"}
Status == {"QUEUED", "RUNNING", "WAITING_APPROVAL", "CANCEL_REQUESTED"} \cup Terminal
AttemptStatus == {"RUNNING", "WAITING_APPROVAL", "SUCCEEDED", "FAILED", "CANCELLED", "INTERRUPTED"}
RequestStatus == {"NONE", "PENDING", "APPROVED", "REJECTED", "EXPIRED", "CANCELLED"}

(* The lease deadline as the processes see it: "due" is the instant around  *)
(* which two processes' captured `now` may disagree about it.               *)
Lease == {"none", "live", "due", "lapsed"}

Run == [status : Status, token : Token \cup {NoToken}, lease : Lease, cur : Steps \cup {NoStep}]
Attempt == [token : Token, status : AttemptStatus]

Verdict == {"NONE", "COMPLETED", "FAILED", "CANCELLED", "TIMED_OUT"}
Execution ==
  [pc : {"idle", "interrupting", "granting", "loop", "numbering", "inserting", "executing", "finishing"},
   token : Token \cup {NoToken},   \* the token read while claiming, then the token held
   strict : BOOLEAN,               \* the claim's read saw the lease strictly expired
   step : Steps \cup {NoStep},     \* currentStepId
   row : Nat,                      \* latest attempt read, then the attempt inserted
   verdict : Verdict,              \* argument of the pending finishWorkflowRun
   lost : BOOLEAN,                 \* leaseLost
   cancel : BOOLEAN,               \* cancellationRequested
   timedOut : BOOLEAN]             \* totalTimedOut

Idle == [pc |-> "idle", token |-> NoToken, strict |-> FALSE, step |-> NoStep, row |-> 0,
         verdict |-> "NONE", lost |-> FALSE, cancel |-> FALSE, timedOut |-> FALSE]

TypeOK ==
  /\ run \in Run
  /\ issued \in 0..MaxClaims
  /\ attempts \in [Steps -> Seq(Attempt)]
  /\ request \in [Steps -> RequestStatus]
  /\ exec \in [Workers -> Execution]

Init ==
  /\ run = [status |-> "QUEUED", token |-> NoToken, lease |-> "none", cur |-> Entry]
  /\ issued = 0
  /\ attempts = [s \in Steps |-> <<>>]
  /\ request = [s \in Steps |-> "NONE"]
  /\ exec = [w \in Workers |-> Idle]

-------------------------------------------------------------------------------
(* Claiming: claimWorkflowRun is a read, an update of the stale attempts    *)
(* and a guarded update of the run, outside any transaction.                *)

Stale == run.status = "RUNNING" /\ run.lease \in {"due", "lapsed"}

ClaimRead(w) ==
  /\ exec[w].pc = "idle"
  /\ issued < MaxClaims
  /\ run.status = "QUEUED" \/ Stale
  /\ exec' = [exec EXCEPT ![w] =
       [Idle EXCEPT !.pc = IF Stale THEN "interrupting" ELSE "granting",
                    !.token = IF Stale THEN run.token ELSE NoToken,
                    !.strict = Stale /\ run.lease = "lapsed"]]
  /\ UNCHANGED <<run, issued, attempts, request>>

InterruptStale(w) ==
  /\ exec[w].pc = "interrupting"
  /\ attempts' = [s \in Steps |-> [n \in DOMAIN attempts[s] |->
       IF attempts[s][n].token = exec[w].token /\ attempts[s][n].status = "RUNNING"
       THEN [attempts[s][n] EXCEPT !.status = "INTERRUPTED"]
       ELSE attempts[s][n]]]
  /\ exec' = [exec EXCEPT ![w].pc = "granting"]
  /\ UNCHANGED <<run, issued, request>>

(* Mutated form of Claimable: the update of the run has no status guard.    *)
UnguardedClaim(w) == w \in Workers

(* lease < now with the `now` of the read: a lease seen strictly expired    *)
(* and not replaced since.                                                  *)
Claimable(w) ==
  \/ run.status = "QUEUED"
  \/ /\ run.status = "RUNNING"
     /\ exec[w].strict /\ run.token = exec[w].token

(* The step a claimed run starts from: currentStepId ?? entryStepId.        *)
ResumeStep(cur) == IF cur = NoStep THEN Entry ELSE cur

ClaimGrant(w) ==
  /\ exec[w].pc = "granting"
  /\ issued < MaxClaims
  /\ Claimable(w)
  /\ issued' = issued + 1
  /\ run' = [run EXCEPT !.status = "RUNNING", !.token = issued', !.lease = "live"]
  /\ \E principalFound \in BOOLEAN :
       exec' = [exec EXCEPT ![w] =
         [Idle EXCEPT !.token = issued',
                      !.step = ResumeStep(run.cur),
                      !.pc = IF principalFound THEN "loop" ELSE "finishing",
                      !.verdict = IF principalFound THEN "NONE" ELSE "FAILED"]]
  /\ UNCHANGED <<attempts, request>>

ClaimRefused(w) ==
  /\ exec[w].pc = "granting"
  /\ ~Claimable(w) \/ issued = MaxClaims
  /\ exec' = [exec EXCEPT ![w] = Idle]
  /\ UNCHANGED <<run, issued, attempts, request>>

-------------------------------------------------------------------------------
(* The executor's loop.                                                     *)

OwnsRun(w) == run.token = exec[w].token

(* Attempt rows this execution has created: stepCount counts them all,      *)
(* attemptCounts those of one step.                                         *)
CreatedFor(w, s) == Cardinality({n \in DOMAIN attempts[s] : attempts[s][n].token = exec[w].token})
StepCount(w) == Cardinality(UNION {{<<s, n>> : n \in {m \in DOMAIN attempts[s] :
  attempts[s][m].token = exec[w].token}} : s \in Steps})

Leave(w) == exec' = [exec EXCEPT ![w] = Idle]
(* Mutated form of Settle: a cancelled execution writes the requested status. *)
SettleAsRequested(w, verdict) ==
  exec' = [exec EXCEPT ![w].pc = "finishing", ![w].row = 0,
             ![w].verdict = IF verdict = "CANCELLED" THEN "CANCEL_REQUESTED" ELSE verdict]

Settle(w, verdict) ==
  exec' = [exec EXCEPT ![w].pc = "finishing", ![w].verdict = verdict, ![w].row = 0]

ReadRun(w) ==
  /\ exec[w].pc = "loop" /\ exec[w].step # NoStep
  /\ LET cancelled == exec[w].cancel \/ run.status = "CANCEL_REQUESTED" IN
     IF ~OwnsRun(w) \/ run.status \in {"COMPLETED", "FAILED", "CANCELLED", "TIMED_OUT"}
     THEN Leave(w)
     ELSE IF cancelled THEN Settle(w, "CANCELLED")
     ELSE IF exec[w].timedOut THEN Settle(w, "TIMED_OUT")
     ELSE IF StepCount(w) >= MaxSteps THEN Settle(w, "FAILED")
     ELSE exec' = [exec EXCEPT ![w].pc = "numbering"]
  /\ UNCHANGED <<run, issued, attempts, request>>

(* createWorkflowStepAttempt reads the latest attempt number, then inserts; *)
(* neither statement looks at the run.                                      *)
ReadLatestAttempt(w) ==
  /\ exec[w].pc = "numbering"
  /\ exec' = [exec EXCEPT ![w].pc = "inserting", ![w].row = Len(attempts[exec[w].step])]
  /\ UNCHANGED <<run, issued, attempts, request>>

InsertAttempt(w) ==
  LET s == exec[w].step IN
  /\ exec[w].pc = "inserting"
  /\ exec[w].row = Len(attempts[s])
  /\ attempts' = [attempts EXCEPT ![s] = Append(@, [token |-> exec[w].token, status |-> "RUNNING"])]
  /\ exec' = [exec EXCEPT ![w].pc = "executing", ![w].row = @ + 1]
  /\ UNCHANGED <<run, issued, request>>

(* The unique index on (run, step, attempt) rejects the insert, which       *)
(* throws out of executeWorkflowRun.                                        *)
InsertConflict(w) ==
  /\ exec[w].pc = "inserting"
  /\ exec[w].row # Len(attempts[exec[w].step])
  /\ Leave(w)
  /\ UNCHANGED <<run, issued, attempts, request>>

-------------------------------------------------------------------------------
(* The end of a step.                                                       *)

Aborted(w) == exec[w].lost \/ exec[w].cancel \/ exec[w].timedOut

MyAttempt(w) == attempts[exec[w].step][exec[w].row]
SetMyAttempt(w, status) == attempts' = [attempts EXCEPT ![exec[w].step][exec[w].row].status = status]

(* Mutated form of MayAdvance: the token is not compared.                   *)
MayAdvanceUnfenced(w) ==
  /\ MyAttempt(w).status = "RUNNING"
  /\ run.status = "RUNNING"
  /\ run.lease \in {"live", "due"}

(* Guard of completeWorkflowStepAndAdvance and of the pause transaction.    *)
MayAdvance(w) ==
  /\ MyAttempt(w).status = "RUNNING"
  /\ OwnsRun(w)
  /\ run.status = "RUNNING"
  /\ run.lease \in {"live", "due"}

(* The same guard evaluated with a `now` past the deadline.                 *)
AdvanceRefused(w) == ~MayAdvance(w) \/ run.lease = "due"

StepSucceeds(w) ==
  /\ exec[w].pc = "executing" /\ ~Aborted(w)
  /\ exec[w].step \notin ApprovalSteps
  /\ MayAdvance(w)
  /\ \E next \in Edges[exec[w].step] :
       /\ SetMyAttempt(w, "SUCCEEDED")
       /\ run' = [run EXCEPT !.cur = next]
       /\ exec' = [exec EXCEPT ![w].pc = "loop", ![w].step = next, ![w].row = 0]
  /\ UNCHANGED <<issued, request>>

(* Mutated form of MayRequestApproval: any existing request is used again.  *)
MayReuseRequest(w) == request[exec[w].step] \in RequestStatus

(* There is one request per run and step; a decided one cannot be asked     *)
(* again, the pause transaction throws.                                     *)
MayRequestApproval(w) == request[exec[w].step] \in {"NONE", "PENDING"}

StepPauses(w) ==
  /\ exec[w].pc = "executing" /\ ~Aborted(w)
  /\ exec[w].step \in ApprovalSteps
  /\ MayAdvance(w)
  /\ MayRequestApproval(w)
  /\ SetMyAttempt(w, "WAITING_APPROVAL")
  /\ request' = [request EXCEPT ![exec[w].step] = IF @ = "NONE" THEN "PENDING" ELSE @]
  /\ run' = [run EXCEPT !.status = "WAITING_APPROVAL", !.token = NoToken, !.lease = "none"]
  /\ Leave(w)
  /\ UNCHANGED issued

(* Mutated form of AdvanceFails: the loop goes on although nothing was      *)
(* written.                                                                 *)
AdvanceFailureIgnored(w) ==
  /\ exec[w].pc = "executing" /\ ~Aborted(w)
  /\ AdvanceRefused(w)
  /\ \E next \in Edges[exec[w].step] :
       exec' = [exec EXCEPT ![w].pc = "loop", ![w].step = next, ![w].row = 0]
  /\ UNCHANGED <<run, issued, attempts, request>>

(* Mutated form of AdvanceFails: the loop is left without leaseLost.        *)
AdvanceFailureCompletes(w) ==
  /\ exec[w].pc = "executing" /\ ~Aborted(w)
  /\ AdvanceRefused(w)
  /\ Settle(w, "COMPLETED")
  /\ UNCHANGED <<run, issued, attempts, request>>

(* The transaction is rolled back and the worker walks away.                *)
AdvanceFails(w) ==
  /\ exec[w].pc = "executing" /\ ~Aborted(w)
  /\ AdvanceRefused(w)
  /\ Leave(w)
  /\ UNCHANGED <<run, issued, attempts, request>>

(* Mutated form of RetryAllowed: one retry too many.                        *)
RetryAllowedOnceMore(w) == CreatedFor(w, exec[w].step) <= MaxRetries + 1

(* `attempt <= policy.maxRetries`                                           *)
RetryAllowed(w) == CreatedFor(w, exec[w].step) <= MaxRetries

(* What the catch block decides, in its order.                              *)
FailureOutcome(w, retryable) ==
  IF exec[w].cancel THEN "CANCELLED"
  ELSE IF exec[w].timedOut THEN "TIMED_OUT"
  ELSE IF exec[w].lost THEN "LOST"
  ELSE IF retryable /\ RetryAllowed(w) THEN "RETRY" ELSE "FAILED"

(* Mutated form of MayFailAttempt: the status of the row is not compared.   *)
MayFailAnyAttempt(w) == exec[w].row # 0

(* failWorkflowStep's update matches the row.                               *)
MayFailAttempt(w) == MyAttempt(w).status = "RUNNING"

(* The step throws, the pause transaction throws, or the result arrives     *)
(* after an abort: failWorkflowStep, then what to do with the run.          *)
StepFails(w) ==
  /\ exec[w].pc = "executing"
  /\ \E retryable \in BOOLEAN :
       LET outcome == FailureOutcome(w, retryable) IN
       IF outcome = "LOST" THEN Leave(w) /\ UNCHANGED attempts
       ELSE /\ IF MayFailAttempt(w)
               THEN SetMyAttempt(w, IF outcome = "RETRY" THEN "INTERRUPTED" ELSE "FAILED")
               ELSE UNCHANGED attempts
            /\ IF outcome \in {"CANCELLED", "TIMED_OUT"} THEN Settle(w, outcome)
               ELSE IF ~MayFailAttempt(w) THEN Leave(w)
               ELSE IF outcome = "RETRY" THEN exec' = [exec EXCEPT ![w].pc = "loop", ![w].row = 0]
               ELSE Settle(w, "FAILED")
  /\ UNCHANGED <<run, issued, request>>

(* The loop ran off the last step.                                          *)
ReachEnd(w) ==
  /\ exec[w].pc = "loop" /\ exec[w].step = NoStep
  /\ IF exec[w].lost THEN Leave(w) ELSE Settle(w, "COMPLETED")
  /\ UNCHANGED <<run, issued, attempts, request>>

MayFinish(w) == OwnsRun(w) /\ run.status \in {"RUNNING", "CANCEL_REQUESTED"}

(* finishWorkflowRun: the token and the status are checked, the lease not.  *)
FinishRun(w) ==
  /\ exec[w].pc = "finishing"
  /\ run' = IF MayFinish(w) THEN [run EXCEPT !.status = exec[w].verdict, !.lease = "none"] ELSE run
  /\ Leave(w)
  /\ UNCHANGED <<issued, attempts, request>>

-------------------------------------------------------------------------------
(* The timers of an execution.                                              *)

Watched(w) == exec[w].pc \in {"loop", "numbering", "inserting", "executing"}

(* Mutated form of MayRenew: an expired lease can be renewed.               *)
MayRenewExpired(w) == OwnsRun(w) /\ run.status = "RUNNING"

(* renewWorkflowRunLease matches the row.                                   *)
MayRenew(w) == OwnsRun(w) /\ run.status = "RUNNING" /\ run.lease \in {"live", "due"}

HeartbeatRenews(w) ==
  /\ Watched(w) /\ MayRenew(w)
  /\ run' = [run EXCEPT !.lease = "live"]
  /\ UNCHANGED <<issued, attempts, request, exec>>

HeartbeatFails(w) ==
  /\ Watched(w)
  /\ ~MayRenew(w) \/ run.lease = "due" \/ Faults
  /\ exec' = [exec EXCEPT ![w].lost = TRUE]
  /\ UNCHANGED <<run, issued, attempts, request>>

WatcherSeesCancel(w) ==
  /\ Watched(w) /\ run.status = "CANCEL_REQUESTED"
  /\ exec' = [exec EXCEPT ![w].cancel = TRUE]
  /\ UNCHANGED <<run, issued, attempts, request>>

TotalTimeout(w) ==
  /\ Watched(w)
  /\ exec' = [exec EXCEPT ![w].timedOut = TRUE]
  /\ UNCHANGED <<run, issued, attempts, request>>

LeaseTick ==
  /\ run.status = "RUNNING" /\ run.lease \in {"live", "due"}
  /\ run' = [run EXCEPT !.lease = IF @ = "live" THEN "due" ELSE "lapsed"]
  /\ UNCHANGED <<issued, attempts, request, exec>>

(* The process dies, or a statement fails and the exception leaves          *)
(* executeWorkflowRun.                                                      *)
Crash(w) ==
  /\ Faults /\ exec[w].pc # "idle"
  /\ Leave(w)
  /\ UNCHANGED <<run, issued, attempts, request>>

-------------------------------------------------------------------------------
(* People and the scheduler.                                                *)

RequestCancel ==
  /\ run.status \in {"QUEUED", "RUNNING"}
  /\ run' = [run EXCEPT !.status = "CANCEL_REQUESTED"]
  /\ UNCHANGED <<issued, attempts, request, exec>>

WaitingRows(s) == {n \in DOMAIN attempts[s] : attempts[s][n].status = "WAITING_APPROVAL"}

SetWaitingRows(s, status) ==
  attempts' = [attempts EXCEPT ![s] = [n \in DOMAIN @ |->
    IF n \in WaitingRows(s) THEN [@[n] EXCEPT !.status = status] ELSE @[n]]]

(* cancelWorkflowRun on a waiting run: LIMIT 1 takes any request of the     *)
(* run; only a pending one is cancelled, with its attempt.                  *)
CancelWaiting ==
  /\ run.status = "WAITING_APPROVAL"
  /\ \E s \in {t \in Steps : request[t] # "NONE"} :
       IF request[s] = "PENDING"
       THEN /\ request' = [request EXCEPT ![s] = "CANCELLED"]
            /\ SetWaitingRows(s, "CANCELLED")
       ELSE UNCHANGED <<request, attempts>>
  /\ run' = [run EXCEPT !.status = "CANCELLED", !.token = NoToken, !.lease = "none"]
  /\ UNCHANGED <<issued, exec>>

(* finishApprovalInTransaction throws, and rolls back, unless the request   *)
(* is pending, an attempt waits and the run waits.                          *)
Decidable(s) ==
  /\ request[s] = "PENDING" /\ s \in ApprovalSteps
  /\ WaitingRows(s) # {}
  /\ run.status = "WAITING_APPROVAL"

LatestWaiting(s) == CHOOSE n \in WaitingRows(s) : \A m \in WaitingRows(s) : m <= n

Approve(s) ==
  /\ Decidable(s)
  /\ request' = [request EXCEPT ![s] = "APPROVED"]
  /\ attempts' = [attempts EXCEPT ![s][LatestWaiting(s)].status = "SUCCEEDED"]
  /\ \E next \in Edges[s] :
       run' = [status |-> "QUEUED", token |-> NoToken, lease |-> "none", cur |-> next]
  /\ UNCHANGED <<issued, exec>>

(* A rejection, or an expiry found by a decision or by the scheduler.       *)
Refuse(s, status) ==
  /\ Decidable(s)
  /\ request' = [request EXCEPT ![s] = status]
  /\ attempts' = [attempts EXCEPT ![s][LatestWaiting(s)].status = "FAILED"]
  /\ run' = [run EXCEPT !.status = status, !.token = NoToken, !.lease = "none"]
  /\ UNCHANGED <<issued, exec>>

-------------------------------------------------------------------------------
WorkerStep(w) ==
  \/ InterruptStale(w) \/ ClaimGrant(w) \/ ClaimRefused(w)
  \/ ReadRun(w) \/ ReadLatestAttempt(w) \/ InsertAttempt(w) \/ InsertConflict(w)
  \/ StepSucceeds(w) \/ StepPauses(w) \/ AdvanceFails(w) \/ StepFails(w)
  \/ ReachEnd(w) \/ FinishRun(w)

Timers(w) ==
  HeartbeatRenews(w) \/ HeartbeatFails(w) \/ WatcherSeesCancel(w) \/ TotalTimeout(w)

Decision(s) == Approve(s) \/ Refuse(s, "REJECTED") \/ Refuse(s, "EXPIRED")

Next ==
  \/ \E w \in Workers : ClaimRead(w) \/ WorkerStep(w) \/ Timers(w) \/ Crash(w)
  \/ LeaseTick \/ RequestCancel \/ CancelWaiting
  \/ \E s \in Steps : Decision(s)

Spec == Init /\ [][Next]_vars

-------------------------------------------------------------------------------
(* Properties.                                                              *)

Succeeded == {s \in Steps : \E n \in DOMAIN attempts[s] : attempts[s][n].status = "SUCCEEDED"}
Reached(s) == s = Entry \/ \E p \in Succeeded : s \in Edges[p]

(* No step ever starts, succeeds or becomes the resume point before one of  *)
(* its predecessors has succeeded: whatever crashes, steals and stale       *)
(* workers do, the attempt rows spell out paths of the definition graph     *)
(* (completeWorkflowStepAndAdvance, approval continuation, the restart at   *)
(* currentStepId ?? entryStepId).                                           *)
HistoryFollowsEdges ==
  /\ \A s \in Steps : attempts[s] # <<>> => Reached(s)
  /\ run.cur # NoStep => Reached(run.cur)

(* A COMPLETED run really got to the end: some step that may end the        *)
(* workflow has succeeded and no resume point is left                       *)
(* (finishWorkflowRun COMPLETED, which looks at neither).                   *)
CompletedReachedEnd ==
  run.status = "COMPLETED" =>
    /\ run.cur = NoStep
    /\ \E s \in Succeeded : NoStep \in Edges[s]

(* A waiting run has exactly one pending request, for its resume point,     *)
(* with exactly one waiting attempt, and no worker owns it (the pause       *)
(* transaction against decisions, expiry, cancellation and stale workers).  *)
WaitingHasOneRequest ==
  run.status = "WAITING_APPROVAL" =>
    /\ run.token = NoToken
    /\ {s \in Steps : request[s] = "PENDING"} = {ResumeStep(run.cur)}
    /\ \E n \in WaitingRows(ResumeStep(run.cur)) : WaitingRows(ResumeStep(run.cur)) = {n}
    /\ \A s \in Steps \ {ResumeStep(run.cur)} : WaitingRows(s) = {}

(* One execution tries a step at most maxRetries + 1 times and creates at   *)
(* most maxSteps attempts, whatever other executions add to the history     *)
(* (the attempt counter and stepCount of executeWorkflowRun).               *)
AttemptsBounded ==
  \A t \in Token :
    /\ \A s \in Steps : Cardinality({n \in DOMAIN attempts[s] : attempts[s][n].token = t}) <= MaxRetries + 1
    /\ Cardinality(UNION {{<<s, n>> : n \in {m \in DOMAIN attempts[s] :
         attempts[s][m].token = t}} : s \in Steps}) <= MaxSteps

(* No path of the definition comes back to a step: validateWorkflowGraph    *)
(* stores no other definition.                                              *)
IsOrder(before) ==
  /\ \A s \in Steps : <<s, s>> \notin before
  /\ \A s, t, u \in Steps : <<s, t>> \in before /\ <<t, u>> \in before => <<s, u>> \in before
  /\ \A s \in Steps : \A t \in Edges[s] \ {NoStep} : <<s, t>> \in before

IsAcyclic == \E before \in SUBSET (Steps \X Steps) : IsOrder(before)

(* An attempt turns SUCCEEDED only for the run's resume point, and only by  *)
(* the execution that holds the run's current token on a lease that has not *)
(* lapsed, or by an approval of a waiting run that no worker owns.          *)
SuccessIsFenced ==
  [][\A s \in Steps : \A n \in DOMAIN attempts[s] :
       attempts'[s][n].status = "SUCCEEDED" /\ attempts[s][n].status # "SUCCEEDED" =>
         /\ s = ResumeStep(run.cur)
         /\ run'.cur \in Edges[s]
         /\ \/ /\ run.status = "RUNNING" /\ run.lease \in {"live", "due"}
               /\ attempts[s][n].token = run.token
            \/ run.status = "WAITING_APPROVAL" /\ run.token = NoToken]_vars

(* A run that reached a terminal status never changes again, even under     *)
(* late writes of workers that still hold its token, decisions on requests  *)
(* left behind, or a late cancellation.                                     *)
TerminalIsFinal == [][run.status \in Terminal => run' = run]_vars

(* An attempt row that is closed keeps its outcome: recovery adds attempts  *)
(* and never rewrites history (the status guards of interrupt, fail,        *)
(* complete, pause and decide).                                             *)
HistoryIsAppendOnly ==
  [][\A s \in Steps :
       /\ Len(attempts'[s]) >= Len(attempts[s])
       /\ \A n \in DOMAIN attempts[s] :
            /\ attempts'[s][n].token = attempts[s][n].token
            /\ attempts[s][n].status \notin {"RUNNING", "WAITING_APPROVAL"}
                 => attempts'[s][n] = attempts[s][n]]_vars

(* The status, token and lease of the run follow RunLifecycle.              *)
Lifecycle == INSTANCE RunLifecycle WITH
  status <- run.status, owner <- run.token, lease <- run.lease
ImplementsLifecycle == Lifecycle!Spec

-------------------------------------------------------------------------------
(* Statements of the documents that the code does not meet.                 *)

(* "Never restart an approved workflow from step 1 or rerun completed       *)
(* side-effecting steps": a step that succeeded is never started again.     *)
NoRerunOfSucceededSteps ==
  [][\A s \in Succeeded : Len(attempts'[s]) = Len(attempts[s])]_vars
===============================================================================
