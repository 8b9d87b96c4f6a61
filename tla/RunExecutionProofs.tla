-------------------------- MODULE RunExecutionProofs --------------------------
(* Theorems about RunExecution, for every graph, every number of workers    *)
(* and every bound.                                                         *)
EXTENDS RunExecution, Integers, SequenceTheorems, WellFoundedInduction, TLAPS

-------------------------------------------------------------------------------
(* How the attempts change: one status of one row, a new row, or the rows   *)
(* of an interrupted execution.                                             *)

(* A function over the domain of a sequence is a sequence of that length.   *)
LEMMA SameDomainSequence ==
  ASSUME NEW S, NEW q \in Seq(S), NEW r \in [DOMAIN q -> S]
  PROVE  r \in Seq(S) /\ Len(r) = Len(q)
<1>1. Len(q) \in Nat /\ DOMAIN q = 1..Len(q)
  BY LenProperties
<1>2. r \in [1..Len(q) -> S]
  BY <1>1
<1>3. r \in Seq(S)
  BY <1>1, <1>2, IsASeq
<1>4. Len(r) \in Nat /\ DOMAIN r = 1..Len(r)
  BY <1>3, LenProperties
<1>5. 1..Len(r) = 1..Len(q)
  BY <1>1, <1>2, <1>4
<1> QED BY <1>1, <1>3, <1>4, <1>5

(* The status of one row is set.                                            *)
RowSet(s, n, st) == attempts' = [attempts EXCEPT ![s][n].status = st]

(* Setting the status of one existing row (complete, fail, pause, decide).  *)
LEMMA RowUpdate ==
  ASSUME attempts \in [Steps -> Seq(Attempt)],
         NEW s \in Steps, NEW n \in DOMAIN attempts[s], NEW st \in AttemptStatus, RowSet(s, n, st)
  PROVE  /\ attempts' \in [Steps -> Seq(Attempt)]
         /\ \A t \in Steps : DOMAIN attempts'[t] = DOMAIN attempts[t] /\ Len(attempts'[t]) = Len(attempts[t])
         /\ \A t \in Steps : \A m \in DOMAIN attempts[t] :
              attempts'[t][m] = IF t = s /\ m = n THEN [token |-> attempts[s][n].token, status |-> st]
                                ELSE attempts[t][m]
<1> DEFINE row == [token |-> attempts[s][n].token, status |-> st]
<1>1. attempts[s] \in Seq(Attempt) /\ attempts[s][n] \in Attempt
  BY ElementOfSeq, LenProperties
<1>2. row \in Attempt /\ [attempts[s][n] EXCEPT !.status = st] = row
  BY <1>1 DEF Attempt
<1>3. attempts' = [attempts EXCEPT ![s] = [attempts[s] EXCEPT ![n] = row]]
  BY <1>2 DEF RowSet
<1>4. [attempts[s] EXCEPT ![n] = row] \in Seq(Attempt) /\ Len([attempts[s] EXCEPT ![n] = row]) = Len(attempts[s])
  BY <1>1, <1>2, ExceptSeq
<1>5. attempts' \in [Steps -> Seq(Attempt)]
  BY <1>3, <1>4
<1>6. \A t \in Steps : DOMAIN attempts'[t] = DOMAIN attempts[t] /\ Len(attempts'[t]) = Len(attempts[t])
  BY <1>3, <1>4
<1>7. /\ \A t \in Steps : attempts'[t] = IF t = s THEN [attempts[s] EXCEPT ![n] = row] ELSE attempts[t]
      /\ \A m \in DOMAIN attempts[s] :
           [attempts[s] EXCEPT ![n] = row][m] = IF m = n THEN row ELSE attempts[s][m]
  BY <1>3
<1>8. \A t \in Steps : \A m \in DOMAIN attempts[t] :
        attempts'[t][m] = IF t = s /\ m = n THEN row ELSE attempts[t][m]
  BY <1>7
<1> QED BY <1>5, <1>6, <1>8

(* Inserting an attempt at the end of a step's history.                     *)
LEMMA RowInsert ==
  ASSUME attempts \in [Steps -> Seq(Attempt)],
         NEW s \in Steps, NEW row \in Attempt,
         attempts' = [attempts EXCEPT ![s] = Append(@, row)]
  PROVE  /\ attempts' \in [Steps -> Seq(Attempt)]
         /\ \A t \in Steps : Len(attempts'[t]) = Len(attempts[t]) + (IF t = s THEN 1 ELSE 0)
         /\ \A t \in Steps : \A m \in DOMAIN attempts[t] :
              m \in DOMAIN attempts'[t] /\ attempts'[t][m] = attempts[t][m]
         /\ attempts'[s][Len(attempts[s]) + 1] = row
<1>1. /\ Append(attempts[s], row) \in Seq(Attempt)
      /\ Len(Append(attempts[s], row)) = Len(attempts[s]) + 1
      /\ \A m \in 1..Len(attempts[s]) : Append(attempts[s], row)[m] = attempts[s][m]
      /\ Append(attempts[s], row)[Len(attempts[s]) + 1] = row
  BY AppendProperties
<1>2. \A t \in Steps : attempts'[t] = IF t = s THEN Append(attempts[s], row) ELSE attempts[t]
  OBVIOUS
<1>3. \A t \in Steps : attempts[t] \in Seq(Attempt) /\ DOMAIN attempts[t] = 1..Len(attempts[t]) /\ Len(attempts[t]) \in Nat
  BY LenProperties
<1>4. attempts' \in [Steps -> Seq(Attempt)]
  BY <1>1
<1>5. \A t \in Steps : DOMAIN attempts'[t] = 1..Len(attempts'[t])
  BY <1>4, LenProperties
<1> QED BY <1>1, <1>2, <1>3, <1>4, <1>5

(* Closing the RUNNING rows of an interrupted execution.                    *)
LEMMA InterruptedRows ==
  ASSUME attempts \in [Steps -> Seq(Attempt)], NEW w \in Workers, InterruptStale(w)
  PROVE  /\ attempts' \in [Steps -> Seq(Attempt)]
         /\ \A s \in Steps : DOMAIN attempts'[s] = DOMAIN attempts[s] /\ Len(attempts'[s]) = Len(attempts[s])
         /\ \A s \in Steps : \A n \in DOMAIN attempts[s] :
              /\ attempts'[s][n].token = attempts[s][n].token
              /\ \/ attempts'[s][n] = attempts[s][n]
                 \/ attempts[s][n].status = "RUNNING" /\ attempts'[s][n].status = "INTERRUPTED"
<1> DEFINE New(s) == [n \in DOMAIN attempts[s] |->
             IF attempts[s][n].token = exec[w].token /\ attempts[s][n].status = "RUNNING"
             THEN [attempts[s][n] EXCEPT !.status = "INTERRUPTED"]
             ELSE attempts[s][n]]
<1>1. attempts' = [s \in Steps |-> New(s)]
  BY DEF InterruptStale
<1>2. ASSUME NEW s \in Steps
      PROVE  /\ New(s) \in Seq(Attempt) /\ Len(New(s)) = Len(attempts[s])
             /\ \A n \in DOMAIN attempts[s] :
                  /\ New(s)[n].token = attempts[s][n].token
                  /\ \/ New(s)[n] = attempts[s][n]
                     \/ attempts[s][n].status = "RUNNING" /\ New(s)[n].status = "INTERRUPTED"
  <2>1. attempts[s] \in Seq(Attempt) /\ \A n \in DOMAIN attempts[s] : attempts[s][n] \in Attempt
    BY ElementOfSeq, LenProperties
  <2>2. New(s) \in [DOMAIN attempts[s] -> Attempt]
    BY <2>1 DEF Attempt, AttemptStatus
  <2>3. New(s) \in Seq(Attempt) /\ Len(New(s)) = Len(attempts[s])
    <3> HIDE DEF New
    <3> QED BY <2>1, <2>2, SameDomainSequence
  <2> QED BY <2>1, <2>3 DEF Attempt
<1>3. \A s \in Steps : attempts'[s] = New(s) /\ DOMAIN New(s) = DOMAIN attempts[s]
  BY <1>1
<1> HIDE DEF New
<1> QED BY <1>1, <1>2, <1>3

(* Setting the waiting rows of a step.                                      *)
LEMMA WaitingRowsSet ==
  ASSUME attempts \in [Steps -> Seq(Attempt)], NEW s \in Steps, SetWaitingRows(s, "CANCELLED")
  PROVE  /\ attempts' \in [Steps -> Seq(Attempt)]
         /\ \A t \in Steps : DOMAIN attempts'[t] = DOMAIN attempts[t] /\ Len(attempts'[t]) = Len(attempts[t])
         /\ \A t \in Steps : \A n \in DOMAIN attempts[t] :
              /\ attempts'[t][n].token = attempts[t][n].token
              /\ IF t = s /\ attempts[t][n].status = "WAITING_APPROVAL"
                 THEN attempts'[t][n].status = "CANCELLED"
                 ELSE attempts'[t][n] = attempts[t][n]
<1> DEFINE new == [n \in DOMAIN attempts[s] |-> IF n \in WaitingRows(s)
                     THEN [attempts[s][n] EXCEPT !.status = "CANCELLED"] ELSE attempts[s][n]]
<1>1. attempts' = [attempts EXCEPT ![s] = new]
  BY DEF SetWaitingRows
<1>2. attempts[s] \in Seq(Attempt) /\ \A n \in DOMAIN attempts[s] : attempts[s][n] \in Attempt
  BY ElementOfSeq, LenProperties
<1>3. new \in [DOMAIN attempts[s] -> Attempt]
  BY <1>2 DEF Attempt, AttemptStatus
<1>4. \A n \in DOMAIN attempts[s] :
        /\ new[n].token = attempts[s][n].token
        /\ IF attempts[s][n].status = "WAITING_APPROVAL"
           THEN new[n].status = "CANCELLED" ELSE new[n] = attempts[s][n]
  BY <1>2 DEF Attempt, WaitingRows
<1>5. DOMAIN new = DOMAIN attempts[s]
  OBVIOUS
<1> HIDE DEF new
<1>6. new \in Seq(Attempt) /\ Len(new) = Len(attempts[s])
  BY <1>2, <1>3, SameDomainSequence
<1>7. \A t \in Steps : attempts'[t] = IF t = s THEN new ELSE attempts[t]
  BY <1>1
<1> QED BY <1>1, <1>4, <1>5, <1>6, <1>7

-------------------------------------------------------------------------------
(* Type correctness.                                                        *)

Active == {"loop", "numbering", "inserting", "executing", "finishing"}

(* What the program counter of an execution says about its step, its row    *)
(* and its token.                                                           *)
Placed(e, rows, last) ==
  /\ e.pc \in {"numbering", "inserting", "executing"} => e.step \in Steps
  /\ e.pc = "executing" =>
       /\ e.row \in DOMAIN rows[e.step]
       /\ rows[e.step][e.row].token = e.token
  /\ e.pc = "finishing" => e.verdict # "NONE"
  /\ e.pc \in Active => e.token # NoToken
  /\ e.token \in 0..last

TypeInv ==
  /\ TypeOK
  /\ run.token \in 0..issued
  /\ \A w \in Workers : Placed(exec[w], attempts, issued)

(* Rows are added and their status changes, but a row keeps its token.      *)
RowsKeepTokens ==
  \A s \in Steps : \A n \in DOMAIN attempts[s] :
    n \in DOMAIN attempts'[s] /\ attempts'[s][n].token = attempts[s][n].token

(* Writing a status leaves every token of the history alone.                *)
LEMMA RowUpdateKeepsTokens ==
  ASSUME attempts \in [Steps -> Seq(Attempt)],
         NEW s \in Steps, NEW n, NEW st \in AttemptStatus,
         RowSet(s, n, st)
  PROVE  attempts' \in [Steps -> Seq(Attempt)] /\ RowsKeepTokens
<1>1. CASE n \in DOMAIN attempts[s]
  <2>1. /\ attempts' \in [Steps -> Seq(Attempt)]
        /\ \A t \in Steps : DOMAIN attempts'[t] = DOMAIN attempts[t]
        /\ \A t \in Steps : \A m \in DOMAIN attempts[t] :
              attempts'[t][m] = IF t = s /\ m = n THEN [token |-> attempts[s][n].token, status |-> st]
                                ELSE attempts[t][m]
    BY <1>1, RowUpdate
  <2>2. \A t \in Steps : \A m \in DOMAIN attempts[t] : attempts'[t][m].token = attempts[t][m].token
    BY <2>1
  <2> QED BY <2>1, <2>2 DEF RowsKeepTokens
<1>2. CASE n \notin DOMAIN attempts[s]
  <2>1. attempts' = [attempts EXCEPT ![s] = [attempts[s] EXCEPT ![n] = [attempts[s][n] EXCEPT !.status = st]]]
    BY DEF RowSet
  <2>2. [attempts[s] EXCEPT ![n] = [attempts[s][n] EXCEPT !.status = st]] = attempts[s]
    <3> DEFINE q == attempts[s]
               r == [attempts[s][n] EXCEPT !.status = st]
    <3>1. q \in [DOMAIN q -> Attempt] /\ n \notin DOMAIN q
      BY <1>2, ElementOfSeq, LenProperties
    <3> HIDE DEF q, r
    <3>2. [q EXCEPT ![n] = r] = q
      BY <3>1
    <3> QED BY <3>2 DEF q, r
  <2>3. attempts' = attempts
    BY <2>1, <2>2
  <2> QED BY <2>3 DEF RowsKeepTokens
<1> QED BY <1>1, <1>2

(* Every step changes the local state of at most one worker.                *)
LEMMA OneWorkerMoves ==
  ASSUME TypeInv, NEW w \in Workers, NEW e \in Execution,
         exec' = [exec EXCEPT ![w] = e],
         run' \in Run, issued' \in issued..MaxClaims, run'.token \in 0..issued',
         attempts' \in [Steps -> Seq(Attempt)], RowsKeepTokens,
         request' \in [Steps -> RequestStatus],
         Placed(e, attempts', issued')
  PROVE  TypeInv'
<1>1. /\ issued \in Nat /\ issued' \in 0..MaxClaims /\ MaxClaims \in Nat /\ issued <= issued'
      /\ exec \in [Workers -> Execution]
  BY BoundsAssumption DEF TypeInv, TypeOK
<1>2. TypeOK'
  BY <1>1 DEF TypeOK
<1>3. ASSUME NEW v \in Workers PROVE Placed(exec'[v], attempts', issued')
  <2>1. CASE v = w
    BY <1>1, <2>1
  <2>2. CASE v # w
    <3>1. exec'[v] = exec[v] /\ Placed(exec[v], attempts, issued)
      BY <1>1, <2>2 DEF TypeInv
    <3> QED BY <1>1, <3>1 DEF Placed, RowsKeepTokens
  <2> QED BY <2>1, <2>2
<1> QED BY <1>2, <1>3 DEF TypeInv

(* A worker that is about to call finishWorkflowRun.                        *)
LEMMA SettledWorker ==
  ASSUME TypeInv, NEW w \in Workers, NEW v \in Verdict \ {"NONE"}, exec[w].pc \in Active, Settle(w, v)
  PROVE  \E e \in Execution :
           /\ exec' = [exec EXCEPT ![w] = e]
           /\ \A rows : Placed(e, rows, issued)
           /\ e.pc = "finishing" /\ e.verdict = v /\ e.token = exec[w].token
<1> DEFINE e == [exec[w] EXCEPT !.pc = "finishing", !.verdict = v, !.row = 0]
<1>1. exec[w] \in Execution /\ Placed(exec[w], attempts, issued) /\ exec \in [Workers -> Execution]
  BY DEF TypeInv, TypeOK
<1>2. exec' = [exec EXCEPT ![w] = e]
  BY <1>1 DEF Settle
<1>3. e \in Execution /\ e.pc = "finishing" /\ e.verdict = v /\ e.token = exec[w].token
  BY <1>1 DEF Execution
<1>4. \A rows : Placed(e, rows, issued)
  BY <1>1, <1>3 DEF Placed, Active
<1> QED BY <1>2, <1>3, <1>4

(* The initial state is well typed.                                         *)
LEMMA TypeInit == Init => TypeInv
<1> SUFFICES ASSUME Init PROVE TypeInv
  OBVIOUS
<1>1. /\ NoToken \in 0..issued /\ issued \in 0..MaxClaims
      /\ run \in Run /\ run.token = NoToken
  BY StepsAssumption, BoundsAssumption DEF Init, Run, Status, Lease, NoToken, Token
<1>2. attempts \in [Steps -> Seq(Attempt)]
  BY EmptySeq DEF Init
<1>3. request \in [Steps -> RequestStatus]
  BY DEF Init, RequestStatus
<1>4. Idle \in Execution
  BY DEF Idle, Execution, Verdict, NoToken
<1>5. exec \in [Workers -> Execution] /\ \A w \in Workers : exec[w] = Idle
  BY <1>4 DEF Init
<1>6. Placed(Idle, attempts, issued)
  BY <1>1 DEF Placed, Idle, Active
<1> QED BY <1>1, <1>2, <1>3, <1>5, <1>6 DEF TypeInv, TypeOK

(* Every step keeps TypeInv: one step per action.                           *)
LEMMA TypeStep == TypeInv /\ [Next]_vars => TypeInv'
<1> SUFFICES ASSUME TypeInv, [Next]_vars PROVE TypeInv'
  OBVIOUS
<1>0. /\ run \in Run /\ issued \in 0..MaxClaims /\ attempts \in [Steps -> Seq(Attempt)]
      /\ request \in [Steps -> RequestStatus] /\ exec \in [Workers -> Execution]
      /\ MaxClaims \in Nat /\ issued \in issued..MaxClaims /\ run.token \in 0..issued
      /\ \A w \in Workers : Placed(exec[w], attempts, issued) /\ exec[w] \in Execution
  BY BoundsAssumption DEF TypeInv, TypeOK
<1>idle. Idle \in Execution /\ \A rows : Placed(Idle, rows, issued)
  BY <1>0 DEF Idle, Execution, Verdict, NoToken, Placed, Active
<1>1. CASE UNCHANGED vars
  BY <1>1 DEF vars, TypeInv, TypeOK
<1>2. ASSUME NEW w \in Workers, ClaimRead(w) PROVE TypeInv'
  <2> DEFINE e == [Idle EXCEPT !.pc = IF Stale THEN "interrupting" ELSE "granting",
                    !.token = IF Stale THEN run.token ELSE NoToken,
                    !.strict = Stale /\ run.lease = "lapsed"]
  <2>1. exec' = [exec EXCEPT ![w] = e] /\ UNCHANGED <<run, issued, attempts, request>>
    BY <1>2 DEF ClaimRead
  <2>2. e \in Execution
    <3>1. (IF Stale THEN run.token ELSE NoToken) \in Token \cup {NoToken}
      BY <1>0 DEF Run
    <3>2. (Stale /\ run.lease = "lapsed") \in BOOLEAN
      OBVIOUS
    <3>3. (IF Stale THEN "interrupting" ELSE "granting") \in {"interrupting", "granting"}
      OBVIOUS
    <3> QED BY <3>1, <3>2, <3>3 DEF Idle, Execution, Verdict
  <2>3. e.pc \in {"interrupting", "granting"} /\ e.token \in {run.token, NoToken}
    BY DEF Idle
  <2> HIDE DEF e
  <2>4. Placed(e, attempts', issued')
    BY <1>0, <2>1, <2>3 DEF NoToken, Placed, Active
  <2> QED BY <1>0, <2>1, <2>2, <2>4, OneWorkerMoves DEF RowsKeepTokens
<1>3. ASSUME NEW w \in Workers, InterruptStale(w) PROVE TypeInv'
  <2> DEFINE e == [exec[w] EXCEPT !.pc = "granting"]
  <2>1. /\ exec' = [exec EXCEPT ![w] = e] /\ UNCHANGED <<run, issued, request>>
        /\ exec[w].pc = "interrupting"
    BY <1>0, <1>3 DEF InterruptStale
  <2>2. e \in Execution /\ e.pc = "granting" /\ e.token = exec[w].token
    BY <1>0 DEF Execution
  <2>3. attempts' \in [Steps -> Seq(Attempt)] /\ RowsKeepTokens
    BY <1>0, <1>3, InterruptedRows DEF RowsKeepTokens
  <2> HIDE DEF e
  <2>4. Placed(e, attempts', issued')
    BY <1>0, <2>1, <2>2 DEF Placed, Active
  <2> QED BY <1>0, <2>1, <2>2, <2>3, <2>4, OneWorkerMoves
<1>4. ASSUME NEW w \in Workers, ClaimGrant(w) PROVE TypeInv'
  <2>1. PICK found \in BOOLEAN : exec' = [exec EXCEPT ![w] =
         [Idle EXCEPT !.token = issued', !.step = ResumeStep(run.cur),
                      !.pc = IF found THEN "loop" ELSE "finishing",
                      !.verdict = IF found THEN "NONE" ELSE "FAILED"]]
    BY <1>4 DEF ClaimGrant
  <2> DEFINE e == [Idle EXCEPT !.token = issued', !.step = ResumeStep(run.cur),
                      !.pc = IF found THEN "loop" ELSE "finishing",
                      !.verdict = IF found THEN "NONE" ELSE "FAILED"]
  <2>2. /\ issued' = issued + 1 /\ issued' \in issued..MaxClaims /\ UNCHANGED <<attempts, request>>
        /\ run' = [run EXCEPT !.status = "RUNNING", !.token = issued', !.lease = "live"]
    BY <1>0, <1>4 DEF ClaimGrant
  <2>3. run' \in Run /\ run'.token \in 0..issued'
    <3>1. issued' \in Token /\ issued' \in 0..issued'
      BY <1>0, <2>2 DEF Token
    <3> QED BY <1>0, <2>2, <3>1 DEF Run, Status, Lease
  <2>4. ResumeStep(run.cur) \in Steps
    BY <1>0, StepsAssumption DEF ResumeStep, Run
  <2>5. issued' \in Token /\ issued' \in 0..issued' /\ issued' # NoToken
    BY <1>0, <2>2 DEF Token, NoToken
  <2>6. e \in Execution
    BY <2>4, <2>5 DEF Idle, Execution, Verdict
  <2>7. e.pc \in {"loop", "finishing"} /\ e.token = issued' /\ (e.pc = "finishing" => e.verdict # "NONE")
    BY DEF Idle
  <2>8. exec' = [exec EXCEPT ![w] = e]
    BY <2>1
  <2> HIDE DEF e
  <2>9. Placed(e, attempts', issued')
    BY <2>5, <2>7 DEF Placed, Active
  <2> QED BY <1>0, <2>2, <2>3, <2>6, <2>8, <2>9, OneWorkerMoves DEF RowsKeepTokens
<1>5. ASSUME NEW w \in Workers, ClaimRefused(w) \/ InsertConflict(w) \/ AdvanceFails(w) \/ Crash(w)
      PROVE TypeInv'
  <2>1. exec' = [exec EXCEPT ![w] = Idle] /\ UNCHANGED <<run, issued, attempts, request>>
    BY <1>5 DEF ClaimRefused, InsertConflict, AdvanceFails, Crash, Leave
  <2> QED BY <1>0, <1>idle, <2>1, OneWorkerMoves DEF RowsKeepTokens
<1>6. ASSUME NEW w \in Workers, ReadRun(w) \/ ReachEnd(w) PROVE TypeInv'
  <2>1. /\ UNCHANGED <<run, issued, attempts, request>> /\ exec[w].pc = "loop"
        /\ \/ Leave(w)
           \/ \E v \in Verdict \ {"NONE"} : Settle(w, v)
           \/ exec[w].step # NoStep /\ exec' = [exec EXCEPT ![w].pc = "numbering"]
    BY <1>6 DEF ReadRun, ReachEnd, Verdict
  <2>2. CASE Leave(w)
    BY <1>0, <1>idle, <2>1, <2>2, OneWorkerMoves DEF Leave, RowsKeepTokens
  <2>3. ASSUME NEW v \in Verdict \ {"NONE"}, Settle(w, v) PROVE TypeInv'
    BY <1>0, <2>1, <2>3, SettledWorker, OneWorkerMoves DEF RowsKeepTokens, Active
  <2>4. CASE exec[w].step # NoStep /\ exec' = [exec EXCEPT ![w].pc = "numbering"]
    <3> DEFINE e == [exec[w] EXCEPT !.pc = "numbering"]
    <3>1. exec' = [exec EXCEPT ![w] = e]
      BY <1>0, <2>4
    <3>2. /\ e \in Execution /\ e.pc = "numbering" /\ e.token = exec[w].token
          /\ e.step = exec[w].step /\ e.step \in Steps
      BY <1>0, <2>4 DEF Execution
    <3> HIDE DEF e
    <3>3. Placed(e, attempts', issued')
      BY <1>0, <2>1, <3>2 DEF Placed, Active
    <3> QED BY <1>0, <2>1, <3>1, <3>2, <3>3, OneWorkerMoves DEF RowsKeepTokens
  <2> QED BY <2>1, <2>2, <2>3, <2>4
<1>7. ASSUME NEW w \in Workers, ReadLatestAttempt(w) PROVE TypeInv'
  <2> DEFINE e == [exec[w] EXCEPT !.pc = "inserting", !.row = Len(attempts[exec[w].step])]
  <2>1. /\ exec' = [exec EXCEPT ![w] = e] /\ UNCHANGED <<run, issued, attempts, request>>
        /\ exec[w].pc = "numbering"
    BY <1>0, <1>7 DEF ReadLatestAttempt
  <2>2. exec[w].step \in Steps /\ Len(attempts[exec[w].step]) \in Nat
    BY <1>0, <2>1, LenProperties DEF Placed
  <2>3. e \in Execution /\ e.pc = "inserting" /\ e.token = exec[w].token /\ e.step = exec[w].step
    BY <1>0, <2>2 DEF Execution
  <2> HIDE DEF e
  <2>4. Placed(e, attempts', issued')
    BY <1>0, <2>1, <2>2, <2>3 DEF Placed, Active
  <2> QED BY <1>0, <2>1, <2>3, <2>4, OneWorkerMoves DEF RowsKeepTokens
<1>8. ASSUME NEW w \in Workers, HeartbeatFails(w) \/ WatcherSeesCancel(w) \/ TotalTimeout(w) PROVE TypeInv'
  <2>1. PICK e \in {[exec[w] EXCEPT !.lost = TRUE], [exec[w] EXCEPT !.cancel = TRUE], [exec[w] EXCEPT !.timedOut = TRUE]} :
          exec' = [exec EXCEPT ![w] = e]
    BY <1>0, <1>8 DEF HeartbeatFails, WatcherSeesCancel, TotalTimeout
  <2>2. UNCHANGED <<run, issued, attempts, request>>
    BY <1>8 DEF HeartbeatFails, WatcherSeesCancel, TotalTimeout
  <2>3. /\ e \in Execution /\ e.pc = exec[w].pc /\ e.token = exec[w].token
        /\ e.step = exec[w].step /\ e.row = exec[w].row /\ e.verdict = exec[w].verdict
    BY <1>0 DEF Execution
  <2>4. Placed(e, attempts', issued')
    BY <1>0, <2>2, <2>3 DEF Placed
  <2> QED BY <1>0, <2>1, <2>2, <2>3, <2>4, OneWorkerMoves DEF RowsKeepTokens
<1>9. ASSUME NEW w \in Workers, HeartbeatRenews(w) PROVE TypeInv'
  BY <1>0, <1>9 DEF HeartbeatRenews, TypeInv, TypeOK, Run, Lease
<1>10. ASSUME NEW w \in Workers, FinishRun(w) PROVE TypeInv'
  <2>1. /\ exec' = [exec EXCEPT ![w] = Idle] /\ UNCHANGED <<issued, attempts, request>>
        /\ exec[w].verdict \in Verdict
    BY <1>0, <1>10 DEF FinishRun, Leave, Execution
  <2>2. run' \in Run /\ run'.token \in 0..issued'
    BY <1>0, <1>10, <2>1 DEF FinishRun, Run, Lease, Status, Terminal, Verdict, Placed
  <2> QED BY <1>0, <1>idle, <2>1, <2>2, OneWorkerMoves DEF RowsKeepTokens
<1>11. CASE LeaseTick \/ RequestCancel
  BY <1>0, <1>11 DEF LeaseTick, RequestCancel, TypeInv, TypeOK, Run, Lease, Status
<1>12. ASSUME NEW w \in Workers, InsertAttempt(w) PROVE TypeInv'
  <2> DEFINE s == exec[w].step
             row == [token |-> exec[w].token, status |-> "RUNNING"]
             e == [exec[w] EXCEPT !.pc = "executing", !.row = @ + 1]
  <2>1. /\ attempts' = [attempts EXCEPT ![s] = Append(@, row)] /\ UNCHANGED <<run, issued, request>>
        /\ exec' = [exec EXCEPT ![w] = e]
        /\ exec[w].pc = "inserting" /\ exec[w].row = Len(attempts[s])
    BY <1>0, <1>12 DEF InsertAttempt
  <2>2. s \in Steps /\ exec[w].token \in Token /\ Len(attempts[s]) \in Nat
    BY <1>0, <2>1, LenProperties DEF Placed, Active, Token, NoToken
  <2>3. row \in Attempt /\ row.token = exec[w].token
    BY <2>2 DEF Attempt, AttemptStatus
  <2>4. /\ e \in Execution /\ e.pc = "executing" /\ e.token = exec[w].token
        /\ e.step = s /\ e.row = Len(attempts[s]) + 1
    <3> DEFINE k == Len(attempts[s]) + 1
    <3>1. k \in Nat /\ e = [exec[w] EXCEPT !.pc = "executing", !.row = k]
      BY <2>1, <2>2
    <3> HIDE DEF e, k
    <3>2. e \in Execution /\ e.pc = "executing" /\ e.token = exec[w].token /\ e.step = exec[w].step /\ e.row = k
      BY <1>0, <3>1 DEF Execution
    <3> QED BY <3>2 DEF k
  <2> HIDE DEF e, row, s
  <2>5. /\ attempts' \in [Steps -> Seq(Attempt)] /\ RowsKeepTokens
        /\ Len(attempts'[s]) = Len(attempts[s]) + 1
        /\ attempts'[s][Len(attempts[s]) + 1] = row
    BY <1>0, <2>1, <2>2, <2>3, RowInsert DEF RowsKeepTokens
  <2>6. Len(attempts[s]) + 1 \in DOMAIN attempts'[s]
    BY <2>2, <2>5, LenProperties
  <2>7. Placed(e, attempts', issued')
    BY <1>0, <2>1, <2>2, <2>3, <2>4, <2>5, <2>6 DEF Placed, Active
  <2> QED BY <1>0, <2>1, <2>4, <2>5, <2>7, OneWorkerMoves
<1>13. ASSUME NEW w \in Workers, StepSucceeds(w) \/ StepPauses(w) \/ StepFails(w) PROVE TypeInv'
  <2>1. /\ exec[w].pc = "executing" /\ exec[w].step \in Steps
        /\ exec[w].row \in DOMAIN attempts[exec[w].step] /\ exec[w].pc \in Active
    BY <1>0, <1>13 DEF StepSucceeds, StepPauses, StepFails, Placed, Active
  <2>2. \/ attempts' = attempts
        \/ \E st \in AttemptStatus : RowSet(exec[w].step, exec[w].row, st)
    BY <1>13 DEF StepSucceeds, StepPauses, StepFails, SetMyAttempt, AttemptStatus, RowSet
  <2>3. attempts' \in [Steps -> Seq(Attempt)] /\ RowsKeepTokens
    <3>1. CASE attempts' = attempts
      BY <1>0, <3>1 DEF RowsKeepTokens
    <3>2. ASSUME NEW st \in AttemptStatus, RowSet(exec[w].step, exec[w].row, st)
          PROVE  attempts' \in [Steps -> Seq(Attempt)] /\ RowsKeepTokens
      BY <1>0, <2>1, <3>2, RowUpdateKeepsTokens
    <3> QED BY <2>2, <3>1, <3>2
  <2>4. /\ run' \in Run /\ run'.token \in 0..issued' /\ issued' = issued
        /\ request' \in [Steps -> RequestStatus]
    <3>1. CASE StepSucceeds(w)
      <4>1. PICK next \in Steps \cup {NoStep} : run' = [run EXCEPT !.cur = next]
        BY <2>1, <3>1, StepsAssumption DEF StepSucceeds
      <4>2. run' \in Run /\ run'.token = run.token
        BY <1>0, <4>1 DEF Run
      <4> QED BY <1>0, <3>1, <4>2 DEF StepSucceeds
    <3>2. CASE StepPauses(w)
      <4>1. run' \in Run /\ run'.token = NoToken /\ issued' = issued
        BY <1>0, <3>2 DEF StepPauses, Run, Status, Lease
      <4>2. request' \in [Steps -> RequestStatus]
        BY <1>0, <2>1, <3>2 DEF StepPauses, RequestStatus
      <4> QED BY <1>0, <4>1, <4>2 DEF NoToken
    <3>3. CASE StepFails(w)
      BY <1>0, <3>3 DEF StepFails
    <3> QED BY <1>13, <3>1, <3>2, <3>3
  <2>5. \/ \E next \in Steps \cup {NoStep} :
             exec' = [exec EXCEPT ![w].pc = "loop", ![w].step = next, ![w].row = 0]
        \/ Leave(w)
        \/ \E v \in Verdict \ {"NONE"} : Settle(w, v)
    <3>1. CASE StepSucceeds(w)
      BY <2>1, <3>1, StepsAssumption DEF StepSucceeds
    <3>2. CASE StepPauses(w)
      BY <3>2 DEF StepPauses
    <3>3. CASE StepFails(w)
      <4>1. \/ exec' = [exec EXCEPT ![w].pc = "loop", ![w].row = 0]
            \/ Leave(w)
            \/ \E v \in Verdict \ {"NONE"} : Settle(w, v)
        BY <3>3 DEF StepFails, Verdict
      <4>2. ASSUME exec' = [exec EXCEPT ![w].pc = "loop", ![w].row = 0]
            PROVE  exec' = [exec EXCEPT ![w].pc = "loop", ![w].step = exec[w].step, ![w].row = 0]
        BY <1>0, <4>2 DEF Execution
      <4> QED BY <2>1, <4>1, <4>2
    <3> QED BY <1>13, <3>1, <3>2, <3>3
  <2>6. ASSUME NEW next \in Steps \cup {NoStep},
               exec' = [exec EXCEPT ![w].pc = "loop", ![w].step = next, ![w].row = 0]
        PROVE  TypeInv'
    <3> DEFINE e == [exec[w] EXCEPT !.pc = "loop", !.step = next, !.row = 0]
    <3>1. exec' = [exec EXCEPT ![w] = e]
      BY <1>0, <2>6
    <3>2. e \in Execution /\ e.pc = "loop" /\ e.token = exec[w].token
      BY <1>0 DEF Execution
    <3> HIDE DEF e
    <3>3. Placed(e, attempts', issued')
      BY <1>0, <2>1, <2>4, <3>2 DEF Placed, Active
    <3> QED BY <1>0, <2>3, <2>4, <3>1, <3>2, <3>3, OneWorkerMoves
  <2>7. CASE Leave(w)
    BY <1>0, <1>idle, <2>3, <2>4, <2>7, OneWorkerMoves DEF Leave
  <2>8. ASSUME NEW v \in Verdict \ {"NONE"}, Settle(w, v) PROVE TypeInv'
    BY <1>0, <2>1, <2>3, <2>4, <2>8, SettledWorker, OneWorkerMoves
  <2> QED BY <2>5, <2>6, <2>7, <2>8
<1>14. ASSUME CancelWaiting PROVE TypeInv'
  <2>1. /\ run' \in Run /\ run'.token \in 0..issued' /\ UNCHANGED <<issued, exec>>
        /\ request' \in [Steps -> RequestStatus]
    <3>1. run' \in Run /\ run'.token = NoToken /\ UNCHANGED <<issued, exec>>
      BY <1>0, <1>14 DEF CancelWaiting, Run, Status, Terminal, Lease
    <3>2. request' \in [Steps -> RequestStatus]
      BY <1>0, <1>14 DEF CancelWaiting, RequestStatus
    <3> QED BY <1>0, <3>1, <3>2 DEF NoToken
  <2>2. attempts' = attempts \/ \E s \in Steps : SetWaitingRows(s, "CANCELLED")
    BY <1>14 DEF CancelWaiting
  <2>3. attempts' \in [Steps -> Seq(Attempt)] /\ RowsKeepTokens
    BY <1>0, <2>2, WaitingRowsSet DEF RowsKeepTokens
  <2>4. \A w \in Workers : Placed(exec'[w], attempts', issued')
    BY <1>0, <2>1, <2>3 DEF Placed, RowsKeepTokens
  <2> QED BY <1>0, <2>1, <2>3, <2>4 DEF TypeInv, TypeOK
<1>15. ASSUME NEW s \in Steps, Decision(s) PROVE TypeInv'
  <2>1. PICK r \in {"APPROVED", "REJECTED", "EXPIRED"}, st \in AttemptStatus :
           /\ request' = [request EXCEPT ![s] = r]
           /\ RowSet(s, LatestWaiting(s), st)
    BY <1>15 DEF Decision, Approve, Refuse, AttemptStatus, RowSet
  <2>2. request' \in [Steps -> RequestStatus]
    BY <1>0, <2>1 DEF RequestStatus
  <2>3. run' \in Run /\ run'.token = NoToken /\ UNCHANGED <<issued, exec>>
    <3>1. CASE Approve(s)
      <4>1. PICK next \in Steps \cup {NoStep} :
              run' = [status |-> "QUEUED", token |-> NoToken, lease |-> "none", cur |-> next]
        BY <3>1, StepsAssumption DEF Approve
      <4> QED BY <3>1, <4>1 DEF Approve, Run, Status, Lease
    <3>2. CASE Refuse(s, "REJECTED") \/ Refuse(s, "EXPIRED")
      BY <1>0, <3>2 DEF Refuse, Run, Status, Terminal, Lease
    <3> QED BY <1>15, <3>1, <3>2 DEF Decision
  <2>4. attempts' \in [Steps -> Seq(Attempt)] /\ RowsKeepTokens
    BY <1>0, <2>1, RowUpdateKeepsTokens
  <2>5. \A w \in Workers : Placed(exec'[w], attempts', issued')
    BY <1>0, <2>3, <2>4 DEF Placed, RowsKeepTokens
  <2> QED BY <1>0, <2>2, <2>3, <2>4, <2>5 DEF TypeInv, TypeOK, NoToken
<1> QED BY <1>1, <1>2, <1>3, <1>4, <1>5, <1>6, <1>7, <1>8, <1>9, <1>10, <1>11, <1>12, <1>13, <1>14, <1>15
        DEF Next, WorkerStep, Timers

(* RunExecution never leaves its types, whatever the graph and the bounds:  *)
(* in particular an executing worker always points at its own attempt row,  *)
(* and a worker in the loop always holds an issued token.                   *)
THEOREM TypeCorrect == Spec => []TypeOK
<1>1. TypeInv => TypeOK
  BY DEF TypeInv
<1> QED BY <1>1, TypeInit, TypeStep, PTL DEF Spec

-------------------------------------------------------------------------------
(* History.                                                                 *)

(* The least and the greatest element of a set of row numbers.             *)
LEMMA Least ==
  ASSUME NEW T, T \subseteq Nat, T # {}
  PROVE  \E x \in T : \A y \in T : x <= y
<1> DEFINE R == OpToRel(<, Nat)
<1>1. IsWellFoundedOn(R, Nat)
  BY NatLessThanWellFounded
<1> HIDE DEF R
<1>2. PICK x \in T : \A y \in T : ~ (<<y, x>> \in R)
  BY <1>1, WFMin, Zenon
<1>3. \A y \in T : y < x => <<y, x>> \in R
  BY DEF R, OpToRel
<1>4. \A y \in T : y \in Nat
  OBVIOUS
<1>5. ASSUME NEW y \in T PROVE x <= y
  <2>1. ~(y < x)
    BY <1>2, <1>3
  <2> QED BY <2>1, <1>4
<1> QED BY <1>5

(* A nonempty set of numbers below a bound has a greatest member, so that   *)
(* the latest waiting attempt exists.                                       *)
LEMMA Greatest ==
  ASSUME NEW k \in Nat, NEW T, T \subseteq 1..k, T # {}
  PROVE  \E x \in T : \A y \in T : y <= x
<1> DEFINE U == {k - x : x \in T}
<1>0. \A x \in T : x \in 1..k /\ k - x \in Nat
  OBVIOUS
<1>1. U \subseteq Nat /\ U # {}
  BY <1>0
<1>2. PICK u \in U : \A y \in U : u <= y
  BY <1>1, Least
<1>3. PICK x \in T : u = k - x
  OBVIOUS
<1>4. \A y \in T : k - y \in U /\ y \in 1..k
  OBVIOUS
<1> QED BY <1>2, <1>3, <1>4

(* A step with waiting rows has a latest one.                               *)
LEMMA LatestExists ==
  ASSUME attempts \in [Steps -> Seq(Attempt)], NEW s \in Steps, WaitingRows(s) # {}
  PROVE  LatestWaiting(s) \in WaitingRows(s)
<1>1. WaitingRows(s) \subseteq 1..Len(attempts[s]) /\ Len(attempts[s]) \in Nat
  BY LenProperties DEF WaitingRows
<1>2. \E n \in WaitingRows(s) : \A m \in WaitingRows(s) : m <= n
  BY <1>1, Greatest
<1> QED BY <1>2 DEF LatestWaiting

(* What any step does to the rows that exist.                               *)
RowsOnlyClose ==
  \A s \in Steps :
    /\ Len(attempts'[s]) >= Len(attempts[s])
    /\ \A n \in DOMAIN attempts[s] :
         /\ n \in DOMAIN attempts'[s]
         /\ attempts'[s][n].token = attempts[s][n].token
         /\ attempts[s][n].status \notin {"RUNNING", "WAITING_APPROVAL"}
              => attempts'[s][n] = attempts[s][n]

(* Setting the status of an open row only closes it.                        *)
LEMMA OpenRowSet ==
  ASSUME attempts \in [Steps -> Seq(Attempt)],
         NEW s \in Steps, NEW n \in DOMAIN attempts[s], NEW st \in AttemptStatus, RowSet(s, n, st),
         attempts[s][n].status \in {"RUNNING", "WAITING_APPROVAL"}
  PROVE  /\ RowsOnlyClose
         /\ attempts'[s][n].status = st
         /\ \A t \in Steps : Len(attempts'[t]) = Len(attempts[t])
<1>1. \A t \in Steps : Len(attempts[t]) \in Nat
  BY LenProperties
<1>2. /\ \A t \in Steps : DOMAIN attempts'[t] = DOMAIN attempts[t] /\ Len(attempts'[t]) = Len(attempts[t])
      /\ \A t \in Steps : \A m \in DOMAIN attempts[t] :
           attempts'[t][m] = IF t = s /\ m = n THEN [token |-> attempts[s][n].token, status |-> st]
                             ELSE attempts[t][m]
  BY RowUpdate
<1>3. \A t \in Steps : \A m \in DOMAIN attempts[t] :
        /\ attempts'[t][m].token = attempts[t][m].token
        /\ t # s \/ m # n => attempts'[t][m] = attempts[t][m]
        /\ t = s /\ m = n => attempts'[t][m].status = st
  BY <1>2
<1> QED BY <1>1, <1>2, <1>3 DEF RowsOnlyClose

(* The steps that touch the attempt rows.                                   *)
LEMMA RowsChangedBy ==
  ASSUME [Next]_vars
  PROVE  \/ attempts' = attempts
         \/ \E w \in Workers : \/ InterruptStale(w) \/ InsertAttempt(w)
                               \/ StepSucceeds(w) \/ StepPauses(w) \/ StepFails(w)
         \/ CancelWaiting
         \/ \E s \in Steps : Decision(s)
  BY DEF Next, WorkerStep, Timers, vars, ClaimRead, ClaimGrant, ClaimRefused, ReadRun, ReadLatestAttempt,
         InsertConflict, AdvanceFails, ReachEnd, FinishRun, HeartbeatRenews, HeartbeatFails,
         WatcherSeesCancel, TotalTimeout, Crash, LeaseTick, RequestCancel

(* Every step adds attempts or closes open ones and changes no other.       *)
LEMMA HistoryStep == TypeInv /\ [Next]_vars => RowsOnlyClose
<1> SUFFICES ASSUME TypeInv, [Next]_vars PROVE RowsOnlyClose
  OBVIOUS
<1>0. /\ attempts \in [Steps -> Seq(Attempt)]
      /\ \A s \in Steps : Len(attempts[s]) \in Nat /\ DOMAIN attempts[s] = 1..Len(attempts[s])
      /\ \A w \in Workers : Placed(exec[w], attempts, issued)
  BY LenProperties DEF TypeInv, TypeOK
<1>1. CASE attempts' = attempts
  BY <1>0, <1>1 DEF RowsOnlyClose
<1>2. ASSUME NEW w \in Workers, InterruptStale(w) PROVE RowsOnlyClose
  BY <1>0, <1>2, InterruptedRows DEF RowsOnlyClose
<1>3. ASSUME NEW w \in Workers, InsertAttempt(w) PROVE RowsOnlyClose
  <2> DEFINE s == exec[w].step
             row == [token |-> exec[w].token, status |-> "RUNNING"]
  <2>1. s \in Steps /\ row \in Attempt
    BY <1>3, TypeInv DEF InsertAttempt, TypeInv, TypeOK, Placed, Active, Attempt, AttemptStatus, Execution, NoToken
  <2>2. attempts' = [attempts EXCEPT ![s] = Append(@, row)]
    BY <1>3 DEF InsertAttempt
  <2> HIDE DEF s, row
  <2> QED BY <1>0, <2>1, <2>2, RowInsert DEF RowsOnlyClose
<1>4. ASSUME NEW w \in Workers, StepSucceeds(w) \/ StepPauses(w) \/ StepFails(w), attempts' # attempts
      PROVE  RowsOnlyClose
  <2>1. /\ exec[w].step \in Steps /\ exec[w].row \in DOMAIN attempts[exec[w].step]
        /\ attempts[exec[w].step][exec[w].row].status = "RUNNING"
        /\ \E st \in AttemptStatus : RowSet(exec[w].step, exec[w].row, st)
    BY <1>0, <1>4 DEF StepSucceeds, StepPauses, StepFails, MayAdvance, MayFailAttempt, MyAttempt, SetMyAttempt,
                      RowSet, AttemptStatus, Placed
  <2> QED BY <1>0, <2>1, OpenRowSet
<1>5. ASSUME CancelWaiting PROVE RowsOnlyClose
  BY <1>0, <1>5, WaitingRowsSet DEF CancelWaiting, RowsOnlyClose
<1>6. ASSUME NEW s \in Steps, Decision(s) PROVE RowsOnlyClose
  <2>1. LatestWaiting(s) \in WaitingRows(s)
    BY <1>0, <1>6, LatestExists DEF Decision, Approve, Refuse, Decidable
  <2>2. \E st \in AttemptStatus : RowSet(s, LatestWaiting(s), st)
    BY <1>6 DEF Decision, Approve, Refuse, AttemptStatus, RowSet
  <2> QED BY <1>0, <2>1, <2>2, OpenRowSet DEF WaitingRows
<1> QED BY <1>1, <1>2, <1>3, <1>4, <1>5, <1>6, RowsChangedBy

(* The history of a run is append-only, under every interleaving of         *)
(* workers, decisions and recoveries: a closed row keeps its outcome.       *)
THEOREM HistoryCorrect == Spec => HistoryIsAppendOnly
<1>1. TypeInv /\ [Next]_vars =>
        [\A s \in Steps :
           /\ Len(attempts'[s]) >= Len(attempts[s])
           /\ \A n \in DOMAIN attempts[s] :
                /\ attempts'[s][n].token = attempts[s][n].token
                /\ attempts[s][n].status \notin {"RUNNING", "WAITING_APPROVAL"}
                     => attempts'[s][n] = attempts[s][n]]_vars
  BY HistoryStep DEF RowsOnlyClose
<1> QED BY <1>1, TypeInit, TypeStep, PTL DEF Spec, HistoryIsAppendOnly

(* The steps that touch the run row.                                        *)
LEMMA RunChangedBy ==
  ASSUME [Next]_vars
  PROVE  \/ run' = run
         \/ \E w \in Workers : \/ ClaimGrant(w) \/ StepSucceeds(w) \/ StepPauses(w)
                               \/ (FinishRun(w) /\ MayFinish(w)) \/ HeartbeatRenews(w)
         \/ LeaseTick \/ RequestCancel \/ CancelWaiting
         \/ \E s \in Steps : Decision(s)
  BY DEF Next, WorkerStep, Timers, vars, ClaimRead, InterruptStale, ClaimRefused, ReadRun, ReadLatestAttempt,
         InsertAttempt, InsertConflict, AdvanceFails, StepFails, ReachEnd, FinishRun, HeartbeatFails,
         WatcherSeesCancel, TotalTimeout, Crash

(* No guard of a write of the run row admits a terminal status.             *)
LEMMA TerminalStep == [Next]_vars => (run.status \in Terminal => run' = run)
<1> SUFFICES ASSUME [Next]_vars, run.status \in Terminal PROVE run' = run
  OBVIOUS
<1>1. run.status \notin {"QUEUED", "RUNNING", "WAITING_APPROVAL", "CANCEL_REQUESTED"}
  BY DEF Terminal
<1>2. ASSUME NEW w \in Workers,
             ClaimGrant(w) \/ StepSucceeds(w) \/ StepPauses(w) \/ MayFinish(w) \/ HeartbeatRenews(w)
      PROVE  FALSE
  BY <1>1, <1>2 DEF ClaimGrant, Claimable, StepSucceeds, StepPauses, MayAdvance, MayFinish, HeartbeatRenews, MayRenew
<1>3. ~LeaseTick /\ ~RequestCancel /\ ~CancelWaiting
  BY <1>1 DEF LeaseTick, RequestCancel, CancelWaiting
<1>4. \A s \in Steps : ~Decision(s)
  BY <1>1 DEF Decision, Approve, Refuse, Decidable
<1> QED BY <1>2, <1>3, <1>4, RunChangedBy

(* No process and no person changes a run once it is settled.               *)
THEOREM TerminalCorrect == Spec => TerminalIsFinal
<1>1. [Next]_vars => [run.status \in Terminal => run' = run]_vars
  BY TerminalStep
<1> QED BY <1>1, PTL DEF Spec, TerminalIsFinal

-------------------------------------------------------------------------------
(* The history follows the edges of the definition.                         *)

InLoop == {"loop", "numbering", "inserting", "executing"}

(* HistoryFollowsEdges is not inductive: a worker that was handed a step    *)
(* long ago inserts a row for it later.  What survives every step is that   *)
(* the steps workers hold in memory are reached too.                        *)
EdgeInv ==
  /\ HistoryFollowsEdges
  /\ \A w \in Workers : exec[w].pc \in InLoop /\ exec[w].step # NoStep => Reached(exec[w].step)

(* Reached after the step.                                                  *)
ReachedAfter(s) == s = Entry \/ \E p \in Succeeded' : s \in Edges[p]

(* What has been reached stays reached, because rows that succeeded stay.   *)
LEMMA ReachedStays ==
  ASSUME RowsOnlyClose
  PROVE  /\ Succeeded \subseteq Succeeded'
         /\ \A s : Reached(s) => ReachedAfter(s)
<1>1. ASSUME NEW s \in Succeeded PROVE s \in Succeeded'
  <2>1. s \in Steps
    BY DEF Succeeded
  <2>2. PICK n \in DOMAIN attempts[s] : attempts[s][n].status = "SUCCEEDED"
    BY DEF Succeeded
  <2>3. n \in DOMAIN attempts'[s] /\ attempts'[s][n].status = "SUCCEEDED"
    BY <2>1, <2>2 DEF RowsOnlyClose
  <2> QED BY <2>1, <2>3 DEF Succeeded
<1>2. ASSUME NEW s, Reached(s) PROVE ReachedAfter(s)
  BY <1>1, <1>2 DEF Reached, ReachedAfter
<1> QED BY <1>1, <1>2

(* EdgeInv holds before anything has run.                                   *)
LEMMA EdgeInit == Init => EdgeInv
  BY StepsAssumption DEF Init, EdgeInv, HistoryFollowsEdges, Reached, Idle, InLoop

(* A worker's step leaves the other workers' local states alone.            *)
LEMMA OthersStay ==
  ASSUME exec \in [Workers -> Execution], NEW v \in Workers, NEW w \in Workers, w # v,
         WorkerStep(w) \/ ClaimRead(w) \/ Timers(w) \/ Crash(w)
  PROVE  exec'[v] = exec[v]
  BY DEF WorkerStep, Timers, ClaimRead, InterruptStale, ClaimGrant, ClaimRefused, ReadRun, ReadLatestAttempt,
         InsertAttempt, InsertConflict, StepSucceeds, StepPauses, AdvanceFails, StepFails, ReachEnd, FinishRun,
         HeartbeatRenews, HeartbeatFails, WatcherSeesCancel, TotalTimeout, Crash, Leave, Settle

(* Where the steps that workers hold in memory come from.                   *)
LEMMA StepOrigins ==
  ASSUME TypeInv, [Next]_vars, NEW v \in Workers,
         exec'[v].pc \in InLoop, exec'[v].step # NoStep
  PROVE  \/ exec[v].pc \in InLoop /\ exec'[v].step = exec[v].step
         \/ exec'[v].step = ResumeStep(run.cur)
         \/ StepSucceeds(v) /\ exec'[v].step \in Edges[exec[v].step]
<1>0. exec \in [Workers -> Execution] /\ exec[v] \in Execution /\ Idle.pc = "idle"
  BY DEF TypeInv, TypeOK, Idle
<1>1. CASE exec'[v] = exec[v]
  BY <1>1
<1>2. CASE ClaimRead(v) \/ InterruptStale(v)
  <2>1. exec'[v].pc \in {"interrupting", "granting"}
    <3>1. CASE ClaimRead(v)
      BY <1>0, <3>1 DEF ClaimRead, Idle
    <3>2. CASE InterruptStale(v)
      BY <1>0, <3>2 DEF InterruptStale, Execution
    <3> QED BY <1>2, <3>1, <3>2
  <2> QED BY <2>1 DEF InLoop
<1>3. CASE ClaimGrant(v)
  BY <1>0, <1>3 DEF ClaimGrant, Idle
<1>left. (Leave(v) => exec'[v].pc = "idle") /\ \A d : Settle(v, d) => exec'[v].pc = "finishing"
  <2>1. Leave(v) => exec'[v].pc = "idle"
    BY <1>0 DEF Leave
  <2>2. ASSUME NEW d, Settle(v, d) PROVE exec'[v].pc = "finishing"
    BY <1>0, <2>2 DEF Settle, Execution
  <2> QED BY <2>1, <2>2
<1>4. CASE ReadRun(v) \/ ReachEnd(v)
  <2>1. /\ exec[v].pc = "loop"
        /\ \/ Leave(v) \/ (\E d : Settle(v, d))
           \/ exec' = [exec EXCEPT ![v].pc = "numbering"]
    BY <1>4 DEF ReadRun, ReachEnd
  <2> QED BY <1>0, <1>left, <2>1 DEF Execution, InLoop
<1>12. CASE ReadLatestAttempt(v) \/ InsertAttempt(v)
  BY <1>0, <1>12 DEF ReadLatestAttempt, InsertAttempt, Execution, InLoop
<1>5. CASE StepSucceeds(v)
  <2>1. PICK next \in Edges[exec[v].step] :
          exec' = [exec EXCEPT ![v].pc = "loop", ![v].step = next, ![v].row = 0]
    BY <1>5 DEF StepSucceeds
  <2>2. exec'[v].step = next
    BY <1>0, <2>1 DEF Execution
  <2> QED BY <1>5, <2>2
<1>6. CASE StepPauses(v) \/ StepFails(v)
  <2>1. /\ exec[v].pc = "executing"
        /\ \/ Leave(v) \/ (\E d : Settle(v, d))
           \/ exec' = [exec EXCEPT ![v].pc = "loop", ![v].row = 0]
    BY <1>6 DEF StepPauses, StepFails
  <2> QED BY <1>0, <1>left, <2>1 DEF Execution, InLoop
<1>7. CASE HeartbeatFails(v) \/ WatcherSeesCancel(v) \/ TotalTimeout(v)
  <2>1. /\ exec[v].pc \in InLoop
        /\ exec' \in {[exec EXCEPT ![v].lost = TRUE], [exec EXCEPT ![v].cancel = TRUE], [exec EXCEPT ![v].timedOut = TRUE]}
    BY <1>7 DEF HeartbeatFails, WatcherSeesCancel, TotalTimeout, Watched, InLoop
  <2> QED BY <1>0, <2>1 DEF Execution
<1>8. CASE ClaimRefused(v) \/ InsertConflict(v) \/ AdvanceFails(v) \/ FinishRun(v) \/ Crash(v)
  BY <1>0, <1>8 DEF ClaimRefused, InsertConflict, AdvanceFails, FinishRun, Crash, Leave, InLoop
<1>9. ASSUME NEW w \in Workers, w # v, WorkerStep(w) \/ ClaimRead(w) \/ Timers(w) \/ Crash(w)
      PROVE  exec'[v] = exec[v]
  BY <1>0, <1>9, OthersStay
<1>10. CASE HeartbeatRenews(v) \/ LeaseTick \/ RequestCancel \/ CancelWaiting \/ UNCHANGED vars
  BY <1>10, <1>1 DEF HeartbeatRenews, LeaseTick, RequestCancel, CancelWaiting, vars
<1>11. ASSUME NEW s \in Steps, Decision(s) PROVE exec'[v] = exec[v]
  BY <1>11 DEF Decision, Approve, Refuse
<1> QED BY <1>1, <1>2, <1>3, <1>4, <1>5, <1>6, <1>7, <1>8, <1>9, <1>10, <1>11, <1>12 DEF Next, WorkerStep, Timers

(* A step that succeeds, by a worker or by an approval, makes its           *)
(* successors reached.                                                      *)
LEMMA WorkerSuccessReaches ==
  ASSUME TypeInv, NEW w \in Workers, StepSucceeds(w)
  PROVE  /\ exec[w].step \in Steps /\ exec[w].step \in Succeeded'
         /\ \A next \in Edges[exec[w].step] : ReachedAfter(next)
<1>1. /\ attempts \in [Steps -> Seq(Attempt)]
      /\ exec[w].step \in Steps /\ exec[w].row \in DOMAIN attempts[exec[w].step]
      /\ attempts[exec[w].step][exec[w].row].status = "RUNNING"
      /\ RowSet(exec[w].step, exec[w].row, "SUCCEEDED")
  BY DEF TypeInv, TypeOK, StepSucceeds, Placed, MayAdvance, MyAttempt, SetMyAttempt, RowSet
<1>2. RowsOnlyClose /\ attempts'[exec[w].step][exec[w].row].status = "SUCCEEDED"
  BY <1>1, OpenRowSet DEF AttemptStatus
<1>3. exec[w].row \in DOMAIN attempts'[exec[w].step]
  BY <1>1, <1>2 DEF RowsOnlyClose
<1>4. exec[w].step \in Succeeded'
  BY <1>1, <1>2, <1>3 DEF Succeeded
<1> QED BY <1>1, <1>4 DEF ReachedAfter

(* An approval makes its step succeed, so that the step it queues next is   *)
(* reached.                                                                 *)
LEMMA ApprovalReaches ==
  ASSUME TypeInv, NEW s \in Steps, Approve(s)
  PROVE  \A next \in Edges[s] : ReachedAfter(next)
<1>1. attempts \in [Steps -> Seq(Attempt)] /\ LatestWaiting(s) \in WaitingRows(s)
  BY LatestExists DEF Approve, Decidable, TypeInv, TypeOK
<1>2. RowSet(s, LatestWaiting(s), "SUCCEEDED")
  BY DEF Approve, RowSet
<1>3. /\ LatestWaiting(s) \in DOMAIN attempts[s]
      /\ attempts[s][LatestWaiting(s)].status = "WAITING_APPROVAL"
  BY <1>1 DEF WaitingRows
<1> DEFINE n == LatestWaiting(s)
<1> HIDE DEF n
<1>4. RowsOnlyClose /\ attempts'[s][n].status = "SUCCEEDED"
  BY <1>1, <1>2, <1>3, OpenRowSet DEF AttemptStatus, n
<1>5. n \in DOMAIN attempts'[s]
  BY <1>3, <1>4 DEF RowsOnlyClose, n
<1>6. s \in Succeeded'
  BY <1>4, <1>5 DEF Succeeded
<1> QED BY <1>6 DEF ReachedAfter

(* Only an insert starts the history of a step.                             *)
LEMMA RowsOfEmptyHistory ==
  ASSUME TypeInv, [Next]_vars, NEW s \in Steps, attempts[s] = <<>>, attempts'[s] # <<>>
  PROVE  \E w \in Workers : InsertAttempt(w) /\ exec[w].step = s
<1>0. /\ attempts \in [Steps -> Seq(Attempt)] /\ Len(attempts[s]) = 0
      /\ \A w \in Workers : Placed(exec[w], attempts, issued)
  BY DEF TypeInv, TypeOK
<1>1. Len(attempts'[s]) # 0
  BY TypeStep, EmptySeq, LenProperties DEF TypeInv, TypeOK
<1>2. ASSUME NEW w \in Workers, InsertAttempt(w), exec[w].step # s PROVE attempts'[s] = attempts[s]
  BY <1>0, <1>2 DEF InsertAttempt
<1>3. ASSUME NEW w \in Workers, InterruptStale(w) PROVE Len(attempts'[s]) = Len(attempts[s])
  BY <1>0, <1>3, InterruptedRows
<1>4. ASSUME NEW w \in Workers, StepSucceeds(w) \/ StepPauses(w) \/ StepFails(w)
      PROVE  Len(attempts'[s]) = Len(attempts[s])
  <2>1. CASE attempts' = attempts
    BY <2>1
  <2>2. CASE attempts' # attempts
    <3>1. /\ exec[w].step \in Steps /\ exec[w].row \in DOMAIN attempts[exec[w].step]
          /\ \E st \in AttemptStatus : RowSet(exec[w].step, exec[w].row, st)
      BY <1>0, <1>4, <2>2 DEF StepSucceeds, StepPauses, StepFails, SetMyAttempt, RowSet, AttemptStatus, Placed
    <3> QED BY <1>0, <3>1, RowUpdate
  <2> QED BY <2>1, <2>2
<1>5. CancelWaiting => Len(attempts'[s]) = Len(attempts[s])
  BY <1>0, WaitingRowsSet DEF CancelWaiting
<1>6. ASSUME NEW t \in Steps, Decision(t) PROVE Len(attempts'[s]) = Len(attempts[s])
  <2>1. LatestWaiting(t) \in DOMAIN attempts[t]
    BY <1>0, <1>6, LatestExists DEF Decision, Approve, Refuse, Decidable, WaitingRows
  <2>2. \E st \in AttemptStatus : RowSet(t, LatestWaiting(t), st)
    BY <1>6 DEF Decision, Approve, Refuse, AttemptStatus, RowSet
  <2> QED BY <1>0, <2>1, <2>2, RowUpdate
<1> QED BY <1>0, <1>1, <1>2, <1>3, <1>4, <1>5, <1>6, RowsChangedBy

(* Every step keeps EdgeInv: one step per action.                           *)
LEMMA EdgeStep == TypeInv /\ EdgeInv /\ [Next]_vars => EdgeInv'
<1> SUFFICES ASSUME TypeInv, EdgeInv, [Next]_vars PROVE EdgeInv'
  OBVIOUS
<1>1. RowsOnlyClose /\ \A s : Reached(s) => ReachedAfter(s)
  BY HistoryStep, ReachedStays
<1>2. Reached(ResumeStep(run.cur))
  BY DEF EdgeInv, HistoryFollowsEdges, ResumeStep, Reached
<1>3. ASSUME NEW v \in Workers, exec'[v].pc \in InLoop, exec'[v].step # NoStep
      PROVE  ReachedAfter(exec'[v].step)
  <2>1. CASE exec[v].pc \in InLoop /\ exec'[v].step = exec[v].step
    BY <1>1, <1>3, <2>1 DEF EdgeInv
  <2>2. CASE exec'[v].step = ResumeStep(run.cur)
    BY <1>1, <1>2, <2>2
  <2>3. CASE StepSucceeds(v) /\ exec'[v].step \in Edges[exec[v].step]
    BY <2>3, WorkerSuccessReaches
  <2> QED BY <1>3, <2>1, <2>2, <2>3, StepOrigins
<1>4. ASSUME NEW s \in Steps, attempts'[s] # <<>> PROVE ReachedAfter(s)
  <2>1. CASE attempts'[s] = attempts[s]
    BY <1>1, <1>4, <2>1 DEF EdgeInv, HistoryFollowsEdges
  <2>2. CASE attempts[s] # <<>>
    BY <1>1, <2>2 DEF EdgeInv, HistoryFollowsEdges
  <2>3. CASE attempts'[s] # attempts[s] /\ attempts[s] = <<>>
    <3>1. \E w \in Workers : InsertAttempt(w) /\ exec[w].step = s
      BY <2>3, RowsOfEmptyHistory
    <3> QED BY <1>1, <3>1, StepsAssumption DEF EdgeInv, InsertAttempt, InLoop
  <2> QED BY <2>1, <2>2, <2>3
<1>5. run'.cur # NoStep => ReachedAfter(run'.cur)
  <2>1. CASE run'.cur = run.cur
    BY <1>1, <2>1 DEF EdgeInv, HistoryFollowsEdges
  <2>2. ASSUME NEW w \in Workers, StepSucceeds(w) PROVE ReachedAfter(run'.cur)
    <3>1. run'.cur \in Edges[exec[w].step]
      BY <2>2 DEF StepSucceeds, TypeInv, TypeOK, Run
    <3> QED BY <2>2, <3>1, WorkerSuccessReaches
  <2>3. ASSUME NEW s \in Steps, Approve(s) PROVE ReachedAfter(run'.cur)
    <3>1. run'.cur \in Edges[s]
      BY <2>3 DEF Approve
    <3> QED BY <2>3, <3>1, ApprovalReaches
  <2>4. \/ run'.cur = run.cur
        \/ \E w \in Workers : StepSucceeds(w)
        \/ \E s \in Steps : Approve(s)
    <3>1. run \in Run
      BY DEF TypeInv, TypeOK
    <3>2. ASSUME NEW w \in Workers, ClaimRead(w) \/ WorkerStep(w) \/ Timers(w) \/ Crash(w), ~StepSucceeds(w)
          PROVE  run'.cur = run.cur
      BY <3>1, <3>2 DEF Run, WorkerStep, Timers, ClaimRead, InterruptStale, ClaimGrant, ClaimRefused,
           ReadRun, ReadLatestAttempt, InsertAttempt, InsertConflict, StepPauses, AdvanceFails, StepFails, ReachEnd,
           FinishRun, HeartbeatRenews, HeartbeatFails, WatcherSeesCancel, TotalTimeout, Crash
    <3>3. CASE LeaseTick \/ RequestCancel \/ CancelWaiting \/ UNCHANGED vars
      BY <3>1, <3>3 DEF Run, LeaseTick, RequestCancel, CancelWaiting, vars
    <3>4. ASSUME NEW s \in Steps, NEW status, Refuse(s, status) PROVE run'.cur = run.cur
      BY <3>1, <3>4 DEF Run, Refuse
    <3> QED BY <3>2, <3>3, <3>4 DEF Next, Decision
  <2> QED BY <2>1, <2>2, <2>3, <2>4
<1> QED BY <1>3, <1>4, <1>5 DEF EdgeInv, HistoryFollowsEdges, Reached, ReachedAfter

(* Every history is a path of the definition graph: no step starts before a *)
(* predecessor has succeeded, whatever crashes and stale workers do.        *)
THEOREM HistoryEdgesCorrect == Spec => []HistoryFollowsEdges
<1>1. EdgeInv => HistoryFollowsEdges
  BY DEF EdgeInv
<1> QED BY <1>1, TypeInit, TypeStep, EdgeInit, EdgeStep, PTL DEF Spec
===============================================================================
