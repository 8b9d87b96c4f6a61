-------------------------- MODULE IntegrationActions --------------------------
(***************************************************************************)
(* The external actions of workflow runs (one Slack message per run and    *)
(* step): the rows integration_action_runs, the attempts that execute the  *)
(* step, and the provider.                                                 *)
(*   lib/integrations/actions.ts, slack.ts, egress.ts                      *)
(*   lib/workflows/executors/integration-action.ts                         *)
(*                                                                         *)
(* An attempt is one workflow_step_runs row being executed.  An execution  *)
(* that failed or crashed is followed by another, and one that has lost    *)
(* its lease may still be running beside its successor, so attempts of one *)
(* action run in any order and at once.                                    *)
(***************************************************************************)
EXTENDS UsageAdmission, Credentials

CONSTANTS
  Actions,           \* one per workflow run and step: what the logical index is unique on
  Attempts,          \* step runs
  ActionOf,          \* ActionOf[t]: the action attempt t is of
  Uses,              \* Uses[a]: the credential the step's configuration names
  ConcurrentActions, \* limits.concurrentIntegrationActions
  Lease              \* WORKFLOW_EXECUTION_LEASE_MS in ticks

ASSUME ActionsAssumption ==
  /\ ActionOf \in [Attempts -> Actions]
  /\ Uses \in [Actions -> CredentialIds]
  /\ ConcurrentActions \in Nat \ {0} /\ Lease \in Nat \ {0}
  /\ Metrics = {"INTEGRATION_ACTION_DAY"}

VARIABLES
  action,   \* action[a]: the row, or NoAction
  attempt,  \* attempt[t]: where attempt t is
  slots,    \* slots[a]: the reservation of class INTEGRATION whose source is a
  posted    \* posted[a]: the attempts whose request the provider has carried out

actionVars == <<action, attempt, slots, posted>>
vars == <<clock, ledger, credential, manager, action, attempt, slots, posted>>

Terminal == {"SUCCEEDED", "FAILED", "AMBIGUOUS", "CANCELLED"}
Metric == "INTEGRATION_ACTION_DAY"

NoAction == [status |-> "none"]
NoSlot == [owner |-> "none", expires |-> 0]

(* [pc |-> where, secret |-> the credential row resolved, verdict |-> the    *)
(* status to record or the outcome returned].                               *)
Attempt(pc, secret, verdict) == [pc |-> pc, secret |-> secret, verdict |-> verdict]
Unstarted == Attempt("idle", NoCredential, "none")

Go(t, pc) == attempt' = [attempt EXCEPT ![t].pc = pc]
Judge(t, pc, verdict) == attempt' = [attempt EXCEPT ![t].pc = pc, ![t].verdict = verdict]

(* canTransitionIntegrationAction; the claim inserts the row IN_FLIGHT, and  *)
(* no row is ever PENDING.                                                   *)
CanTransition(from, to) ==
  \/ from = "none" /\ to = "IN_FLIGHT"
  \/ from = "IN_FLIGHT" /\ to \in Terminal

Init ==
  /\ clock = 0 /\ ledger = EmptyLedger
  /\ CredentialInit
  /\ action = [a \in Actions |-> NoAction]
  /\ attempt = [t \in Attempts |-> Unstarted]
  /\ slots = [a \in Actions |-> NoSlot]
  /\ posted = [a \in Actions |-> {}]

-------------------------------------------------------------------------------
(* The row is looked up first.                                               *)
Check(t) ==
  /\ attempt[t] = Unstarted
  /\ LET row == action[ActionOf[t]]
     IN CASE row.status = "SUCCEEDED" -> Judge(t, "done", "output")
          [] row.status \in Terminal \ {"SUCCEEDED"} -> Judge(t, "done", "error")
          [] OTHER -> Go(t, "checked")
  /\ UNCHANGED <<clock, ledger, credentialVars, action, slots, posted>>

Resolve(t) ==
  /\ attempt[t].pc = "checked"
  /\ LET c == Uses[ActionOf[t]]
     IN IF IsActive(c)
        THEN attempt' = [attempt EXCEPT ![t].pc = "resolved", ![t].secret = credential[c]]
        ELSE Judge(t, "done", "error")
  /\ UNCHANGED <<clock, ledger, credentialVars, action, slots, posted>>

IsHeld(a) == slots[a].expires > clock

(* An attempt that finds the reservation of its action held goes on under   *)
(* it, whoever holds it.                                                     *)
Reserve(t) ==
  /\ attempt[t].pc = "resolved"
  /\ LET a == ActionOf[t]
     IN \/ /\ IsHeld(a)
           /\ Go(t, "reserved") /\ UNCHANGED slots
        \/ /\ ~IsHeld(a)
           /\ Cardinality({b \in Actions : IsHeld(b)}) < ConcurrentActions
           /\ slots' = [slots EXCEPT ![a] = [owner |-> t, expires |-> clock + Lease]]
           /\ Go(t, "reserved")
        \/ /\ ~IsHeld(a)
           /\ Cardinality({b \in Actions : IsHeld(b)}) >= ConcurrentActions
           /\ Judge(t, "done", "retry") /\ UNCHANGED slots
  /\ UNCHANGED <<clock, ledger, credentialVars, action, posted>>

(* admitIntegrationAction: the rate limit may refuse the attempt, or the    *)
(* quota; the operation key is the same for every attempt of the action.    *)
Charge(t) ==
  /\ attempt[t].pc = "reserved"
  /\ \/ CanAdmit(ledger, Metric, ActionOf[t], clock)
        /\ ledger' = Admit(ledger, Metric, ActionOf[t], clock)
        /\ Go(t, "charged")
     \/ ~CanAdmit(ledger, Metric, ActionOf[t], clock)
        /\ Judge(t, "leaving", "error") /\ UNCHANGED ledger
     \/ Judge(t, "leaving", "retry") /\ UNCHANGED ledger
  /\ UNCHANGED <<clock, credentialVars, action, slots, posted>>

InFlightRow(t) ==
  [status |-> "IN_FLIGHT", step |-> t, version |-> attempt[t].secret.version,
   expires |-> clock + Lease]

(* Mutated form of ClaimInsert: an action whose lease has run out is taken   *)
(* over and done again.                                                      *)
ClaimTakesOver(t) ==
  /\ attempt[t].pc = "charged"
  /\ LET a == ActionOf[t]
     IN /\ \/ action[a] = NoAction
           \/ action[a].status = "IN_FLIGHT" /\ action[a].expires <= clock
        /\ action' = [action EXCEPT ![a] = InFlightRow(t)]
  /\ Go(t, "claimed")
  /\ UNCHANGED <<clock, ledger, credentialVars, slots, posted>>

ClaimInsert(t) ==
  /\ attempt[t].pc = "charged"
  /\ action[ActionOf[t]] = NoAction
  /\ action' = [action EXCEPT ![ActionOf[t]] = InFlightRow(t)]
  /\ Go(t, "claimed")
  /\ UNCHANGED <<clock, ledger, credentialVars, slots, posted>>

(* The row is there: another attempt's insert won, earlier or just now.      *)
ClaimExisting(t) ==
  /\ attempt[t].pc = "charged"
  /\ action[ActionOf[t]] # NoAction
  /\ LET row == action[ActionOf[t]]
     IN CASE row.status = "SUCCEEDED" -> Judge(t, "leaving", "output")
          [] row.status \in Terminal \ {"SUCCEEDED"} -> Judge(t, "leaving", "error")
          [] row.status = "IN_FLIGHT" /\ row.expires > clock -> Judge(t, "leaving", "error")
          [] OTHER -> Go(t, "stale")
  /\ UNCHANGED <<clock, ledger, credentialVars, action, slots, posted>>

(* markStaleRow; `expires < now` does not hold at the tick of the expiry.    *)
MarkStale(t) ==
  /\ attempt[t].pc = "stale"
  /\ LET a == ActionOf[t]
     IN IF action[a].status = "IN_FLIGHT" /\ action[a].expires < clock
        THEN action' = [action EXCEPT ![a].status = "AMBIGUOUS"]
        ELSE UNCHANGED action
  /\ Judge(t, "leaving", "error")
  /\ UNCHANGED <<clock, ledger, credentialVars, slots, posted>>

-------------------------------------------------------------------------------
(* Aborted before the request: here, or at the head of executeStaticEgress. *)
AbortBefore(t) ==
  /\ attempt[t].pc = "claimed"
  /\ Judge(t, "failing", "CANCELLED")
  /\ UNCHANGED <<clock, ledger, credentialVars, action, slots, posted>>

(* An input that does not resolve, a secret that does not open, egress that  *)
(* is disabled, a body that is too large.                                    *)
RefuseBefore(t) ==
  /\ attempt[t].pc = "claimed"
  /\ Judge(t, "failing", "FAILED")
  /\ UNCHANGED <<clock, ledger, credentialVars, action, slots, posted>>

(* executeStaticEgress: the provider carries the request out, or does not.   *)
Send(t) ==
  /\ attempt[t].pc = "claimed"
  /\ SecretOf(Uses[ActionOf[t]], attempt[t].secret) # Invalid
  /\ posted' \in {posted, [posted EXCEPT ![ActionOf[t]] = @ \cup {t}]}
  /\ Go(t, "sent")
  /\ UNCHANGED <<clock, ledger, credentialVars, action, slots>>

(* What the caller learns: a well-formed answer says that it was done, a 4xx *)
(* or ok = false that it was not; a 5xx, a timeout, a lost connection, an    *)
(* abort after the request, an unreadable answer say neither.                *)
Answers(done) == IF done THEN {"ok", "nothing"} ELSE {"refused", "nothing"}

(* Mutated form of Classified: a timeout is a rejection.                     *)
ClassifiedAsRejection(answer) == IF answer = "ok" THEN "SUCCEEDED" ELSE "FAILED"

(* classifySlackFailure, with the catch block of executeIntegrationAction    *)
Classified(answer) ==
  CASE answer = "ok" -> "SUCCEEDED"
    [] answer = "refused" -> "FAILED"
    [] answer = "nothing" -> "AMBIGUOUS"

Receive(t) ==
  /\ attempt[t].pc = "sent"
  /\ \E answer \in Answers(t \in posted[ActionOf[t]]) :
       LET verdict == Classified(answer)
       IN Judge(t, IF verdict = "SUCCEEDED" THEN "completing" ELSE "failing", verdict)
  /\ UNCHANGED <<clock, ledger, credentialVars, action, slots, posted>>

(* Mutated form of IsInFlight: the update asks for the id alone.             *)
HasRow(a) == action[a] # NoAction

(* The guard of the updates that complete and fail an action.                *)
IsInFlight(a) == action[a].status = "IN_FLIGHT"

(* completeIntegrationAction; the update may fail, and it may be made and    *)
(* its answer lost.                                                          *)
Complete(t) ==
  /\ attempt[t].pc = "completing"
  /\ LET a == ActionOf[t]
         done == action' = [action EXCEPT ![a].status = "SUCCEEDED"]
     IN \/ IsInFlight(a) /\ done /\ Judge(t, "leaving", "output")
        \/ IsInFlight(a) /\ done /\ Judge(t, "failing", "AMBIGUOUS")
        \/ UNCHANGED action /\ Judge(t, "failing", "AMBIGUOUS")
  /\ UNCHANGED <<clock, ledger, credentialVars, slots, posted>>

(* failIntegrationAction: the update, which may not happen.                  *)
FailRow(t) ==
  LET a == ActionOf[t]
  IN \/ IsInFlight(a) /\ action' = [action EXCEPT ![a].status = attempt[t].verdict]
     \/ UNCHANGED action

(* The end of the catch block; what FailRow throws is dropped.  The error a refusal *)
(* throws may be retryable (429), which the next attempt finds out is not.   *)
Fail(t) ==
  /\ attempt[t].pc = "failing"
  /\ FailRow(t)
  /\ \/ Judge(t, "leaving", "error")
     \/ attempt[t].verdict = "FAILED" /\ Judge(t, "leaving", "retry")
  /\ UNCHANGED <<clock, ledger, credentialVars, slots, posted>>

(* The reservation is released by its owner's id; a release may fail.        *)
Leave(t) ==
  /\ attempt[t].pc = "leaving"
  /\ \/ slots[ActionOf[t]].owner = t
        /\ slots' = [slots EXCEPT ![ActionOf[t]] = NoSlot]
     \/ UNCHANGED slots
  /\ Go(t, "done")
  /\ UNCHANGED <<clock, ledger, credentialVars, action, posted>>

(* The worker process is killed; the step is executed again by others.       *)
Crash(t) ==
  /\ attempt[t].pc \notin {"idle", "done"}
  /\ Judge(t, "done", "crashed")
  /\ UNCHANGED <<clock, ledger, credentialVars, action, slots, posted>>

AttemptStep ==
  \E t \in Attempts :
    \/ Check(t) \/ Resolve(t) \/ Reserve(t) \/ Charge(t)
    \/ ClaimInsert(t) \/ ClaimExisting(t) \/ MarkStale(t)
    \/ AbortBefore(t) \/ RefuseBefore(t) \/ Send(t) \/ Receive(t)
    \/ Complete(t) \/ Fail(t) \/ Leave(t) \/ Crash(t)

Next ==
  \/ Tick /\ UNCHANGED <<ledger, credentialVars, actionVars>>
  \/ CredentialStep /\ UNCHANGED <<clock, ledger, actionVars>>
  \/ AttemptStep

Spec == Init /\ [][Next]_vars

-------------------------------------------------------------------------------
(* The provider carries out the message of one run and step at most once,    *)
(* and never one that was not charged: claimIntegrationAction admits one     *)
(* attempt, and gives up an action whose lease ran out.                      *)
PostedOnce ==
  \A a \in Actions :
    /\ Cardinality(posted[a]) <= 1
    /\ posted[a] # {} => IsAdmitted(ledger, Metric, a)

(* What the row says of the message is true, whoever wrote it last, and an   *)
(* attempt hands the step an output only when the row says so; what cannot   *)
(* be known is AMBIGUOUS.                                                    *)
OutcomeIsHonest ==
  /\ \A a \in Actions :
       /\ action[a].status = "SUCCEEDED" => posted[a] # {}
       /\ action[a].status \in {"none", "FAILED", "CANCELLED"} => posted[a] = {}
  /\ \A t \in Attempts :
       attempt[t].verdict = "output" => action[ActionOf[t]].status = "SUCCEEDED"

(* A row moves as canTransitionIntegrationAction says: a late answer, or a   *)
(* late failure, never overwrites the verdict of another attempt.            *)
RowsMoveAsAllowed ==
  [][\A a \in Actions :
       action'[a].status # action[a].status
         => CanTransition(action[a].status, action'[a].status)]_vars

(* A credential that was revoked stays so, whatever rotation was under way;  *)
(* the secret of one that is active opens, whichever of two rotations wrote  *)
(* last.                                                                     *)
RevocationIsFinal ==
  [][\A c \in CredentialIds :
       /\ credential[c].status = "deleted" => credential'[c] = credential[c]
       /\ credential'[c].status = "active" => SecretOf(c, credential'[c]) # Invalid]_vars
===============================================================================
