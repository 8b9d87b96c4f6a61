-------------------------------- MODULE Generation --------------------------------
(***************************************************************************)
(* What a workspace has generated: direct AI requests and agent runs share *)
(* the daily quota AI_GENERATION_DAY, and the deletion of old admissions.  *)
(***************************************************************************)
EXTENDS DirectAI, AgentRuns

vars == <<clock, ledger, operation, request, agentVars>>

Init ==
  /\ clock = 0 /\ ledger = EmptyLedger
  /\ DirectInit /\ AgentInit

(* purgeUsageAdmissions                                                      *)
ForgetAdmissions ==
  /\ ledger' = PurgeAdmissions(ledger) /\ ledger' # ledger
  /\ UNCHANGED <<clock, directVars, agentVars>>

Next ==
  \/ DirectStep /\ UNCHANGED agentVars
  \/ AgentStep /\ UNCHANGED directVars
  \/ Tick /\ UNCHANGED <<ledger, directVars, agentVars>>
  \/ ForgetAdmissions

Spec == Init /\ [][Next]_vars

(* Time passes, and the scheduler runs its maintenance again and again.      *)
FairSpec ==
  /\ Spec
  /\ WF_vars(Tick /\ UNCHANGED <<ledger, directVars, agentVars>>)
  /\ WF_vars(RecoverStale /\ UNCHANGED agentVars)

-------------------------------------------------------------------------------
(* No operation stays IN_PROGRESS for good, though nobody settles it after a *)
(* crash; operations begun so late that the model's time ends are left out.  *)
InProgressSettles ==
  \A k \in Keys :
    (operation[k].status = "IN_PROGRESS" /\ operation[k].created < MaxTime - StaleAfter)
      ~> operation[k].status # "IN_PROGRESS"
===============================================================================
