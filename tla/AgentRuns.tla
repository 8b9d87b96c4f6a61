-------------------------------- MODULE AgentRuns --------------------------------
(***************************************************************************)
(* Agents: the definition of one agent and its edits, and the executions   *)
(* of runAgent, from POST /api/agents/[id]/runs and from AGENT steps of    *)
(* workflows: the rows agent_runs and agent_run_steps.                     *)
(*   lib/agents/service.ts, runner.ts, registry.ts, policy.ts              *)
(*   lib/workflows/executors/agent.ts                                      *)
(*                                                                         *)
(* Each execution creates at most one run row, so the row and its steps    *)
(* are named by the execution.  What the model writes is one of a few      *)
(* kinds of decision; observations are counted.                            *)
(***************************************************************************)
EXTENDS UsageAdmission, OllamaProvider, Grounding

CONSTANTS
  Executions,       \* calls of runAgent
  RunKeys,          \* Idempotency-Keys; every POST has one, made up if need be
  StepKeys,         \* run and step of an AGENT step: its operation key
  Owners,           \* users, and the automation principal
  Goals,
  Patches,          \* the bodies of PATCH /api/agents/[id]
  MaxSteps,         \* the agent's maxSteps
  Tools,            \* the registered grounding tools; all of them need a brand
  ConcurrentAgents  \* limits.concurrentAgents

ASSUME AgentsAssumption ==
  /\ MaxSteps \in Nat \ {0} /\ ConcurrentAgents \in Nat \ {0}
  /\ RunKeys \cap StepKeys = {} /\ "none" \notin RunKeys
  /\ Patches \subseteq [named : SUBSET {"brand", "tools"}, brand : BOOLEAN, tools : SUBSET Tools]
  /\ {"AI_GENERATION_DAY", "AGENT_RUN_DAY"} \subseteq Metrics

VARIABLES
  agent,      \* the row of the agent
  agentEdit,  \* a patch between validation and update, or NoPatch
  exec,       \* exec[x]: where execution x is
  run,        \* run[x]: the row it created, or NoRun
  steps,      \* steps[x]: the step rows of that run, in order
  capacity    \* capacity[k]: the reservation of class AGENT whose source is k

agentVars == <<agent, agentEdit, exec, run, steps, capacity>>
runnerVars == <<exec, run, steps, capacity>>

NoRun == [status |-> "none"]
NoPatch == [named |-> {}, brand |-> FALSE, tools |-> {}]
Free == [owner |-> "none", by |-> "none"]

NewAgent == [exists |-> TRUE, enabled |-> TRUE, brand |-> TRUE, tools |-> Tools]

(* [pc, key, owner, goal |-> of the call; agent |-> the row read at the       *)
(* start; slot |-> the reservation it runs under; pending |-> grounding tools *)
(* still to run; step, attempt |-> stepCount and attempt; seen |->            *)
(* observations; repaired |-> the provider repair was used; decision; error   *)
(* |-> the status to record; told |-> the answer, from |-> the run it is of]. *)
Waiting ==
  [pc |-> "idle", key |-> "none", owner |-> "none", goal |-> "none", agent |-> NewAgent,
   slot |-> "none", pending |-> {}, step |-> 0, attempt |-> 0, seen |-> 0,
   repaired |-> FALSE, decision |-> "none", error |-> "none",
   told |-> "nothing", from |-> "none"]

AgentInit ==
  /\ agent = NewAgent
  /\ agentEdit = NoPatch
  /\ exec = [x \in Executions |-> Waiting]
  /\ run = [x \in Executions |-> NoRun]
  /\ steps = [x \in Executions |-> <<>>]
  /\ capacity = [k \in RunKeys \cup StepKeys |-> Free]

Set(x, e) == exec' = [exec EXCEPT ![x] = e]
To(x, pc) == Set(x, [exec[x] EXCEPT !.pc = pc])
End(x, told) == Set(x, [exec[x] EXCEPT !.pc = "done", !.told = told])
Throw(x, status) == Set(x, [exec[x] EXCEPT !.pc = "catch", !.error = status])
Record(x, type, n) == steps' = [steps EXCEPT ![x] = Append(@, [type |-> type, number |-> n])]

-------------------------------------------------------------------------------
(* A patch names brand, tools, or both; applied to a row.                    *)
Patched(row, patch) ==
  [row EXCEPT !.brand = IF "brand" \in patch.named THEN patch.brand ELSE @,
              !.tools = IF "tools" \in patch.named THEN patch.tools ELSE @]

(* validateConfiguredTools                                                   *)
IsConsistent(row) == row.tools # {} => row.brand

(* updateAgent: the patch is validated on the row as it was read, and        *)
(* written into whatever is there by then.                                   *)
ReadForPatch ==
  /\ agent.exists /\ agentEdit = NoPatch
  /\ \E patch \in Patches :
       IsConsistent(Patched(agent, patch)) /\ agentEdit' = patch
  /\ UNCHANGED <<clock, ledger, agent, runnerVars>>

WritePatch ==
  /\ agentEdit # NoPatch
  /\ agent' = IF agent.exists THEN Patched(agent, agentEdit) ELSE agent
  /\ agentEdit' = NoPatch
  /\ UNCHANGED <<clock, ledger, runnerVars>>

(* An update that nothing comes between; createAgent and a patch of the      *)
(* enabled flag are others.                                                  *)
UpdateAgent ==
  /\ agent.exists
  /\ \/ \E patch \in Patches :
          IsConsistent(Patched(agent, patch)) /\ agent' = Patched(agent, patch)
     \/ agent' = [agent EXCEPT !.enabled = ~@]
  /\ UNCHANGED <<clock, ledger, agentEdit, runnerVars>>

DeleteAgent ==
  /\ agent.exists
  /\ agent' = [agent EXCEPT !.exists = FALSE, !.enabled = FALSE]
  /\ UNCHANGED <<clock, ledger, agentEdit, runnerVars>>

AgentEdit == ReadForPatch \/ WritePatch \/ UpdateAgent \/ DeleteAgent

-------------------------------------------------------------------------------
(* runAgent starts: loadAgent, getAgentForWorkspace.                         *)
Call(x) ==
  /\ exec[x] = Waiting
  /\ \E k \in RunKeys \cup StepKeys, o \in Owners, g \in Goals :
       Set(x, IF agent.exists
              THEN [Waiting EXCEPT !.pc = "loaded", !.key = k, !.owner = o, !.goal = g,
                                   !.agent = agent]
              ELSE [Waiting EXCEPT !.pc = "done", !.told = "error"])
  /\ UNCHANGED <<clock, ledger, agent, agentEdit, run, steps, capacity>>

RunsOf(k) == {y \in Executions : run[y] # NoRun /\ run[y].key = k}

(* A POST whose key has a run gets the answer of that run, if it is one.     *)
AnswerFrom(x, y) ==
  LET told == IF run[y].goal # exec[x].goal THEN "conflict"
              ELSE IF run[y].status \in {"COMPLETED", "MAX_STEPS_REACHED"}
                   THEN run[y].status ELSE "exists"
  IN Set(x, [exec[x] EXCEPT !.pc = "done", !.told = told, !.from = y])

Lookup(x) ==
  /\ exec[x].pc = "loaded"
  /\ LET found == IF exec[x].key \in RunKeys THEN RunsOf(exec[x].key) ELSE {}
     IN \/ \E y \in found : AnswerFrom(x, y)
        \/ /\ found = {}
           /\ IF exec[x].agent.enabled THEN To(x, "starting") ELSE End(x, "error")
  /\ UNCHANGED <<clock, ledger, agent, agentEdit, run, steps, capacity>>

(* reserveAgentCapacity: a second execution under the same operation key     *)
(* runs in the reservation of the first.                                     *)
Reserve(x) ==
  /\ exec[x].pc = "starting"
  /\ LET k == exec[x].key
     IN \/ /\ capacity[k] # Free
           /\ Set(x, [exec[x] EXCEPT !.pc = "reserved", !.slot = capacity[k].by])
           /\ UNCHANGED capacity
        \/ /\ capacity[k] = Free
           /\ Cardinality({j \in DOMAIN capacity : capacity[j] # Free}) < ConcurrentAgents
           /\ capacity' = [capacity EXCEPT ![k] = [owner |-> exec[x].owner, by |-> x]]
           /\ Set(x, [exec[x] EXCEPT !.pc = "reserved", !.slot = x])
        \/ /\ capacity[k] = Free
           /\ Cardinality({j \in DOMAIN capacity : capacity[j] # Free}) >= ConcurrentAgents
           /\ End(x, "limited") /\ UNCHANGED capacity
  /\ UNCHANGED <<clock, ledger, agent, agentEdit, run, steps>>

(* releaseWorkspaceReservation goes by reservation and owner.                *)
Release(x) ==
  LET k == exec[x].key
  IN capacity' = IF capacity[k] = [owner |-> exec[x].owner, by |-> exec[x].slot]
                 THEN [capacity EXCEPT ![k] = Free] ELSE capacity

(* admitAgentRun                                                             *)
ChargeRun(x) ==
  /\ exec[x].pc = "reserved"
  /\ \/ /\ CanAdmit(ledger, "AGENT_RUN_DAY", exec[x].key, clock)
        /\ ledger' = Admit(ledger, "AGENT_RUN_DAY", exec[x].key, clock)
        /\ To(x, "admitted") /\ UNCHANGED capacity
     \/ /\ ~CanAdmit(ledger, "AGENT_RUN_DAY", exec[x].key, clock)
        /\ End(x, "limited") /\ Release(x) /\ UNCHANGED ledger
  /\ UNCHANGED <<clock, agent, agentEdit, run, steps>>

(* Mutated form of IsTaken: there is no unique index.                        *)
NeverTaken(x) == FALSE

(* The unique index on the Idempotency-Key refuses; AGENT steps have none.   *)
IsTaken(x) == exec[x].key \in RunKeys /\ RunsOf(exec[x].key) # {}

NewRun(x) ==
  [status |-> "RUNNING", goal |-> exec[x].goal, answer |-> FALSE, stepCount |-> 0,
   key |-> IF exec[x].key \in RunKeys THEN exec[x].key ELSE "none"]

InsertRun(x) ==
  /\ exec[x].pc = "admitted"
  /\ ~IsTaken(x)
  /\ run' = [run EXCEPT ![x] = NewRun(x)]
  /\ To(x, "created")
  /\ UNCHANGED <<clock, ledger, agent, agentEdit, steps, capacity>>

(* The insert is refused; or the audit event after it is, and the row stays  *)
(* RUNNING with nobody to run it.                                            *)
InsertFails(x) ==
  /\ exec[x].pc = "admitted"
  /\ IF IsTaken(x) THEN UNCHANGED run ELSE run' = [run EXCEPT ![x] = NewRun(x)]
  /\ End(x, "error") /\ Release(x)
  /\ UNCHANGED <<clock, ledger, agent, agentEdit, steps>>

-------------------------------------------------------------------------------
(* validateConfiguredBrandRequirements, getEffectiveTools                    *)
Enter(x) ==
  /\ exec[x].pc = "created"
  /\ IF IsConsistent(exec[x].agent)
     THEN Set(x, [exec[x] EXCEPT !.pc = "grounding", !.pending = exec[x].agent.tools])
     ELSE Throw(x, "FAILED")
  /\ UNCHANGED <<clock, ledger, agent, agentEdit, run, steps, capacity>>

(* The head of the decision loop.                                            *)
NextStep(e) ==
  [e EXCEPT !.step = @ + 1, !.attempt = 0, !.repaired = FALSE,
            !.pc = IF e.step + 1 <= MaxSteps THEN "charging" ELSE "maxsteps"]

(* Before the model is asked, every grounding tool runs once.                *)
GroundingCall(x) ==
  /\ exec[x].pc = "grounding"
  /\ IF exec[x].pending # {} /\ exec[x].step < MaxSteps
     THEN /\ \E t \in exec[x].pending :
               Set(x, [exec[x] EXCEPT !.pc = "groundingTool", !.step = @ + 1,
                                      !.pending = @ \ {t}])
          /\ Record(x, "TOOL_CALL", exec[x].step + 1)
     ELSE Set(x, NextStep(exec[x])) /\ UNCHANGED steps
  /\ UNCHANGED <<clock, ledger, agent, agentEdit, run, capacity>>

GroundingResult(x) ==
  /\ exec[x].pc = "groundingTool"
  /\ Record(x, "TOOL_RESULT", exec[x].step)
  /\ Set(x, [exec[x] EXCEPT !.pc = "grounding", !.seen = @ + 1])
  /\ UNCHANGED <<clock, ledger, agent, agentEdit, run, capacity>>

(* admitAgentDecision, once per step; the rate limit may refuse as well.     *)
ChargeDecision(x) ==
  /\ exec[x].pc = "charging"
  /\ LET k == <<x, exec[x].step>>
     IN \/ /\ CanAdmit(ledger, "AI_GENERATION_DAY", k, clock)
           /\ ledger' = Admit(ledger, "AI_GENERATION_DAY", k, clock)
           /\ To(x, "asking")
        \/ Throw(x, "FAILED") /\ UNCHANGED ledger
  /\ UNCHANGED <<clock, agent, agentEdit, run, steps, capacity>>

(* Another attempt at the same decision, if one is left.                     *)
Retry(x) ==
  IF exec[x].attempt < 2 THEN Set(x, [exec[x] EXCEPT !.attempt = @ + 1])
  ELSE Throw(x, "FAILED")

Ask(x, outcome) ==
  /\ exec[x].pc = "asking"
  /\ outcome
  /\ UNCHANGED <<clock, ledger, agent, agentEdit, run, steps, capacity>>

(* Output that is no decision at all: the provider throws, and is corrected  *)
(* once per step.                                                            *)
AskUnstructured(x) ==
  Ask(x, IF exec[x].repaired \/ exec[x].attempt = 2 THEN Throw(x, "FAILED")
         ELSE Set(x, [exec[x] EXCEPT !.attempt = @ + 1, !.repaired = TRUE]))

(* A decision that fails the schema, arguments that fail the tool's, a final *)
(* response without an observation to rest on.                               *)
AskUnusable(x) == Ask(x, Retry(x))

MayConclude(x) == exec[x].agent.tools = {} \/ exec[x].seen > 0

Decide(x, decision) == Set(x, [exec[x] EXCEPT !.pc = "decided", !.decision = decision])

(* validateGroundedFinalResponse accepts it, or what the repair leaves of it *)
AskFinal(x) == Ask(x, MayConclude(x) /\ Decide(x, "final"))

AskTool(x) == Ask(x, exec[x].agent.tools # {} /\ Decide(x, "tool"))

(* A tool that is not the agent's, claims that no repair makes good, a       *)
(* provider error, a timeout; or the call is aborted.                        *)
AskThrows(x) == Ask(x, Throw(x, "FAILED") \/ Throw(x, "CANCELLED"))

RecordDecision(x) ==
  /\ exec[x].pc = "decided"
  /\ Record(x, "MODEL_DECISION", exec[x].step)
  /\ To(x, IF exec[x].decision = "final" THEN "final" ELSE "toolCall")
  /\ UNCHANGED <<clock, ledger, agent, agentEdit, run, capacity>>

RecordFinal(x) ==
  /\ exec[x].pc = "final"
  /\ Record(x, "FINAL_RESPONSE", exec[x].step)
  /\ To(x, "completing")
  /\ UNCHANGED <<clock, ledger, agent, agentEdit, run, capacity>>

CallTool(x) ==
  /\ exec[x].pc = "toolCall"
  /\ Record(x, "TOOL_CALL", exec[x].step)
  /\ To(x, "tool")
  /\ UNCHANGED <<clock, ledger, agent, agentEdit, run, capacity>>

ToolResult(x) ==
  /\ exec[x].pc = "tool"
  /\ Record(x, "TOOL_RESULT", exec[x].step)
  /\ Set(x, NextStep([exec[x] EXCEPT !.seen = @ + 1]))
  /\ UNCHANGED <<clock, ledger, agent, agentEdit, run, capacity>>

(* A tool fails, runs out of time or is aborted; a step row is not written.  *)
StepFails(x) ==
  /\ exec[x].pc \in {"groundingTool", "tool", "decided", "final", "toolCall"}
  /\ Throw(x, "FAILED") \/ Throw(x, "CANCELLED")
  /\ UNCHANGED <<clock, ledger, agent, agentEdit, run, steps, capacity>>

-------------------------------------------------------------------------------
(* updateAgentRun asks for the id of the run and not for its status.         *)
Updated(x, status, n, answer) ==
  [run EXCEPT ![x].status = status, ![x].stepCount = n,
              ![x].answer = IF answer THEN TRUE ELSE @]

Least(a, b) == IF a <= b THEN a ELSE b

(* Mutated form of Conclude: the caller is answered before the steps are.    *)
ConcludeEarly(x) ==
  /\ exec[x].pc \in {"decided", "maxsteps"}
  /\ LET status == IF exec[x].pc = "decided" THEN "COMPLETED" ELSE "MAX_STEPS_REACHED"
     IN /\ run' = Updated(x, status, Least(exec[x].step, MaxSteps), status = "COMPLETED")
        /\ Set(x, [exec[x] EXCEPT !.pc = "leaving", !.told = status, !.from = x])
  /\ UNCHANGED <<clock, ledger, agent, agentEdit, steps, capacity>>

(* completeAgentRun, failAgentRun with AGENT_MAX_STEPS                       *)
Conclude(x) ==
  /\ exec[x].pc \in {"completing", "maxsteps"}
  /\ LET status == IF exec[x].pc = "completing" THEN "COMPLETED" ELSE "MAX_STEPS_REACHED"
     IN /\ run' = Updated(x, status, Least(exec[x].step, MaxSteps), status = "COMPLETED")
        /\ Set(x, [exec[x] EXCEPT !.pc = "leaving", !.told = status, !.from = x])
  /\ UNCHANGED <<clock, ledger, agent, agentEdit, steps, capacity>>

(* The update or the audit event after it throws: the catch block then marks *)
(* the run FAILED, over the verdict it may have.                             *)
ConcludeFails(x) ==
  /\ exec[x].pc \in {"completing", "maxsteps"}
  /\ LET status == IF exec[x].pc = "completing" THEN "COMPLETED" ELSE "MAX_STEPS_REACHED"
     IN run' \in {run, Updated(x, status, Least(exec[x].step, MaxSteps), status = "COMPLETED")}
  /\ Throw(x, "FAILED")
  /\ UNCHANGED <<clock, ledger, agent, agentEdit, steps, capacity>>

Leaving(x) == Set(x, [exec[x] EXCEPT !.pc = "leaving", !.told = "error", !.from = x])

RecordError(x) ==
  /\ exec[x].pc = "catch"
  /\ Record(x, "ERROR", IF exec[x].step = 0 THEN 1 ELSE exec[x].step)
  /\ To(x, "failing")
  /\ UNCHANGED <<clock, ledger, agent, agentEdit, run, capacity>>

FailRun(x) ==
  /\ exec[x].pc = "failing"
  /\ run' = Updated(x, exec[x].error, Least(exec[x].step, MaxSteps), FALSE)
  /\ Leaving(x)
  /\ UNCHANGED <<clock, ledger, agent, agentEdit, steps, capacity>>

(* What the catch block cannot write is dropped, and the rest of it.         *)
FailureIsLost(x) ==
  /\ exec[x].pc \in {"catch", "failing"}
  /\ Leaving(x)
  /\ UNCHANGED <<clock, ledger, agent, agentEdit, run, steps, capacity>>

(* The finally block; a release that throws is dropped.                      *)
Leave(x) ==
  /\ exec[x].pc = "leaving"
  /\ Release(x) \/ UNCHANGED capacity
  /\ To(x, "done")
  /\ UNCHANGED <<clock, ledger, agent, agentEdit, run, steps>>

(* The process is killed; nothing takes its run up again.                    *)
CrashRun(x) ==
  /\ exec[x].pc \notin {"idle", "done"}
  /\ Set(x, [exec[x] EXCEPT !.pc = "done", !.told = "nothing"])
  /\ UNCHANGED <<clock, ledger, agent, agentEdit, run, steps, capacity>>

(* The lease, longer than the total timeout, of a reservation whose          *)
(* execution has ended or died.                                              *)
ExpireCapacity ==
  /\ \E k \in DOMAIN capacity :
       /\ capacity[k] # Free /\ exec[capacity[k].by].pc = "done"
       /\ capacity' = [capacity EXCEPT ![k] = Free]
  /\ UNCHANGED <<clock, ledger, agent, agentEdit, exec, run, steps>>

RunnerStep ==
  \/ ExpireCapacity
  \/ \E x \in Executions :
       \/ Call(x) \/ Lookup(x) \/ Reserve(x) \/ ChargeRun(x) \/ InsertRun(x) \/ InsertFails(x)
       \/ Enter(x) \/ GroundingCall(x) \/ GroundingResult(x) \/ ChargeDecision(x)
       \/ AskUnstructured(x) \/ AskUnusable(x) \/ AskFinal(x) \/ AskTool(x) \/ AskThrows(x)
       \/ RecordDecision(x) \/ RecordFinal(x) \/ CallTool(x) \/ ToolResult(x) \/ StepFails(x)
       \/ Conclude(x) \/ ConcludeFails(x) \/ RecordError(x) \/ FailRun(x) \/ FailureIsLost(x)
       \/ Leave(x) \/ CrashRun(x)

AgentStep == AgentEdit \/ RunnerStep

-------------------------------------------------------------------------------
Has(x, type) == \E i \in DOMAIN steps[x] : steps[x][i].type = type

(* A caller who gets a final response, from the execution itself or under    *)
(* its Idempotency-Key from an earlier one, gets that of the one run of the  *)
(* key and the goal, recorded, and drawn after the facts were read when the  *)
(* agent has tools to read them with.                                        *)
AnswersAreBacked ==
  \A x \in Executions : exec[x].told = "COMPLETED" =>
    LET y == exec[x].from
    IN /\ run[y].answer /\ Has(y, "FINAL_RESPONSE") /\ run[y].goal = exec[x].goal
       /\ exec[x].key \in RunKeys => RunsOf(exec[x].key) = {y}
       /\ exec[y].agent.tools # {} => Has(y, "TOOL_RESULT")

(* The step rows read as the account of a run, and agree with its row: step  *)
(* numbers never fall, a result follows its call, a step decides once, after *)
(* a final response there is at most an error; an ended run has its ending   *)
(* recorded, and no step beyond maxSteps but that of an error.               *)
TranscriptMatchesRun ==
  \A x \in Executions :
    LET s == steps[x]
    IN /\ \A i \in 2..Len(s) :
            /\ s[i - 1].number <= s[i].number
            /\ s[i].type = "TOOL_RESULT" => s[i - 1] = [type |-> "TOOL_CALL", number |-> s[i].number]
            /\ s[i].type = "MODEL_DECISION" => s[i - 1].number < s[i].number
            /\ s[i - 1].type = "FINAL_RESPONSE" => s[i].type = "ERROR"
            /\ s[i - 1].type # "ERROR"
       /\ \A i \in DOMAIN s : s[i].number > MaxSteps => s[i].type = "ERROR"
       /\ run[x].status = "COMPLETED" => Has(x, "FINAL_RESPONSE")
       /\ run[x].status \in {"FAILED", "CANCELLED"} => Has(x, "ERROR")
       /\ run[x].status = "MAX_STEPS_REACHED" => ~Has(x, "FINAL_RESPONSE")
===============================================================================
