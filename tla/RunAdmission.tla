---------------------------- MODULE RunAdmission ----------------------------
(***************************************************************************)
(* How workflow runs come to exist: the rows workflow_runs,                *)
(* workflow_run_dispatches and the start quota, as createWorkflowRun and   *)
(* createAutomationWorkflowRun write them inside a caller's transaction.   *)
(*   lib/workflows/service.ts                                              *)
(***************************************************************************)
EXTENDS UsageAdmission

CONSTANTS
  Workflows,   \* workflow ids
  Requesters,  \* users who start runs themselves
  ClientKeys,  \* idempotency keys they send; a request without one has a key of its own
  Folded       \* Folded[k]: k as boundedSegment writes it into an operation key

ASSUME FoldedAssumption == Folded \in [ClientKeys -> ClientKeys]
ASSUME StartMetricAssumption == "WORKFLOW_START_DAY" \in Metrics

VARIABLES
  workflow,    \* workflow[w]: "enabled", "disabled" or "deleted"
  runs,        \* runs ever created: idempotency key and workflow
  dispatches,  \* keys of the runs that have a dispatch row
  request      \* request[u]: the createWorkflowRun call u is in

admissionVars == <<workflow, runs, dispatches, request>>

WorkflowStates == {"enabled", "disabled", "deleted"}
NoRequest == [pc |-> "idle"]

RunsWithKey(key) == {r \in runs : r.key = key}
HasRun(key) == RunsWithKey(key) # {}

(* The lookup by idempotency key, and the insert that the unique index       *)
(* turns into nothing when the key is taken.                                *)
Inserted(key, w) == IF HasRun(key) THEN runs ELSE runs \cup {[key |-> key, workflow |-> w]}

(* workflowStartOperationKey: trimmed, and with "_" for ":"; what users send *)
(* may differ and still become the same.                                    *)
OperationKey(key) == IF key[1] = "user" THEN <<"user", Folded[key[2]]>> ELSE key

(* A start under a key that has its run is not charged again.                *)
MayStart(l, key, now) ==
  ~HasRun(key) => CanAdmit(l, "WORKFLOW_START_DAY", OperationKey(key), now)

(* Mutated form of Started: charged to the wrong metric.                     *)
StartedAsAccepted(l, key, now) == Admit(l, "WEBHOOK_ACCEPTED_MINUTE", OperationKey(key), now)

Started(l, key, now) == Admit(l, "WORKFLOW_START_DAY", OperationKey(key), now)

(* Run, admission and dispatch row of one start.                            *)
StartRun(l, key, w, now) ==
  /\ runs' = Inserted(key, w)
  /\ ledger' = IF HasRun(key) THEN l ELSE Started(l, key, now)
  /\ dispatches' = IF HasRun(key) THEN dispatches ELSE dispatches \cup {key}

AdmissionInit ==
  /\ clock = 0
  /\ ledger = EmptyLedger
  /\ workflow = [w \in Workflows |-> "enabled"]
  /\ runs = {} /\ dispatches = {}
  /\ request = [u \in Requesters |-> NoRequest]

-------------------------------------------------------------------------------
(* createWorkflowRun reads the workflow and the key before its transaction.  *)
(* It returns or refuses here when the key is taken.                        *)
RequestRun(u, w, key) ==
  /\ request[u].pc = "idle" /\ workflow[w] = "enabled" /\ ~HasRun(key)
  /\ request' = [request EXCEPT ![u] = [pc |-> "checked", workflow |-> w, key |-> key]]
  /\ UNCHANGED <<workflow, runs, dispatches, ledger>>

(* The second lookup, inside the transaction.                               *)
RecheckKey(u) ==
  /\ request[u].pc = "checked"
  /\ request' = [request EXCEPT ![u] =
       IF HasRun(@.key) THEN NoRequest ELSE [@ EXCEPT !.pc = "inserting"]]
  /\ UNCHANGED <<workflow, runs, dispatches, ledger>>

(* The insert and what follows it; an insert that meets a run with the key   *)
(* returns that run.  The transaction rolls back when the start is refused   *)
(* by the quota or by the rate limit in Redis.                              *)
CommitRun(u, limited) ==
  LET r == request[u]
      refused == ~HasRun(r.key) /\ (limited \/ ~MayStart(ledger, r.key, clock))
  IN  /\ r.pc = "inserting"
      /\ IF refused THEN UNCHANGED <<runs, dispatches, ledger>>
         ELSE StartRun(ledger, r.key, r.workflow, clock)
      /\ request' = [request EXCEPT ![u] = NoRequest]
      /\ UNCHANGED workflow

(* updateWorkflow and deleteWorkflow, as far as starting runs depends on them. *)
SetWorkflow(w, state) ==
  /\ workflow[w] \notin {"deleted", state}
  /\ workflow' = [workflow EXCEPT ![w] = state]
  /\ UNCHANGED <<runs, dispatches, request, ledger>>
===============================================================================
