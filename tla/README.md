# Flowyn, specified

TLA+ models of what has to be right in Flowyn when processes die, answers come late and two
people press two buttons at once: the execution of workflow runs and everything that starts,
limits, delivers and configures them. The modules are translated from `src/` (paths below are
relative to it); where a document and the code disagree the model follows the code, and section 5
says so.

`tlc -config <run>.cfg <MCModule>` checks a run, `tlapm <Name>Proofs.tla` a proof module.

## 1. The system

Flowyn is a Next.js application with two further processes, a workflow worker
(`worker/workflow-worker.ts`) and a scheduler (`worker/workflow-scheduler.ts`). They share one
PostgreSQL database and one Redis, which holds the BullMQ queue `flowyn-workflows`. No state that
matters is in memory for longer than a request, a job or a poll; what can go wrong goes wrong
between two statements on the database, or between the database and somebody outside.

| Component | State | Operations | Talks to |
| --- | --- | --- | --- |
| **Run execution** `lib/workflows/executor.ts`, `service.ts` | `workflow_runs` (status, executionToken, leaseExpiresAt, currentStepId), `workflow_step_runs`; in the worker: step, counters, the flags `leaseLost`, `cancellationRequested`, `totalTimedOut` | claim, renew, create attempt, complete and advance, fail attempt, finish, cancel | step executors, reservations, approvals |
| **Approval gates** `approval-service.ts`, `executors/approval.ts` | `workflow_approval_requests` | pause, approve, reject, expire, cancel | run, attempts, dispatch row |
| **Dispatch** `outbox.ts`, `queue.ts`, `worker.ts` | `workflow_run_dispatches` (status, generation, attempts, dispatcherId, lease), BullMQ jobs | select, claim, reserve, enqueue, mark, fail, defer, recover an expired handoff | reservations, queue, run execution |
| **Reservations** `lib/concurrency/service.ts` | `workspace_concurrency_states.activeCount`, `workspace_concurrency_reservations` | acquire (with reaping), renew, transfer, release, purge | agents, dispatch, executor, integration steps |
| **Run admission** `service.ts` | run, admission and dispatch row in one transaction | create under an idempotency key, validate the origin, resolve the principal | usage, dispatch, schedules, webhooks |
| **Schedules** `lib/schedules/*` | `workflow_schedules`, `workflow_schedule_occurrences` | create, edit, enable, disable, delete, poll, misfire policies | admission |
| **Webhook ingress** `lib/webhooks/*` | `workflow_webhook_triggers`, `workflow_webhook_events` | manage, rotate, verify, deduplicate, accept, purge | admission |
| **Usage admission** `lib/usage/*` | `workspace_usage_buckets`, `workspace_usage_admissions` | admit, forget | everything that is charged |
| **Integration actions** `executors/integration-action.ts`, `lib/integrations/actions.ts`, `slack.ts` | `integration_action_runs` | claim, send, complete, fail, give up a stale one | Slack, credentials, usage, reservations |
| **Credentials and secrets** `lib/integrations/credentials.ts`, `lib/security/*` | `integration_credentials`, sealed envelopes | create, rotate, revoke, open | actions, webhooks, AI |
| **AI generation** `lib/ai/*`, `app/api/ai/generate` | `ai_generation_idempotency` | begin, replay, generate, stream, complete, fail, recover, purge | provider, usage |
| **Agents** `lib/agents/*` | `agents`, `agent_runs`, `agent_run_steps` | edit, start, bounded tool loop, ground, conclude, fail | provider, usage, reservations |
| **Knowledge** `lib/knowledge/*`, `lib/embeddings/*` | documents, chunks | create, edit, index, delete, search | embedding provider |
| **Definitions** `service.ts`, `graph.ts`, `validation.ts`, `editor*.ts` | `workflows`, `workflow_versions`, `workflow_editor_layouts`; the reducer of the editor | validate, create, save a version, save a layout, enable | admission, run execution |
| **Context and step executors** `context.ts`, `executors/*` | none of their own | read, transform, compare | run execution |
| **Workspaces and memberships** `lib/memberships/*`, `lib/workspaces/*`, `lib/authz/*` | members and roles | create, add, change role, remove, leave, delete | every route |
| Audit, observability, authentication, HTTP, configuration, rendering | rows and lines nothing reads back; library state | | |

How a run flows: admission inserts the run (QUEUED) and its outbox row (PENDING, generation 0)
in one transaction, on behalf of a user, a schedule's occurrence or a webhook's event. Every five
seconds a worker process runs a *pass*: it claims the row, acquires a workspace reservation for
the source `<run>.<generation>`, adds the BullMQ job `<run>-<generation>` and marks the row
DISPATCHED. A worker slot takes the job, *adopts* the reservation, claims the run with a fresh
execution token and a 90 s lease, and executes one step after another, each result written in a
transaction that compares token, status and lease. An approval step pauses the run and gives up
token and lease; the decision puts it back to QUEUED under the next generation, and the next pass
delivers it again.

### What is hard here, and what has to be true

* **Two executions of one run** (service.ts:500 onwards). A lease expires under a worker that
  is merely slow. Claiming is three statements outside a transaction; creating an attempt is
  two, and neither looks at the token. *No late result may advance the run; the history must
  stay a path of the graph; outcomes are never rewritten; settled runs never change.*
* **Three flags set by timers between any two awaits** (executor.ts:113-166), tested in one
  order after a step and in another in the catch block. *A run is COMPLETED only if it got to
  its end; retries and step budgets hold for each execution.*
* **A waiting run** that people, a deadline and a cancellation settle at once. *One pending
  request, one waiting attempt, no owner; the first verdict stands.*
* **Row locks taken in two orders** (concurrency/service.ts:67 and :128-135), a `now` older than
  the locks, and a reservation that several parties may close. *Each closing is counted once:
  the counter never falls below what is open, so the limit holds.*
* **A handoff between processes** through a queue that may be slow, under leases that may
  expire, by passes that may die anywhere. *A queued run starts in the end; a late or repeated
  job never disturbs a later generation; a pass that lost its claim does not settle it.*
* **Three kinds of start, one quota** (schedules/processor.ts, webhooks/ingress.ts). Calls that
  read first and write later meet polls and deliveries that repeat. *An instant and an event
  start one run at most, of the right workflow, charged once; nothing starts early, late or as a
  backfill unless two edits crossed; what is due is recorded.*
* **A side effect that cannot be taken back** (executors/integration-action.ts). The step is
  executed again after crashes, beside a predecessor that is still running, and the provider's
  answer may be lost. *Posted at most once; the row never says what is not true.*
* **One key, several requests** (ai/idempotency-service.ts, agents/service.ts). Duplicates arrive
  before, during and after the answer, after stale recovery and after retention. *One call per
  key; callers of one operation are told one thing; a verdict is final.*
* **A loop in which every write may fail** (agents/runner.ts). *The step rows and the run row tell
  one story, and an answer is one that was recorded and grounded.*
* **Read, then write, in two statements**: memberships, knowledge documents, credentials, saves
  of a workflow, enabling a schedule. *What is lost is lost only to a request that wrote on what
  it had read before somebody else changed it; where the code compares again, nothing is lost.*
* **Searches over a graph that users draw** (graph.ts, integration-policy.ts). *No accepted
  definition reaches an external action undecided, or fails on a reference but for the branch it
  took.*

`PROJECT.json` lists the hazards one by one, each at its line, with the properties that would
catch it.

## 2. The modules

```
RunLifecycle      what everybody may rely on about a workflow_runs row   (abstract)
   ^      ^
   |      +------ Dispatch       EXTENDS it: outbox row, queue, handoff around that run
   |                 ^-- MCDispatch, DispatchProofs
   +------------- RunExecution   implements it (ImplementsLifecycle, by INSTANCE)
                     ^-- MCRunExecution
                     ^-- RunExecutionProofs <-- RunOwnershipProofs
Reservations      one workspace, one operation class
   ^-- MCReservations, ReservationsProofs

UsageAdmission    the ledger of the quotas; time
   ^-- RunAdmission <-- Schedules (with ScheduleCalculator), WebhookIngress
   |                        ^-- Intake <-- MCIntake, IntakeProofs
   |-- IntegrationActions (with Credentials <- SecretEnvelope)
   |                        ^-- MCIntegrationActions, IntegrationActionsProofs
   +-- DirectAI (with OllamaProvider, SecretEnvelope), AgentRuns (with OllamaProvider, Grounding)
                            ^-- Generation <-- MCGeneration, GenerationProofs

Authorization     roles
   ^-- Memberships, Knowledge, WorkflowDefinitions        WorkflowGraph <-- WorkflowEditor
                            ^-- Workspace (all of these) <-- WorkspaceProofs
                                       ^-- MCWorkspace (with StepValues, Chunking)
```

**RunLifecycle** has the status, the token and the lease of a run and nine operations. It says
that a run is claimed only when queued or when its lease is strictly over, renewed only while
it is held, and left by settling, pausing or closing. RunExecution is shown to implement it;
Dispatch builds on it, so that what Dispatch assumes of an execution is what RunExecution
guarantees.

**RunExecution** is one run: its row, `attempts[s][n]` (the rows of `workflow_step_runs`),
`request[s]` (the approval requests, unique per run and step), the tokens issued, and for each
worker where it is in `executeWorkflowRun` and which flags its timers have set. One action is
one statement or one transaction and the code up to the next await:

| Actions | Code |
| --- | --- |
| ClaimRead, InterruptStale, ClaimGrant, ClaimRefused | `claimWorkflowRun`: read, close stale attempts, guarded update |
| ReadRun | head of the loop: ownership, status, cancellation, timeout, step budget |
| ReadLatestAttempt, InsertAttempt, InsertConflict | `createWorkflowStepAttempt` and the unique index |
| StepSucceeds, AdvanceFails | `completeWorkflowStepAndAdvance`, committed or rolled back |
| StepPauses | `pauseWorkflowRunForApproval` |
| StepFails | the catch block: `failWorkflowStep`, then retry, settle or leave |
| ReachEnd, FinishRun | after the loop; `finishWorkflowRun` |
| HeartbeatRenews, HeartbeatFails, WatcherSeesCancel, TotalTimeout | the three timers |
| RequestCancel, CancelWaiting | `cancelWorkflowRun` |
| Approve, Refuse | `finishApprovalInTransaction` (approve, reject, expire) |
| Crash, LeaseTick | a process dies or a statement throws; time |

Delivery is the environment's: any idle worker may start on the run at any time, which is more
than the queue does, and Dispatch says how much less. Steps compute nothing: a step may succeed
with any of its successors, fail retryably or for good.

*The lease.* Deadlines are compared with a `now` captured earlier by each process. So the lease
passes from `live` through `due`, where guards `expires >= now` and `expires <= now` may both be
found true by different processes, to `lapsed`; a claim whose read saw `due` loses at the
strict `<` of its update, as in the code.

**Reservations** is `workspace_concurrency_states` and its reservations for one operation class,
statement by statement in READ COMMITTED: `rows` and `count` are what is committed, a
transaction's own writes are in `client[c]`, and the row locks it holds follow from where it is.
A worker *process* is one owner with several clients, because the ownerId the code passes is
the process's workerId. Acquire is begin (capturing `now`), lock, reap, decide; release is two
statements; renew, transfer and the purge are one each. `Fail` is a crash, an error or PostgreSQL
breaking a deadlock between AcquireReap and ReleaseCount.

**Dispatch** is one run's outbox row and what surrounds it: `reservation[g]` and `jobs[g]` by
generation, the candidate each pass holds (read *before* it is claimed, as in the code), the job
in each slot. BullMQ is external and modelled from its use: a job id is added once and ignored
afterwards; a job whose worker died is delivered a second time and then failed. (That BullMQ
forgets the ids of completed jobs after a thousand of them is not modelled.) Reservations are
reduced to what one source sees of them: live or closed, by whom, adopted or not; Defer is the
answer "limit reached", which other runs of the workspace may cause at any time. `Process` gives
passes and slots the worker id they share, as `startWorkflowWorker` does.

### What starts a run: Intake

**UsageAdmission** keeps the two quota tables as one value, the *ledger*: counters per metric and
bucket, and the admissions by metric and operation key. `CanAdmit` and `Admit` are what one call
of `admitWorkspaceUsage` decides and writes; whoever calls them puts the result into its own
transaction, so a refusal or a rollback leaves the ledger as it was. Deleting old admissions frees
their keys and not their buckets. It also has the time, which all modules that build on it share.

**RunAdmission** is `createWorkflowRun` in three steps (lookup by key; lookup again; transaction)
and the part of `createAutomationWorkflowRun` that schedules and webhooks run inside theirs: run,
charge and dispatch row, or nothing if the key has its run. `Folded` says which of the users' keys
`boundedSegment` makes one operation key of. `HasPrincipal` is what
`resolveWorkflowRunPrincipal` needs.

**ScheduleCalculator** holds the pure functions of `calculator.ts`; cron expressions are sets of
instants. **Schedules** has the user's calls in the steps they take (read; count active schedules
under the workspace lock; write), the poll with the time it began at and the ids it selected, and
`processOneSchedule`, one transaction with four endings: no longer due, already recorded, skipped,
triggered, and failed, with the run row that a refused start leaves behind. An update that changes
the input only writes the type, interval, time and misfire policy it has read, and leaves nextRunAt
as it is by then: `IsMismatched` is a row that this has given the nextRunAt of another definition.
The history variable `offTime` remembers what was recorded before its time or too late. It guards
nothing; two properties use it to name what such rows are exempt from.

**WebhookIngress** has the management calls, verification outside the transaction and acceptance
inside (a duplicate by dedupe key; skipped because the workflow is off; triggered; refused),
senders that repeat an event with a new timestamp, and retention. **Intake** composes them with
the users' own starts, changes of the workflow, time and the scheduler's maintenance.

### What leaves the system: IntegrationActions

**SecretEnvelope** takes the cipher as ideal: an envelope opens under the purpose, key version and
context it was sealed for. **Credentials** has creation under the limit, and rotation and
revocation as a read and a later write. **IntegrationActions** is the row of a run and step, and
attempts that execute the step in any order and at once: check, resolve the credential, reserve,
charge, claim (insert, take over a PENDING row, give up a stale one), send, receive, record, leave,
or crash anywhere. `posted` is what the provider has done, which no attempt can see.

### What a workspace generates: Generation

**OllamaProvider** computes the outcome of a call from its two HTTP exchanges, for texts, JSON,
streams and the health check. **DirectAI** is a POST from preparation to delivery: keyed or not,
streamed or not, the insert that decides, the look-up of the other row, the call, the answer that
is sealed and the settling write that may find the row UNKNOWN. **Grounding** is the check and the
repair of a final response. **AgentRuns** has the agent's edits and `runAgent`: lookup,
reservation, charge, insert, a call of every grounding tool, then decisions with their corrections
and retries, every write of a step row, and the catch block, whose own writes may fail too.
**Generation** composes them over the quota they share.

### What users change: Workspace

**Authorization** is the table of roles, **Memberships** the requests that add, promote, remove
and leave, each read and each write a step. **Knowledge** has documents with the content and
metadata their chunks were made of, edits and indexers beside each other, quotas and cascades.
**WorkflowDefinitions** has the versions of one workflow as sets of step ids, its layout, the
editors' reducer (load, dirty, save in flight, saved, conflict, reload) and the PATCH handler in
its two steps. **WorkflowGraph** says which definitions are accepted, by the searches `graph.ts`
and `integration-policy.ts` make, and walks a run through one, back to the entry step after a last
step that is an approval (`Following`, section 5 item 1). **WorkflowEditor** is the way of a
definition into the visual editor and back. **Workspace** composes them, with the deletion of the
workspace, which takes everything along.

### Pure parts

**StepValues** (reading, sanitising, selecting, assembling, comparing) and **Chunking** (cutting
text, embedding it, choosing context) have no variables. What they promise stands in their ASSUMEs
(`StoredIsStable`, `ChunksKeepTheWords`, ...), which TLC evaluates over all the bounded inputs of
MCWorkspace; so do MCIntegrationActions for envelopes, MCGeneration for the provider's outcomes and
the repair, and WorkflowEditor for the round trip of every accepted definition. No proof assumes
any of them, and no property of a run depends on what StepValues and Chunking compute: they stand
for themselves.

## 3. What is checked

| Run | Instance | Shows |
| --- | --- | --- |
| `RunExecution_branch` | a condition and two branches, 2 workers, 2 tokens, 1 retry, 3 steps, faults | TypeOK, HistoryFollowsEdges, CompletedReachedEnd, AttemptsBounded, SuccessIsFenced, HistoryIsAppendOnly |
| `RunExecution_gate` | an approval then a step, 2 workers, 3 tokens, faults | WaitingHasOneRequest, TerminalIsFinal, ImplementsLifecycle |
| `Reservations_admission` | 2 slots of one process and 1 other client, 2 sources, 3 rows, limit 1, 2 ticks | TypeOK, CountCoversOpenRows, OpenWithinLimit, OnlyOwnersCloseLiveRows |
| `Dispatch_delivery` | 1 pass at a time, 2 slots, 3 generations, 2 faults of kinds passFails, slowQueue | QueuedRunStarts |
| `Dispatch_race` | 2 passes and 2 slots in 2 processes, any one fault of seven kinds | ClaimsAreFenced, GenerationMovesOnByItsJob |
| `Intake_schedules` | 2 schedules, 2 editors, one of whom may change the input only, a scheduler, definitions of every type, limit 1, grace 0, 3 instants | ActiveWithinQuota, TriggeredOnTime, NoBackfill, DueIsRecorded |
| `Intake_webhooks` | a webhook, deliveries one at a time and without end, 2 workflows, a user with two keys that fold into one, limits of 1 | TriggeredHasItsRun, UsageIsCharged, EventStartsOneRun, StartsAreAccountedFor |
| `Integrations` | 2 actions, 3 attempts, 1 credential, 2 managers, limit 1, lease of 1 | PostedOnce, OutcomeIsHonest, RowsMoveAsAllowed, RevocationIsFinal |
| `Generation` | 2 requests, 1 key, a plain and a streamed body, 4 instants; 2 agent executions of 2 steps with 1 tool | OneCallPerKey, AnswersAgree, SettledStaysSettled, InProgressSettles, AnswersAreBacked, TranscriptMatchesRun |
| `Workspace` | 3 users with 2 requests, 1 document with 2 editors, 1 workflow with 2 tabs and a client and 3 versions, all accepted definitions of 4 steps | LastOwnerGoesUnseen, IndexGoesStaleUnseen, SavesAreBased, LayoutFits, ActsWhenApproved, ReferencesResolve |
| `RunExecution_rerun`, `Dispatch_stranded` | the smallest instance each needs | that a statement of the documents is not met (section 5) |

What the less obvious ones say: `LastOwnerGoesUnseen` and `IndexGoesStaleUnseen` do not claim that
a workspace keeps an owner or an index its document, which is false (section 5); they claim that
nothing but the one race named in them takes it away. `StartsAreAccountedFor` says of every
dispatched run that it was charged and has a principal at that moment, `TriggeredHasItsRun` that
history and runs name the same workflow after any amount of forgetting. `AnswersAgree` compares
what two callers of one key were told. `TriggeredOnTime` has two halves: a start is within its
time, and on the calendar of a CRON schedule, unless the row is mismatched; and the only step that
makes a row mismatched is an input-only update that writes over a timing it has not seen. Without
its exception the first half is false of the code. `ReferencesResolve` also says that an accepted
definition takes a run through a step twice only after its last step was an approval.

**Bounds.** `MaxClaims` bounds the execution tokens: two is what it takes for a stale owner and
its successor to overlap at every point of both executions; the gate run has three, because a
pause and an approval need one each and a theft a third. `MaxSteps` and `MaxRetries` are the
policy's own numbers, small enough that both limits are hit. The branching graph is the smallest
with two paths and two ends, the gate graph the smallest with a step after an approval. In
Reservations three clients are what a theft of capacity takes (a releaser, a reaper and a third
that would be admitted), limit 1 makes every slip an excess, and two ticks with a lease of one
let a row expire while its holder works and the reaper's `now` be older than its lock; the
reservation ids and the handoffs are bounded by `Rows` and `MaxOffers`. In Dispatch
`MaxGeneration` bounds approvals and recoveries, `MaxReservations` the reservations per
generation, `MaxFaults` the faults: two failures in a row exceed every single recovery path.

In Intake a day is two ticks and operational rows live for one, so the run crosses a bucket's end
and forgets history while its events may still be delivered; with grace 0 every delay matters;
cron instants are 0, 1 and 3, so that a one-time instant may lie on the calendar or off it, and the
one-time definitions at 1 and 2 may each be written beside the other's nextRunAt. `ScheduleBound`
explores one schedule under everything, with a second user who changes its input while it is edited
or processed, or two under the quota before time passes; `WebhookBound` a webhook that is managed, or users who start
runs beside one that is not. In the integration run `ActionBound` explores a credential that two
users change before any attempt, one that a user changes beside one attempt, and two attempts of
one action, or of two, under a stable credential. In Generation an operation is stale after no time
at all, so recovery meets every point of a request; rows are deleted a tick after they settled;
`GenerationBound` explores the direct requests in time, two executions of which one has no steps
yet, and one of each where the quota joins them. In Workspace `MembersFirst` and `WorkspaceBound`
let memberships, then knowledge or a workflow, be explored, not all at once: the parts share no
state but the deletion, which is explored with each. Definitions of four steps hold every
shape in which a branch can avoid an approval or a reference's target, or return. Each of these
constraints is a state predicate, so a step out of the explored part is still checked, and
liveness is checked of the behaviours that stay within.

Runs with bounded tokens, generations, rows or time end when the bound is used up, so those do not
check deadlock. `admission` does, but it says little there: the one cycle of locks the code can
build, AcquireReap against ReleaseCount, is broken by `Fail`, as PostgreSQL breaks it.

**Symmetry** is used in safety runs only: workers in RunExecution; slots of one process,
reservation ids and sources in Reservations; in `Dispatch_race` the two processes, each taken
with its pass and its slot; users, calls, editors and tabs in Workspace. No definition
distinguishes members of these sets.

**Fairness.** `DispatchFairSpec` says that passes recur (`setInterval` of five seconds in the
worker process), that slots take waiting jobs and work on them, that leases lapse, and, the one
strong assumption, that a workspace is not at its limit for ever: a pass deferred again and again
is one day admitted. Faults have no fairness and are limited by `MaxFaults`. In Intake a scheduler
polls on a timer and is started again when it dies (weak), and does not die, nor does another
schedule of its batch throw, each time just before one schedule's turn (strong); nothing is
assumed of users and senders. In Generation time passes and the scheduler's maintenance recurs.

`QueuedRunStarts` is checked with the faults after which the code does recover: a pass that dies
or throws before the job is queued, a handoff that expires in the queue. It is false with the
others, by the code: a worker that dies while adopting (its job is failed after the second
delivery), a statement of its job that throws, a handoff that expires while the row is still
CLAIMED, a pass that fails after enqueueing and releases a reservation a slot is about to adopt.
Some of these are the disagreement `stranded`; the rest are listed among the hazards.

Every property of a passing run has a mutant in `PROJECT.json`: a plausible bug in a named
definition under which TLC finds the property violated.

## 4. What is proved

Every invariant and every action property of the passing runs is a theorem: of any number of
workers, processes, requests, users, keys, rows and steps, of every graph and every definition, and
without the constraints that keep TLC's instances small. The proofs assume what the ASSUMEs of the
modules say of their constants, which TLC evaluates in every run: sets and numbers of the right
kind, and these.

* The metrics a module charges are among those of the plan; a key is no "none" and a tab no client;
  `Users` and the reservation `Rows` are finite, since they are counted.
* A cron schedule always has a next instant: whoever creates one asks for it, and calendars repeat.
  The grace period (a day at most, env.ts) is within the retention of operational rows (a day at
  least, retention.ts), so what is forgotten is too old to trigger (`SchedulesAssumption`). Direct AI
  rows live no longer than admissions (`DirectAIAssumption`).
* `Invalid`, what opening an envelope gives when it fails, is none of the secrets sealed
  (`InvalidAssumption`).
* Steps and edges of a definition are lists (`GraphAssumption`).

What a bound of TLC's appears in (`MaxClaims`, `MaxSecret`, `MaxRows`, ...), is proved for each of its
values. The invariants that the proofs strengthen the properties to have been checked by TLC first.

### A run and its workers: RunExecutionProofs, RunOwnershipProofs, ReservationsProofs

* **RunExecution, TypeCorrect.** `TypeOK` alone is not inductive: `attempts[s][n].status` makes
  sense only if the worker's `row` exists. `TypeInv` adds that a worker inside an attempt points
  at a row of its own token, and that tokens held are tokens issued.
* **HistoryCorrect, TerminalCorrect.** Each step adds attempts or closes open ones
  (`RowsOnlyClose`, from `TypeInv`); each write of the run row is guarded by a status that is
  not terminal.
* **HistoryEdgesCorrect.** `EdgeInv` strengthens `HistoryFollowsEdges` by what is in the
  workers' hands: the step of every execution in the loop has been reached, for an execution
  that has lost the run as well. That is why a stale worker's unfenced insert does no harm to
  the history: a step once reached stays reached, since SUCCEEDED rows are never rewritten.
* **CompletedCorrect.** `OwnInv` says what fencing by token amounts to: no two executions hold
  the same token, a queued or waiting run has no owner, and an execution that holds the run's
  token stands at the resume point, at the end if there is none. So only an execution that got
  there reports COMPLETED under a token the run accepts.
* **WaitingCorrect.** `GateInv` adds the other statuses: a run that is queued, running or being
  cancelled has no pending request and no waiting attempt, which is why a pause opens the only
  one. Nothing can be said of settled runs (section 5, item 4).
* **SuccessCorrect.** A row succeeds by its worker, which by `OwnInv` is at the resume point, or
  by an approval, which by `GateInv` is the one the run waits for.
* **LifecycleCorrect.** RunExecution implements RunLifecycle, action by action. The claim is the
  step that needs an invariant, because its guard is a token compared with one read earlier:
  `LeaseInv` says that while the run carries the token a claim has read with an expired lease,
  the lease is still expired.
* **Reservations, InvCorrect.** `Inv` is `TypeOK`, the counter property and `Locks`: one holder
  of the state row, the count it has read is the committed one, the rows a transaction has
  updated are open and no other transaction has updated them. From it CountCorrect and
  AdmissionCorrect.
* **OwnersCorrect** adds `Held`: what a transaction has reaped had expired by its own `now`,
  which is never ahead of the clock, and what it releases is its own.

* **AttemptsCorrect**, of definitions without a cycle. A worker that creates an attempt was counted
  before it, and the policy's numbers hold per token; what the induction needs is that an execution
  that enters a step has not been there. `BudgetInv` says so by an order of the steps, any that
  contains the edges: everything an execution has created lies before the step it is at, or is of
  that step. The hypothesis, `IsAcyclic`, is what `validateWorkflowGraph` sees to: `AcceptedIsAcyclic`
  of WorkspaceProofs proves it of every accepted definition, and TLC checks it of the instances
  (`InstancesAreAcyclic`). Without it the theorem is false.

### Delivery: DispatchProofs

`DeliveryInv` says which jobs and tokens there can be: none of a generation that has not been
reached, a job, of its generation or of an earlier one, for a row that is DISPATCHED, one slot per
job, and no token in two slots. It holds at every fault, and most of its proof is the bookkeeping of twenty-odd actions. From
it:

* **OwnerCorrect.** Jobs of several generations may be at work at once; at most one of their slots
  executes the run under the token in its row, and none while it waits for a decision or for its
  next delivery. This is the fencing of RunExecution, seen from the queue.
* **DeliveryImplementsLifecycle.** Dispatch implements RunLifecycle, as RunExecution does: the
  interface through which the two are put together is proved on both sides.
* **ClaimsCorrect** and **GenerationCorrect**: who may settle a claimed row, and move its generation.

### What starts a run: IntakeProofs

The invariant has one part per thing that users, schedulers, senders and time share.

* **UsageCorrect.** `LedgerInv`: a bucket counts at least the admissions that are left of it, and no
  more than its limit. Each caller adds to the ledger by one operator, so this is one lemma about
  `Admit` and one about forgetting.
* **QuotaCorrect.** Whoever has counted the active schedules holds the workspace's lock until it has
  written, so nobody else counts or writes meanwhile, and what it counted leaves room.
* **TriggeredCorrect**, **EventCorrect**, **StartsCorrect.** One run has a key; a key names what it was
  started for. The run that a refused scheduled start leaves without a dispatch row (section 5, item 7)
  is the difficulty: a later occurrence of its instant would find it and call it triggered.
  `DealtWith` says why none does: the instant is recorded, or too old to trigger for every poll under
  way and to come, which needs the grace period to be within the retention. For an instant recorded
  off its time this reasoning fails, and so may the statement (section 5), which excepts it.
* **OnTimeCorrect**, **NoBackfillCorrect.** Rows are not assumed to agree with themselves: of a live row
  the invariant says only that it has the field of its type. What calls are about to write agrees
  with itself (`OwnRow`), and so does what a processed instant leaves (`DueDecision`), so a mismatch
  comes from an input-only write alone. Of a row without one, what triggers is due by the poll's
  time and within the grace period; of any row, the next instant lies after that time.

### What leaves the system: IntegrationActionsProofs

* **PostedOnceCorrect**, **OutcomeCorrect.** A row names the one attempt that may send and settle, and
  leaves IN_FLIGHT for good: whoever else writes to it can only have given it up (`HoldInv`). What a
  holder knows of its message is true (`KnowledgeInv`), so what it writes is, and an attempt that
  was given up can turn the row to SUCCEEDED by nothing but a message that was sent.
* **RowsCorrect**, **RevocationCorrect**: rows move as `canTransitionIntegrationAction` allows; a
  rotation that was computed before a revocation finds no row to write.

### What a workspace generates: GenerationProofs

* **OneCallCorrect**, **AnswersAgreeCorrect**, **SettledCorrect.** The insert decides who calls; a row
  lives from its insert until its retention has passed, its text is that of the request which
  inserted it, and what a caller was told is what the row said at that moment, or the caller's own
  answer beside an UNKNOWN that recovery has set.
* **AnswersBackedCorrect**, **TranscriptCorrect.** For every point of the loop the invariant says how
  the step rows read so far, which tools are heard, and what the run row says (`ExecutionOK`);
  writes that fail leave a prefix of an account. The one contradiction the code can produce, FAILED
  after a recorded answer, is part of what `ReadsAsAccount` allows (section 5).

### What users change: WorkspaceProofs

* **AcceptedIsAcyclic, WalkCorrect, ApprovalCorrect, ReferencesCorrect.** The searches of `graph.ts` and
  `integration-policy.ts` are iterated rounds over the steps. Before anything can be said of
  definitions of every size it has to be shown that as many rounds as there are steps are enough:
  a set that still grows after n rounds has more than n elements (`ReachedIsTheLastRound`), so
  `Reached` is the least set that contains its start and is closed under the edges
  (`ReachedIsLeast`). Precedence is then transitive, and irreflexive for accepted definitions.
  `WalkInv` follows a run: it goes forward until a last step that is an approval, after which the
  steps behind it may come again; it is on an undecided path or an approval is behind it; what it
  has left out lies ahead or behind a condition it has passed.
* **DefinitionsCorrect, SavesCorrect, LayoutCorrect.** Versions are appended under the lock of the row. An
  open tab has every step of the version it goes on from, a patch carries what its tab had, and the
  version it expects is compared again under the lock, also for a patch that only moves nodes.
* **MembershipsCorrect, OwnersCorrect.** Whoever is about to write on the row of an owner has counted
  another one. If the write leaves none, then either what it read of its row or what it counted has
  been changed since, which is the exception `LastOwnerGoesUnseen` names.
* **KnowledgeCorrect, IndexCorrect.** A row and its chunks are written together or the row is not READY;
  of all the writes only the update that keeps the chunks can leave an index of other content.

### What is only model-checked

* The liveness properties QueuedRunStarts, DueIsRecorded and InProgressSettles: ENABLED and fairness
  are beyond the provers used here.
* What StepValues and Chunking compute, what OllamaProvider and the envelopes answer, and that the
  editor's transformations give a definition back (`RoundTrip`, `AddedFits`): recursion over data, or
  finite tables, which TLC evaluates over bounded inputs. No theorem rests on any of them.
* The two runs that show a disagreement (section 5): their properties are false.

## 5. Where code and documents disagree

Two have a run whose counterexample is the shortest story that shows them; the quoted lines are in
`PROJECT.json`.

1. `rerun` - an approval that is the *last* step stores a null resume point, which the next
   claim reads as "start at the entry step": completed steps run again.
2. `stranded` - a dead worker's job comes back after 30 s, within the run's 90 s lease, is
   refused and done; a DISPATCHED row is in no pass's selection, and the run stays RUNNING.

Five more are behaviours of the models that TLC exhibits as soon as the document's sentence is
stated as a property; they have no run of their own.

3. *Cancelling* (service.ts:528). A cancellation between the abort check and the guarded advance
   is taken for a lost lease (executor.ts:195-198); the run stays CANCEL_REQUESTED, which nobody
   claims. Milestone 6 design:160 says "RUNNING -> CANCEL_REQUESTED -> CANCELLED".
4. *Cancelling a waiting run* (service.ts:468) picks one of its requests regardless of status; with
   two approval steps the pending one may be left. Milestone 9 design:233 says cancellation
   "transitions the pending request to `CANCELLED`".
5. *Reaping* (concurrency/service.ts:75). An acquire that reaps and then returns a duplicate does
   not write the counter: the reaped rows count for ever. So do unreaped rows that
   usage/retention.ts:54-63 deletes. Milestone 12 design:167: "an expired reservation no longer
   counts".
6. *Stale generation* (outbox.ts:117). A pass works with the generation it read before its claim;
   the row ends up DISPATCHED without a job of its generation. Milestone 12 design:189:
   "CLAIMED -> DISPATCHED (reservation acquired and BullMQ enqueue accepted)".
7. *Refused scheduled start* (schedules/processor.ts:163). The catch block runs inside the
   transaction and commits: the run row stays, QUEUED, with no dispatch row. Milestone 7 design:97:
   FAILED means failed "before a workflow run was created or linked".

Seen while modelling:

* *Run execution.* `ARCHITECTURE.md:88` requires token and lease for every attempt, and the insert
  of an attempt checks neither. `finishWorkflowRun` lets a cancelled run end COMPLETED, FAILED or
  TIMED_OUT. Nothing calls `renewWorkspaceReservation`, so reservations of long executions expire
  under their holders.
* *Schedules.* An edit that was computed before a tick may put nextRunAt back on an instant already
  recorded; processor.ts:104 then returns without advancing, and the schedule stands still. Due
  schedules are selected without an order (processor.ts:191-193), so a full batch of such schedules
  starves the others, and an error that is no AppError ends the batch (scheduler.ts:57). Enabling
  and editing across a tick can arm a consumed ONE_TIME again (milestone 7 design:117). Enabling an
  enabled schedule counts against the quota. A PATCH that changes the input only writes the type,
  interval, runAt and misfire policy it has read (service.ts:142-150) and not nextRunAt: beside an
  edit of the timing it leaves a row with the nextRunAt of another definition. A ONE_TIME row is
  then due by nextRunAt and triggered for runAt (calculator.ts:149-155), which may lie ahead or
  beyond the grace period; a CRON row may fire once off its calendar. If such a start is refused,
  its run stays behind (item 7), and after the occurrence is purged the same instant can be
  triggered again and find it, without a dispatch row.
* *Starts.* The on-conflict branch of createWorkflowRun (service.ts:265-268, :381-384) returns the
  run of the key without comparing its workflow. A run resumed after an approval needs the event or
  occurrence that started it; approvals may wait 365 days (policy.ts:4), events are kept for 30
  (env.ts:66), and then the run fails with WORKFLOW_PRINCIPAL_MISSING (service.ts:452).
  `boundedSegment` (usage/policy.ts:22-28) folds ":" to "_" and trims, so two client keys can share
  one operation key and the second start is not charged.
* *Webhooks.* The trigger is read outside the accepting transaction (milestone 8 design:160 has it
  inside). When an event's row was purged and its trigger retargeted meanwhile, each delivery is
  refused with 503. Two rotations of one secret may set the same version; so may two of an
  integration credential.
* *Integration actions.* A 429 from Slack is recorded FAILED and thrown as retryable; the retry finds
  a terminal row. A second execution beside an IN_FLIGHT row fails the run though the message may
  have been posted. `markStaleIntegrationActionAmbiguous` and `transitionIntegrationAction` have no
  callers outside tests. A reservation that is already held is taken for an acquired one
  (integration-action.ts:43-57, and in agents), so the limit can be exceeded. The name index of
  `integration_credentials` includes deleted rows.
* *AI.* After stale recovery the first caller gets its text with 200 while duplicates are told
  UNKNOWN. A key reused after its row was deleted (7 days) and before its admission is (30 days)
  calls the provider again uncharged (AI.md:61). A stream without a final chunk counts as complete.
  The fingerprint covers the assembled prompt, so a retry after an edit of the brand is refused as
  AI_IDEMPOTENCY_KEY_REUSED. An answer near AI_IDEMPOTENCY_RESPONSE_MAX_CHARS does not fit the
  envelope as JSON (idempotency-service.ts:116-119): the provider has answered, the caller gets an
  error, and the key ends UNKNOWN. A blank Idempotency-Key is one key shared by all.
* *Agents.* updateAgentRun has no status guard: an audit failure after completion makes the catch
  block mark a COMPLETED run FAILED (runner.ts:427); a failure at the step limit writes an ERROR step
  numbered maxSteps + 1. A failure after the insert, or a crash, leaves an agent run RUNNING for
  ever. Two patches at once can leave brand tools without a brand. The check at runner.ts:310 cannot
  be reached when there are grounding tools. A second POST with a blank key violates the unique
  index.
* *Memberships.* Two owners who step down or leave at once leave none, against "The workspace must
  retain an owner." (memberships/service.ts:38-39). changeMemberRole on a row that is gone updates
  nothing, audits it and answers 200.
* *Knowledge.* An update that has decided on content another update has replaced leaves a READY
  document with the index of other content (knowledge/service.ts:69-85). The character quota's
  difference is computed before the lock, in UTF-16 units against the database's char_length. A
  crash leaves a document PROCESSING until somebody reindexes it. Of two indexers of a document, one
  that fails may mark it FAILED, and the other's success is then refused with 409. A chunk overlap larger than
  half the chunk size can give chunks that lie inside the one before.
* *Definitions.* `enabled: true` without a definition validates a version read before the lock, and
  needs no expectedVersionId (workflows/service.ts:190-200). Edits made in the editor while a save is
  under way are marked clean when it succeeds. A valid reference to a step on a branch not taken
  fails the run.
* *Values.* `exists` is true for names every object inherits (context.ts:65-66); the length of an
  array reads as null where a select fails.
* *User interface.* `refresh()` after a mutation is not aborted when the workspace changes
  (components/dashboard/workflows-page.tsx:58-64), so the list of the old workspace may be shown.
* *Health.* The check compares raw model names (health/checks.ts:30-34), where the embedding
  provider takes a name without a tag for ":latest" (embeddings/ollama-provider.ts:35).

## 6. What is not modelled, and the plan

Left out of the modelled components: logs and error texts; the reviewed context of an approval; the
retry delay and `nextAttemptAt`, which only postpone; draining at shutdown and the Redis heartbeat
keys; rate limits in Redis, which only refuse; the bytes of signatures and ciphers; cron syntax and
time zones (a library); prompts and the parsing of a model's output, of which the outcomes are kept;
text transforms; titles, names and listings; clock skew between database and processes beyond the
captured `now`. Not to be modelled: audit and log rows nothing reads, the authentication library,
route parsing, the validation of the environment, rendering. Rows written by other workspaces meet
only in indexes that include the workspace.

Three compositions are left as they are. Dispatch abstracts Reservations to what one source sees of
them, and RunExecution abstracts deliveries and the insides of a step: the interfaces are
RunLifecycle, `Defer` and the freedom of a step's outcome, and a product with the detailed modules
is beyond what TLC explores.

What is left:

1. The hazards of `PROJECT.json` that no property covers (their notes say why): most are the
   disagreements of section 5, where the statement one would want is false.
2. A statement of what *does* hold of reaping and of a stale generation (items 5 and 6), to be proved
   beside CountCorrect and DeliveryInv: which rows a counter may still count, and when a DISPATCHED
   row can be without a job of its generation.
3. Dispatch over the detailed Reservations instead of its abstraction, as a refinement: its
   reservation of one source is a projection of theirs.
