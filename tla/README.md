# Verification of the multi-agent platform

TLA+ models of the platform's backend (`src/app`), TLC instances that check
them, and TLAPS proofs. The platform runs *tasks*: a Task Run is one or more
Agent Runs (model calls), possibly as nodes of a Workflow Run. Everything is
kept in one SQLite database, which API requests, worker lanes and periodic
sweeps of several processes write at the same time; no component holds state
of its own between two transactions.

All models share one view of the code: **a step is a transaction**. Sessions
are opened with `autoflush=False` and `expire_on_commit=False`, every service
method commits several times, and between two commits anything may happen: a
crash, another lane, a cancellation. A value read before a commit is kept in
the actor's memory and may be stale when used. A read whose condition the next
statement repeats in its `WHERE` clause is merged with that statement.

## 1. Inventory

| Component (source) | State | Operations | Hard part | Correct when |
|---|---|---|---|---|
| Job queue and worker lanes (`repositories/job_queue_repository.py`, `worker.py`) | `job_queue` rows: status, lease owner, expiry, fencing token; per lane: the claimed job and its token | enqueue, claim_one (3 steps), heartbeat, complete/release; lane loop, shutdown, lane failure | lanes race for a row; a lease runs out on a living worker; processes die | one live lease per job; a fenced write is the newest claim's; finished is final; every job finishes |
| Agent Run execution (`services/execution_service.py`) | Agent Run, attempts, model calls, usage, artifacts | execute, recovery, attempt, provider call, settlement, finalization, last-resort handler | about fifteen commits around one irreversible provider call | the provider is not called again after an ambiguous call; one outcome; COMPLETED is backed |
| Budget governor (`services/budget_service.py`, `cost_budget_governor.py`) | reservations, usage, budgets | reserve, settle, release, record_usage | check-then-act on a shared budget; lingering reservations | a budget is overrun by no more than the calls in flight |
| Task runs (`services/task_service.py`) | Task Run | start (two transactions), cancel, candidate and reviewed starts | unconditional writes | the Task Run follows its Agent Run; it ends |
| Workflow engine (`services/workflow_execution_service.py`) | Workflow Run, one row per node and iteration | start, schedule, dispatch, record completion, fail-fast, cancel, reconcile, heal, retry, resume, summary status | no process of its own: the handlers interleave; status is derived from rows that move | dependencies, fail-fast barrier, drained verdict, convergence |
| Approvals (`services/approval_service.py`) | approval rows | request, decide, expire | a person races fail-fast and cancellation | one decision, and never for a decided node |
| Review cycle (`services/review_orchestration_service.py`, `review_contract.py`) | the newest stage of a reviewed Task Run, its reviews, its final artifact | queue the reviewer, repair, accept | blind status writes; the next stage runs before the last one's lane is done | what is handed out was accepted; a late stage never calls |
| Comparisons (`services/comparison_service.py`, `comparison_progress_service.py`) | comparison, links to its candidates, winner | create, launch, notify, select, cancel | four writers of one status, each of which checked it earlier | the verdict agrees with the candidates; a selection stands |
| Evaluations (`services/evaluation_execution_service.py`, `evaluation_progress_service.py`) | evaluation run, results, the evaluator's Task Run | analyze, execute, finalize, reconcile, retry of a node | three ways to finalize; files that change under the database | one verdict, about the bytes that were bound |
| Idempotency keys (`repositories/idempotency_repository.py`) | key rows | try_begin, complete, fail | overlapping requests; a failed statement after the effect | a duplicate takes a failure |
| Flight recorder, event stream (`services/flight_recorder.py`, `execution_event_repository.py`, `sse.py`) | per-run sequence numbers; one generator per client | record, stream, resume | concurrent writers read the same highest number; broken connections | no gap, no repetition, no reordering for a client |
| Workflow definitions (`services/workflow_definition_service.py`, `workflow_validation_service.py`) | versions of a graph | edit, publish, copy, deprecate, retire; validate; start | every write trusts a status read earlier | a published version is runnable; the validator is exact |
| Model registry and routing (`services/model_registry_service.py`, `model_intelligence_service.py`, `model_resolution.py`, `routing_evidence.py`) | catalogue, prices, policy versions, evidence | refresh, test, switch, route | a decision reads the catalogue, the policy and the evidence in four statements | the pick keeps to its policy |
| Agent, evaluation and secret registries, provider adapters, API and authorization, read models, database lifecycle, extension points, frontend | see `PROJECT.json` | request-scoped reads and writes, I/O | little | - |

**Interactions.** `start_task_run` and the engine's dispatch create an Agent
Run and enqueue an `AGENT_RUN` job in a *later* transaction. A lane claims the
job and calls `ExecutionService.execute`, which asks the router for a model
and the governor for a reservation. When it returns, a reviewed Task Run goes
on to its next stage in the same lane, a comparison's candidate notifies the
comparison, an evaluator its evaluation, and the worker notifies the engine
(`on_agent_run_complete`); then the worker completes the job under its fence.
The engine's sweep (`reconcile_active_runs`, from every worker and from the
API process) repairs lost notifications and jobs of workflows; nothing repairs
those of other Task Runs. Approvals move approval, node and run in one
transaction and then call the engine. Everyone records events, which clients
read through a stream that polls.

The hazards (40 of them, each at its line) are listed in `PROJECT.json`.

## 2. Modules

| Module | Role |
|---|---|
| `FencedLease` | abstract: grants open epochs; only the newest grant settles a job |
| `JobQueue` | the queue and the lanes; `IsFencedLease` is the refinement |
| `OneProviderCall` | abstract: at most one provider call not known to have failed; one verdict |
| `AgentExecution` | one Agent Run, its job, Task Run, attempts, call and reservation; `IsOneProviderCall` |
| `DrainedRun` | abstract: a run over a graph with fail-fast and a verdict taken when drained |
| `ResumedRun` | abstract: a drained run that a retry may take up again, once nothing of it stays failed |
| `WorkflowEngine` | one Workflow Run: every handler of the engine over a constant graph; `IsDrainedRun`, `IsResumedRun` |
| `ReviewCycle` | Task Runs as chains of Agent Runs, plain or reviewed, that share a budget |
| `Comparison` | extends `ReviewCycle`: the comparison whose candidates those Task Runs are |
| `JudgedOnce` | abstract: evaluations opened in turn, whose evaluator and verdict each end once |
| `Evaluation` | evaluation runs, their evaluators, and the idempotency keys of an analysis; `IsJudgedOnce` |
| `ModelRouting` | catalogue refreshes, the switch of the evidence policy, one routing decision |
| `WorkflowDefinition` | authoring of one workflow, the validator, the start of a run |
| `ReplayedLog` | abstract: one log that every client sees from its beginning |
| `EventStream` | the flight recorder, the stream and its clients; `IsReplayedLog` |
| `JobQueueProofs`, `AgentExecutionProofs`, `WorkflowEngineProofs`, `ComparisonProofs`, `EvaluationProofs`, `EventStreamProofs`, `ModelRoutingProofs`, `WorkflowDefinitionProofs` | TLAPS proofs |
| `MC*` | values for TLC |

The components compose through what they promise each other.
`AgentExecution` takes from `JobQueue` that a second claim follows only a
release or an expiry (`Claim`, `LeaseRanOut`) and that completion is fenced
(`Finish`). `WorkflowEngine` takes from `AgentExecution` that an agent run ends
once (`AgentEnds`), or that its job dies without ending it (`JobDies`), and
from `Evaluation` the verdict of an EVALUATION node. `ReviewCycle` keeps of
`AgentExecution` the commits that other stages and handlers can see, and
`Evaluation` those of an evaluator with one attempt. `Comparison` is composed
with `ReviewCycle` in full: `CmpNext` contains its lanes. `ModelRouting`
decides what `AgentExecution` abstracts as a successful or failed route.
`MCJobQueue` and `MCDefinitions` put two components without a common variable
into one instance, and a behaviour explores one of them.

### JobQueue

`queue[j]` is the row, `lane[w]` the local variables of the lane's thread.
`ClaimSelect`, `ClaimUpdate` and `ClaimReadBack` are the three statements of
`claim_one`; the token that a lane will present is what it *reads back*, in a
later transaction, so it may be another lane's. `Heartbeat` extends the lease
whether or not it lapsed, as the SQL does. `SettleJob` is `complete`, and
`_release` when it writes PENDING. `LaneFails` is an exception that escapes a
lane and shuts the process down; `Crash` kills all its lanes. Time is a
counter; `won` and `deadline` are history for the properties.

### AgentExecution

An *executor* is one claim of the run's job. `exec[a].pc` names the next commit
of `execute`; the order of the steps is the order of the code. Cancellation is
polled at `_is_cancelled`'s five checkpoints. `SetRunning` writes from a status
read before (the code's one write that is no compare-and-swap). `UnexpectedError` is a
database error or bug at any commit, after which the last-resort handler runs
once; `Crash` loses the executor. `Sweep` is the part of `_heal_agent_nodes`
that ends a run whose job cannot. Prompt assembly, routing and the provider are
one nondeterministic outcome each.

`FailStop` says what may happen when a lease runs out: TRUE, only on an
executor that stopped; FALSE, also on one that is alive (a *zombie*). The
worker sizes the lease at `timeout_seconds + 60`, which is meant to make the
second case rare and does not exclude it.

### WorkflowEngine

`exec[a].todo` is the stack of routines actor `a` still has to run; each step
runs the first up to its next commit. `node[<<n, i>>]` is the row of node `n`,
iteration `i`; a retry is a new iteration. Mapping and simplifications:

- `EVALUATION` nodes are agents whose outcome is the verdict
  (`_evaluation_outcome`); CREATED and RUNNING agents are both `"open"`.
- `ClaimPendingNode` is the single guarded `UPDATE` of every dispatch.
- `OnlyHumansLeftToAct` is a step of its own: `_find_ready_nodes` re-reads the
  run into the ORM row that `_sync_run_state` then compares with.
- `byHand` joins a person's cancellation of the run and of one agent: both
  forbid reviving a stopped node.
- `_has_unresolved_model_call` is left out of the retry's conditions, so the
  model allows more retries than the code. `_reconcile_waiting_approval` and
  the repair of missing node rows change nothing in a reachable state.
- the `max_passes`/`progressed` loop of scheduling is "until nothing is ready".
- operands of the graph (labels, prompts, inputs of nodes) are left out.

### ReviewCycle and Comparison

`stage[r]` is the newest Agent Run of Task Run `r`, its call and its job;
`lane[w]` the memory of the lane that works on it. The lane that ends a stage
inserts the next one, enqueues its job and only then writes
`WAITING_FOR_AGENT` (`InsertStage`, `EnqueueStage`, `WaitForAgent`): for three
commits two lanes work on one Task Run, and none of the writes of a Task Run's status
has a condition. `Begin` and `Reserve` are the two halves of `reserve`: the sum,
then the insertion. `_queue_repair` raises for a candidate of a comparison
(`CanRepair`), which is a finding.

`launch`, `select` and `stopping` are the three request handlers of a
comparison, each of which read its status before it writes it. `Notify` and `Transition` are
`notify_task_run_terminal`; in between events are committed, so that what
was read of the comparison is old. `Phase` is `compute_comparison_phase`. VERIFYING,
which is overwritten at once, and the hashes of artifacts are left out.

### Evaluation

`eval[e]` joins an evaluation run with its evaluator's Task Run, Agent Run,
output and job. A deterministic one is `ReadRun`, `StartRun`, `RunChecks`,
`EndRun`; an agent one `Recover`, `Answer`, `Judge`, `EndTask`, and then
`Finalize` and `Decide`, which are reached by the notification, by `Reconcile`
at the end of a node's job, and by `Sweep`. `original[s]` says whether the
artifact's file still has the hash that was bound; `EditFile` changes it or puts it back.
`request[q]` is an `analyze_comparison` in progress, which works through the
candidates, each under its own key.

`IsJudgedOnce` refines `JudgedOnce`, in which an evaluation is opened, its
evaluator ends, and it is concluded. An opinion is sound if the evaluator
completed, kept the contract, and was given the bound bytes; the subject at which evaluations
take turns is a node's artifact (requests take none). Deterministic evaluations, tasks,
jobs, leases, keys and results that await a commit are not seen.

### ModelRouting

A price is a pair, an offering an index; of the identifiers only the order counts.
`Fetch`, `ReadCatalogue`, `CommitRefresh` are one refresh: a network call,
then reads, then one flush of the rows that differ from what was read, refused if another
refresh has meanwhile inserted one of them (`Collides`). `route_auto` is
`RouteAuto`, `ReadPolicy`, `ReadCalls` and `ReadFindings`, one per SELECT;
`TieBreakKey`, `SortKey` and `Boundary` are its comparison functions,
`EvidenceFails` its fallback. `seen` is the catalogue the decision read, which
the properties judge it by.

### WorkflowDefinition

Every request is a read and a write (`AddNodeRead`/`EditWrite`, `PublishRead`/
`LoadNodes`/`LoadEdges`/`Judge`/`PublishWrite`, and so on), because none of
the writes repeats the check of the status. `Accepts` is the validator:
`HasCycle` is its depth-first search with the recursion stack, `Reach` its
breadth-first searches; both are written as a number of rounds of a loop
(`Loop`), so that they can be proved about. `Runnable` says independently, by numberings and partitions, what
they compute, and `ValidatorIsExact` compares the two. The configuration of
a node is the one registry entry it needs; `Judge` reads the entries in one
step. A start reads the version, its nodes, its edges and its preflight in four steps.

### EventStream

`writer[w]` is a call of `record`: the highest number is read in one statement
(`ReadMax`) and taken in a later one, which the unique constraint refuses if
somebody was faster (`Refused`, then `Again`). `stream[c]` is the generator of
one connection: `Poll`, then `Send` event by event with the cursor moved
first. `Drop` loses what is on the wire, and `Connect` resumes after the last
event the client received. `before` is history for `RefusalsAreProgress`.

## 3. What the runs check

| Run | Question | Answer |
|---|---|---|
| `queue` | Two processes, one of which crashes, contend for two jobs: `LeaseInv`, `OneLiveLease`, `HolderIsNewestClaim`, `IsFencedLease`; is every job finished if one process stays up (`EveryJobFinishes`)? Two writers and a client whose connection breaks: `RefusalsAreProgress`, `IsReplayedLog`, `EventsArrive` | hold |
| `exec_recovered` | A worker crashes or fails at any commit; a second one and the sweep survive: `RecoveryInv`, `IsOneProviderCall`, `RunEnds` | hold |
| `exec_zombie` | Two workers on one run, no fail-stop assumption: `CompletedIsBacked`, `VerdictStands` | hold |
| `exec_replay` | Is the provider never called again when *recovery* crashes? | no, finding 1 |
| `flow_join` | Two agents and a join, two handlers, cancellation, crashes: `IsDrainedRun` | hold |
| `flow_live` | A gate behind a crash-prone and a reliable handler, jobs that die, lost notifications: `SchedulingInv`, `OutcomesAreFinal`; does the run settle (`RunSettles`)? | hold |
| `flow_revive` | Fail-fast, then retries that revive what it stopped, with late reports, crashes and requests between any two commits of one handler: `OpenWorkIsAwaited`, `OnlySiblingsOfFailureStop`, `ResumedRunCanComplete`, `OnlyRetryReopens`, `IsResumedRun` | hold |
| `flow_cancel_lost` | Can a cancelled run with a gate end COMPLETED? | yes, finding 2 |
| `comparison` | A plain and a reviewed Task Run, started one by one on one budget, or as candidates of a comparison that is launched, selected and cancelled at once, with a lane that dies: `FinalWasAccepted`, `LateStageNeverCalls`, `OvershootIsBounded`, `OutcomeInv`, `SelectionStands`, `RunsConclude` | hold |
| `candidate_stuck` | Is a claimed candidate of a comparison ended, if no worker dies? | no, finding 3 |
| `evaluation` | Two overlapping analyses, direct evaluations, or an EVALUATION node with its retry; a lane that dies or outlives its lease, a failed statement, an edited file: `VerdictInv`, `EvidenceWasBound`, `DuplicatesOnlyAfterFailure`, `VerdictIsFinal`, `IsJudgedOnce`, `EvaluationsConclude` | hold |
| `definitions` | Racing refreshes, switches and a decision: `CatalogueInv`, `PolicyIsRespected`, `ColdStartIsNeutral`. Racing editors, publishers and a start: `VersionInv`, `ValidatorIsExact`, `NoRunOnWithdrawnEntry` | hold |

Several properties are conjunctions with a name per part: `RecoveryInv`
(types, `EndedRunHasNoOpenAttempt`, `ProviderNotReplayed`, `TaskFollowsRun`),
`SchedulingInv` (types, `DependenciesComplete`, `EndedRunIsDrained`), `OutcomeInv`
(types, `WinnerWasDelivered`, `FailedHasNoSurvivor`), `VerdictInv` (types,
`ResultsWithVerdict`, `VerdictFollowsEvaluator`), `CatalogueInv` (types,
`OneActivePolicy`, `ActiveIsListed`), `VersionInv` (types,
`PublishedIsRunnable`, `NoVersionIsLost`).

Every property of a passing run has a mutant in `PROJECT.json`: a plausible bug
in one definition with which TLC finds the property violated.

### Bounds, and why they are enough

- *Queue*: `MaxClock = 3`, leases of 1 and 2 ticks, `MaxToken = 3`: a lease can
  lapse twice and a third claim follow. Two lanes suffice, since every property
  relates a row to at most two lanes; the proofs cover any number. `LapsesInTime` keeps a
  lane from dying when the clock's bound would hide its lease's expiry.
- *Events*: two writers of two events each, `MaxAttempts = 2` (5 in the code,
  so that giving up is reached), one client, one broken connection. Clients do
  not interact; the proofs cover any number of everything.
- *Execution*: `MaxAttempts = 2`, the code's default; two executors (three in
  `exec_replay`), so that each recovery is itself interrupted once. A run never
  has more than the recovering and the superseded worker.
- *Workflow*: three nodes, an entry pair and what joins them; two
  concurrent handlers, enough for every pairwise race; `MaxIteration = 1`, one
  retry per node (`HasRoom` is the bound); `SyncTries` is the code's 4 in
  the runs with a gate, and 2 where no gate waits, which keeps the state space small.
  `flow_revive` has two entry agents before a node of
  a type that the engine refuses, so that a run fails by the graph as well as by an agent,
  and one handler at a time: a handler may hold a decision across the retry
  of another one, and then `OnlySiblingsOfFailureStop` and `EndedRunIsDrained` are false,
  of the code as of the model. With `Actors = {a1, a2}` TLC refutes the first in 15 steps
  and the second in 17. What holds of any number of handlers outside that window is
  proved (`Undisturbed`, section 4). In this run there is no gate either, so
  `OnlyRetryReopens` is about retries and late reports, and not about finding 2.
- *Reviews and comparisons*: two Task Runs, one of them reviewed, each run
  once; `MaxRepairs = 1`, so that the limit is reached; two lanes, one of which
  dies once; one launch, one selection at a time, one cancellation. Requests
  start and cancel Task Runs only where no comparison exists, and candidates
  are cancelled through their comparison; the budget is that of Task Runs
  which requests start. `Limit = 3` with `Estimate = 1` and costs of 0 or 2: two
  reservations can pass together and be exceeded together.
- *Evaluations*: one artifact, two evaluations, two lanes and two requests, enough for a
  duplicate, a retry, and a race between any two finalizers. One fault in all (a death, a lost
  lease or a failed statement) and one edit of the file, which may already differ at
  the beginning. Evaluations of different owners share nothing but lanes and
  are not mixed, nor are requests with the evaluations of others (`Apart`; no proof
  uses it, so the theorems hold of a mixture, too); an evaluator has one attempt.
- *Definitions*: any graph of four nodes (every edge set) with one more
  request, or two small drafts with three requests of two authors and a
  starter; `MaxFanOut = 2`; three versions. A node key that was deleted is not
  used again. *Routing*: three offerings of two providers and two models at
  four kinds of price; any catalogue with two facts of evidence, two refreshes that race, or two
  switches that race, and a decision. Configurations of a policy version that
  this code cannot honour are one kind (`Supported`). Evaluations with one criterion. The
  initial states are places that the requests, already spent, lead to.

### Fairness

- `queue`: weak fairness of each lane's next step (threads run), of time,
  and of the start of processes a supervisor keeps up (`Reliable`). Nothing is
  assumed of the other process. For events, the generator polls and sends for ever, and a client
  reconnects; nothing is assumed of the writers.
- `exec_recovered`: weak fairness of each actor's next step, of claims (the
  queue's liveness) and of the sweep, which the worker runs periodically.
- `flow_live`: weak fairness of a reliable handler's steps and of agents
  ending; strong fairness of its sweep, because between two sweeps the same
  worker also runs other handlers, which disables the sweep again and again.
- `comparison`, `candidate_stuck`: weak fairness of each lane's steps and of its claims, and
  of the handler that goes on to enqueue the job of a Task Run it started.
  `RunsConclude` promises nothing after a crash, because nothing repairs a
  Task Run that is left between two stages.
- `evaluation`: weak fairness of each lane, which works on, polls and sweeps.
  A lane that died holds nothing, and its thread is restarted with its process.

Deadlock is not checked: the systems really stop (all jobs done, the run
ended, lanes shut down, requests answered).

## 4. What is proved

`JobQueueProofs`, from `JobQueueAssumption` alone (any jobs, lanes, processes,
lease lengths; nothing is assumed of the bounds):

- `LeaseInvariant`: `LeaseInv`. It is the inductive invariant. The code keeps no
  record of who *should* hold a row, so `OneLiveLease` is not inductive by
  itself. The strengthening says that a lane processing a job either owns the
  row, in which case the row is LEASED under exactly the token its own UPDATE
  produced and expires exactly when the lane believes, or was overtaken, in
  which case its deadline is past. `ClaimNowIsPast` is needed because the UPDATE
  tests expiry against a time read before the SELECT.
- `TypeCorrect`, `MutualExclusion` and `FenceIsNewestClaim` follow from it. The
  last one shows that the late read-back of the token is harmless: the owner
  column is what makes the fence sound.
- `FinishedJobsStayFinished`: the step property `FinishedIsFinal`, from the same invariant.
- `RefinesFencedLease`: the queue implements `FencedLease`; it also needs
  `AbsentIsUnclaimed` (a row that does not exist has no lane at work).

`AgentExecutionProofs`, from `AgentExecutionAssumption` alone (any executors,
sweepers and attempts; `FailStop` may be FALSE, so leases may run out on living
workers; `Reliable` may be empty):

- `BackingInvariant`: `BackingInv`, the inductive invariant. `CompletedIsBacked`
  is not inductive: an executor at `finishRun` knows nothing about the rows. The
  strengthening says what each program counter has behind it
  (`ProgressIsRecorded`: a call before settlement, the spend before usage,
  usage before the artifact, and so on), and that nobody undoes it. That rests on
  `WorksAlone`: an attempt number is inserted once, so two executors never work
  on one attempt, and on the compare-and-swaps: recovery and other executors
  close only what is still open (`Harmless` in the proofs), never what a
  passed commit recorded. `CompletedForGood` adds that no executor is left on
  the attempt that backs the run, since `_finalize_cancelled` fails its attempt
  whatever the attempt's status.
- `TypesCorrect`, `CompletedRunsAreBacked`: parts and consequences of it.
- `VerdictsStand`: the step property, from the same invariant (an executor
  that starts a call has none yet; one that records output has a success).

Its proofs share three lemmas about steps: `OrderlyStep` (a step that touches
its own attempt), `LeavingStep` and `RecoveringStep` (a step after which the actor
works on none); each action has a lemma of its own.

The same module, from `AgentExecutionAssumption` and `FailStop` (a lease
only runs out on an executor that stopped, as in `exec_recovered`):

- `EndedRunsAreTidy`, `TaskRunFollows`: for any number of claims, sweeps and
  attempts. The inductive invariant is `RowInv`, with `BackingInv`. `OneAtWork`: the
  executor that lives holds the job, and a sweep is at work only after the job
  ended, so that no two kinds of actor meet in the rows; `RunAt` and `Tidy` say
  what the run's status and the open attempts are at each program counter
  (before `fail2` every attempt is closed; on the way to the call only the
  executor's own is open).
- `RecoveryIsSafe`: `RecoveryInv`, for two claims at most (`AtMostTwoClaims`), any sweeps
  and any attempts; with three it is false (finding 1). It needs
  `CallInv`: what was called before attempt `n` failed for certain (`ClearedTo`); the first
  claim finds nothing begun, so it never interrupts; and while a claim is still
  to come no call is marked as interrupted, because only the second claim and
  sweeps after the job's end do that, and nobody follows them.
- `RefinesOneProviderCall`: under the same assumptions the run implements
  `OneProviderCall`: each step asks (`Asks`), records a known failure (`Fails`), ends
  the run (`Ends`), or changes nothing the abstract run shows (`Rests`).

`RowInv` and `CallInv` were model-checked first, with three claims and with two
sweeps. `WorkerStep`, `SweeperStep` and `CallerStep` say what a step of the one
actor at work has to show; every action has a lemma of its own.

`ComparisonProofs`, from `ReviewCycleAssumption` alone (any Task Runs, reviewed
or not, any finite set of lanes, any repairs, crashes, costs and budget), about `CmpSpec`, in which lanes,
requests and comparisons interleave:

- `InvHolds`: the inductive invariant `Inv`. No status of a Task Run is written
  under a condition, so nothing can be concluded from a status alone, and the argument
  rests on who is left to write one. `Placed`: a lane works on the newest
  stage, whose job is leased, or it has inserted the next one. `Alone`: of the lanes
  on one Task Run, all but one are at `waiting`, with only WAITING_FOR_AGENT to
  write. `Grounded` says what the rows hold for each place of a lane (at
  `accept`: the last review accepts, the earlier ones ask for repair, and the
  stage's number is twice their count). `Over`: a terminal status was written
  by the one lane that was not waiting, and nobody delivers anything after it;
  hence a run that is FAILED or CANCELLED was `Rejected` and stays so. `Judged`
  carries that over to the comparison: FAILED is written by a lane that read the
  other candidates at different times, and each of them was over when it was read.
- `LateStages`, `FinalAccepted`, `OutcomeHolds`: its consequences for the rows.
- `ChoiceStands`: the step property. `Judged` says that nothing is selected
  before the launch is done, and that a lane that saw a cancellation saw a
  committed one; a lane that sees no candidate completed would contradict the winner.

- `BudgetHolds`: `OvershootIsBounded`, by `BudgetKept`. The bound is not
  inductive by itself: it does not say what lanes were allowed to add that they
  have not added. `Ahead(w)` is that, and the invariant is that the bound holds even if every lane
  adds all of it. Only a check that passes makes the sum larger, and then the
  total was below the limit, so that one call per lane is room enough. A reservation has
  one lane that can settle or release it (`Alone`). The sums are the community
  modules' recursive function; `SumsExist`, `SumIsBounded` and `SumMoves` say, by
  induction on the sizes of sets, what is needed of them.

Every action has a lemma of its own. Those of a lane end in `LaneStep`, by which
a step of the lane that is alone on its Task Run leaves every other run as it
is; the blind writes end in `OverwrittenStep`.

`EventStreamProofs`, from `StreamAssumption` alone (any writers, clients,
retries, events and broken connections):

- `StreamInvariant`: the inductive invariant `StreamInv`. `ReceivesPrefix` says nothing of what is under way, so the strengthening follows an event from the writer
  to the client. `RowsNumbered`: the recorded numbers are `1..Cardinality(rows)`,
  each taken once. `WritersBehind`: a writer about to insert holds a number no higher than the
  next one, because rows are only added after it read. `InOrder(c)`: what `c` received and
  what is on its wire are the events `1, 2, ...` up to its cursor. `BatchFollows(c)`:
  its batch holds nothing at or below the cursor and every event between the
  cursor and the batch's members. A gap could only come from an event recorded
  below a cursor; `RowsNumbered` and `WritersBehind` leave only the next number
  to be recorded.
- `StreamTypes`, `GaplessDelivery` (`ReceivesPrefix`) follow.
- `RefusalsAnswered`: `RefusalsAreProgress` needs `RefusalInv`, by which the number a
  writer holds already accounts for its earlier refusals, so that a further one shows a
  further event.
- `RefinesReplayedLog`: the recorder, the stream and its clients implement
  `ReplayedLog`; an insertion is `RLAppend`, a receipt is `RLShow`, the rest stutters.

`EvaluationProofs`, from `EvaluationAssumption` alone (any candidates,
evaluations, requests, lanes and faults; reliable lanes or none), by
`EvaluationInvariant`: a lane relies, between two of its steps, on a part of its
row that the others may not change (`Relies`), a row's fields fit together
(`RowOK`), and two more facts make it inductive:

- `OneCall`: the lane that found the evaluator CREATED is the only one that
  calls, however many lanes lost the lease meanwhile. Without it a second answer
  could replace the output under a verdict that was read but not yet written.
- `OneRequest`: between the commit of a row and that of its job only the request
  that created the row knows it. Without it a job might be queued twice, and the
  verdict of a deterministic evaluation, a blind write, would not be final.

From it:

- `VerdictsAgree` (`VerdictInv`) and `EvidenceIsBound` (`EvidenceWasBound`)
  follow: the bytes are fixed when the evaluator is started, by the one lane
  that calls.
- `VerdictsAreFinal`: agent verdicts because of the compare-and-swap, the
  others because a lane that holds the lease is alone.
- `NodesEvaluateInTurn`: `NodeInv`, all evaluations of a node but one are
  marked as retried, and a marked one has failed.
- `KeysPreventDuplicates`: `NoFailureInv`, while there was no fault a key is IN_PROGRESS
  while one request works under it, and ABSENT only without an evaluation.
- `EvaluationsAreJudgedOnce`: the lanes, sweeps, requests and retries implement `JudgedOnce`.
  A step of a lane changes one row (`LaneChanges`), which looks as before, or has an
  opinion, or is concluded (`GoesOn`); a row that appears is opened (`AppearsJudged`),
  for a node only after all others of the node have failed, by `NodeInv` and `RowOK`.

`EvaluationInv`, `NodeInv` and `NoFailureInv` were model-checked first, on the instance of
`evaluation` and with deterministic requests.

`WorkflowEngineProofs`, from `WorkflowEngineAssumption` alone (any graph, kinds
of nodes, actors, retries, and crashes between any two commits), by
`EngineInvariant`. A handler is a list of routines, so the invariant `EngineInv`
says what any list may rely on:

- `Ordered`: a routine that acts on what was just read (`Fresh`: recording,
  finalizing, writing the summary, a retry) is only ever the first of a list;
- `Relies`: what a handler has read, and will not read again, still holds. The
  agent it records has ended, the nodes found ready have completed sources, what
  a retry repairs has failed. `Onward` is why: outcomes are never replaced.
- `AttemptsInOrder`: a later attempt exists only after the earlier ones failed
  or were cancelled, so the current attempt of a node that completed is the
  completed one (`CompletedIsCurrent`). Without it a stale list of ready nodes
  could start a node whose source is being retried.
- `StartedInOrder` and `WorkIsTied` are the properties by row.

Its consequences are `NodesStartInOrder` (`DependenciesComplete`), `NoOrphanedWork`
(`OpenWorkIsAwaited`), `OutcomesWrittenOnce` and `EngineTypes`.

The same module, from `Plainly` (no gates, no retries) as well, because with
either of them the statements are false (finding 2, and the last remark on
workflows below):

- `EngineIsDrainedRun`: the engine implements `DrainedRun`. `DrainInv` is the invariant: a verdict on its way (`WillDecide`)
  is right for as long as the run has the status that was read, since nothing
  runs any more and nothing starts after a failure or when all is over, and the
  run never returns to that status. `Effect` lists the six things a step can do to the
  run and its nodes; each action shows one of them (`Progress`), each of them
  keeps `DrainInv` (`EffectKeeps`) and is a step of the abstract run or a stutter (`StepIsDrained`).
- `VerdictsAreTrue`: `EndedRunIsDrained` and `VerdictMatchesNodes`, by
  `VerdictInv`: in a run that nobody cancelled only a failure explains a cancelled node.

The same module, with retries, gates, crashes and any number of interleaved handlers, of
every behaviour in which two windows stay shut (`Spec /\ []Undisturbed => ...`):

- `RetriesUndisturbed`: while a handler retries, no other one holds a decision it has
  still to carry out, that is, has siblings to stop or a status to write. A decision
  that is carried out behind a retry is about the attempts the retry has
  replaced, and the compare-and-swap on the run's status cannot tell (ABA).
- `SummariesUndisturbed`: the run neither ends nor is cancelled between the two reads of
  one summary. This is finding 2.

Both are needed: with the first one open TLC refutes `OnlySiblingsOfFailureStop`
and `EndedRunIsDrained`, with the second one `VerdictMatchesNodes` and
`IsDrainedRun`. They say of a handler what it holds between two commits, and
nothing of who may run: lanes, requests and sweeps dispatch, report,
stop, decide, finalize, heal and crash beside each other as they like, and a retry runs beside
dispatches, reports, checks and sweeps. With one handler both hold anyway, so the theorems include the run's
instance. The proofs are one induction on `SoundInv`, that is
`EngineInv /\ FailFastInv /\ OutcomeInv` (`SoundHolds`), since each part needs
the others of the other handlers.

- `RetriesAreSpared` (`OnlySiblingsOfFailureStop`) and `ResumedRunsCanComplete`
  (`ResumedRunCanComplete`). Neither is
  inductive: a signal outlives the failure it was sent for unless the retry revives
  everything the failure stopped. `FailFastInv` says why anything may be stopped at all
  (`Failing`: a person asked for it, or a failed node stands), that a retry has read all
  that stands cancelled, and of every handler between two commits that it writes down what
  the rows still say (`WritesTruth`) and stops siblings only for what still stands
  (`HasReason`). `FailFastInv` alone is not kept by a step of another handler: that a
  node over stays over, so that a verdict on its way stays right, is `OutcomeInv`.
- `SchedulingHoldsUndisturbed`: `EndedRunIsDrained` from the same invariant.
- `EngineIsResumedRun`: the engine implements `ResumedRun`. The abstract node shows the
  last attempt of each node (`Shows`). `OutcomeInv` is what it needs beyond
  `FailFastInv`: a verdict on its way is the one the rows call for (`ActsSoundly`), a
  handler stops nodes only of a run that is failing or ending and retries only when it does
  nothing else, a cancelled node of an active run comes with a failed one, and a run that
  ended without a failure has nothing left that never started (`OutcomeRows`). Each action
  is one of the six things a handler can do to the run (`Alters`), or a retry
  that follows the failed attempts (`Requeues`) or takes the run up again (`Resumes`);
  each keeps `OutcomeInv` (`AltersKeeps`, `RetriesKeep`), what its own handler is left to
  do (`NextActs`) and what the others are (`OthersSound`), and is a step of the
  abstract run or a stutter (`StepIsResumed`).
- `VerdictsHoldUndisturbed`: `VerdictMatchesNodes` from the same invariant, gates and
  retries included.
- `VerdictsStayWritten`: `OnlyRetryReopens` from `SummariesUndisturbed` alone, retries
  disturbed or not, and `OnlyRetriesReopen` from no condition on behaviours if no
  node is a gate. `SteadyInv`: a handler about to write a status has seen the run
  active, so that its compare-and-swap fails on a verdict; without gates no node ever
  waits, and the one routine that reads the status again (`resync`) is never reached.

And from `NoRetries` alone, with gates and any number of handlers:

- `SchedulingHolds`: `EndedRunIsDrained`, although finding 2 lets a run come back to the
  status that a handler on its way to end it has read. `OverInv`: who is about to end a
  run has found it `Over`, nothing at work and either a failure or nothing left to start,
  and what is over stays over (`OverStays`), whatever status the run has meanwhile. With a
  retry and two handlers it is false (TLC needs one node): a handler decides FAILED, another
  ends the run, a retry resumes it, and the first one's compare-and-swap ends it again
  beside the running retry.

`EngineInv` was model-checked first with two concurrent handlers, with gates and with
retries, `DrainInv` on the two graphs without gates, `OverInv` on that of `flow_live`, and
`FailFastInv` and `OutcomeInv` on the instance of `flow_revive`, with gates as well; the
properties themselves were also tried with two handlers under the two conditions, on more
states than a run can finish (sixteen million), without a violation.

`ModelRoutingProofs`, from `RoutingAssumption` alone (any offerings, prices,
evidence, refreshes, switches and decisions; `Place` numbers the offerings), by
`RoutingIsConsistent`, that is `RoutingInv`. It adds to the properties what a
refresh (`RefreshesOK`) and a decision (`DecisionOK`) in the making have read,
and that a refresh that ran alone writes from rows nobody else changed
(`RefreshedAlone`), without which `ActiveIsListed` is not inductive.

- `CatalogueIsSound` (`CatalogueInv`), `DecisionsKeepToPolicy`
  (`PolicyIsRespected`) and `NewModelsAreNotPenalised` (`ColdStartIsNeutral`).
- The last two are about one choice, and rest on `FirstIsFirst`: of keys of one
  length that differ in their last component, `First` is the least in
  lexicographic order. The tie-break ends in the offering's identifier, so the
  condition holds, and what is left is to compare keys component by component.

`WorkflowDefinitionProofs`, from `DefinitionAssumption` alone (any finite set
of nodes in any order, any entries, authors, starters and fan-out limit):

- `AcceptedIsRunnable`: on every graph whose edges join its own nodes
  `Accepts(g)` holds exactly if the graph is `Runnable`, `WithinEngine` and
  `Configured`. A loop is a recursive function, and the library's induction takes an
  operator, so the induction here is on a set of numbers (`InductionUpTo`, from the
  well-foundedness of the naturals): `LoopHasStates` gives the states a loop
  passes through, and `LoopKeeps` is the rule that what every round keeps holds
  at the end. With it, `ReachIsTheClosure` shows that the breadth-first search
  returns the least closed set. For the depth-first search there are two
  invariants, one per direction: the nodes that are done can be ranked so that
  every edge from one goes to a lower one (`NoCycleIsMissed`), and along a given
  numbering of an acyclic graph no call meets a node of its own stack
  (`NoCycleIsInvented`).
- `AuthoringIsConsistent` is the inductive invariant `DefinitionInv`. What a
  published version is worth depends on what its publisher read in earlier
  transactions, so `RequestHolds` says what a request still knows at each
  place, except of a version that was changed in between (`late`).
- `VersionsAreSound` (`VersionInv`), `VerdictsAreExact` (`ValidatorIsExact`) and
  `RunsStartOnLiveEntries` (`NoRunOnWithdrawnEntry`) follow.

Both are theorems about `RoutingSpec` and `DefinitionSpec`, which begin with an
empty catalogue and an empty workflow; the run begins further on, with states
that requests lead to. `RoutingInv` and `DefinitionInv` were model-checked first, on the
instance of `definitions`.

Only model-checked: liveness (beyond the prover). Every invariant and every action property
of a passing run is stated by a theorem; `SchedulingInv`, `ResumedRunCanComplete`,
`OnlySiblingsOfFailureStop`, `OnlyRetryReopens` and `IsResumedRun` are proved under the
conditions named above only, and `IsDrainedRun` from `Plainly`.

## 5. Findings

1. **A crash inside recovery hides an ambiguous call** (`exec_replay`,
   `execution_service.py:259`): the open call is recorded as ERROR one commit
   before the run is FAILED; the next recovery takes it for a known failure and
   the provider is called again. `exec_recovered` shows that one crash is safe.
2. **A cancellation is lost beside a waiting gate** (`flow_cancel_lost`,
   `workflow_execution_service.py:430`): the compare-and-swap of the summary
   status compares with a re-read status, so it swaps CANCELLING for RUNNING,
   and the run ends COMPLETED with a cancelled node. (On a graph of four nodes
   `RunSettles` fails for the same reason.)
3. **A candidate that is asked to repair never ends** (`candidate_stuck`,
   `review_orchestration_service.py:256`): `_queue_repair` reads
   `primary_agent_version_id` of the Task Run's snapshot, which
   `launch_comparison` does not write. The exception meets an Agent Run that is
   already COMPLETED, so the last-resort handler changes nothing, and the Task
   Run stays open, and with it the comparison.

Also seen while modelling. Where a passing property excludes one of these, its
comment or its hazard says so:

- *Queue.* A job of an unsupported type is released and is again the oldest,
  so that lanes claim nothing else (`worker.py:298`).
- *Execution.* A worker that outlived its lease writes RUNNING from an older
  read, over the FAILED of a recovery (`execution_service.py:452`); it can
  call the provider beside its successor if it sleeps between the last check and
  the insertion of the call (589). The run and its Task Run end in two commits, and
  a crash in between is not repaired (1091). After a stop the run is STOPPED
  before its attempt is closed (1105). Reservations linger after a crash in
  recovery (297) and after the last-resort handler (193). A budget whose limit
  is 0 refuses nothing (`budget_service.py:98`), so `ReviewCycleAssumption`
  excludes it.
- *Workflow.* A retry is committed before the run is resumed
  (`workflow_execution_service.py:2130`). With two handlers and a retry, a
  verdict (2589) or a fail-fast signal (1508) decided before the retry is applied after it:
  the retried run ends FAILED beside its running retry, or the retry is told to stop
  for the failure it repairs. `RetriesUndisturbed` (section 4) is this window.
- *Reviews.* A stage is committed before its job
  (`review_orchestration_service.py:119`). `_compute_outcome` reports
  `repair_limit_exhausted` for any failure after a REPAIR_REQUIRED (448).
- *Comparisons.* One that is cancelled while it is launched, and was read as
  PENDING, is RUNNING again afterwards with all its candidates (`comparison_service.py:405`, 274); a
  cancellation after the last candidate ended never concludes (387).
- *Keys and evaluations.* A request that dies leaves its key IN_PROGRESS for
  good (`idempotency_repository.py:51`); a statement that fails after the
  evaluation was committed leads to a second one
  (`evaluation_execution_service.py:687`). A deterministic evaluation whose lane
  dies stays RUNNING (728); an evaluator is committed before its job (352); an
  exception while finalizing, however transient, makes it FAILED (910); a
  deterministic check reads bytes it has not verified (1118).
- *Definitions.* An edit that read DRAFT can be committed after the publication
  (`workflow_definition_service.py:123`), and a late publication makes a
  DEPRECATED version ACTIVE again (295); `current_status` follows publications
  only (418). An edge without its node is a `KeyError` in the validator
  (`workflow_validation_service.py:286`).
- *Routing.* Enabling evidence routing can race disabling it, and the later
  commit wins (`model_intelligence_service.py:567`); overlapping refreshes
  can leave a model ACTIVE that no provider lists
  (`model_registry_service.py:197`).
- *Events.* The stream takes `last_event_id` as a query parameter
  (`api/routers/tasks.py:312`) and does not read the header `Last-Event-ID`,
  so a browser that reconnects by itself begins again. Events of the engine are
  recorded best-effort (`workflow_execution_service.py:204`).

## 6. Not modelled

- *Agent, evaluation and secret registries*, beyond the withdrawal of an entry
  (`WorkflowDefinition!RetireEntry`): versions and prompts are created by single
  requests, and the publication of one is the code of workflow versions once more.
- *Task runs*: `create_task` inserts one row. *Approvals*: replays of a
  decision, fingerprints, and the scopes without an effect.
- *Model routing*: the rows that record a decision (`freeze_snapshot`,
  `record_routing_decision`), and price snapshots; they are written once and read by reports.
- *Details of modelled routines* that no property tells apart, or whose place is named here
  so that nobody takes a property to cover them. *Queue*: an `agent_run` job whose
  row is missing is released (`worker.py:321-330`), as a job of an unsupported type is.
  *Execution*: the attempts of one run share the artifact's file, `{agent_run.id}.md`.
  *Reviews*: `read_text` of a stage's artifact can fail
  (`review_orchestration_service.py:150`) and then leaves the Task Run open as in
  finding 3; `WaitForAgent` always writes, where the ORM skips a value that is
  there already, so the model allows more. *Evaluation*: `Why` takes the category of the one
  attempt an evaluator has. *Routing*: an offering that is itself DOWN
  (`app/model_resolution.py:253`) is left out, since a provider that is DOWN and a model
  that is not ACTIVE are excluded by the same rule; the two price columns are written as a pair
  (`model_registry_service.py:172-173`), which only overlapping refreshes could show;
  disabling without a supported version (`model_intelligence_service.py:558-567`)
  is left out; `RouteManual` joins three reads (`app/model_resolution.py:392-394`).
  *Authoring*: the validator's checks of each node type's configuration
  (`workflow_validation_service.py:483-506`, 541-557) and of an agent's model policy (653-685) are
  on neither side of `ValidatorIsExact`, which is about structure: the graph, its
  bounds and the entries it names.
- *Budgets*: warning thresholds, which record an event and change nothing else.
- *Workflow engine*: operands of the graph, `_has_unresolved_model_call`,
  `_reconcile_waiting_approval` and the repair of missing node rows (section 2).
- *Provider adapters*: HTTP clients without state; a call is one outcome.
- *HTTP API and authorization, read models and audit*: parsing, access checks
  and queries around the services, whose state changes are the actions here.
- *Database lifecycle and backup*: file locks, migrations and pragmas. What they
  set up (serialized writers, one snapshot per SELECT) is assumed by every module.
- *Extension points, frontend*: no behaviour of their own, or none but requests.

What would be worth adding: larger graphs for the engine, whose state space grows
steeply with a fourth node; and what still holds of its verdicts with a gate.
