--------------------------- MODULE WorkflowEngine ---------------------------
(***************************************************************************)
(* One Workflow Run over the graph of its published version                *)
(* (app/services/workflow_execution_service.py, the decision half of       *)
(* app/services/approval_service.py).  The engine has no process of its    *)
(* own: worker lanes, API requests and reconciliation sweeps each run one  *)
(* of its handlers against the shared database.  A handler is a list of    *)
(* routines still to run; each step runs the first one up to its next      *)
(* commit, so that two handlers interleave, and crash, between any two     *)
(* commits, and a status read before a commit may be stale at the next.    *)
(*                                                                         *)
(* A read that the following statement checks again in its WHERE clause is *)
(* merged with it; a read that is trusted later is a step of its own.      *)
(***************************************************************************)
EXTENDS Integers, Sequences, FiniteSetsExt

CONSTANTS
    Nodes,          \* the nodes, numbered in node_key order
    Edges,          \* <<m, n>>: n runs after m
    Kind,           \* Kind[n]: "agent" (AGENT, EVALUATION), "gate", "terminal", "unsupported"
    Actors,         \* worker lanes, requests and sweeps at work at the same time
    Reliable,       \* actors that never die in the middle of a handler
    MaxIteration,   \* bound: the last iteration of a node; 0 forbids retries
    SyncTries,      \* how often _sync_run_state re-derives the summary
    MayCancel       \* people cancel the run or stop one of its agents

ASSUME WorkflowEngineAssumption ==
    /\ Nodes \subseteq Nat /\ IsFiniteSet(Nodes) /\ Nodes /= {}
    /\ Edges \subseteq Nodes \X Nodes
    /\ Kind \in [Nodes -> {"agent", "gate", "terminal", "unsupported"}]
    /\ Reliable \subseteq Actors
    /\ MaxIteration \in Nat
    /\ SyncTries \in Nat \ {0}
    /\ MayCancel \in BOOLEAN

\* A workflow_node_run row: unique by node and iteration.
NodeRuns == Nodes \X (0 .. MaxIteration)

VARIABLES
    run,        \* workflow_runs.status
    byHand,     \* a person asked to stop the run or one of its agents
    node,       \* node[r]: status of node run r, "absent" before its row exists
    agent,      \* agent[r]: the agent run of r, its job and whether it is told to stop
    approval,   \* approval[r]: status of the approval of gate r
    exec        \* exec[a]: the handler that actor a is running

vars == <<run, byHand, node, agent, approval, exec>>
rows == <<run, byHand, node, agent, approval>>

Dispatchable == {"running", "waiting"}
RunActive == Dispatchable \cup {"cancelling"}
RunEnded == {"completed", "failed", "cancelled"}
NodeActive == {"running", "waiting"}
NodeEnded == {"completed", "failed", "cancelled"}
AgentEnded == {"completed", "failed", "interrupted", "stopped"}

NoAgent == [status |-> "none", job |-> "none", signalled |-> FALSE]

Routines == {"record", "advance", "signal", "gates", "check", "finalize", "dispatch",
             "claim", "enqueue", "sync", "resync", "setState", "mark", "cancelPending",
             "reconcile", "heal", "healNext", "replace", "queueRetry", "resume"}

\* at: the node run the handler is about; list: node runs or nodes still to
\* visit, per loop; seen and want: the status read and the one to write.
IdleExec == [todo |-> <<>>, at |-> <<Min(Nodes), 0>>, healing |-> {}, ready |-> {},
             plan |-> {}, seen |-> "running", want |-> "running", tries |-> 0]

(***************************************************************************)
(* The current attempt of every node                                       *)
(***************************************************************************)
Latest(n) ==
    <<n, CHOOSE i \in 0 .. MaxIteration :
            /\ node[<<n, i>>] /= "absent"
            /\ \A j \in i + 1 .. MaxIteration : node[<<n, j>>] = "absent">>
Current(n) == node[Latest(n)]
CurrentStatuses == {Current(n) : n \in Nodes}

\* Mutant of HasFailedNode: a failure that a retry has replaced still counts.
HasFailedNodeEver == \E r \in NodeRuns : node[r] = "failed"

HasFailedNode == "failed" \in CurrentStatuses

\* Mutant of AcceptsDispatch: a failure shows only once it is the run's status.
AcceptsDispatchByStatus == run \in Dispatchable

AcceptsDispatch == run \in Dispatchable /\ ~HasFailedNode
Sources(n) == {m \in Nodes : <<m, n>> \in Edges}

\* Mutant of FindReadyNodes: one completed source is enough.
FindReadyNodesAny ==
    {n \in Nodes : /\ Current(n) = "pending"
                   /\ Sources(n) /= {} => \E m \in Sources(n) : Current(m) = "completed"}

FindReadyNodes == {n \in Nodes : Current(n) = "pending" /\ \A m \in Sources(n) : Current(m) = "completed"}
Following(r) == <<r[1], r[2] + 1>>

(***************************************************************************)
(* Running a handler                                                       *)
(***************************************************************************)
Idle(a) == exec[a].todo = <<>>
At(a, routine) == exec[a].todo /= <<>> /\ Head(exec[a].todo) = routine

\* x after its first routine, which calls the given ones before it returns; a
\* handler that has run all of its routines forgets what it read.
Calls(x, routines) ==
    IF routines \o Tail(x.todo) = <<>> THEN IdleExec ELSE [x EXCEPT !.todo = routines \o Tail(@)]
Return(a) == exec' = [exec EXCEPT ![a] = Calls(@, <<>>)]
Call(a, routines) == exec' = [exec EXCEPT ![a] = Calls(@, routines)]
Begin(a, routines) == exec' = [exec EXCEPT ![a] = [IdleExec EXCEPT !.todo = routines]]
BeginAt(a, routines, r) == exec' = [exec EXCEPT ![a] = [IdleExec EXCEPT !.todo = routines, !.at = r]]
Abort(a) == exec' = [exec EXCEPT ![a] = IdleExec]

ScheduleReadyNodes == <<"dispatch", "check", "sync">>
PropagateFailure == <<"signal", "gates", "check">>
ReconcileCancelling == <<"cancelPending", "gates", "signal", "heal", "check">>

\* start_workflow_run has committed the run and one row per node; it goes on
\* to schedule the entry nodes.
Init ==
    /\ run = "running"
    /\ byHand = FALSE
    /\ node = [r \in NodeRuns |-> IF r[2] = 0 THEN "pending" ELSE "absent"]
    /\ agent = [r \in NodeRuns |-> NoAgent]
    /\ approval = [r \in NodeRuns |-> "none"]
    /\ \E a \in Actors :
          exec = [b \in Actors |-> IF b = a THEN [IdleExec EXCEPT !.todo = ScheduleReadyNodes] ELSE IdleExec]

(***************************************************************************)
(* Dispatch                                                                *)
(***************************************************************************)
\* One pass over the nodes that are ready now, then another one; nothing more
\* once the run is cancelled, failing or terminal.
Dispatch(a) ==
    /\ At(a, "dispatch")
    /\ IF AcceptsDispatch /\ FindReadyNodes /= {}
       THEN exec' = [exec EXCEPT ![a] = [Calls(@, <<"claim", "dispatch">>) EXCEPT !.ready = FindReadyNodes]]
       ELSE Return(a)
    /\ UNCHANGED rows

\* THE dispatch gate: one UPDATE that takes the node only while it is PENDING,
\* the run accepts dispatches and no node is currently FAILED.
ClaimPendingNode(r, status) ==
    /\ node[r] = "pending" /\ AcceptsDispatch
    /\ node' = [node EXCEPT ![r] = status]

\* The agent run is created in the transaction of the claim, its job later.
DispatchAgent(a, r, rest) ==
    /\ ClaimPendingNode(r, "running")
    /\ agent' = [agent EXCEPT ![r].status = "open"]
    /\ exec' = [exec EXCEPT ![a] = [Calls(@, <<"enqueue", "claim">>) EXCEPT !.ready = rest, !.at = r]]
    /\ UNCHANGED approval

\* An approval is asked for once per gate: a second request finds the first.
RequestApproval(r) == approval' = [approval EXCEPT ![r] = IF @ = "none" THEN "pending" ELSE @]

\* A gate waits, with its approval, in one transaction.
DispatchHumanApproval(a, r, rest) ==
    /\ ClaimPendingNode(r, "waiting")
    /\ RequestApproval(r)
    /\ exec' = [exec EXCEPT ![a] = [Calls(@, <<"sync", "claim">>) EXCEPT !.ready = rest]]
    /\ UNCHANGED agent

DispatchTerminal(a, r, rest) ==
    /\ ClaimPendingNode(r, "completed")
    /\ exec' = [exec EXCEPT ![a].ready = rest]
    /\ UNCHANGED <<agent, approval>>

FailNodeAtDispatch(a, r, rest) ==
    /\ ClaimPendingNode(r, "failed")
    /\ exec' = [exec EXCEPT ![a] = [Calls(@, PropagateFailure \o <<"claim">>) EXCEPT !.ready = rest]]
    /\ UNCHANGED <<agent, approval>>

\* The ready nodes in node_key order; one that was taken meanwhile is passed.
Claim(a) ==
    /\ At(a, "claim")
    /\ IF exec[a].ready = {} \/ ~AcceptsDispatch
       THEN Return(a) /\ UNCHANGED <<node, agent, approval>>
       ELSE LET n == Min(exec[a].ready)
                r == Latest(n)
                rest == exec[a].ready \ {n} IN
            CASE node[r] /= "pending" ->
                    exec' = [exec EXCEPT ![a].ready = rest] /\ UNCHANGED <<node, agent, approval>>
              [] node[r] = "pending" /\ Kind[n] = "agent" -> DispatchAgent(a, r, rest)
              [] node[r] = "pending" /\ Kind[n] = "gate" -> DispatchHumanApproval(a, r, rest)
              [] node[r] = "pending" /\ Kind[n] = "terminal" -> DispatchTerminal(a, r, rest)
              [] node[r] = "pending" /\ Kind[n] = "unsupported" -> FailNodeAtDispatch(a, r, rest)
    /\ UNCHANGED <<run, byHand>>

\* (job_type, payload_ref) is unique: a second enqueue changes nothing.
EnsureJob(r) == agent' = [agent EXCEPT ![r].job = IF @ = "none" THEN "queued" ELSE @]

Enqueue(a) ==
    /\ At(a, "enqueue")
    /\ EnsureJob(exec[a].at)
    /\ Return(a)
    /\ UNCHANGED <<run, byHand, node, approval>>

(***************************************************************************)
(* The agents, as modules JobQueue and AgentExecution let them end         *)
(***************************************************************************)
\* A run that was told to stop may stop, or be past its last checkpoint.
AgentEnds(r) ==
    /\ agent[r].status = "open" /\ agent[r].job = "queued"
    /\ \E s \in {"completed", "failed", "interrupted"} \cup (IF agent[r].signalled THEN {"stopped"} ELSE {}) :
          agent' = [agent EXCEPT ![r].status = s]
    /\ UNCHANGED <<run, byHand, node, approval, exec>>

\* The job is over, and the agent run is not: recovery itself failed.
JobDies(r) ==
    /\ agent[r].status = "open" /\ agent[r].job = "queued"
    /\ agent' = [agent EXCEPT ![r].job = "dead"]
    /\ UNCHANGED <<run, byHand, node, approval, exec>>

\* cancel_task_run of the Task Run of one node's agent.
PersonStops(r) ==
    /\ MayCancel /\ agent[r].status = "open"
    /\ agent' = [agent EXCEPT ![r].signalled = TRUE]
    /\ byHand' = TRUE
    /\ UNCHANGED <<run, node, approval, exec>>

(***************************************************************************)
(* Completion of an agent                                                  *)
(***************************************************************************)
\* The worker that ran the job, after its last commit; and every replay.
OnAgentRunComplete(a) ==
    /\ Idle(a)
    /\ \E r \in NodeRuns : agent[r].status \in AgentEnded /\ BeginAt(a, <<"record">>, r)
    /\ UNCHANGED rows

OutcomeOf(status) == CASE status = "completed" -> "completed"
                       [] status \in {"failed", "interrupted"} -> "failed"
                       [] status = "stopped" -> "cancelled"

\* A stop that is not the work of fail-fast is a cancellation of the run.
StopsRun(r) == agent[r].status = "stopped" /\ ~HasFailedNode

\* Mutant of Recorded: the current attempt of the node, whoever reports.
RecordedLatest(r) == Latest(r[1])

\* The node run that is found by the agent run's id.
Recorded(r) == r

\* Compare-and-swap RUNNING -> the outcome of the agent; a node run already
\* recorded still gives the run a chance to converge.
Record(a) ==
    /\ At(a, "record")
    /\ LET r == exec[a].at IN
       IF node[Recorded(r)] = "running"
       THEN /\ node' = [node EXCEPT ![Recorded(r)] = OutcomeOf(agent[r].status)]
            /\ run' = IF StopsRun(r) /\ run \in Dispatchable THEN "cancelling" ELSE run
       ELSE UNCHANGED <<node, run>>
    /\ Call(a, <<"advance">>)
    /\ UNCHANGED <<byHand, agent, approval>>

\* Whatever progress is possible; the status is not looked at again before the
\* siblings are signalled.
Advance(a) ==
    /\ At(a, "advance")
    /\ Call(a, IF run \notin Dispatchable THEN <<"check">>
               ELSE IF HasFailedNode THEN PropagateFailure ELSE ScheduleReadyNodes)
    /\ UNCHANGED rows

(***************************************************************************)
(* Fail-fast and the closing of gates                                      *)
(***************************************************************************)
SignalActiveAgents(a) ==
    /\ At(a, "signal")
    /\ agent' = [r \in NodeRuns |-> IF node[r] = "running" THEN [agent[r] EXCEPT !.signalled = TRUE]
                                    ELSE agent[r]]
    /\ Return(a)
    /\ UNCHANGED <<run, byHand, node, approval>>

WaitingNodeRuns == {r \in NodeRuns : node[r] = "waiting"}

\* One transaction per gate: the approval expires and the node is cancelled.
CloseGate(r) ==
    /\ approval' = [approval EXCEPT ![r] = IF @ = "pending" THEN "expired" ELSE @]
    /\ node' = [node EXCEPT ![r] = "cancelled"]

CloseWaitingApprovalNodes(a) ==
    /\ At(a, "gates")
    /\ IF WaitingNodeRuns = {}
       THEN Return(a) /\ UNCHANGED <<node, approval>>
       ELSE (\E r \in WaitingNodeRuns : CloseGate(r)) /\ UNCHANGED exec
    /\ UNCHANGED <<run, byHand, agent>>

(***************************************************************************)
(* The verdict                                                             *)
(***************************************************************************)

Undrained == CurrentStatuses \cap NodeActive /= {}
Done == HasFailedNode \/ CurrentStatuses \subseteq NodeEnded

Verdict ==
    IF HasFailedNode THEN "failed"
    ELSE IF run = "cancelling" THEN "cancelled" ELSE "completed"

CheckWorkflowComplete(a) ==
    /\ At(a, "check")
    /\ IF run \in RunActive /\ ~Undrained /\ Done
       THEN exec' = [exec EXCEPT ![a] = [Calls(@, <<"finalize">>) EXCEPT !.seen = run, !.want = Verdict]]
       ELSE Return(a)
    /\ UNCHANGED rows

\* Compare-and-swap on the status that was observed.
Finalize(a) ==
    /\ At(a, "finalize")
    /\ run' = IF run = exec[a].seen THEN exec[a].want ELSE run
    /\ Return(a)
    /\ UNCHANGED <<byHand, node, agent, approval>>

(***************************************************************************)
(* The summary status                                                      *)
(***************************************************************************)
\* x goes on to write the summary, unless it is right already.
Derived(x, observed, wanted) ==
    IF wanted = observed THEN Calls(x, <<>>)
    ELSE [Calls(x, <<"setState">>) EXCEPT !.seen = observed, !.want = wanted]

\* Mutant of SyncRunState: the summary is derived for an ended run, too.
SyncRunStateAlways(a) ==
    /\ At(a, "sync")
    /\ exec' = [exec EXCEPT ![a] = IF @.tries = SyncTries THEN [Calls(@, <<>>) EXCEPT !.tries = 0]
                                   ELSE Derived(@, run, "running")]
    /\ UNCHANGED rows

SyncRunState(a) ==
    /\ At(a, "sync")
    /\ LET x == exec[a] IN
       exec' = [exec EXCEPT ![a] =
            IF run \notin Dispatchable \/ x.tries = SyncTries THEN [Calls(x, <<>>) EXCEPT !.tries = 0]
            ELSE IF "waiting" \in CurrentStatuses /\ "running" \notin CurrentStatuses /\ ~HasFailedNode
            THEN Calls(x, <<"resync">>)
            ELSE [Derived(x, run, "running") EXCEPT !.tries = IF run = "running" THEN 0 ELSE @]]
    /\ UNCHANGED rows

\* Looking for ready nodes reads the run again, into the row that the caller
\* then compares and swaps with: the observed status is the later one.
OnlyHumansLeftToAct(a) ==
    /\ At(a, "resync")
    /\ LET wanted == IF FindReadyNodes = {} THEN "waiting" ELSE "running" IN
       exec' = [exec EXCEPT ![a] = [Derived(exec[a], run, wanted) EXCEPT !.tries = IF run = wanted THEN 0 ELSE @]]
    /\ UNCHANGED rows

SetState(a) ==
    /\ At(a, "setState")
    /\ run' = IF run = exec[a].seen THEN exec[a].want ELSE run
    /\ exec' = [exec EXCEPT ![a] = [Calls(exec[a], <<"sync">>) EXCEPT !.tries = @ + 1]]
    /\ UNCHANGED <<byHand, node, agent, approval>>

(***************************************************************************)
(* Cancellation of the run                                                 *)
(***************************************************************************)
CancelWorkflowRun(a) ==
    /\ MayCancel /\ Idle(a) /\ run \in RunActive
    /\ Begin(a, <<"mark">>)
    /\ UNCHANGED rows

\* The request is written down even when the run was finalized meanwhile.
MarkCancelling(a) ==
    /\ At(a, "mark")
    /\ byHand' = TRUE
    /\ IF run \in RunActive
       THEN run' = "cancelling" /\ Call(a, <<"cancelPending", "gates", "signal", "check">>)
       ELSE Return(a) /\ UNCHANGED run
    /\ UNCHANGED <<node, agent, approval>>

CancelPendingNodes(a) ==
    /\ At(a, "cancelPending")
    /\ node' = [r \in NodeRuns |-> IF node[r] = "pending" THEN "cancelled" ELSE node[r]]
    /\ Return(a)
    /\ UNCHANGED <<run, byHand, agent, approval>>

(***************************************************************************)
(* The human decision                                                      *)
(***************************************************************************)
\* Mutant of Decidable: any approval that was asked for can be answered.
DecidableOnceAsked(r) == approval[r] /= "none"

\* The approval is still open, the node waits, the run is active and not failing.
Decidable(r) == approval[r] = "pending" /\ node[r] = "waiting" /\ AcceptsDispatch

\* Approval, node and run move in one transaction; a refused decision is rolled
\* back, and leaves nothing behind.
Resolve(a) ==
    /\ Idle(a)
    /\ \E r \in NodeRuns, decision \in {"approved", "rejected"} :
          /\ Decidable(r)
          /\ approval' = [approval EXCEPT ![r] = decision]
          /\ node' = [node EXCEPT ![r] = IF decision = "approved" THEN "completed" ELSE "failed"]
    /\ run' = IF run = "waiting" THEN "running" ELSE run
    /\ Begin(a, <<"reconcile">>)
    /\ UNCHANGED <<byHand, agent>>

(***************************************************************************)
(* Reconciliation                                                          *)
(***************************************************************************)
\* The sweep of a worker or of the API process over the active runs.
ReconcileActiveRuns(a) ==
    /\ Idle(a) /\ run \in RunActive
    /\ Begin(a, <<"reconcile">>)
    /\ UNCHANGED rows

ReconcileWorkflowRun(a) ==
    /\ At(a, "reconcile")
    /\ Call(a, IF run = "cancelling" THEN ReconcileCancelling
               ELSE IF run \in Dispatchable THEN <<"heal", "advance">> ELSE <<>>)
    /\ UNCHANGED rows

HealAgentNodes(a) ==
    /\ At(a, "heal")
    /\ exec' = [exec EXCEPT ![a] = [Calls(@, <<"healNext">>) EXCEPT
                    !.healing = {r \in NodeRuns : node[r] = "running"}]]
    /\ UNCHANGED rows

\* Mutant of Orphaned: a job that is over is trusted to have ended its agent.
OrphanedNever(r) == FALSE

\* The agent run is still open, and its job can never run again.
Orphaned(r) == agent[r].status = "open" /\ agent[r].job = "dead"

\* Per running node: record an agent that ended, enqueue a job that is
\* missing, finalize an agent whose job is over; the queue does the rest.
HealNext(a) ==
    /\ At(a, "healNext")
    /\ IF exec[a].healing = {} THEN Return(a) /\ UNCHANGED agent
       ELSE \E r \in exec[a].healing :
            LET rest == [exec[a] EXCEPT !.healing = @ \ {r}, !.at = r]
                recorded == Calls(rest, <<"record", "healNext">>) IN
            CASE agent[r].status \in AgentEnded ->
                    exec' = [exec EXCEPT ![a] = recorded] /\ UNCHANGED agent
              [] agent[r].job = "none" ->
                    exec' = [exec EXCEPT ![a] = rest] /\ EnsureJob(r)
              [] Orphaned(r) ->
                    /\ exec' = [exec EXCEPT ![a] = recorded]
                    /\ agent' = [agent EXCEPT ![r].status = "interrupted"]
              [] OTHER -> exec' = [exec EXCEPT ![a] = rest] /\ UNCHANGED agent
    /\ UNCHANGED <<run, byHand, node, approval>>

(***************************************************************************)
(* Retry of a failed node by an operator                                   *)
(***************************************************************************)
CancelledNow == {r \in NodeRuns : r = Latest(r[1]) /\ node[r] = "cancelled"}

\* Told to stop by fail-fast and by no person, and did stop.
Revivable(r) == /\ ~byHand /\ Kind[r[1]] = "agent"
                /\ agent[r].status = "stopped" /\ agent[r].signalled
NothingBlocks == \A r \in CancelledNow : Revivable(r)

\* Mutant of Revive: the siblings stay cancelled.
ReviveNone(plan) == {}

Revive(plan) == {Following(r) : r \in plan}
HasRoom(r) == r[2] < MaxIteration

\* Any failed attempt can be retried with another model, an interrupted one also
\* as it was configured.
RetryModes(r) ==
    IF node[r] /= "failed" \/ agent[r].status \notin {"failed", "interrupted"} THEN {}
    ELSE {"replace"} \cup (IF agent[r].status = "interrupted" THEN {"queueRetry"} ELSE {})

RetryFailedAgentNode(a) ==
    /\ Idle(a) /\ run = "failed" /\ NothingBlocks
    /\ \A r \in CancelledNow : HasRoom(r)
    /\ \E r \in NodeRuns :
          /\ r = Latest(r[1]) /\ HasRoom(r)
          /\ \E routine \in RetryModes(r) :
                exec' = [exec EXCEPT ![a] = [IdleExec EXCEPT
                            !.todo = <<routine>>, !.at = r, !.plan = CancelledNow]]
    /\ UNCHANGED rows

\* With another model, in one transaction: the run is active again, what
\* fail-fast cancelled is pending again, and the retry has claimed its row.
\* The claim refuses while a sibling is failed.
Replace(a) ==
    /\ At(a, "replace")
    /\ LET retry == Following(exec[a].at)
           revived == Revive(exec[a].plan)
           allowed == /\ run = "failed"
                      /\ \A r \in revived \cup {retry} : node[r] = "absent"
                      /\ \A n \in Nodes \ {retry[1]} : Current(n) /= "failed" IN
       IF allowed
       THEN /\ run' = "running"
            /\ node' = [r \in NodeRuns |-> IF r = retry THEN "running"
                                           ELSE IF r \in revived THEN "pending" ELSE node[r]]
            /\ agent' = [agent EXCEPT ![retry].status = "open"]
            /\ exec' = [exec EXCEPT ![a] = [Calls(@, <<"enqueue", "advance">>) EXCEPT !.at = retry]]
       ELSE Abort(a) /\ UNCHANGED <<run, node, agent>>
    /\ UNCHANGED <<byHand, approval>>

\* As configured: the retry is only queued; the run stays FAILED.
QueueRetry(a) ==
    /\ At(a, "queueRetry")
    /\ LET retry == Following(exec[a].at) IN
       IF node[retry] = "absent"
       THEN node' = [node EXCEPT ![retry] = "pending"] /\ Call(a, <<"resume">>)
       ELSE Abort(a) /\ UNCHANGED node
    /\ UNCHANGED <<run, byHand, agent, approval>>

\* Mutant of Repaired: the run is resumed while another of its nodes is failed.
RepairedOnce == run = "failed" /\ NothingBlocks

Repaired == run = "failed" /\ ~HasFailedNode /\ NothingBlocks

\* Once no node is failed any more, the run is resumed in one transaction.
ResumeFailedRun(a) ==
    /\ At(a, "resume")
    /\ IF Repaired /\ \A r \in CancelledNow : HasRoom(r)
       THEN /\ run' = "running"
            /\ node' = [r \in NodeRuns |-> IF r \in Revive(CancelledNow) THEN "pending" ELSE node[r]]
            /\ Call(a, <<"advance">>)
       ELSE Return(a) /\ UNCHANGED <<run, node>>
    /\ UNCHANGED <<byHand, agent, approval>>

(***************************************************************************)
(* The specification                                                       *)
(***************************************************************************)
\* The process dies; what it committed stays.
Crash(a) ==
    /\ a \notin Reliable /\ ~Idle(a)
    /\ Abort(a)
    /\ UNCHANGED rows

\* What a handler that has begun does next.
Step(a) ==
    \/ Dispatch(a) \/ Claim(a) \/ Enqueue(a)
    \/ Record(a) \/ Advance(a)
    \/ SignalActiveAgents(a) \/ CloseWaitingApprovalNodes(a)
    \/ CheckWorkflowComplete(a) \/ Finalize(a)
    \/ SyncRunState(a) \/ OnlyHumansLeftToAct(a) \/ SetState(a)
    \/ MarkCancelling(a) \/ CancelPendingNodes(a)
    \/ ReconcileWorkflowRun(a) \/ HealAgentNodes(a) \/ HealNext(a)
    \/ Replace(a) \/ QueueRetry(a) \/ ResumeFailedRun(a)

Request(a) ==
    \/ OnAgentRunComplete(a) \/ ReconcileActiveRuns(a)
    \/ CancelWorkflowRun(a) \/ Resolve(a) \/ RetryFailedAgentNode(a)

Next ==
    \/ \E a \in Actors : Step(a) \/ Request(a) \/ Crash(a)
    \/ \E r \in NodeRuns : AgentEnds(r) \/ JobDies(r) \/ PersonStops(r)

Spec == Init /\ [][Next]_vars

\* A handler that does not crash goes on; some reliable actor sweeps again and
\* again; an agent with a job ends, or its job does.
Fairness ==
    /\ \A a \in Reliable : WF_vars(Step(a)) /\ SF_vars(ReconcileActiveRuns(a))
    /\ \A r \in NodeRuns : WF_vars(AgentEnds(r))

FairSpec == Spec /\ Fairness

(***************************************************************************)
(* Properties                                                              *)
(***************************************************************************)
\* Types of the state; a handler never holds more than it can read.
TypeOK ==
    /\ run \in RunActive \cup RunEnded
    /\ byHand \in BOOLEAN
    /\ node \in [NodeRuns -> {"absent", "pending"} \cup NodeActive \cup NodeEnded]
    /\ agent \in [NodeRuns -> [status : {"none", "open"} \cup AgentEnded,
                               job : {"none", "queued", "dead"}, signalled : BOOLEAN]]
    /\ approval \in [NodeRuns -> {"none", "pending", "approved", "rejected", "expired"}]
    /\ \A a \in Actors :
          /\ exec[a].todo \in Seq(Routines)
          /\ exec[a].at \in NodeRuns /\ exec[a].healing \subseteq NodeRuns
          /\ exec[a].ready \subseteq Nodes /\ exec[a].plan \subseteq NodeRuns
          /\ exec[a].seen \in RunActive \cup RunEnded /\ exec[a].want \in RunActive \cup RunEnded
          /\ exec[a].tries \in 0 .. SyncTries

\* A node starts only after every node it depends on has completed, although
\* readiness is read well before the claim (_find_ready_nodes).
DependenciesComplete ==
    \A r \in NodeRuns : node[r] \in NodeActive \cup {"completed", "failed"} =>
        \A m \in Sources(r[1]) : Current(m) = "completed"

\* No agent works, and no human is asked, for a node that is already decided:
\* an open agent run or approval belongs to a node that waits for it.
OpenWorkIsAwaited ==
    \A r \in NodeRuns : /\ agent[r].status = "open" => node[r] = "running"
                        /\ approval[r] = "pending" <=> node[r] = "waiting"

\* "Nothing is finalized until it has drained" (_check_workflow_complete).
EndedRunIsDrained == run \in RunEnded => CurrentStatuses \cap NodeActive = {}

\* Nothing runs too early and nothing is left running: what the handlers decide
\* from rows they have read before holds of the rows as they are.
SchedulingInv ==
    /\ TypeOK
    /\ DependenciesComplete
    /\ EndedRunIsDrained

\* A COMPLETED run completed every node; a CANCELLED one failed at none.
VerdictMatchesNodes ==
    /\ run = "completed" => CurrentStatuses = {"completed"}
    /\ run = "cancelled" => ~HasFailedNode

\* The outcome of a node run, or of an approval, is written once.
OutcomesAreFinal ==
    [][\A r \in NodeRuns : /\ (node[r] \in NodeEnded) => node'[r] = node[r]
                           /\ (approval[r] \in {"approved", "rejected", "expired"}) => approval'[r] = approval[r]
      ]_vars

\* Only the retry of its last failed node takes a run out of a terminal status,
\* and then only out of FAILED: a resumed run has no failed node left.  A gate
\* and a second handler can make a summary, read twice, do the same.
OnlyRetryReopens ==
    [][(run \in RunEnded /\ run' /= run) =>
            (run = "failed" /\ run' = "running" /\ "failed" \notin CurrentStatuses')]_vars

\* An agent told to stop by fail-fast, and by no person, belongs to a run that
\* has a failed node, although the failure that a retry has superseded is still a
\* row of its node: a retry is never the victim of the failure it repairs.  This
\* holds as long as no handler stops siblings (_propagate_failure) across a retry
\* that it did not see: for one handler, and for any number of them if a retry is
\* undisturbed (Undisturbed in WorkflowEngineProofs).
OnlySiblingsOfFailureStop ==
    \A r \in NodeRuns : (agent[r].status = "open" /\ agent[r].signalled /\ ~byHand) =>
        "failed" \in CurrentStatuses

\* While the run is active and no person has cancelled anything, a cancelled
\* node comes with a failed one: a resumed run has nothing left that its
\* failure had stopped, so it can still complete.  As above, this is said of
\* runs in which no handler acts across a retry on what it decided before it.
ResumedRunCanComplete ==
    (run \in Dispatchable /\ ~byHand /\ "cancelled" \in CurrentStatuses) => "failed" \in CurrentStatuses

\* A run ends, or comes to wait for people only and says so in its summary
\* status, whatever crashed handler, lost job or dead agent it met on the way.
PeoplesTurn == CurrentStatuses \cap {"running", "failed"} = {} /\ "waiting" \in CurrentStatuses
RunSettles == []<>(run \in RunEnded \/ (run = "waiting" /\ PeoplesTurn))

\* The run and its nodes as somebody outside sees them.
LifecycleRun == IF run \in Dispatchable THEN "active" ELSE run
Shown(s) == IF s = "pending" THEN "idle" ELSE IF s \in NodeActive THEN "active" ELSE s
LifecycleNode == [n \in Nodes |-> Shown(Current(n))]

Lifecycle == INSTANCE DrainedRun WITH run <- LifecycleRun, node <- LifecycleNode
\* Without retries the engine implements the lifecycle of a drained run.
IsDrainedRun == Lifecycle!Spec

Resumable == INSTANCE ResumedRun WITH run <- LifecycleRun, node <- LifecycleNode
\* With retries it implements that of a run that may be resumed
\* (retry_failed_agent_node, _resume_failed_run), as long as no handler acts
\* across a retry on what it decided before it, nor a run ends or is cancelled
\* between the two reads of its summary (OnlyHumansLeftToAct).
IsResumedRun == Resumable!ResumedSpec
=============================================================================
