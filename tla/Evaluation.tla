----------------------------- MODULE Evaluation -----------------------------
(***************************************************************************)
(* Evaluation runs (app/services/evaluation_execution_service.py,          *)
(* evaluation_progress_service.py) and the idempotency keys under which a  *)
(* comparison's candidates are evaluated (idempotency_repository.py).      *)
(*                                                                         *)
(* A deterministic evaluation is one job that a lane works off; an agent   *)
(* evaluation has an evaluator of its own, a Task Run with one Agent Run,  *)
(* and is concluded by whoever notices that it ended: the lane that ended  *)
(* it, or, for an EVALUATION node of a workflow, a later lane or a sweep.  *)
(* Agent Runs are those of AgentExecution, with one attempt.               *)
(***************************************************************************)
EXTENDS Integers, FiniteSets

CONSTANTS
    NCandidates,    \* artifacts: those of a comparison's candidates, or upstream of a node
    Requests,       \* requests to analyze the comparison
    Asks,           \* Asks[q]: the method that request q asks for
    Lanes,          \* worker lanes
    Reliable,       \* lanes that neither die nor outlive a lease
    Nobody,         \* holds no job
    MaxEvals,       \* bound: evaluation_runs rows
    MaxFaults,      \* bound: deaths, lost leases and failed statements
    MaxEdits        \* bound: changes of an artifact's file behind the database

Candidates == 1 .. NCandidates
Methods == {"deterministic", "agent"}
Keys == Candidates \X Methods
Evals == 1 .. MaxEvals

ASSUME EvaluationAssumption ==
    /\ NCandidates \in Nat \ {0} /\ MaxEvals \in Nat
    /\ MaxFaults \in Nat /\ MaxEdits \in Nat
    /\ Asks \in [Requests -> Methods]
    /\ Reliable \subseteq Lanes /\ Nobody \notin Lanes

VARIABLES
    key,        \* key[k]: idempotency_keys, status and result_ref
    eval,       \* eval[e]: an evaluation run, its evaluator and its job
    request,    \* request[q]: the handler, its key and its evaluation
    lane,       \* lane[w]: what lane w holds in memory
    original,   \* original[s]: the file of artifact s still has the bound hash
    faults,
    edits

vars == <<key, eval, request, lane, original, faults, edits>>

Ended == {"completed", "failed", "cancelled"}
AgentEnded == {"completed", "failed", "stopped"}
Nothing == 0

\* given: the bytes that were judged; output: the evaluator's artifact; why: the
\* category of its failure; lost: a lane died or lost its lease at it.
NoEval ==
    [of |-> Nothing, method |-> "none", owner |-> "none", status |-> "none", results |-> FALSE,
     agent |-> "none", task |-> "none", cancel |-> FALSE, given |-> "none", output |-> "none",
     why |-> "none", retried |-> FALSE, job |-> "none", holder |-> Nobody, lost |-> FALSE]

NewRequest == [pc |-> "begin", at |-> 1, eval |-> Nothing]
IdleLane == [pc |-> "idle", eval |-> Nothing, outcome |-> "none"]

Init ==
    /\ key = [k \in Keys |-> [status |-> "absent", ref |-> Nothing]]
    /\ eval = [e \in Evals |-> NoEval]
    /\ request = [q \in Requests |-> NewRequest]
    /\ lane = [w \in Lanes |-> IdleLane]
    /\ original \in [Candidates -> BOOLEAN]
    /\ faults = 0
    /\ edits = 0

Fresh(e) == eval[e].status = "none" /\ \A f \in Evals : f < e => eval[f].status /= "none"
Undecided(e) == eval[e].status \in {"pending", "running"}
\* Bound: evaluations of different owners share the lanes only, and are not mixed;
\* a request does not run beside those of others.
Apart(owner) ==
    /\ \A e \in Evals : eval[e].owner \in {"none", owner}
    /\ owner = "api" \/ \A q \in Requests : request[q] = NewRequest
Fault == faults < MaxFaults /\ faults' = faults + 1

\* A row of evaluation_runs with its evaluator, of build_agent_evaluator_run or create_run.
NewEval(s, method, owner, task, job) ==
    [NoEval EXCEPT !.of = s, !.method = method, !.owner = owner,
                   !.status = IF method = "agent" THEN "running" ELSE "pending",
                   !.agent = IF method = "agent" THEN "created" ELSE "none",
                   !.task = task, !.job = job]

(***************************************************************************)
(* analyze_comparison: the candidates one by one, each under its own key   *)
(***************************************************************************)
Key(q) == <<request[q].at, Asks[q]>>
Asking(q, pc) == request[q].pc = pc
Go(q, pc) == request' = [request EXCEPT ![q].pc = pc]
NextCandidate(q) ==
    request' = [request EXCEPT
        ![q] = IF @.at < NCandidates THEN [NewRequest EXCEPT !.at = request[q].at + 1]
               ELSE [NewRequest EXCEPT !.pc = "gone"]]
RequestsOnly == UNCHANGED <<lane, original, edits>>

\* The candidate has not been launched, has not completed or produced nothing.
SkipCandidate(q) ==
    /\ Asking(q, "begin") /\ Apart("api")
    /\ NextCandidate(q)
    /\ RequestsOnly /\ UNCHANGED <<key, eval, faults>>

\* try_begin: an INSERT decides, and only its failure reads the row.
\* Mutant of Claimable: a key under way is taken over, too.
ClaimableWhenOpen(k) == key[k].status \in {"failed", "in_progress"}
Claimable(k) == key[k].status = "failed"

Begin(q) ==
    /\ Asking(q, "begin") /\ Apart("api")
    /\ CASE key[Key(q)].status = "absent" ->
                /\ key' = [key EXCEPT ![Key(q)].status = "in_progress"]
                /\ Go(q, "create")
         [] Claimable(Key(q)) -> Go(q, "reclaim") /\ UNCHANGED key
         [] key[Key(q)].status = "completed" -> NextCandidate(q) /\ UNCHANGED key
         [] OTHER -> Go(q, "gone") /\ UNCHANGED key
    /\ RequestsOnly /\ UNCHANGED <<eval, faults>>

Reclaim(q) ==
    /\ Asking(q, "reclaim")
    /\ key' = [key EXCEPT ![Key(q)] = [status |-> "in_progress", ref |-> Nothing]]
    /\ Go(q, "create")
    /\ RequestsOnly /\ UNCHANGED <<eval, faults>>

\* create_run or the first commit of create_agent_evaluator_run; it is refused
\* when a version is no longer ACTIVE.
Create(q) ==
    /\ Asking(q, "create")
    /\ \/ /\ \E e \in Evals :
               /\ Fresh(e)
               /\ eval' = [eval EXCEPT ![e] =
                             NewEval(request[q].at, Asks[q], "api", "created", "none")]
               /\ request' = [request EXCEPT ![q].eval = e,
                    ![q].pc = IF Asks[q] = "agent" THEN "queue" ELSE "enqueue"]
          /\ UNCHANGED faults
       \/ Fault /\ Go(q, "fail") /\ UNCHANGED eval
    /\ RequestsOnly /\ UNCHANGED key

Queue(q) ==
    /\ Asking(q, "queue")
    /\ eval' = [eval EXCEPT ![request[q].eval].task = "queued"]
    /\ Go(q, "enqueue")
    /\ RequestsOnly /\ UNCHANGED <<key, faults>>

\* The job, and the events after it: either may fail after the row is committed.
Enqueue(q) ==
    /\ Asking(q, "enqueue")
    /\ \/ /\ eval' = [eval EXCEPT ![request[q].eval].job = "queued"]
          /\ \/ Go(q, "complete") /\ UNCHANGED faults
             \/ Go(q, "fail") /\ Fault
       \/ Go(q, "fail") /\ Fault /\ UNCHANGED eval
    /\ RequestsOnly /\ UNCHANGED key

CompleteKey(q) ==
    /\ Asking(q, "complete")
    /\ key' = [key EXCEPT ![Key(q)] = [status |-> "completed", ref |-> request[q].eval]]
    /\ NextCandidate(q)
    /\ RequestsOnly /\ UNCHANGED <<eval, faults>>

FailKey(q) ==
    /\ Asking(q, "fail")
    /\ key' = [key EXCEPT ![Key(q)].status = "failed"]
    /\ NextCandidate(q)
    /\ RequestsOnly /\ UNCHANGED <<eval, faults>>

RequestDies(q) ==
    /\ ~Asking(q, "gone") /\ Apart("api")
    /\ Fault
    /\ Go(q, "gone")
    /\ RequestsOnly /\ UNCHANGED <<key, eval>>

\* POST /agent-runs/{id}/evaluations: create_run without a key, then its job.
CreateDirect(s) ==
    /\ Apart("direct")
    /\ \E e \in Evals :
         /\ Fresh(e)
         /\ eval' = [eval EXCEPT ![e] = NewEval(s, "deterministic", "direct", "none", "none")]
    /\ UNCHANGED <<key, request, lane, original, faults, edits>>

EnqueueDirect(e) ==
    /\ eval[e].owner = "direct" /\ eval[e].job = "none"
    /\ eval' = [eval EXCEPT ![e].job = "queued"]
    /\ UNCHANGED <<key, request, lane, original, faults, edits>>

(***************************************************************************)
(* EVALUATION nodes: the rows are built in the transaction that claims the *)
(* node; its job is enqueued by the engine or by a sweep after a crash     *)
(***************************************************************************)
OfNode(e) == eval[e].owner = "workflow"
NodeOnly == UNCHANGED <<key, request, lane, original, faults, edits>>

DispatchNode(s) ==
    /\ Apart("workflow")
    /\ \A e \in Evals : eval[e].of /= s
    /\ original[s]
    /\ \E e \in Evals :
         /\ Fresh(e)
         /\ eval' = [eval EXCEPT ![e] = NewEval(s, "agent", "workflow", "queued", "queued")]
    /\ NodeOnly

\* Mutant of RecoveryEligible: it looks at the evaluator alone.
RecoveryEligibleByAgent(e) == eval[e].agent = "failed" /\ eval[e].why = "transient"
RecoveryEligible(e) ==
    /\ eval[e].status = "failed"
    /\ \/ eval[e].agent = "failed" /\ eval[e].why = "transient"
       \/ eval[e].agent = "completed" /\ original[eval[e].of] /\ eval[e].output = "invalid"

\* retry_failed_agent_node: the next iteration of the node, one per iteration.
RetryNode(e) ==
    /\ OfNode(e) /\ ~eval[e].retried /\ RecoveryEligible(e) /\ original[eval[e].of]
    /\ \E f \in Evals :
         /\ Fresh(f)
         /\ eval' = [eval EXCEPT ![e].retried = TRUE,
                                 ![f] = NewEval(eval[e].of, "agent", "workflow", "queued", "queued")]
    /\ NodeOnly

\* A person cancels the evaluator's Task Run.
CancelEvaluator(e) ==
    /\ eval[e].task \in {"created", "queued"} /\ eval[e].method = "agent" /\ ~eval[e].cancel
    /\ eval[e].agent \notin AgentEnded
    /\ eval' = [eval EXCEPT ![e].cancel = TRUE]
    /\ NodeOnly

\* The file is changed, or put back, by something else on the disk.
EditFile(s) ==
    /\ \E e \in Evals : eval[e].of = s
    /\ edits < MaxEdits /\ edits' = edits + 1
    /\ original' = [original EXCEPT ![s] = ~@]
    /\ UNCHANGED <<key, eval, request, lane, faults>>

(***************************************************************************)
(* Lanes                                                                   *)
(***************************************************************************)
At(w, pc) == lane[w].pc = pc
Mine(w) == lane[w].eval
To(w, pc) == lane' = [lane EXCEPT ![w].pc = pc]
ToWith(w, pc, outcome) == lane' = [lane EXCEPT ![w].pc = pc, ![w].outcome = outcome]
LaneOnly == UNCHANGED <<key, request, original, edits>>
Bytes(e) == IF original[eval[e].of] THEN "bound" ELSE "other"

Claim(w, e) ==
    /\ At(w, "idle") /\ eval[e].job = "queued"
    /\ eval' = [eval EXCEPT ![e].job = "leased", ![e].holder = w]
    /\ lane' = [lane EXCEPT ![w] = [pc |-> IF eval[e].method = "agent" THEN "recover" ELSE "read",
                                    eval |-> e, outcome |-> "none"]]
    /\ LaneOnly /\ UNCHANGED faults

\* complete() is fenced: a lane that lost its lease leaves the job alone.
Finish(w) ==
    /\ At(w, "finish")
    /\ eval' = IF eval[Mine(w)].holder = w
               THEN [eval EXCEPT ![Mine(w)].job = "done", ![Mine(w)].holder = Nobody]
               ELSE eval
    /\ lane' = [lane EXCEPT ![w] = IdleLane]
    /\ LaneOnly /\ UNCHANGED faults

\* execute: a deterministic evaluation; its status is written blindly.
ReadRun(w) ==
    /\ At(w, "read")
    /\ To(w, IF eval[Mine(w)].status = "pending" THEN "start" ELSE "finish")
    /\ LaneOnly /\ UNCHANGED <<eval, faults>>

StartRun(w) ==
    /\ At(w, "start")
    /\ eval' = [eval EXCEPT ![Mine(w)].status = "running"]
    /\ To(w, "check")
    /\ LaneOnly /\ UNCHANGED faults

\* _run_checks: the results of all criteria in one commit, which the unique
\* constraint refuses the second time; then the handler's own commit fails too.
RunChecks(w) ==
    /\ At(w, "check")
    /\ \/ /\ ~eval[Mine(w)].results
          /\ eval' = [eval EXCEPT ![Mine(w)].results = TRUE, ![Mine(w)].given = Bytes(Mine(w))]
          /\ To(w, "complete")
       \/ eval[Mine(w)].results /\ To(w, "finish") /\ UNCHANGED eval
       \/ ~original[eval[Mine(w)].of] /\ To(w, "error") /\ UNCHANGED eval
    /\ LaneOnly /\ UNCHANGED faults

EndRun(w) ==
    /\ \/ At(w, "complete") /\ eval' = [eval EXCEPT ![Mine(w)].status = "completed"]
       \/ At(w, "error") /\ eval' = [eval EXCEPT ![Mine(w)].status = "failed"]
    /\ To(w, "finish")
    /\ LaneOnly /\ UNCHANGED faults

\* _cas_attempt: the first one to end the attempt gives the category.
Why(e, category) == IF eval[e].why = "none" THEN category ELSE eval[e].why

\* _recover_before_execution and the checkpoint before the call, at which the
\* evaluator's context is built of the subject's bytes.
\* Mutant of Acceptable: the bytes are only verified at the end.
AcceptableAlways(e) == TRUE
Acceptable(e) == original[eval[e].of]

Recover(w) ==
    LET e == Mine(w) IN
    /\ At(w, "recover")
    /\ CASE eval[e].agent \in AgentEnded -> To(w, "reconcile") /\ UNCHANGED eval
         [] eval[e].agent = "running" ->
                /\ ToWith(w, "judge", "failed")
                /\ eval' = [eval EXCEPT ![e].why = IF eval[e].output = "none" THEN Why(e, "transient") ELSE @]
         [] eval[e].agent = "created" /\ eval[e].cancel -> ToWith(w, "judge", "stopped") /\ UNCHANGED eval
         [] eval[e].agent = "created" /\ ~eval[e].cancel /\ ~Acceptable(e) ->
                /\ ToWith(w, "judge", "failed")
                /\ eval' = [eval EXCEPT ![e].why = "other"]
         [] OTHER ->
                /\ eval' = [eval EXCEPT ![e].agent = "running", ![e].given = Bytes(e)]
                /\ To(w, "call")
    /\ LaneOnly /\ UNCHANGED faults

\* The provider answers, with text that keeps the contract or breaks it, or
\* fails; a cancellation seen now preserves what was produced.
Answer(w) ==
    LET e == Mine(w) IN
    /\ At(w, "call")
    /\ \/ \E text \in {"valid", "invalid"} :
            /\ eval' = [eval EXCEPT ![e].output = text]
            /\ ToWith(w, "judge", IF eval[e].cancel THEN "stopped" ELSE "completed")
       \/ \E category \in {"transient", "other"} :
            /\ eval' = [eval EXCEPT ![e].why = Why(e, category)]
            /\ ToWith(w, "judge", "failed")
    /\ LaneOnly /\ UNCHANGED faults

\* _claim_agent_run_terminal: the first one ends the Agent Run.
Judge(w) ==
    LET e == Mine(w) IN
    /\ At(w, "judge")
    /\ IF eval[e].agent \in AgentEnded
       THEN To(w, "reconcile") /\ UNCHANGED eval
       ELSE To(w, "task") /\ eval' = [eval EXCEPT ![e].agent = lane[w].outcome]
    /\ LaneOnly /\ UNCHANGED faults

\* The evaluator's Agent Run status, as its Task Run's.
\* Mutant of AsTaskRunStatus: whatever has not failed has completed.
AsTaskRunStatusOrDone(status) == IF status = "failed" THEN "failed" ELSE "completed"
AsTaskRunStatus(status) == IF status = "stopped" THEN "cancelled" ELSE status

EndTask(w) ==
    /\ At(w, "task")
    /\ eval' = [eval EXCEPT ![Mine(w)].task = AsTaskRunStatus(lane[w].outcome)]
    /\ ToWith(w, "finalize", AsTaskRunStatus(lane[w].outcome))
    /\ LaneOnly /\ UNCHANGED faults

(***************************************************************************)
(* finalize_agent_evaluator_run, reached by the terminal notification, by  *)
(* the reconciliation at the end of a node's job, and by a sweep           *)
(***************************************************************************)
\* Mutant of NeedsOutcome: the Task Run is waited for.
NeedsOutcomeOfTask(e) == OfNode(e) /\ eval[e].task \in Ended /\ Undecided(e)
NeedsOutcome(e) == OfNode(e) /\ eval[e].agent \in AgentEnded /\ Undecided(e)

Reconcile(w) ==
    /\ At(w, "reconcile")
    /\ IF NeedsOutcome(Mine(w))
       THEN ToWith(w, "finalize", AsTaskRunStatus(eval[Mine(w)].agent))
       ELSE To(w, "finish")
    /\ LaneOnly /\ UNCHANGED <<eval, faults>>

Sweep(w, e) ==
    /\ At(w, "idle") /\ NeedsOutcome(e)
    /\ lane' = [lane EXCEPT ![w] = [pc |-> "finalize", eval |-> e,
                                    outcome |-> AsTaskRunStatus(eval[e].agent)]]
    /\ LaneOnly /\ UNCHANGED <<eval, faults>>

\* What the evaluator said is trusted only if the subject still verifies and
\* the response keeps the contract; any exception makes it failed.
Verdict(w) ==
    IF lane[w].outcome /= "completed" THEN {lane[w].outcome}
    ELSE IF original[eval[Mine(w)].of] /\ eval[Mine(w)].output = "valid"
         THEN {"completed"} ELSE {"failed"}

Finalize(w) ==
    /\ At(w, "finalize")
    /\ IF Undecided(Mine(w))
       THEN \/ \E v \in Verdict(w) : ToWith(w, "decide", v) /\ UNCHANGED faults
            \/ ToWith(w, "decide", "failed") /\ Fault /\ lane[w].outcome = "completed"
       ELSE To(w, "finish") /\ UNCHANGED faults
    /\ LaneOnly /\ UNCHANGED eval

\* _cas_terminal; the results are in the transaction of the one who wins it.
\* Mutant of CasTerminal: the status read before is trusted.
CasTerminalAlways(e) == TRUE
CasTerminal(e) == Undecided(e)

Decide(w) ==
    LET e == Mine(w) IN
    /\ At(w, "decide")
    /\ eval' = IF CasTerminal(e)
               THEN [eval EXCEPT ![e].status = lane[w].outcome,
                                 ![e].results = @ \/ lane[w].outcome = "completed"]
               ELSE eval
    /\ To(w, "finish")
    /\ LaneOnly /\ UNCHANGED faults

(***************************************************************************)
(* Lanes that die, and lanes slower than their lease                       *)
(***************************************************************************)
JobReturns(w) ==
    eval' = [eval EXCEPT
        ![Mine(w)].lost = TRUE,
        ![Mine(w)].job = IF eval[Mine(w)].holder = w THEN "queued" ELSE @,
        ![Mine(w)].holder = IF @ = w THEN Nobody ELSE @]

LaneDies(w) ==
    /\ w \notin Reliable /\ ~At(w, "idle") /\ Fault
    /\ JobReturns(w)
    /\ lane' = [lane EXCEPT ![w] = IdleLane]
    /\ LaneOnly

OutliveLease(w) ==
    /\ w \notin Reliable /\ ~At(w, "idle") /\ eval[Mine(w)].holder = w /\ Fault
    /\ JobReturns(w)
    /\ LaneOnly /\ UNCHANGED lane

RequestStep(q) ==
    \/ SkipCandidate(q) \/ Begin(q) \/ Reclaim(q) \/ Create(q)
    \/ Queue(q) \/ Enqueue(q) \/ CompleteKey(q) \/ FailKey(q)

LaneStep(w) ==
    \/ Finish(w) \/ ReadRun(w) \/ StartRun(w) \/ RunChecks(w) \/ EndRun(w)
    \/ Recover(w) \/ Answer(w) \/ Judge(w) \/ EndTask(w)
    \/ Reconcile(w) \/ Finalize(w) \/ Decide(w)

Next ==
    \/ \E q \in Requests : RequestStep(q) \/ RequestDies(q)
    \/ \E s \in Candidates : CreateDirect(s)
    \/ \E e \in Evals : EnqueueDirect(e)
    \/ \E s \in Candidates : DispatchNode(s)
    \/ \E s \in Candidates : EditFile(s)
    \/ \E e \in Evals : RetryNode(e) \/ CancelEvaluator(e)
    \/ \E w \in Lanes, e \in Evals : Claim(w, e) \/ Sweep(w, e)
    \/ \E w \in Lanes : LaneStep(w) \/ LaneDies(w) \/ OutliveLease(w)

Spec == Init /\ [][Next]_vars

\* A lane works on, and an idle one polls and sweeps before it sleeps.
FairSpec ==
    /\ Spec
    /\ \A w \in Lanes : WF_vars(LaneStep(w) \/ \E e \in Evals : Claim(w, e) \/ Sweep(w, e))

(***************************************************************************)
(* Properties                                                              *)
(***************************************************************************)
\* The types of the rows, of the handlers and of the lanes.
EvaluationTypeOK ==
    /\ key \in [Keys -> [status : {"absent", "in_progress", "completed", "failed"},
                         ref : Evals \cup {Nothing}]]
    /\ eval \in [Evals ->
         [of : Candidates \cup {Nothing}, method : {"none", "deterministic", "agent"},
          owner : {"none", "api", "direct", "workflow"}, status : {"none", "pending", "running"} \cup Ended,
          results : BOOLEAN, agent : {"none", "created", "running"} \cup AgentEnded,
          task : {"none", "created", "queued"} \cup Ended, cancel : BOOLEAN,
          given : {"none", "bound", "other"}, output : {"none", "valid", "invalid"},
          why : {"none", "transient", "other"}, retried : BOOLEAN,
          job : {"none", "queued", "leased", "done"}, holder : Lanes \cup {Nobody}, lost : BOOLEAN]]
    /\ request \in [Requests ->
         [pc : {"begin", "reclaim", "create", "queue", "enqueue", "complete", "fail", "gone"},
          at : Candidates, eval : Evals \cup {Nothing}]]
    /\ lane \in [Lanes ->
         [pc : {"idle", "finish", "read", "start", "check", "complete", "error", "recover", "call",
                "judge", "task", "reconcile", "finalize", "decide"},
          eval : Evals \cup {Nothing}, outcome : {"none", "stopped"} \cup Ended]]
    /\ original \in [Candidates -> BOOLEAN]
    /\ faults \in 0 .. MaxFaults /\ edits \in 0 .. MaxEdits

\* The results of an agent evaluation are there with its COMPLETED status and
\* with no other, and no evaluation is COMPLETED without them, however many
\* finalizers and lanes race for it.
ResultsWithVerdict ==
    \A e \in Evals :
        /\ eval[e].status = "completed" => eval[e].results
        /\ eval[e].method = "agent" /\ eval[e].results => eval[e].status = "completed"

\* "a COMPLETED run can never be overwritten by FAILED": an evaluation that is
\* decided stays as it is.  The blind writes of a deterministic one keep to this
\* only while no lane outlives its lease.
VerdictIsFinal ==
    [][\A e \in Evals :
         eval[e].status \in Ended /\ (eval[e].method = "agent" \/ ~eval[e].lost)
            => eval'[e].status = eval[e].status]_vars

\* Exact-artifact protection: the findings of a COMPLETED agent evaluation are
\* about the bytes that were bound when it was requested, even if the file was
\* changed for the time of the call and put back before the verdict.
EvidenceWasBound ==
    \A e \in Evals :
        eval[e].method = "agent" /\ eval[e].status = "completed" => eval[e].given = "bound"

\* Whoever concludes an agent evaluation (from the Task Run's status, or from
\* the Agent Run's) concludes it as its evaluator ended: a stopped evaluator's
\* preserved output is never a finding, a failed one never a cancellation.
VerdictFollowsEvaluator ==
    \A e \in Evals : eval[e].method = "agent" =>
        CASE eval[e].status = "completed" -> eval[e].agent = "completed" /\ eval[e].output = "valid"
          [] eval[e].status = "cancelled" -> eval[e].agent = "stopped"
          [] eval[e].status = "failed" -> eval[e].agent \in {"completed", "failed"}
          [] OTHER -> TRUE

\* Whoever concludes an evaluation, its status, its results and its evaluator's
\* end agree.
VerdictInv ==
    /\ EvaluationTypeOK
    /\ ResultsWithVerdict
    /\ VerdictFollowsEvaluator

\* A retry of an EVALUATION node never runs beside an evaluation that is still
\* open, and never after one that has a verdict.
OneOpenEvaluationPerNode ==
    \A e, f \in Evals :
        e /= f /\ OfNode(e) /\ OfNode(f) /\ eval[e].of = eval[f].of
            => eval[e].status = "failed" \/ eval[f].status = "failed"

\* The evaluations by an agent as somebody outside sees them.
OpinionOf(r) ==
    CASE r.agent \in {"created", "running"} -> "awaited"
      [] r.agent = "completed" -> IF r.output = "valid" /\ r.given = "bound" THEN "sound" ELSE "unsound"
      [] OTHER -> r.agent
OutcomeOf(r) == IF r.method /= "agent" THEN "none"
                ELSE IF r.status \in Ended THEN r.status ELSE "open"

Subject == [e \in Evals |-> IF OfNode(e) THEN eval[e].of ELSE Nothing]
Opinion == [e \in Evals |-> OpinionOf(eval[e])]
Outcome == [e \in Evals |-> OutcomeOf(eval[e])]
Findings == [e \in Evals |-> eval[e].method = "agent" /\ eval[e].results]

Judged == INSTANCE JudgedOnce WITH
    Subjects <- Candidates, subject <- Subject, opinion <- Opinion, verdict <- Outcome, findings <- Findings
\* However lanes, sweeps, retries and cancellations race, an evaluator ends once,
\* and its evaluation is concluded once and as it ended; a node's evaluations
\* take turns.
IsJudgedOnce == Judged!JudgedSpec

\* "Idempotent: retrying the identical request reuses the prior EvaluationRun":
\* requests that overlap in any order evaluate a candidate twice only if a
\* statement of one of them failed.
DuplicatesOnlyAfterFailure ==
    \A e, f \in {g \in Evals : eval[g].owner = "api"} :
        e /= f /\ eval[e].of = eval[f].of /\ eval[e].method = eval[f].method => faults > 0

\* "must still leave the Evaluation Run in a terminal state rather than stuck
\* RUNNING forever": an evaluation whose job is queued is decided.  One of a
\* node is decided even if lanes die at it; nothing repairs any other.
EvaluationsConclude ==
    \A e \in Evals :
        eval[e].job = "queued"
            ~> (eval[e].status \in Ended \/ (eval[e].owner /= "workflow" /\ eval[e].lost))
=============================================================================
