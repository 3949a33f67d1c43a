---------------------------- MODULE ReviewCycle ----------------------------
(***************************************************************************)
(* Task Runs as a chain of Agent Runs that share a budget                  *)
(* (app/services/review_orchestration_service.py, budget_service.py, and   *)
(* the parts of task_service.py and execution_service.py around them).  A  *)
(* plain Task Run has one stage; a reviewed one has an author's stage, a   *)
(* reviewer's, and after every REPAIR_REQUIRED another pair.  A stage is   *)
(* an Agent Run with a job of its own; AgentExecution looks inside one,    *)
(* here only the commits that other stages and handlers can see are steps. *)
(*                                                                         *)
(* The lane that ends a stage creates the next one, so for three commits   *)
(* two lanes work on one Task Run.  Nobody writes the status of a Task Run *)
(* under a condition: every write stands over whatever was there.          *)
(***************************************************************************)
EXTENDS Integers, Sequences, FiniteSetsExt, Functions

CONSTANTS
    NRuns,          \* Task Runs, each started at most once
    Reviewed,       \* those with a reviewer
    MaxRepairs,     \* max_repair_iterations
    Lanes,          \* worker lanes
    Reliable,       \* those that never die
    NoRun,          \* an idle lane
    Budgeted,       \* the origins whose Task Runs are charged to the budget
    Limit,          \* its hard threshold (reserve refuses nothing where the limit is 0)
    Estimate,       \* what a call is expected to cost
    Costs,          \* what a call may really cost
    MaxCrashes      \* worker crashes considered

Runs == 1 .. NRuns

ASSUME ReviewCycleAssumption ==
    /\ NRuns \in Nat /\ Reviewed \subseteq Runs
    /\ MaxRepairs \in Nat /\ MaxCrashes \in Nat
    /\ NoRun \notin Runs /\ Reliable \subseteq Lanes /\ IsFiniteSet(Lanes)
    /\ Budgeted \subseteq {"task", "candidate"}
    /\ Limit \in Nat \ {0} /\ Estimate \in Nat
    /\ Costs \subseteq Nat /\ IsFiniteSet(Costs)

VARIABLES
    origin,     \* origin[r]: who started Task Run r, a request or a comparison
    task,       \* task_runs: status, cancellation_requested_at, final_artifact_id
    stage,      \* stage[r]: the newest Agent Run of r and its job
    reviews,    \* reviews[r]: agent_reviews of r, by iteration
    held,       \* held[r]: the ACTIVE reservation of r's newest stage
    spent,      \* what the COMMITTED reservations add up to
    lane,       \* lane[w]: what lane w holds in memory
    asks,       \* runs whose cancel_task_run has passed its status check
    crashes     \* how many workers have died

vars == <<origin, task, stage, reviews, held, spent, lane, asks, crashes>>
budget == <<held, spent>>

TaskEnded == {"completed", "failed", "cancelled"}
StageEnded == {"completed", "failed", "stopped"}
Decision == {"accept", "repair", "invalid"}
None == -1

\* Stage 1 is the primary's; then reviewers and repairs take turns.
IsReviewer(r, k) == r \in Reviewed /\ k % 2 = 0
Iteration(k) == (k - 1) \div 2

\* late: the stage was created after the cancellation was requested.
NewStage(k, late) ==
    [k |-> k, status |-> "created", call |-> "none", job |-> "none", late |-> late]

\* wrote: the status this lane ended the Task Run with; saw: what it read of
\* the comparison's cancellation.
IdleLane == [pc |-> "idle", run |-> NoRun, k |-> 0, wrote |-> "none", saw |-> FALSE]

Init ==
    /\ origin = [r \in Runs |-> "none"]
    /\ task = [r \in Runs |-> [status |-> "created", cancel |-> FALSE, final |-> None]]
    /\ stage = [r \in Runs |-> NewStage(0, FALSE)]
    /\ reviews = [r \in Runs |-> <<>>]
    /\ held = [r \in Runs |-> 0]
    /\ spent = 0
    /\ lane = [w \in Lanes |-> IdleLane]
    /\ asks = {}
    /\ crashes = 0

(***************************************************************************)
(* Starting and cancelling                                                 *)
(***************************************************************************)
\* One transaction: the Task Run, QUEUED, and its first Agent Run.
Begun(r, by) ==
    /\ origin[r] = "none"
    /\ origin' = [origin EXCEPT ![r] = by]
    /\ task' = [task EXCEPT ![r].status = "queued"]
    /\ stage' = [stage EXCEPT ![r] = NewStage(1, FALSE)]
    /\ UNCHANGED <<reviews, budget, lane, asks, crashes>>

StartTaskRun(r) == Begun(r, "task")

\* The next one: the job.
FirstJob(r) ==
    /\ stage[r].k = 1 /\ stage[r].job = "none"
    /\ stage' = [stage EXCEPT ![r].job = "queued"]
    /\ UNCHANGED <<origin, task, reviews, budget, lane, asks, crashes>>

EnqueueTaskRun(r) == origin[r] = "task" /\ FirstJob(r)

\* A Task Run is cancelled once (bound).
Cancellable(r) ==
    /\ origin[r] /= "none" /\ ~task[r].cancel
    /\ task[r].status \notin TaskEnded \cup {"cancelling"}

\* cancel_task_run reads the status ...
CancelRead(r) ==
    /\ Cancellable(r)
    /\ asks' = asks \cup {r}
    /\ UNCHANGED <<origin, task, stage, reviews, budget, lane, crashes>>

\* ... and writes in a later statement, whatever the status is by then.
CancelWrite(r) ==
    /\ r \in asks
    /\ asks' = asks \ {r}
    /\ task' = [task EXCEPT ![r].status = "cancelling", ![r].cancel = TRUE]
    /\ UNCHANGED <<origin, stage, reviews, budget, lane, crashes>>

(***************************************************************************)
(* One stage                                                               *)
(***************************************************************************)
At(w, pc) == lane[w].pc = pc
Run(w) == lane[w].run
Goto(w, pc) == lane' = [lane EXCEPT ![w].pc = pc]
Set(r, s) == task' = [task EXCEPT ![r].status = s]

\* Mutant of Cancelled: the status is what says so.
CancelledByStatus(r) == task[r].status = "cancelling"
\* _is_cancelled re-reads the Task Run and looks at the request, not the status.
Cancelled(r) == task[r].cancel

\* The lane is done with its job; an older stage's job no longer matters.
Release(w) ==
    /\ lane' = [lane EXCEPT ![w] = IdleLane]
    /\ stage' = IF stage[Run(w)].k = lane[w].k
                THEN [stage EXCEPT ![Run(w)].job = "done"] ELSE stage

Claim(w, r) ==
    /\ At(w, "idle")
    /\ stage[r].job = "queued"
    /\ stage' = [stage EXCEPT ![r].job = "leased"]
    /\ lane' = [lane EXCEPT ![w] = [IdleLane EXCEPT !.pc = "begin", !.run = r, !.k = stage[r].k]]
    /\ UNCHANGED <<origin, task, reviews, budget, asks, crashes>>

\* The Agent Run's status and where the lane goes from there.
EndStage(w, status, pc) ==
    /\ stage' = [stage EXCEPT ![Run(w)].status = status]
    /\ Goto(w, pc)

Free(r) == held' = [held EXCEPT ![r] = 0]

HasBudget(r) == origin[r] \in Budgeted

\* _current_committed_and_active_total
Total == spent + SumFunction(held)
\* Mutant of Exceeds: reservations that were settled no longer count.
ExceedsActive == SumFunction(held) + Estimate >= Limit
Exceeds == Total + Estimate >= Limit

\* BudgetGovernor.reserve returns without a budget; with one it sums here and
\* inserts later.
AskBudget(w) ==
    \/ ~HasBudget(Run(w)) /\ EndStage(w, "running", "call")
    \/ HasBudget(Run(w)) /\ Exceeds /\ EndStage(w, "failed", "fail")
    \/ HasBudget(Run(w)) /\ ~Exceeds /\ EndStage(w, "running", "reserve")

\* _recover_before_execution, the first checkpoint, the routing, the budget.
Begin(w) ==
    LET r == Run(w) IN
    /\ At(w, "begin")
    /\ \/ stage[r].status \in StageEnded /\ Release(w) /\ UNCHANGED held
       \/ /\ stage[r].status = "running" /\ stage[r].call /= "none"
          /\ EndStage(w, "failed", "fail")
          /\ UNCHANGED held     \* the money of an ambiguous call stays reserved
       \/ /\ stage[r].status \in {"created", "running"} /\ stage[r].call = "none"
          /\ IF held[r] > 0 THEN Free(r) /\ UNCHANGED <<stage, lane>>
             ELSE /\ IF Cancelled(r) THEN EndStage(w, "stopped", "stop")
                     ELSE EndStage(w, "failed", "fail") \/ AskBudget(w)
                  /\ UNCHANGED held
    /\ UNCHANGED <<origin, task, reviews, spent, asks, crashes>>

\* ... and inserts its reservation in a transaction of its own.
Reserve(w) ==
    /\ At(w, "reserve")
    /\ held' = [held EXCEPT ![Run(w)] = Estimate]
    /\ Goto(w, "call")
    /\ UNCHANGED <<origin, task, stage, reviews, spent, asks, crashes>>

\* The last checkpoint, the prompt (which may lack its artifact), the call.
StartCall(w) ==
    LET r == Run(w) IN
    /\ At(w, "call")
    /\ \/ Cancelled(r) /\ EndStage(w, "stopped", "stop") /\ Free(r)
       \/ ~Cancelled(r) /\ EndStage(w, "failed", "fail") /\ Free(r)
       \/ /\ ~Cancelled(r)
          /\ stage' = [stage EXCEPT ![r].call = "running"]
          /\ Goto(w, "answer")
          /\ UNCHANGED held
    /\ UNCHANGED <<origin, task, reviews, spent, asks, crashes>>

\* The provider answers, and the reservation is settled with the real cost; or
\* it fails, and the reservation is released.
Answer(w) ==
    LET r == Run(w) IN
    /\ At(w, "answer")
    /\ \/ \E cost \in IF HasBudget(r) THEN Costs ELSE {0} :
            /\ spent' = spent + cost
            /\ stage' = [stage EXCEPT ![r].call = "success"]
            /\ Goto(w, "finish")
       \/ /\ stage' = [stage EXCEPT ![r].call = "error", ![r].status = "failed"]
          /\ Goto(w, "fail")
          /\ UNCHANGED spent
    /\ Free(r)
    /\ UNCHANGED <<origin, task, reviews, asks, crashes>>

\* Where a completed stage leads: on_agent_run_succeeded for a reviewed run.
\* (VERIFYING, written and overwritten at once, is left out.)
After(r, k) == IF r \notin Reviewed THEN "complete"
               ELSE IF IsReviewer(r, k) THEN "review" ELSE "another"

Finish(w) ==
    LET r == Run(w) IN
    /\ At(w, "finish")
    /\ IF Cancelled(r) THEN EndStage(w, "stopped", "stop")
       ELSE EndStage(w, "completed", After(r, lane[w].k))
    /\ UNCHANGED <<origin, task, reviews, budget, asks, crashes>>

(***************************************************************************)
(* The Task Run's end, in a transaction after the stage's                  *)
(***************************************************************************)
Outcome == [complete |-> "completed", fail |-> "failed", stop |-> "cancelled"]

\* The three _finalize_* of both services: a blind write, then the notification.
Finalize(w) ==
    /\ lane[w].pc \in DOMAIN Outcome
    /\ Set(Run(w), Outcome[lane[w].pc])
    /\ lane' = [lane EXCEPT ![w].pc = "notify", ![w].wrote = Outcome[lane[w].pc]]
    /\ UNCHANGED <<origin, stage, reviews, budget, asks, crashes>>

\* notify_task_run_terminal ignores a Task Run that is no comparison candidate.
Unobserved(w) ==
    /\ At(w, "notify")
    /\ origin[Run(w)] /= "candidate"
    /\ Release(w)
    /\ UNCHANGED <<origin, task, reviews, budget, asks, crashes>>

(***************************************************************************)
(* The review cycle                                                        *)
(***************************************************************************)
\* Mutant of CanRepair: no snapshot names the primary's version.
CanRepairNever(r) == FALSE
\* Only start_reviewed_task_run names the primary's version in the snapshot; a
\* comparison's launch does not, and _queue_repair fails on the missing key.
CanRepair(r) == origin[r] = "task"

\* Before another stage: the request is re-read, and the version it needs may
\* be gone.  An unexpected error ends nothing, for the run is already
\* COMPLETED: _finalize_failed does not win its claim and returns.
Another(w) ==
    LET r == Run(w) IN
    /\ At(w, "another")
    /\ \/ Cancelled(r) /\ Goto(w, "stop") /\ UNCHANGED stage
       \/ /\ ~Cancelled(r) /\ IsReviewer(r, lane[w].k) /\ ~CanRepair(r)
          /\ Release(w)
       \/ /\ ~Cancelled(r) /\ (IsReviewer(r, lane[w].k) => CanRepair(r))
          /\ Goto(w, "insert") \/ Goto(w, "fail")
          /\ UNCHANGED stage
    /\ UNCHANGED <<origin, task, reviews, budget, asks, crashes>>

InsertStage(w) ==
    LET r == Run(w) IN
    /\ At(w, "insert")
    /\ stage' = [stage EXCEPT ![r] = NewStage(lane[w].k + 1, task[r].cancel)]
    /\ Goto(w, "enqueue")
    /\ UNCHANGED <<origin, task, reviews, budget, asks, crashes>>

EnqueueStage(w) ==
    /\ At(w, "enqueue")
    /\ stage' = [stage EXCEPT ![Run(w)].job = "queued"]
    /\ Goto(w, "waiting")
    /\ UNCHANGED <<origin, task, reviews, budget, asks, crashes>>

\* The next stage may already be running, or over.
WaitForAgent(w) ==
    /\ At(w, "waiting")
    /\ Set(Run(w), "waiting_for_agent")
    /\ Release(w)
    /\ UNCHANGED <<origin, reviews, budget, asks, crashes>>

\* Mutant of AfterReview: an answer that cannot be parsed is not a refusal.
AfterReviewLenient(d, iteration) ==
    CASE d \in {"accept", "invalid"} -> "accept"
      [] d = "repair" -> IF iteration >= MaxRepairs THEN "fail" ELSE "another"
\* _process_review: the answer is parsed, the verdict recorded and acted upon.
AfterReview(d, iteration) ==
    CASE d = "accept" -> "accept"
      [] d = "invalid" -> "fail"
      [] d = "repair" -> IF iteration >= MaxRepairs THEN "fail" ELSE "another"

Review(w) ==
    /\ At(w, "review")
    /\ \E d \in Decision :
         /\ reviews' = [reviews EXCEPT ![Run(w)] = Append(@, d)]
         /\ Goto(w, AfterReview(d, Iteration(lane[w].k)))
    /\ UNCHANGED <<origin, task, stage, budget, asks, crashes>>

\* ACCEPT: the reviewed artifact, one commit before COMPLETED.
Accept(w) ==
    /\ At(w, "accept")
    /\ task' = [task EXCEPT ![Run(w)].final = Iteration(lane[w].k)]
    /\ Goto(w, "complete")
    /\ UNCHANGED <<origin, stage, reviews, budget, asks, crashes>>

\* _compute_outcome: what a summary reports, from the rows alone.
Reported(r) ==
    LET last == IF reviews[r] = <<>> THEN "none" ELSE reviews[r][Len(reviews[r])] IN
    CASE task[r].status = "completed" /\ task[r].final /= None -> "accepted"
      [] task[r].status = "cancelled" -> "cancelled"
      [] task[r].status = "failed" ->
            (CASE last = "repair" -> "repair_limit_exhausted"
               [] last = "invalid" -> "reviewer_response_invalid"
               [] OTHER -> "execution_failed")
      [] OTHER -> "in_progress"

\* The process dies; its job is claimable again once the lease has run out.
Crash(w) ==
    /\ w \notin Reliable /\ crashes < MaxCrashes
    /\ ~At(w, "idle")
    /\ crashes' = crashes + 1
    /\ stage' = IF stage[Run(w)].k = lane[w].k
                THEN [stage EXCEPT ![Run(w)].job = "queued"] ELSE stage
    /\ lane' = [lane EXCEPT ![w] = IdleLane]
    /\ UNCHANGED <<origin, task, reviews, budget, asks>>

Step(w) ==
    \/ Begin(w) \/ Reserve(w) \/ StartCall(w) \/ Answer(w) \/ Finish(w)
    \/ Finalize(w) \/ Unobserved(w)
    \/ Another(w) \/ InsertStage(w) \/ EnqueueStage(w) \/ WaitForAgent(w)
    \/ Review(w) \/ Accept(w)

\* Bound: requests cancel reviewed Task Runs; AgentExecution has the plain one.
Next ==
    \/ \E r \in Runs : StartTaskRun(r) \/ EnqueueTaskRun(r) \/ CancelWrite(r)
    \/ \E r \in Reviewed : CancelRead(r)
    \/ \E w \in Lanes, r \in Runs : Claim(w, r)
    \/ \E w \in Lanes : Step(w) \/ Crash(w)

(***************************************************************************)
(* Properties                                                              *)
(***************************************************************************)
\* Every variable keeps its type, a stage's number included: the number of
\* stages is bounded by max_repair_iterations.
ReviewTypeOK ==
    /\ origin \in [Runs -> {"none", "task", "candidate"}]
    /\ task \in [Runs -> [status : {"created", "queued", "waiting_for_agent", 
                                    "cancelling"} \cup TaskEnded,
                          cancel : BOOLEAN, final : {None} \cup 0 .. MaxRepairs]]
    /\ stage \in [Runs -> [k : 0 .. 2 * (MaxRepairs + 1), status : {"created", "running"} \cup StageEnded,
                           call : {"none", "running", "success", "error"},
                           job : {"none", "queued", "leased", "done"}, late : BOOLEAN]]
    /\ reviews \in [Runs -> Seq(Decision)] /\ held \in [Runs -> {0, Estimate}]
    /\ spent \in Nat /\ crashes \in 0 .. MaxCrashes
    /\ asks \subseteq Runs

\* The artifact a reviewed run hands out is the one its last review accepted,
\* after nothing but requests for repair, within the limit; a run that was
\* failed or cancelled hands out none; and no accepted review is ever reported
\* as a failure or a cancellation.  The reviews, the final artifact and the
\* status are written by different lanes in different transactions.
FinalWasAccepted ==
    \A r \in Reviewed :
        /\ "accept" \in Range(reviews[r]) => Reported(r) \in {"accepted", "in_progress"}
        /\ task[r].final /= None =>
             /\ Len(reviews[r]) = task[r].final + 1
             /\ reviews[r][task[r].final + 1] = "accept"
             /\ \A i \in 1 .. task[r].final : reviews[r][i] = "repair"
             /\ task[r].status \notin {"failed", "cancelled"}
        /\ task[r].status = "completed" => task[r].final /= None

\* A stage created behind a cancellation never reaches the provider, even when
\* WAITING_FOR_AGENT was written over CANCELLING before it was claimed.
LateStageNeverCalls == \A r \in Runs : stage[r].late => stage[r].call = "none"

\* Reservations are summed before they are inserted, and a call may cost more
\* than its estimate: the budget is overrun by no more than one call per lane.
OvershootIsBounded == Total < Limit + Cardinality(Lanes) * Max(Costs \cup {Estimate})

\* Without a crash, a Task Run that a request started reaches a terminal status
\* from every stage of its review, although a late WAITING_FOR_AGENT or
\* CANCELLING may be written over that status afterwards.
RunsConclude ==
    \A r \in Runs :
        (origin[r] = "task" /\ stage[r].status = "created")
            ~> (task[r].status \in TaskEnded \/ crashes > 0)
=============================================================================
