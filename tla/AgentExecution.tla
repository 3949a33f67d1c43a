--------------------------- MODULE AgentExecution ---------------------------
(***************************************************************************)
(* One Agent Run, from its AGENT_RUN job to its terminal status            *)
(* (app/services/execution_service.py, app/services/budget_service.py, the *)
(* AGENT_RUN part of app/worker.py and app/services/task_service.py).  The *)
(* service commits many short transactions around one provider call per    *)
(* attempt; every commit is a step here, so a crash, a cancellation, a     *)
(* database error or another worker can come between any two of them.      *)
(*                                                                         *)
(* An executor is one claim of the run's job, as module JobQueue grants    *)
(* them; a claim follows another one only when the job went back to        *)
(* PENDING or its lease ran out.  The run belongs to a single-agent Task   *)
(* Run with a budget.  A sweeper is the workflow engine's reconciliation,  *)
(* which looks after the runs a workflow node dispatched and no others.    *)
(***************************************************************************)
EXTENDS Integers, FiniteSetsExt

CONSTANTS
    Executors,      \* claims of the job, each used once
    Sweepers,       \* reconciling processes; {} when no workflow owns the run
    Reliable,       \* actors that neither crash nor meet a database error
    NoOne,          \* the job is not leased
    MaxAttempts,    \* max_agent_run_attempts
    FailStop        \* TRUE: a lease only runs out on an executor that stopped

ASSUME AgentExecutionAssumption ==
    /\ NoOne \notin Executors
    /\ Executors \cap Sweepers = {}
    /\ Reliable \subseteq Executors \cup Sweepers
    /\ MaxAttempts \in Nat \ {0}
    /\ FailStop \in BOOLEAN

Attempts == 1 .. MaxAttempts
Actors == Executors \cup Sweepers

VARIABLES
    job,        \* the row of job_queue: status and lease owner
    run,        \* agent_runs.status
    task,       \* task_runs.status
    stop,       \* cancellation_requested_at of the Task Run or of the Agent Run
    cancel,     \* where the request handler of cancel_task_run stands
    attempt,    \* attempt[n]: agent_run_attempts.status
    call,       \* call[n]: model_calls.status of attempt n's provider call
    resv,       \* resv[n]: budget_reservations.status of attempt n
    output,     \* output[n]: what attempt n has recorded of the response
    exec        \* exec[a]: what actor a holds in memory

vars == <<job, run, task, stop, cancel, attempt, call, resv, output, exec>>

RunEnded == {"completed", "failed", "stopped"}
TaskEnded == {"completed", "failed", "cancelled"}

\* The steps inside _run_one_attempt, in the order of the code.
AttemptSteps == {"insert", "setRunning", "route", "reserve", "context", "preflight",
                 "startCall", "invoke", "answered", "callError", "settle", "late",
                 "usage", "artifact", "finishAttempt", "finishRun", "verify", "complete",
                 "release", "retry", "fail1", "stop1", "stop2", "stop3"}
FinalizeSteps == {"fail2", "fail3"}
OutsideSteps == {"recover", "recoverFail", "recoverRelease", "interrupt", "dangling"}
EndSteps == {"return", "raise", "gone"}

\* n: the attempt number; seen: the run's status as the session last read it;
\* next: where a pending release leads; found: the attempts recovery read as
\* running; guarded: execute()'s last-resort handler is still ahead.
Exec == [pc : {"idle"} \cup AttemptSteps \cup FinalizeSteps \cup OutsideSteps \cup EndSteps,
         n : 0 .. MaxAttempts + 1, seen : {"created", "running"} \cup RunEnded,
         next : {"retry", "fail1", "stop1", "return"}, found : SUBSET Attempts,
         guarded : BOOLEAN]

IdleExec == [pc |-> "idle", n |-> 0, seen |-> "created", next |-> "return",
             found |-> {}, guarded |-> FALSE]

\* start_task_run has committed the Task Run and the Agent Run, not the job.
Init ==
    /\ job = [status |-> "absent", holder |-> NoOne]
    /\ run = "created"
    /\ task = "queued"
    /\ stop = FALSE
    /\ cancel = "idle"
    /\ attempt = [n \in Attempts |-> "none"]
    /\ call = [n \in Attempts |-> "none"]
    /\ resv = [n \in Attempts |-> "none"]
    /\ output = [n \in Attempts |-> {}]
    /\ exec = [a \in Actors |-> IdleExec]

Live(a) == exec[a].pc \notin {"idle", "gone"}
At(a, pc) == exec[a].pc = pc
Goto(a, pc) == exec' = [exec EXCEPT ![a].pc = pc]
GotoSeen(a, pc) == exec' = [exec EXCEPT ![a].pc = pc, ![a].seen = run]

rows == <<run, task, attempt, call, resv, output>>
others == <<job, stop, cancel>>

(***************************************************************************)
(* The job                                                                 *)
(***************************************************************************)
\* start_task_run enqueues in a second transaction; the sweep enqueues what a
\* crash between the two left without a job.
Enqueue ==
    /\ job.status = "absent"
    /\ job' = [job EXCEPT !.status = "pending"]
    /\ UNCHANGED <<rows, stop, cancel, exec>>

LeaseRanOut == job.status = "leased" /\ (FailStop => ~Live(job.holder))

Claim(e) ==
    /\ At(e, "idle")
    /\ job.status = "pending" \/ LeaseRanOut
    /\ job' = [status |-> "leased", holder |-> e]
    /\ Goto(e, "recover")
    /\ UNCHANGED <<rows, stop, cancel>>

\* The lane completes the job, DONE or FAILED, under its owner-and-token fence.
Finish(a) ==
    /\ exec[a].pc \in {"return", "raise"}
    /\ exec' = [exec EXCEPT ![a] = IF a \in Sweepers THEN IdleExec ELSE [IdleExec EXCEPT !.pc = "gone"]]
    /\ job' = IF job.holder = a
              THEN [job EXCEPT !.status = IF At(a, "return") THEN "done" ELSE "failed"]
              ELSE job
    /\ UNCHANGED <<rows, stop, cancel>>

(***************************************************************************)
(* Recovery before execution                                               *)
(***************************************************************************)
Begun == {n \in Attempts : attempt[n] /= "none"}
NextAttempt == IF Begun = {} THEN 1 ELSE Max(Begun) + 1

\* Mutant of CrossedBoundary: only a recorded success counts.
CrossedBoundaryOnSuccess == \E n \in Attempts : attempt[n] = "completed" \/ call[n] = "success"

\* A provider call was started, or succeeded, and the run was never finalized.
CrossedBoundary ==
    \E n \in Attempts : attempt[n] = "completed" \/ call[n] \in {"running", "success"}

\* Where recovery goes once no attempt is left running.
Resume(x) ==
    IF x.n > MaxAttempts THEN [x EXCEPT !.pc = "interrupt"]
    ELSE [x EXCEPT !.pc = "insert", !.guarded = TRUE]

Recover(e) ==
    /\ At(e, "recover")
    /\ LET read == [exec[e] EXCEPT !.seen = run, !.n = NextAttempt]
           running == {n \in Attempts : attempt[n] = "running"} IN
       exec' = [exec EXCEPT ![e] =
            IF run \in RunEnded THEN [read EXCEPT !.pc = "return"]
            ELSE IF CrossedBoundary THEN [read EXCEPT !.pc = "interrupt"]
            ELSE IF running /= {} THEN [read EXCEPT !.pc = "recoverFail", !.found = running]
            ELSE Resume(read)]
    /\ UNCHANGED <<rows, others>>

\* Each interrupted attempt is failed, if it still runs.
RecoverFail(e) ==
    /\ At(e, "recoverFail")
    /\ attempt' = [n \in Attempts |-> IF n \in exec[e].found /\ attempt[n] = "running"
                                      THEN "failed" ELSE attempt[n]]
    /\ Goto(e, "recoverRelease")
    /\ UNCHANGED <<run, task, call, resv, output, others>>

\* Every active reservation of the run is released.
RecoverRelease(e) ==
    /\ At(e, "recoverRelease")
    /\ resv' = [n \in Attempts |-> IF resv[n] = "active" THEN "released" ELSE resv[n]]
    /\ exec' = [exec EXCEPT ![e] = Resume(@)]
    /\ UNCHANGED <<run, task, attempt, call, output, others>>

\* _finalize_interrupted: open calls and running attempts of the run first.
Interrupt(a) ==
    /\ At(a, "interrupt")
    /\ IF run \in RunEnded
       THEN Goto(a, "return") /\ UNCHANGED <<attempt, call>>
       ELSE /\ Goto(a, "fail2")
            /\ call' = [n \in Attempts |-> IF call[n] = "running" THEN "interrupted" ELSE call[n]]
            /\ attempt' = [n \in Attempts |-> IF attempt[n] = "running" THEN "failed" ELSE attempt[n]]
    /\ UNCHANGED <<run, task, resv, output, others>>

\* Mutant of Sweep: a FAILED job is taken for one that may still run.
SweepDoneOnly(s) ==
    /\ At(s, "idle")
    /\ run \notin RunEnded
    /\ job.status = "done" \/ (job.status = "absent" /\ run /= "created")
    /\ Goto(s, "interrupt")
    /\ UNCHANGED <<rows, others>>

\* The sweep finalizes a workflow node's run that no job can ever finish.
Sweep(s) ==
    /\ At(s, "idle")
    /\ run \notin RunEnded
    /\ job.status \in {"done", "failed"} \/ (job.status = "absent" /\ run /= "created")
    /\ Goto(s, "interrupt")
    /\ UNCHANGED <<rows, others>>

(***************************************************************************)
(* One attempt                                                             *)
(***************************************************************************)

\* (agent_run_id, attempt_number) is unique: a second executor backs off.
InsertAttempt(e) ==
    /\ At(e, "insert")
    /\ LET n == exec[e].n IN
       IF attempt[n] = "none"
       THEN attempt' = [attempt EXCEPT ![n] = "running"] /\ Goto(e, "setRunning")
       ELSE Goto(e, "return") /\ UNCHANGED attempt
    /\ UNCHANGED <<run, task, call, resv, output, others>>

\* The one write of the run's status that is no compare-and-swap: it trusts
\* the status read before the attempt was inserted.
SetRunning(e) ==
    /\ At(e, "setRunning")
    /\ run' = IF exec[e].seen /= "running" THEN "running" ELSE run
    /\ exec' = [exec EXCEPT ![e].pc = "route", ![e].seen = "running"]
    /\ UNCHANGED <<task, attempt, call, resv, output, others>>

\* A cancellation observed at a checkpoint; a reservation is released first.
Cancelled(e, held) ==
    /\ stop
    /\ exec' = [exec EXCEPT ![e].pc = IF held THEN "release" ELSE "stop1",
                            ![e].next = "stop1", ![e].seen = run]

\* Model resolution: a routing error fails the run.
Route(e) ==
    /\ At(e, "route")
    /\ \/ Cancelled(e, FALSE)
       \/ ~stop /\ \E pc \in {"reserve", "fail1"} : GotoSeen(e, pc)
    /\ UNCHANGED <<rows, others>>

\* Budget reservation: beyond the hard threshold it is refused.
Reserve(e) ==
    /\ At(e, "reserve")
    /\ \/ Cancelled(e, FALSE) /\ UNCHANGED resv
       \/ ~stop /\ GotoSeen(e, "fail1") /\ UNCHANGED resv
       \/ ~stop /\ GotoSeen(e, "context") /\ resv' = [resv EXCEPT ![exec[e].n] = "active"]
    /\ UNCHANGED <<run, task, attempt, call, output, others>>

\* Prompt assembly: missing or oversized context fails the run.
Context(e) ==
    /\ At(e, "context")
    /\ \/ Cancelled(e, TRUE)
       \/ ~stop /\ GotoSeen(e, "preflight")
       \/ ~stop /\ exec' = [exec EXCEPT ![e].pc = "release", ![e].next = "fail1", ![e].seen = run]
    /\ UNCHANGED <<rows, others>>

\* The last look at the attempt and the run before the irreversible step.
Preflight(e) ==
    /\ At(e, "preflight")
    /\ \/ Cancelled(e, TRUE)
       \/ /\ ~stop
          /\ IF attempt[exec[e].n] /= "running" \/ run \in RunEnded
             THEN exec' = [exec EXCEPT ![e].pc = "release", ![e].next = "return", ![e].seen = run]
             ELSE GotoSeen(e, "startCall")
    /\ UNCHANGED <<rows, others>>

StartCall(e) ==
    /\ At(e, "startCall")
    /\ call' = [call EXCEPT ![exec[e].n] = "running"]
    /\ Goto(e, "invoke")
    /\ UNCHANGED <<run, task, attempt, resv, output, others>>

\* The provider answers, or fails in a way that may or may not be retried.
Invoke(e) ==
    /\ At(e, "invoke")
    /\ \/ Goto(e, "answered")
       \/ \E next \in {"retry", "fail1"} : exec' = [exec EXCEPT ![e].pc = "callError", ![e].next = next]
    /\ UNCHANGED <<rows, others>>

\* Mutant of RecordCall: the response is recorded whatever became of the call.
RecordCallAlways(e, status, won) ==
    /\ call' = [call EXCEPT ![exec[e].n] = status]
    /\ Goto(e, won)

\* Compare-and-swap of the open call; the loser was superseded.
RecordCall(e, status, won) ==
    IF call[exec[e].n] = "running"
    THEN call' = [call EXCEPT ![exec[e].n] = status] /\ Goto(e, won)
    ELSE Goto(e, IF status = "success" THEN "late" ELSE "return") /\ UNCHANGED call

Answered(e) ==
    /\ At(e, "answered")
    /\ RecordCall(e, "success", "settle")
    /\ UNCHANGED <<run, task, attempt, resv, output, others>>

CallError(e) ==
    /\ At(e, "callError")
    /\ RecordCall(e, "error", "release")
    /\ UNCHANGED <<run, task, attempt, resv, output, others>>

\* The spend is committed; a response that came too late ends there.
Settle(e) ==
    /\ exec[e].pc \in {"settle", "late"}
    /\ resv' = [resv EXCEPT ![exec[e].n] = "committed"]
    /\ Goto(e, IF At(e, "settle") THEN "usage" ELSE "return")
    /\ UNCHANGED <<run, task, attempt, call, output, others>>

Record(e, pc, what, next) ==
    /\ At(e, pc)
    /\ output' = [output EXCEPT ![exec[e].n] = @ \cup {what}]
    /\ Goto(e, next)
    /\ UNCHANGED <<run, task, attempt, call, resv, others>>

\* Mutant of RecordUsage: the attempt completes before its artifact is there.
RecordUsageOnly(e) == Record(e, "usage", "usage", "finishAttempt")

RecordUsage(e) == Record(e, "usage", "usage", "artifact")
CreateArtifact(e) == Record(e, "artifact", "artifact", "finishAttempt")

FinishAttempt(e) ==
    /\ At(e, "finishAttempt")
    /\ IF attempt[exec[e].n] = "running"
       THEN attempt' = [attempt EXCEPT ![exec[e].n] = "completed"] /\ Goto(e, "finishRun")
       ELSE Goto(e, "return") /\ UNCHANGED attempt
    /\ UNCHANGED <<run, task, call, resv, output, others>>

ReleaseReservation(e) ==
    /\ At(e, "release")
    /\ resv' = [resv EXCEPT ![exec[e].n] = "released"]
    /\ Goto(e, exec[e].next)
    /\ UNCHANGED <<run, task, attempt, call, output, others>>

\* A retryable provider failure: the attempt fails, and the next one starts
\* unless it was the last.
Retry(e) ==
    /\ At(e, "retry")
    /\ LET n == exec[e].n IN
       IF attempt[n] /= "running" THEN Goto(e, "return") /\ UNCHANGED attempt
       ELSE /\ attempt' = [attempt EXCEPT ![n] = "failed"]
            /\ exec' = [exec EXCEPT ![e] =
                    IF n = MaxAttempts THEN [@ EXCEPT !.pc = "fail2", !.guarded = FALSE]
                    ELSE [@ EXCEPT !.pc = "insert", !.n = n + 1]]
    /\ UNCHANGED <<run, task, call, resv, output, others>>

(***************************************************************************)
(* Finalization                                                            *)
(***************************************************************************)

\* The single authority for a run's end: only one actor moves it there.
ClaimRunTerminal(a, status, won) ==
    IF run \notin RunEnded
    THEN run' = status /\ Goto(a, won)
    ELSE Goto(a, "return") /\ UNCHANGED run

FinishRun(e) ==
    /\ At(e, "finishRun")
    /\ IF stop THEN Goto(e, "stop1") /\ UNCHANGED run ELSE ClaimRunTerminal(e, "completed", "verify")
    /\ UNCHANGED <<task, attempt, call, resv, output, others>>

SetTask(a, pc, status, next) ==
    /\ At(a, pc)
    /\ task' = status
    /\ Goto(a, next)
    /\ UNCHANGED <<run, attempt, call, resv, output, others>>

Verify(e) == SetTask(e, "verify", "verifying", "complete")
Complete(e) == SetTask(e, "complete", "completed", "return")

\* Mutant of FailAttempt: the attempt is left running.
FailAttemptKeeps(e) ==
    /\ At(e, "fail1")
    /\ Goto(e, "fail2")
    /\ UNCHANGED <<run, task, attempt, call, resv, output, others>>

\* _finalize_failed: the attempt, the run, the Task Run.
FailAttempt(e) ==
    /\ At(e, "fail1")
    /\ attempt' = [attempt EXCEPT ![exec[e].n] = IF @ = "running" THEN "failed" ELSE @]
    /\ Goto(e, "fail2")
    /\ UNCHANGED <<run, task, call, resv, output, others>>

FailRun(a) ==
    /\ At(a, "fail2")
    /\ ClaimRunTerminal(a, "failed", "fail3")
    /\ UNCHANGED <<task, attempt, call, resv, output, others>>

FailTask(a) == SetTask(a, "fail3", "failed", "return")

\* _finalize_cancelled: the run, the attempt (whatever its status), the Task Run.
StopRun(e) ==
    /\ At(e, "stop1")
    /\ ClaimRunTerminal(e, "stopped", "stop2")
    /\ UNCHANGED <<task, attempt, call, resv, output, others>>

StopAttempt(e) ==
    /\ At(e, "stop2")
    /\ attempt' = [attempt EXCEPT ![exec[e].n] = "failed"]
    /\ Goto(e, "stop3")
    /\ UNCHANGED <<run, task, call, resv, output, others>>

StopTask(e) == SetTask(e, "stop3", "cancelled", "return")

(***************************************************************************)
(* What goes wrong                                                         *)
(***************************************************************************)
\* A database error or a bug: the open transaction is rolled back, and the
\* last-resort handler of execute() takes over if it is still ahead.
UnexpectedError(a) ==
    /\ a \notin Reliable
    /\ exec[a].pc \in AttemptSteps \cup FinalizeSteps \cup OutsideSteps
    /\ exec' = [exec EXCEPT ![a].pc = IF @ = "dangling" \/ ~exec[a].guarded THEN "raise" ELSE "dangling",
                            ![a].guarded = FALSE]
    /\ UNCHANGED <<rows, others>>

\* The handler fails whatever attempt still runs, then the run.
FailDangling(e) ==
    /\ At(e, "dangling")
    /\ attempt' = [n \in Attempts |-> IF attempt[n] = "running" THEN "failed" ELSE attempt[n]]
    /\ Goto(e, "fail2")
    /\ UNCHANGED <<run, task, call, resv, output, others>>

Crash(a) ==
    /\ a \notin Reliable
    /\ Live(a)
    /\ exec' = [exec EXCEPT ![a] = IF a \in Sweepers THEN IdleExec ELSE [IdleExec EXCEPT !.pc = "gone"]]
    /\ UNCHANGED <<rows, others>>

(***************************************************************************)
(* Cancellation requests                                                   *)
(***************************************************************************)
\* cancel_task_run reads the Task Run and rejects one that has ended ...
CancelCheck ==
    /\ cancel = "idle"
    /\ task \notin TaskEnded \cup {"cancelling"}
    /\ cancel' = "checked"
    /\ UNCHANGED <<rows, job, stop, exec>>

\* ... and then writes what it decided on that reading.
CancelWrite ==
    /\ cancel = "checked"
    /\ cancel' = "done"
    /\ stop' = TRUE
    /\ task' = "cancelling"
    /\ UNCHANGED <<run, attempt, call, resv, output, job, exec>>

\* The workflow engine asks one node's Agent Run to stop.
CancelAgentRun ==
    /\ Sweepers /= {}
    /\ ~stop /\ run \notin RunEnded
    /\ stop' = TRUE
    /\ UNCHANGED <<rows, job, cancel, exec>>

(***************************************************************************)
(* The system                                                              *)
(***************************************************************************)
RecoveryStep(e) == Recover(e) \/ RecoverFail(e) \/ RecoverRelease(e)

AttemptStep(e) ==
    \/ InsertAttempt(e) \/ SetRunning(e) \/ Route(e) \/ Reserve(e) \/ Context(e)
    \/ Preflight(e) \/ StartCall(e) \/ Invoke(e) \/ Answered(e) \/ CallError(e)
    \/ Settle(e) \/ RecordUsage(e) \/ CreateArtifact(e) \/ FinishAttempt(e)
    \/ ReleaseReservation(e) \/ Retry(e)

FinalizeStep(e) ==
    \/ FinishRun(e) \/ Verify(e) \/ Complete(e)
    \/ FailAttempt(e) \/ StopRun(e) \/ StopAttempt(e) \/ StopTask(e) \/ FailDangling(e)

SharedStep(a) == Interrupt(a) \/ FailRun(a) \/ FailTask(a) \/ Finish(a)

Step(a) ==
    \/ a \in Executors /\ (RecoveryStep(a) \/ AttemptStep(a) \/ FinalizeStep(a))
    \/ SharedStep(a)

Next ==
    \/ Enqueue
    \/ \E e \in Executors : Claim(e)
    \/ \E s \in Sweepers : Sweep(s)
    \/ \E a \in Actors : Step(a) \/ UnexpectedError(a) \/ Crash(a)
    \/ CancelCheck \/ CancelWrite \/ CancelAgentRun

Spec == Init /\ [][Next]_vars

\* Lanes keep running, the queue hands an open job to a lane, and the sweep
\* (which also enqueues a missing job) comes round again and again.
Fairness ==
    /\ \A a \in Actors : WF_vars(Step(a))
    /\ \A e \in Executors : WF_vars(Claim(e))
    /\ \A s \in Sweepers : WF_vars(Sweep(s))
    /\ Sweepers /= {} => WF_vars(Enqueue)

FairSpec == Spec /\ Fairness
(***************************************************************************)
(* Properties                                                              *)
(***************************************************************************)
\* Rows and memory have the types of their columns and variables.
TypeOK ==
    /\ job \in [status : {"absent", "pending", "leased", "done", "failed"}, holder : Executors \cup {NoOne}]
    /\ run \in {"created", "running"} \cup RunEnded
    /\ task \in {"queued", "verifying", "cancelling"} \cup TaskEnded
    /\ stop \in BOOLEAN
    /\ cancel \in {"idle", "checked", "done"}
    /\ attempt \in [Attempts -> {"none", "running", "completed", "failed"}]
    /\ call \in [Attempts -> {"none", "running", "success", "error", "interrupted"}]
    /\ resv \in [Attempts -> {"none", "active", "released", "committed"}]
    /\ output \in [Attempts -> SUBSET {"usage", "artifact"}]
    /\ exec \in [Actors -> Exec]

\* The provider is never called again while an earlier call of the run may have
\* been served: a later attempt calls it only after a recorded failure.
ProviderNotReplayed ==
    \A m, n \in Attempts : m < n /\ call[n] /= "none" => call[m] \in {"none", "error"}

\* A COMPLETED run has an attempt whose call succeeded, whose spend is
\* committed, and whose usage and artifact were recorded before.
Backed(n) ==
    /\ attempt[n] = "completed" /\ call[n] = "success"
    /\ resv[n] = "committed" /\ output[n] = {"usage", "artifact"}

CompletedIsBacked == run = "completed" => \E n \in Attempts : Backed(n)

\* The inductive strengthening behind CompletedIsBacked and VerdictStands, with
\* no assumption on leases: the unique attempt number makes an executor the
\* only one to work on its attempt, and every commit it has passed is still in
\* the rows, whatever recovery and other executors did meanwhile.
Works(e) == exec[e].pc \in AttemptSteps \ {"insert", "verify", "complete"}
Past(e, steps) == exec[e].pc \in steps

UnbegunIsBlank == \A n \in Attempts : attempt[n] = "none" => call[n] = "none"

NumbersAreAttempts(e) ==
    /\ Past(e, {"recoverFail", "recoverRelease"}) => exec[e].n > 0
    /\ Past(e, {"insert"}) => exec[e].n \in Attempts
    /\ Works(e) => exec[e].n \in Attempts /\ attempt[exec[e].n] /= "none"

WorksAlone(e) == \A f \in Executors \ {e} : Works(e) /\ Works(f) => exec[e].n /= exec[f].n

ProgressIsRecorded(e) ==
    LET n == exec[e].n IN
    /\ Past(e, {"setRunning", "route", "reserve", "context", "preflight", "startCall"}) => call[n] = "none"
    /\ Past(e, {"settle", "usage", "artifact", "finishAttempt", "finishRun"}) => call[n] = "success"
    /\ Past(e, {"usage", "artifact", "finishAttempt", "finishRun"}) => resv[n] = "committed"
    /\ Past(e, {"artifact", "finishAttempt", "finishRun"}) => "usage" \in output[n]
    /\ Past(e, {"finishAttempt", "finishRun"}) => "artifact" \in output[n]
    /\ Past(e, {"finishRun"}) => attempt[n] = "completed"

CompletedForGood ==
    run = "completed" =>
        \E n \in Attempts : Backed(n) /\ \A e \in Executors : Works(e) => exec[e].n /= n

BackingInv ==
    /\ TypeOK
    /\ UnbegunIsBlank
    /\ \A e \in Executors : NumbersAreAttempts(e) /\ WorksAlone(e) /\ ProgressIsRecorded(e)
    /\ CompletedForGood

\* A run that completed or failed leaves no attempt RUNNING, through crashes
\* and recovery: the attempt is closed before the run.
EndedRunHasNoOpenAttempt ==
    run \in {"completed", "failed"} => \A n \in Attempts : attempt[n] /= "running"

\* Recovery's verdict stands: a failed attempt or call is never revived, and
\* the response of a call recorded as interrupted is never turned into output,
\* even when the worker that made it lost its lease and still runs.
VerdictStands ==
    [][\A n \in Attempts :
        /\ attempt[n] = "failed" => attempt'[n] = "failed"
        /\ call[n] \in {"error", "interrupted"} => call'[n] = call[n] /\ output'[n] = output[n]]_vars

\* The run is an at-most-once provider call with known-failure retries.
Abstract == INSTANCE OneProviderCall WITH
    MaxCalls <- MaxAttempts,
    verdict <- IF run \in RunEnded THEN run ELSE "open",
    calls <- Cardinality({n \in Attempts : call[n] /= "none"}),
    pending <- \E n \in Attempts : call[n] \in {"running", "success", "interrupted"}

IsOneProviderCall == Abstract!CallSpec

\* The Task Run's end never contradicts the Agent Run's: whoever loses the race
\* to end the run does not go on to end the Task Run its own way.
TaskFollowsRun ==
    /\ task \in {"verifying", "completed"} => run = "completed"
    /\ task = "failed" => run = "failed"
    /\ task = "cancelled" => run = "stopped"

\* What holds of the rows after every commit, however often a worker was
\* replaced, as long as a worker that has lost its lease has stopped: the run,
\* its attempts, its calls and its Task Run, which end in different commits of
\* different workers, never contradict each other.
RecoveryInv ==
    /\ TypeOK
    /\ EndedRunHasNoOpenAttempt
    /\ ProviderNotReplayed
    /\ TaskFollowsRun

\* A workflow node's run always ends: executors crash or give up, the job is
\* lost, the sweep and recovery finish it nevertheless.
RunEnds == run = "created" ~> run \in RunEnded
=============================================================================
