----------------------------- MODULE Comparison -----------------------------
(***************************************************************************)
(* A parallel comparison (app/services/comparison_service.py,              *)
(* comparison_progress_service.py): its candidates are Task Runs of        *)
(* ReviewCycle that one launch starts, a lane that ends a candidate looks  *)
(* whether it was the last one, and a person picks the winner.  The status *)
(* of the comparison has four writers (the launch, the cancellation, the   *)
(* selection and the notified lanes), each of which checked it earlier.    *)
(* Every run is a candidate; a comparison has at least two.                *)
(***************************************************************************)
EXTENDS ReviewCycle

VARIABLES
    cmp,        \* comparison_runs: status, cancellation_requested_at, winner
    launch,     \* where the request handler of launch_comparison stands
    select,     \* that of select_canonical, and its candidate
    stopping    \* that of cancel_comparison, and the candidates it has left

cmpVars == <<cmp, launch, select, stopping>>
allVars == <<vars, cmpVars>>

CmpEnded == {"completed", "failed", "cancelled"}

CmpInit ==
    /\ Init
    /\ cmp = [status |-> "none", cancel |-> FALSE, winner |-> NoRun]
    /\ launch = [pc |-> "idle", next |-> 1]
    /\ select = NoRun
    /\ stopping = [pc |-> "idle", todo |-> {}]

\* Checked as a whole before one transaction writes it.
CreateComparison ==
    /\ cmp.status = "none" /\ NRuns >= 2
    /\ \A r \in Runs : origin[r] = "none"
    /\ cmp' = [cmp EXCEPT !.status = "pending"]
    /\ UNCHANGED <<vars, launch, select, stopping>>

(***************************************************************************)
(* Launching: each launched candidate is one commit, its job another       *)
(***************************************************************************)
Launch(pc, next) == launch' = [pc |-> pc, next |-> next]

LaunchRead ==
    /\ launch.pc = "idle"
    /\ cmp.status = "pending"
    /\ Launch("candidate", 1)
    /\ UNCHANGED <<vars, cmp, select, stopping>>

\* An Agent Version that is no longer ACTIVE ends the launch where it is.
LaunchCandidate ==
    /\ launch.pc = "candidate" /\ launch.next <= NRuns
    /\ \/ Begun(launch.next, "candidate") /\ Launch("job", launch.next)
       \/ Launch("gone", launch.next) /\ UNCHANGED vars
    /\ UNCHANGED <<cmp, select, stopping>>

LaunchJob ==
    /\ launch.pc = "job"
    /\ FirstJob(launch.next)
    /\ Launch("candidate", launch.next + 1)
    /\ UNCHANGED <<cmp, select, stopping>>

LaunchDone ==
    /\ launch.pc = "candidate" /\ launch.next > NRuns
    /\ cmp' = [cmp EXCEPT !.status = "running"]
    /\ Launch("gone", launch.next)
    /\ UNCHANGED <<vars, select, stopping>>

(***************************************************************************)
(* compute_comparison_phase                                                *)
(***************************************************************************)
Linked(r) == origin[r] = "candidate"
AllEnded == \A r \in Runs : Linked(r) /\ task[r].status \in TaskEnded
AnyCompleted == \E r \in Runs : task[r].status = "completed"

\* Mutant of Phase: only the candidates are looked at.
PhaseOfCandidates ==
    IF cmp.status \in CmpEnded THEN cmp.status
    ELSE IF ~AllEnded THEN "running"
    ELSE IF AnyCompleted THEN "ready_for_selection" ELSE "failed"
Phase ==
    IF cmp.status \in {"pending"} \cup CmpEnded THEN cmp.status
    ELSE IF ~AllEnded THEN "running"
    ELSE IF AnyCompleted THEN "ready_for_selection" ELSE "failed"

(***************************************************************************)
(* Selecting                                                               *)
(***************************************************************************)
\* _candidate_artifact: the accepted one, or what the first Agent Run produced.
Produced(r) == IF r \in Reviewed THEN task[r].final /= None \/ stage[r].k > 1
               ELSE stage[r].call = "success"

Selectable(r) == Phase = "ready_for_selection" /\ task[r].status = "completed" /\ Produced(r)

SelectRead(r) ==
    /\ select = NoRun
    /\ Selectable(r)
    /\ select' = r
    /\ UNCHANGED <<vars, cmp, launch, stopping>>

SelectWrite ==
    /\ select /= NoRun
    /\ cmp' = [cmp EXCEPT !.status = "completed", !.winner = select]
    /\ select' = NoRun
    /\ UNCHANGED <<vars, launch, stopping>>

(***************************************************************************)
(* Cancelling                                                              *)
(***************************************************************************)
Stopping(pc, todo) == stopping' = [pc |-> pc, todo |-> todo]

StopRead ==
    /\ stopping.pc = "idle"
    /\ cmp.status \in {"pending", "running"} /\ ~cmp.cancel
    /\ Stopping(cmp.status, {})
    /\ UNCHANGED <<vars, cmp, launch, select>>

\* Read as PENDING: CANCELLED at once, as if nothing had been launched.
StopPending ==
    /\ stopping.pc = "pending"
    /\ cmp' = [cmp EXCEPT !.cancel = TRUE, !.status = "cancelled"]
    /\ Stopping("idle", {})
    /\ UNCHANGED <<vars, launch, select>>

\* Read as RUNNING: the request, then cancel_task_run for each candidate.
StopRunning ==
    /\ stopping.pc = "running"
    /\ cmp' = [cmp EXCEPT !.cancel = TRUE]
    /\ Stopping("candidates", {r \in Runs : Linked(r)})
    /\ UNCHANGED <<vars, launch, select>>

\* One candidate; InvalidStateTransitionError is ignored.
StopCandidate ==
    /\ stopping.pc = "candidates"
    /\ \/ stopping.todo = {} /\ Stopping("idle", {}) /\ UNCHANGED vars
       \/ \E r \in stopping.todo :
            /\ Stopping("candidates", stopping.todo \ {r})
            /\ IF Cancellable(r) THEN CancelRead(r) ELSE UNCHANGED vars
    /\ UNCHANGED <<cmp, launch, select>>

(***************************************************************************)
(* notify_task_run_terminal, in the lane that ended a candidate            *)
(***************************************************************************)
\* The comparison is read here, and events are committed before it is used.
Notify(w) ==
    /\ At(w, "notify") /\ Linked(Run(w))
    /\ lane' = [lane EXCEPT ![w].pc = "transition", ![w].saw = cmp.cancel]
    /\ UNCHANGED <<origin, task, stage, reviews, budget, asks, crashes, cmpVars>>

\* The lane's own Task Run is the one in its session, the others are read.
StatusSeen(w, r) == IF r = Run(w) THEN lane[w].wrote ELSE task[r].status
AllSeenEnded(w) == \A r \in Runs : Linked(r) /\ StatusSeen(w, r) \in TaskEnded
\* Mutant of AnySeenCompleted: the lane judges by the run it ended.
OwnCompleted(w) == lane[w].wrote = "completed"
AnySeenCompleted(w) == \E r \in Runs : StatusSeen(w, r) = "completed"

\* _maybe_transition_comparison
Transition(w) ==
    /\ At(w, "transition")
    /\ cmp' = IF ~AllSeenEnded(w) THEN cmp
              ELSE IF lane[w].saw THEN [cmp EXCEPT !.status = "cancelled"]
              ELSE IF AnySeenCompleted(w) THEN cmp
              ELSE [cmp EXCEPT !.status = "failed"]
    /\ Release(w)
    /\ UNCHANGED <<origin, task, reviews, budget, asks, crashes, launch, select, stopping>>

\* Bounds: Task Runs are started by requests only where no comparison is
\* created, and a candidate is cancelled only through its comparison.
CmpNext ==
    \/ cmp.status = "none" /\ Next /\ UNCHANGED cmpVars
    \/ /\ cmp.status /= "none" /\ UNCHANGED cmpVars
       /\ \/ \E r \in Runs : CancelWrite(r)
          \/ \E w \in Lanes, r \in Runs : Claim(w, r)
          \/ \E w \in Lanes : Step(w) \/ Crash(w)
    \/ CreateComparison
    \/ LaunchRead \/ LaunchCandidate \/ LaunchJob \/ LaunchDone
    \/ \E r \in Runs : SelectRead(r)
    \/ SelectWrite
    \/ StopRead \/ StopPending \/ StopRunning \/ StopCandidate
    \/ \E w \in Lanes : Notify(w) \/ Transition(w)

CmpSpec == CmpInit /\ [][CmpNext]_allVars

\* A lane that polls finds a queued job and works it off; the handler that
\* started a Task Run goes on to enqueue its job.
CmpFairSpec ==
    /\ CmpSpec
    /\ \A w \in Lanes :
         /\ WF_allVars((Step(w) /\ UNCHANGED cmpVars) \/ Notify(w) \/ Transition(w))
         /\ WF_allVars(\E r \in Runs : Claim(w, r) /\ UNCHANGED cmpVars)
    /\ WF_allVars(\E r \in Runs : EnqueueTaskRun(r) /\ UNCHANGED cmpVars)

(***************************************************************************)
(* Properties                                                              *)
(***************************************************************************)
\* The types of the comparison and of its handlers, over those of the runs.
ComparisonTypeOK ==
    /\ ReviewTypeOK
    /\ cmp \in [status : {"none", "pending", "running"} \cup CmpEnded, cancel : BOOLEAN,
                winner : Runs \cup {NoRun}]
    /\ launch \in [pc : {"idle", "candidate", "job", "gone"}, next : 1 .. NRuns + 1]
    /\ select \in Runs \cup {NoRun}
    /\ stopping \in [pc : {"idle", "pending", "running", "candidates"}, todo : SUBSET Runs]

Delivered(r) == IF r \in Reviewed THEN task[r].final /= None
                ELSE stage[r].status = "completed"

\* A selected candidate finished its work: accepted by its reviewer if it has
\* one, and its Agent Run COMPLETED, whatever its Task Run's status has been
\* overwritten with since.
WinnerWasDelivered == cmp.winner /= NoRun => Delivered(cmp.winner)

\* A comparison is failed only when no candidate is left to select: the lane
\* that decides it ended one candidate and reads the others' statuses.
FailedHasNoSurvivor == cmp.status = "failed" => \A r \in Runs : ~Delivered(r)

\* The verdict of a comparison agrees with what its candidates have done, though
\* lanes, a launch, a selection and a cancellation all write its status.
OutcomeInv ==
    /\ ComparisonTypeOK
    /\ WinnerWasDelivered
    /\ FailedHasNoSurvivor

\* A person's choice stands: nothing that was under way when it was made (a
\* launch, a late notification) changes the status or the winner, as long as
\* nobody has asked for a cancellation.
SelectionStands ==
    [][cmp.status = "completed" /\ ~cmp'.cancel => cmp'.status = "completed" /\ cmp'.winner = cmp.winner]_allVars

\* "must still leave the Agent Run / Task Run in a terminal state rather than
\* stuck RUNNING forever" (execute's last-resort handler): a candidate that a
\* worker can claim is ended, if no worker dies.
CandidatesConclude ==
    \A r \in Runs :
        (origin[r] = "candidate" /\ stage[r].status = "created" /\ stage[r].job = "queued")
            ~> (task[r].status \in TaskEnded \/ crashes > 0)
=============================================================================
