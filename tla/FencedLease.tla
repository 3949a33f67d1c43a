---------------------------- MODULE FencedLease ----------------------------
(***************************************************************************)
(* What the job queue promises its callers, with no clock, no lease and no *)
(* SQL: a job is granted any number of times, every grant opens a new      *)
(* epoch, and only the holder of the newest grant may hand the job back or *)
(* close it.  A closed job is never granted again.                         *)
(***************************************************************************)
EXTENDS Integers

CONSTANTS
    Jobs,       \* every job that is ever submitted
    Workers,    \* every worker identity that ever exists
    None        \* no grant

VARIABLES
    state,      \* state[j]: where job j stands
    epoch,      \* epoch[j]: how often j has been granted
    grant       \* grant[w]: the grant w works under, a <<job, epoch>> pair

absVars == <<state, epoch, grant>>

JobState == {"absent", "pending", "leased", "done", "failed"}

FLInit ==
    /\ state = [j \in Jobs |-> "absent"]
    /\ epoch = [j \in Jobs |-> 0]
    /\ grant = [w \in Workers |-> None]

Submit(j) ==
    /\ state[j] = "absent"
    /\ state' = [state EXCEPT ![j] = "pending"]
    /\ UNCHANGED <<epoch, grant>>

\* A job that is open, or whose holder is given up on, goes to worker w.
Grant(w, j) ==
    /\ grant[w] = None
    /\ state[j] \in {"pending", "leased"}
    /\ state' = [state EXCEPT ![j] = "leased"]
    /\ epoch' = [epoch EXCEPT ![j] = @ + 1]
    /\ grant' = [grant EXCEPT ![w] = <<j, epoch[j] + 1>>]

\* The newest grant's holder hands the job back ("pending") or closes it.
Settle(w, j, s) ==
    /\ grant[w] = <<j, epoch[j]>>
    /\ state[j] = "leased"
    /\ s \in {"pending", "done", "failed"}
    /\ state' = [state EXCEPT ![j] = s]
    /\ grant' = [grant EXCEPT ![w] = None]
    /\ UNCHANGED epoch

\* Workers stop, crash or learn that they were superseded: no job changes.
Forfeit(W) ==
    /\ grant' = [w \in Workers |-> IF w \in W THEN None ELSE grant[w]]
    /\ UNCHANGED <<state, epoch>>

FLNext ==
    \/ \E j \in Jobs : Submit(j)
    \/ \E w \in Workers, j \in Jobs : Grant(w, j)
    \/ \E w \in Workers, j \in Jobs, s \in {"pending", "done", "failed"} : Settle(w, j, s)
    \/ \E W \in SUBSET Workers : Forfeit(W)

FLSpec == FLInit /\ [][FLNext]_absVars
=============================================================================
