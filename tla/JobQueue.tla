------------------------------ MODULE JobQueue ------------------------------
(***************************************************************************)
(* The durable job queue (app/repositories/job_queue_repository.py) and    *)
(* the worker lanes that claim from it (app/worker.py).  Every repository  *)
(* method is one short SQLite transaction, so every commit is one step;    *)
(* claim_one is three: the SELECT of a candidate, the compare-and-swap     *)
(* UPDATE, and the re-read of the claimed row after the commit.            *)
(*                                                                         *)
(* A lane is a thread with a worker id of its own (a uuid, never reused),  *)
(* so a restarted process brings new lanes.  What a job does is abstracted *)
(* to its shape: how often it heartbeats and what it may report.           *)
(***************************************************************************)
EXTENDS Integers

CONSTANTS
    Jobs,           \* rows of job_queue, one per unique (job_type, payload_ref)
    Kind,           \* Kind[j]: the job type, "unsupported" for one a lane cannot run
    Lanes,          \* worker ids
    Processes,      \* worker processes
    ProcessOf,      \* ProcessOf[w]: the process lane w is a thread of
    Reliable,       \* processes that neither crash nor are shut down
    Lease,          \* worker_lease_seconds, in ticks
    RunLease,       \* an agent run's timeout_seconds + 60, in ticks
    Iterations,     \* internal_test_iterations
    NoOne,          \* a null lease_owner / no job
    MaxClock,       \* bound: the last tick
    MaxToken        \* bound: a row is claimed at most this often

Kinds == {"internal_test", "agent_run", "evaluation", "unsupported"}

ASSUME JobQueueAssumption ==
    /\ Kind \in [Jobs -> Kinds]
    /\ ProcessOf \in [Lanes -> Processes]
    /\ Lease \in Nat \ {0}
    /\ RunLease \in Nat \ {0}
    /\ Iterations \in Nat
    /\ NoOne \notin Jobs \cup Lanes
    /\ MaxClock \in Nat
    /\ MaxToken \in Nat

VARIABLES
    queue,          \* queue[j]: the row of job j
    lane,           \* lane[w]: what lane w holds in memory
    shutdown,       \* processes whose shutdown event is set
    clock           \* the time utcnow() returns

vars == <<queue, lane, shutdown, clock>>

(***************************************************************************)
(* Rows and lanes                                                          *)
(***************************************************************************)
Status == {"absent", "pending", "leased", "done", "failed"}

Row == [status : Status, owner : Lanes \cup {NoOne}, expires : Nat,
        token : Nat, created : Nat]

NoRow == [status |-> "absent", owner |-> NoOne, expires |-> 0, token |-> 0, created |-> 0]

\* seen is the fencing token of the re-read row and the one every later write
\* carries; won (the token the lane's own UPDATE produced) and deadline (until
\* when its lease runs, as far as the lane can know) are history the
\* properties speak about.
Lane == [pc : {"off", "idle", "selected", "won", "checkpoint", "heartbeat",
               "run", "settle", "gone"},
         job : Jobs \cup {NoOne}, now : Nat, seen : Nat, won : Nat,
         deadline : Nat, beats : Nat, write : {"pending", "done", "failed"}]

BlankLane == [pc |-> "off", job |-> NoOne, now |-> 0, seen |-> 0, won |-> 0,
              deadline |-> 0, beats |-> 0, write |-> "pending"]
IdleLane == [BlankLane EXCEPT !.pc = "idle"]
GoneLane == [BlankLane EXCEPT !.pc = "gone"]

\* The lane won a claim and has not finished processing it.
Active(w) == lane[w].pc \in {"won", "checkpoint", "heartbeat", "run", "settle"}

\* Mutant of Claimable: only pending rows are claimed, expired leases are not.
ClaimablePendingOnly(j, now) == queue[j].status = "pending"

Claimable(j, now) ==
    \/ queue[j].status = "pending"
    \/ queue[j].status = "leased" /\ queue[j].expires < now

\* Mutant of Holds: the WHERE clause forgets the owner.
HoldsByTokenOnly(w) == queue[lane[w].job].token = lane[w].seen

\* WHERE lease_owner = :worker_id AND fencing_token = :fencing_token
Holds(w) ==
    LET row == queue[lane[w].job] IN row.owner = w /\ row.token = lane[w].seen

HeartbeatLease(j) == IF Kind[j] = "agent_run" THEN RunLease ELSE Lease

Init ==
    /\ queue = [j \in Jobs |-> NoRow]
    /\ lane = [w \in Lanes |-> BlankLane]
    /\ shutdown = {}
    /\ clock = 0

(***************************************************************************)
(* The services that enqueue                                               *)
(***************************************************************************)
Enqueue(j) ==
    /\ queue[j].status = "absent"
    /\ queue' = [queue EXCEPT ![j] = [NoRow EXCEPT !.status = "pending", !.created = clock]]
    /\ UNCHANGED <<lane, shutdown, clock>>

(***************************************************************************)
(* claim_one                                                               *)
(***************************************************************************)
\* SELECT the oldest claimable row; created_at ties are broken arbitrarily.
ClaimSelect(w) ==
    /\ lane[w].pc = "idle"
    /\ ProcessOf[w] \notin shutdown
    /\ \E j \in Jobs :
        /\ Claimable(j, clock)
        /\ \A k \in Jobs : Claimable(k, clock) => queue[j].created <= queue[k].created
        /\ lane' = [lane EXCEPT ![w] = [IdleLane EXCEPT !.pc = "selected", !.job = j, !.now = clock]]
    /\ UNCHANGED <<queue, shutdown, clock>>

\* The UPDATE that takes the row: owner, lease and the next fencing token.
Claimed(row, w, now) ==
    [status |-> "leased", owner |-> w, expires |-> now + Lease,
     token |-> row.token + 1, created |-> row.created]

\* A lane whose UPDATE took a row.
Winner(l, token) ==
    [pc |-> "won", job |-> l.job, now |-> 0, seen |-> l.seen, won |-> token,
     deadline |-> l.now + Lease, beats |-> l.beats, write |-> l.write]

\* Mutant of ClaimUpdate: the UPDATE trusts the SELECT and re-checks nothing.
ClaimUpdateUnchecked(w) ==
    /\ lane[w].pc = "selected"
    /\ queue[lane[w].job].token < MaxToken
    /\ queue' = [queue EXCEPT ![lane[w].job] = Claimed(@, w, lane[w].now)]
    /\ lane' = [lane EXCEPT ![w] = Winner(@, queue[lane[w].job].token + 1)]
    /\ UNCHANGED <<shutdown, clock>>

\* The UPDATE re-checks the row against the "now" read before the SELECT.
ClaimUpdate(w) ==
    /\ lane[w].pc = "selected"
    /\ LET j == lane[w].job IN
        \/ /\ Claimable(j, lane[w].now)
           /\ queue[j].token < MaxToken
           /\ queue' = [queue EXCEPT ![j] = Claimed(@, w, lane[w].now)]
           /\ lane' = [lane EXCEPT ![w] = Winner(@, queue[j].token + 1)]
        \/ /\ ~Claimable(j, lane[w].now)
           /\ lane' = [lane EXCEPT ![w] = IdleLane]
           /\ UNCHANGED queue
    /\ UNCHANGED <<shutdown, clock>>

\* The row is read again after the commit, in whatever state it now is, and
\* the job is dispatched on its type.
ClaimReadBack(w) ==
    /\ lane[w].pc = "won"
    /\ LET j == lane[w].job IN
       lane' = [lane EXCEPT ![w] = [@ EXCEPT
                    !.seen = queue[j].token,
                    !.pc = CASE Kind[j] = "internal_test" -> "checkpoint"
                             [] Kind[j] = "agent_run"     -> "heartbeat"
                             [] Kind[j] = "evaluation"    -> "run"
                             [] OTHER                     -> "settle"]]
    /\ UNCHANGED <<queue, shutdown, clock>>

(***************************************************************************)
(* Processing a claimed job                                                *)
(***************************************************************************)
\* An internal-test job looks at the shutdown event before every iteration.
Checkpoint(w) ==
    /\ lane[w].pc = "checkpoint"
    /\ lane' = [lane EXCEPT ![w] = [@ EXCEPT
            !.pc    = IF lane[w].beats < Iterations /\ ProcessOf[w] \notin shutdown
                      THEN "heartbeat" ELSE "settle",
            !.write = IF lane[w].beats < Iterations THEN "pending" ELSE "done"]]
    /\ UNCHANGED <<queue, shutdown, clock>>

\* An honored heartbeat: on with the agent run, or with the next iteration.
AfterBeat(l, until) ==
    [pc |-> IF Kind[l.job] = "agent_run" THEN "run" ELSE "checkpoint",
     job |-> l.job, now |-> l.now, seen |-> l.seen, won |-> l.won,
     deadline |-> until, beats |-> l.beats + 1, write |-> l.write]

\* The heartbeat moves the expiry whatever the row's status and whether or
\* not the lease had lapsed; a lane whose claim was superseded walks away.
Heartbeat(w) ==
    /\ lane[w].pc = "heartbeat"
    /\ LET j == lane[w].job IN
        \/ /\ Holds(w)
           /\ queue' = [queue EXCEPT ![j].expires = clock + HeartbeatLease(j)]
           /\ lane' = [lane EXCEPT ![w] = AfterBeat(@, clock + HeartbeatLease(j))]
        \/ /\ ~Holds(w)
           /\ lane' = [lane EXCEPT ![w] = IdleLane]
           /\ UNCHANGED queue
    /\ UNCHANGED <<shutdown, clock>>

\* The execution service returns, or raises.
Run(w) ==
    /\ lane[w].pc = "run"
    /\ \E outcome \in {"done", "failed"} :
        lane' = [lane EXCEPT ![w] = [@ EXCEPT !.pc = "settle", !.write = outcome]]
    /\ UNCHANGED <<queue, shutdown, clock>>

\* Mutant of SettleJob: the completion is written without the fence.
SettleJobUnfenced(w) ==
    /\ lane[w].pc = "settle"
    /\ queue' = [queue EXCEPT ![lane[w].job].status = lane[w].write]
    /\ lane' = [lane EXCEPT ![w] = IdleLane]
    /\ UNCHANGED <<shutdown, clock>>

\* complete(), also called by _release with status PENDING.
SettleJob(w) ==
    /\ lane[w].pc = "settle"
    /\ queue' = IF Holds(w)
                THEN [queue EXCEPT ![lane[w].job].status = lane[w].write]
                ELSE queue
    /\ lane' = [lane EXCEPT ![w] = IdleLane]
    /\ UNCHANGED <<shutdown, clock>>

(***************************************************************************)
(* Worker processes                                                        *)
(***************************************************************************)
StartProcess(p) ==
    /\ \E w \in Lanes : ProcessOf[w] = p /\ lane[w].pc = "off"
    /\ lane' = [w \in Lanes |-> IF ProcessOf[w] = p /\ lane[w].pc = "off" THEN IdleLane ELSE lane[w]]
    /\ UNCHANGED <<queue, shutdown, clock>>

RequestShutdown(p) ==
    /\ p \notin Reliable \cup shutdown
    /\ shutdown' = shutdown \cup {p}
    /\ UNCHANGED <<queue, lane, clock>>

\* The lane loop ends between two jobs.
StopLane(w) ==
    /\ lane[w].pc = "idle"
    /\ ProcessOf[w] \in shutdown
    /\ lane' = [lane EXCEPT ![w] = GoneLane]
    /\ UNCHANGED <<queue, shutdown, clock>>

\* Bound: a lane is lost only while its lease still lapses before the last tick.
LapsesInTime(w) ==
    \A j \in Jobs : queue[j].owner = w /\ queue[j].status = "leased" => queue[j].expires < MaxClock

\* An unexpected exception ends one lane and shuts the whole process down.
LaneFails(w) ==
    /\ lane[w].pc \notin {"off", "gone"}
    /\ ProcessOf[w] \notin Reliable
    /\ LapsesInTime(w)
    /\ lane' = [lane EXCEPT ![w] = GoneLane]
    /\ shutdown' = shutdown \cup {ProcessOf[w]}
    /\ UNCHANGED <<queue, clock>>

\* The process is killed: every lane is lost where it stands, no row changes.
Crash(p) ==
    /\ p \notin Reliable
    /\ \E w \in Lanes : ProcessOf[w] = p /\ lane[w].pc \notin {"off", "gone"}
    /\ \A w \in Lanes : ProcessOf[w] = p => LapsesInTime(w)
    /\ lane' = [w \in Lanes |-> IF ProcessOf[w] = p THEN GoneLane ELSE lane[w]]
    /\ UNCHANGED <<queue, shutdown, clock>>

Tick ==
    /\ clock < MaxClock
    /\ clock' = clock + 1
    /\ UNCHANGED <<queue, lane, shutdown>>

LaneStep(w) ==
    \/ ClaimSelect(w) \/ ClaimUpdate(w) \/ ClaimReadBack(w)
    \/ Checkpoint(w) \/ Heartbeat(w) \/ Run(w) \/ SettleJob(w)
    \/ StopLane(w)

Next ==
    \/ \E j \in Jobs : Enqueue(j)
    \/ \E w \in Lanes : LaneStep(w) \/ LaneFails(w)
    \/ \E p \in Processes : StartProcess(p) \/ RequestShutdown(p) \/ Crash(p)
    \/ Tick

Spec == Init /\ [][Next]_vars

\* Lanes are threads the operating system keeps running and time passes; a
\* reliable process is one a supervisor starts and keeps up.
Fairness ==
    /\ WF_vars(Tick)
    /\ \A w \in Lanes : WF_vars(LaneStep(w))
    /\ \A p \in Reliable : WF_vars(StartProcess(p))

FairSpec == Spec /\ Fairness

(***************************************************************************)
(* Properties                                                              *)
(***************************************************************************)
\* Rows and lanes have the shape of the job_queue columns and of the worker's
\* local variables.
TypeOK ==
    /\ queue \in [Jobs -> Row]
    /\ lane \in [Lanes -> Lane]
    /\ \A w \in Lanes : lane[w].pc \notin {"off", "idle", "gone"} => lane[w].job \in Jobs
    /\ shutdown \subseteq Processes
    /\ clock \in Nat

\* Two lanes never process one job while both of their leases, as they know
\* them, still run: what claim_one's expiry test and the heartbeat's fence
\* guarantee together.
OneLiveLease ==
    \A v, w \in Lanes :
        /\ v /= w
        /\ Active(v) /\ Active(w)
        /\ lane[v].job = lane[w].job
        => lane[v].deadline < clock \/ lane[w].deadline < clock

\* The inductive strengthening behind the two invariants: a lane that processes
\* a job either still owns the row, under its own newest token and with exactly
\* the lease it believes in, or was overtaken only after that lease ran out.
ClaimNowIsPast == \A w \in Lanes : lane[w].pc = "selected" => lane[w].now <= clock

OwnsOrWasOvertaken(w) ==
    LET row == queue[lane[w].job] IN
    /\ row.status /= "absent"
    /\ row.owner = w  => /\ row.status = "leased"
                         /\ row.token = lane[w].won
                         /\ row.expires = lane[w].deadline
    /\ row.owner /= w => lane[w].deadline < clock

LeaseInv ==
    /\ TypeOK
    /\ ClaimNowIsPast
    /\ \A w \in Lanes : Active(w) => OwnsOrWasOvertaken(w)

\* A write that passes the owner-and-token test comes from the claim that is
\* the row's newest, and the row is still leased under it, although the token
\* was read in a transaction after the claim's own.
HolderIsNewestClaim ==
    \A w \in Lanes :
        LET row == queue[lane[w].job] IN
        lane[w].pc \in {"checkpoint", "heartbeat", "run", "settle"} /\ Holds(w)
            => row.token = lane[w].won /\ row.status = "leased"

\* A finished job (DONE or FAILED) is never leased, released or finished again,
\* whoever still works on it.
FinishedIsFinal ==
    [][\A j \in Jobs : queue[j].status \in {"done", "failed"} => queue'[j].status = queue[j].status]_vars

\* The queue is the fenced lease of module FencedLease: a row's token is the
\* job's epoch, and a lane processing a job works under the grant it won.
absState == [j \in Jobs |-> queue[j].status]
absEpoch == [j \in Jobs |-> queue[j].token]
absGrant == [w \in Lanes |-> IF Active(w) THEN <<lane[w].job, lane[w].won>> ELSE NoOne]

Abstract == INSTANCE FencedLease WITH
    Workers <- Lanes, None <- NoOne,
    state <- absState, epoch <- absEpoch, grant <- absGrant

IsFencedLease == Abstract!FLSpec

\* Every enqueued job is eventually finished, although processes holding it
\* crash, fail or shut down: an expired lease is taken over and a released job
\* is claimed again.
EveryJobFinishes ==
    \A j \in Jobs : queue[j].status = "pending" ~> queue[j].status \in {"done", "failed"}
=============================================================================
