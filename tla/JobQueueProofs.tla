--------------------------- MODULE JobQueueProofs ---------------------------
(***************************************************************************)
(* Proofs about JobQueue, for any number of jobs, lanes and processes and  *)
(* any lease lengths.  LeaseInv is inductive; exclusion, the fence and the *)
(* finality of finished jobs follow from it, and so does that every step   *)
(* of the queue is a step (or a stutter) of FencedLease.                   *)
(***************************************************************************)
EXTENDS JobQueue, TLAPS

USE JobQueueAssumption

\* The record constructors used by the actions are rows and lanes.
LEMMA Constructors ==
    /\ NoRow \in Row
    /\ IdleLane \in Lane
    /\ GoneLane \in Lane
    /\ BlankLane \in Lane
  BY DEF NoRow, Row, Status, BlankLane, IdleLane, GoneLane, Lane

LEMMA IdleLaneFields ==
    /\ IdleLane.pc = "idle"
    /\ GoneLane.pc = "gone"
    /\ BlankLane.pc = "off"
  BY DEF BlankLane, IdleLane, GoneLane

\* The rows and lanes a won claim and an honored heartbeat write.
LeasedRows(w, expires, token) ==
    {c \in Row : /\ c.status = "leased" /\ c.owner = w
                 /\ c.expires = expires /\ c.token = token}

LanesAt(pcs, job, won, deadline) ==
    {c \in Lane : /\ c.pc \in pcs /\ c.job = job
                  /\ c.won = won /\ c.deadline = deadline}

LEMMA ClaimedRow ==
  ASSUME NEW r \in Row, NEW w \in Lanes, NEW n \in Nat
  PROVE  Claimed(r, w, n) \in LeasedRows(w, n + Lease, r.token + 1)
  BY DEF Claimed, Row, Status, LeasedRows

LEMMA WinnerLane ==
  ASSUME NEW l \in Lane, NEW t \in Nat
  PROVE  Winner(l, t) \in LanesAt({"won"}, l.job, t, l.now + Lease)
  BY DEF Winner, Lane, LanesAt

LEMMA BeatenLane ==
  ASSUME NEW l \in Lane, NEW d \in Nat
  PROVE  AfterBeat(l, d) \in LanesAt({"run", "checkpoint"}, l.job, l.won, d)
  BY DEF AfterBeat, Lane, LanesAt

\* Initially no lane runs and no row exists.
LEMMA InitLeaseInv == Init => LeaseInv
<1> SUFFICES ASSUME Init PROVE LeaseInv
  OBVIOUS
<1>1. TypeOK
  BY Constructors, IdleLaneFields DEF Init, TypeOK
<1>2. ClaimNowIsPast /\ \A w \in Lanes : ~Active(w)
  BY IdleLaneFields, SMTT(40) DEF Init, ClaimNowIsPast, Active
<1>3. QED
  BY <1>1, <1>2 DEF LeaseInv

LEMMA StepLeaseInv == LeaseInv /\ [Next]_vars => LeaseInv'
<1> SUFFICES ASSUME LeaseInv, [Next]_vars PROVE LeaseInv'
  OBVIOUS
<1> USE DEF LeaseInv, TypeOK, ClaimNowIsPast, Active, OwnsOrWasOvertaken, Status
<1>1. ASSUME NEW j \in Jobs, Enqueue(j) PROVE LeaseInv'
  <2>1. [NoRow EXCEPT !.status = "pending", !.created = clock] \in Row
    BY Constructors DEF NoRow, Row, Status
  <2>2. TypeOK'
    BY <1>1, <2>1 DEF Enqueue
  <2>3. \A w \in Lanes : Active(w)' => OwnsOrWasOvertaken(w)'
    BY <1>1 DEF Enqueue, Row, Lane
  <2>4. QED
    BY <1>1, <2>2, <2>3 DEF Enqueue
<1>2. ASSUME NEW w \in Lanes, ClaimSelect(w) PROVE LeaseInv'
  <2> PICK j \in Jobs : lane' = [lane EXCEPT ![w] =
                [IdleLane EXCEPT !.pc = "selected", !.job = j, !.now = clock]]
    BY <1>2 DEF ClaimSelect
  <2>1. [IdleLane EXCEPT !.pc = "selected", !.job = j, !.now = clock] \in Lane
    BY Constructors DEF IdleLane, BlankLane, Lane
  <2>2. lane'[w].pc = "selected" /\ lane'[w].now = clock /\ lane'[w].job = j
    BY DEF IdleLane, BlankLane
  <2>3. UNCHANGED <<queue, shutdown, clock>>
    BY <1>2 DEF ClaimSelect
  <2>4. QED
    BY <2>1, <2>2, <2>3
<1>3. ASSUME NEW w \in Lanes, ClaimUpdate(w) PROVE LeaseInv'
  <2> DEFINE j == lane[w].job
  <2>0. j \in Jobs /\ lane[w].pc = "selected" /\ lane[w].now <= clock /\ lane[w] \in Lane
    BY <1>3 DEF ClaimUpdate
  <2>1. CASE ~Claimable(j, lane[w].now) /\ lane' = [lane EXCEPT ![w] = IdleLane] /\ UNCHANGED queue
    BY <1>3, <2>1, Constructors, IdleLaneFields DEF ClaimUpdate
  <2>2. CASE /\ Claimable(j, lane[w].now)
             /\ queue' = [queue EXCEPT ![j] = Claimed(@, w, lane[w].now)]
             /\ lane' = [lane EXCEPT ![w] = Winner(@, queue[j].token + 1)]
    <3>1. UNCHANGED <<shutdown, clock>>
      BY <1>3 DEF ClaimUpdate
    <3>0. queue[j] \in Row /\ lane[w].now \in Nat /\ queue[j].token + 1 \in Nat
      BY <2>0 DEF Lane, Row
    <3>2. /\ lane'[w].pc = "won" /\ lane'[w].job = j
          /\ lane'[w].won = queue[j].token + 1 /\ lane'[w].deadline = lane[w].now + Lease
          /\ lane'[w] \in Lane
      <4>1. lane'[w] = Winner(lane[w], queue[j].token + 1)
        BY <2>0, <2>2
      <4>2. Winner(lane[w], queue[j].token + 1)
              \in LanesAt({"won"}, j, queue[j].token + 1, lane[w].now + Lease)
        BY <2>0, <3>0, WinnerLane
      <4>3. QED
        BY <4>1, <4>2 DEF LanesAt
    <3>3. /\ queue'[j].status = "leased" /\ queue'[j].owner = w
          /\ queue'[j].expires = lane[w].now + Lease /\ queue'[j].token = queue[j].token + 1
          /\ queue'[j] \in Row
      <4>1. queue'[j] = Claimed(queue[j], w, lane[w].now)
        BY <2>0, <2>2
      <4>2. Claimed(queue[j], w, lane[w].now)
              \in LeasedRows(w, lane[w].now + Lease, queue[j].token + 1)
        BY <3>0, ClaimedRow
      <4>3. QED
        BY <4>1, <4>2 DEF LeasedRows
    <3>4. \A k \in Jobs : k /= j => queue'[k] = queue[k]
      BY <2>2
    <3>5. \A v \in Lanes : v /= w => lane'[v] = lane[v]
      BY <2>2
    <3>6. TypeOK'
      BY <2>0, <2>2, <3>1, <3>2, <3>3, <3>4, <3>5
    <3>7. \A v \in Lanes : Active(v)' => OwnsOrWasOvertaken(v)'
      <4> SUFFICES ASSUME NEW v \in Lanes, Active(v)' PROVE OwnsOrWasOvertaken(v)'
        OBVIOUS
      <4>1. CASE v = w
        BY <4>1, <3>2, <3>3
      <4>2. CASE v /= w /\ lane[v].job = j
        <5>1. OwnsOrWasOvertaken(v)
          BY <4>2, <3>5
        <5>2. queue[j].owner = v => lane[v].deadline < clock
          BY <5>1, <4>2, <2>0, <2>2 DEF Claimable, Lane, Row
        <5>3. QED
          BY <5>1, <5>2, <4>2, <3>1, <3>3, <3>5
      <4>3. CASE v /= w /\ lane[v].job /= j
        BY <4>3, <3>1, <3>4, <3>5
      <4>4. QED
        BY <4>1, <4>2, <4>3
    <3>8. QED
      BY <3>1, <3>2, <3>5, <3>6, <3>7
  <2>3. QED
    BY <1>3, <2>1, <2>2 DEF ClaimUpdate
<1>4. ASSUME NEW w \in Lanes, ClaimReadBack(w) PROVE LeaseInv'
  <2>1. lane[w] \in Lane /\ lane[w].job \in Jobs
    BY <1>4 DEF ClaimReadBack
  <2>2. /\ lane'[w] \in Lane
        /\ lane'[w].pc \in {"checkpoint", "heartbeat", "run", "settle"}
        /\ lane'[w].job = lane[w].job /\ lane'[w].won = lane[w].won
        /\ lane'[w].deadline = lane[w].deadline
    BY <1>4, <2>1 DEF ClaimReadBack, Lane, Row
  <2>3. \A v \in Lanes : v /= w => lane'[v] = lane[v]
    BY <1>4 DEF ClaimReadBack
  <2>4. UNCHANGED <<queue, shutdown, clock>> /\ DOMAIN lane' = Lanes /\ lane[w].pc = "won"
        /\ lane' \in [Lanes -> Lane]
    BY <1>4, <2>2, <2>3 DEF ClaimReadBack
  <2>5. QED
    BY <2>1, <2>2, <2>3, <2>4
<1>5. ASSUME NEW w \in Lanes, Checkpoint(w) PROVE LeaseInv'
  <2>1. lane[w] \in Lane /\ lane[w].job \in Jobs
    BY <1>5 DEF Checkpoint
  <2>2. /\ lane'[w] \in Lane
        /\ lane'[w].pc \in {"heartbeat", "settle"}
        /\ lane'[w].job = lane[w].job /\ lane'[w].won = lane[w].won
        /\ lane'[w].deadline = lane[w].deadline
    BY <1>5, <2>1 DEF Checkpoint, Lane
  <2>3. \A v \in Lanes : v /= w => lane'[v] = lane[v]
    BY <1>5 DEF Checkpoint
  <2>4. UNCHANGED <<queue, shutdown, clock>> /\ lane[w].pc = "checkpoint" /\ lane' \in [Lanes -> Lane]
    BY <1>5, <2>2, <2>3 DEF Checkpoint
  <2>5. QED
    BY <2>1, <2>2, <2>3, <2>4
<1>6. ASSUME NEW w \in Lanes, Heartbeat(w) PROVE LeaseInv'
  <2> DEFINE j == lane[w].job
  <2>0. j \in Jobs /\ lane[w].pc = "heartbeat" /\ lane[w] \in Lane /\ queue[j] \in Row
    BY <1>6 DEF Heartbeat
  <2>1. CASE ~Holds(w) /\ lane' = [lane EXCEPT ![w] = IdleLane] /\ UNCHANGED queue
    BY <1>6, <2>1, Constructors, IdleLaneFields DEF Heartbeat
  <2>2. CASE /\ Holds(w)
             /\ queue' = [queue EXCEPT ![j].expires = clock + HeartbeatLease(j)]
             /\ lane' = [lane EXCEPT ![w] = AfterBeat(@, clock + HeartbeatLease(j))]
    <3>1. UNCHANGED <<shutdown, clock>>
      BY <1>6 DEF Heartbeat
    <3>2. clock + HeartbeatLease(j) \in Nat
      BY DEF HeartbeatLease
    <3>3. /\ lane'[w].pc \in {"run", "checkpoint"} /\ lane'[w].job = j
          /\ lane'[w].won = lane[w].won /\ lane'[w].deadline = clock + HeartbeatLease(j)
          /\ lane'[w] \in Lane
      <4>1. lane'[w] = AfterBeat(lane[w], clock + HeartbeatLease(j))
        BY <2>0, <2>2
      <4>2. AfterBeat(lane[w], clock + HeartbeatLease(j))
              \in LanesAt({"run", "checkpoint"}, j, lane[w].won, clock + HeartbeatLease(j))
        BY <2>0, <3>2, BeatenLane
      <4>3. QED
        BY <4>1, <4>2 DEF LanesAt
    <3>4. /\ queue'[j].status = queue[j].status /\ queue'[j].owner = queue[j].owner
          /\ queue'[j].expires = clock + HeartbeatLease(j) /\ queue'[j].token = queue[j].token
          /\ queue'[j] \in Row
      BY <2>0, <2>2, <3>2 DEF Row
    <3>5. \A k \in Jobs : k /= j => queue'[k] = queue[k]
      BY <2>2
    <3>6. \A v \in Lanes : v /= w => lane'[v] = lane[v]
      BY <2>2
    <3>7. TypeOK'
      BY <2>0, <2>2, <3>1, <3>3, <3>4, <3>5, <3>6
    <3>8. queue[j].owner = w
      BY <2>2 DEF Holds
    <3>9. \A v \in Lanes : Active(v)' => OwnsOrWasOvertaken(v)'
      <4> SUFFICES ASSUME NEW v \in Lanes, Active(v)' PROVE OwnsOrWasOvertaken(v)'
        OBVIOUS
      <4>1. CASE v = w
        BY <4>1, <2>0, <3>3, <3>4, <3>8
      <4>2. CASE v /= w /\ lane[v].job = j
        BY <4>2, <3>1, <3>4, <3>6, <3>8
      <4>3. CASE v /= w /\ lane[v].job /= j
        BY <4>3, <3>1, <3>5, <3>6
      <4>4. QED
        BY <4>1, <4>2, <4>3
    <3>10. QED
      BY <3>1, <3>3, <3>6, <3>7, <3>9
  <2>3. QED
    BY <1>6, <2>1, <2>2 DEF Heartbeat
<1>7. ASSUME NEW w \in Lanes, Run(w) PROVE LeaseInv'
  <2>1. lane[w] \in Lane /\ lane[w].job \in Jobs
    BY <1>7 DEF Run
  <2>2. /\ lane'[w] \in Lane
        /\ lane'[w].pc = "settle"
        /\ lane'[w].job = lane[w].job /\ lane'[w].won = lane[w].won
        /\ lane'[w].deadline = lane[w].deadline
    <3>1. PICK outcome \in {"done", "failed"} :
                lane'[w] = [lane[w] EXCEPT !.pc = "settle", !.write = outcome]
      BY <1>7 DEF Run
    <3>2. QED
      BY <2>1, <3>1 DEF Lane
  <2>3. \A v \in Lanes : v /= w => lane'[v] = lane[v]
    BY <1>7 DEF Run
  <2>4. UNCHANGED <<queue, shutdown, clock>> /\ lane[w].pc = "run" /\ lane' \in [Lanes -> Lane]
    BY <1>7, <2>2, <2>3 DEF Run
  <2>5. QED
    BY <2>1, <2>2, <2>3, <2>4
<1>8. ASSUME NEW w \in Lanes, SettleJob(w) PROVE LeaseInv'
  <2> DEFINE j == lane[w].job
  <2>0. j \in Jobs /\ lane[w].pc = "settle" /\ lane[w] \in Lane /\ queue[j] \in Row
    BY <1>8 DEF SettleJob
  <2>1. UNCHANGED <<shutdown, clock>> /\ lane' = [lane EXCEPT ![w] = IdleLane]
    BY <1>8 DEF SettleJob
  <2>2. lane'[w].pc = "idle" /\ \A v \in Lanes : v /= w => lane'[v] = lane[v]
    BY <2>1, IdleLaneFields
  <2>3. CASE ~Holds(w)
    <3>1. UNCHANGED queue
      BY <1>8, <2>3 DEF SettleJob
    <3>2. QED
      BY <2>1, <2>2, <3>1, Constructors
  <2>4. CASE Holds(w)
    <3>1. queue' = [queue EXCEPT ![j].status = lane[w].write]
      BY <1>8, <2>4 DEF SettleJob
    <3>2. /\ queue'[j].status = lane[w].write /\ queue'[j].owner = queue[j].owner
          /\ queue'[j].expires = queue[j].expires /\ queue'[j].token = queue[j].token
          /\ queue'[j] \in Row
      BY <2>0, <3>1 DEF Row, Lane
    <3>3. \A k \in Jobs : k /= j => queue'[k] = queue[k]
      BY <3>1
    <3>4. lane[w].write /= "absent" /\ queue[j].owner = w
      BY <2>0, <2>4 DEF Lane, Holds
    <3>5. TypeOK'
      BY <2>0, <2>1, <2>2, <3>1, <3>2, <3>3, Constructors
    <3>6. \A v \in Lanes : Active(v)' => OwnsOrWasOvertaken(v)'
      <4> SUFFICES ASSUME NEW v \in Lanes, Active(v)' PROVE OwnsOrWasOvertaken(v)'
        OBVIOUS
      <4>1. v /= w
        BY <2>2
      <4>2. CASE lane[v].job = j
        BY <4>1, <4>2, <2>1, <2>2, <3>2, <3>4
      <4>3. CASE lane[v].job /= j
        BY <4>1, <4>3, <2>1, <2>2, <3>3
      <4>4. QED
        BY <4>2, <4>3
    <3>7. QED
      BY <2>1, <2>2, <3>5, <3>6
  <2>5. QED
    BY <2>3, <2>4
<1>9. ASSUME NEW w \in Lanes, StopLane(w) \/ LaneFails(w) PROVE LeaseInv'
  <2>1. lane' = [lane EXCEPT ![w] = GoneLane] /\ UNCHANGED <<queue, clock>> /\ shutdown' \subseteq Processes
    BY <1>9 DEF StopLane, LaneFails
  <2>2. QED
    BY <2>1, Constructors, IdleLaneFields
<1>10. ASSUME NEW p \in Processes, StartProcess(p) PROVE LeaseInv'
  <2>1. UNCHANGED <<queue, shutdown, clock>>
    BY <1>10 DEF StartProcess
  <2>2. \A v \in Lanes : lane'[v] = lane[v] \/ lane'[v] = IdleLane
    BY <1>10 DEF StartProcess
  <2>3. lane' \in [Lanes -> Lane]
    BY <1>10, Constructors DEF StartProcess
  <2>4. QED
    BY <2>1, <2>2, <2>3, IdleLaneFields
<1>11. ASSUME NEW p \in Processes, Crash(p) PROVE LeaseInv'
  <2>1. UNCHANGED <<queue, shutdown, clock>>
    BY <1>11 DEF Crash
  <2>2. \A v \in Lanes : lane'[v] = lane[v] \/ lane'[v] = GoneLane
    BY <1>11 DEF Crash
  <2>3. lane' \in [Lanes -> Lane]
    BY <1>11, Constructors DEF Crash
  <2>4. QED
    BY <2>1, <2>2, <2>3, IdleLaneFields
<1>12. ASSUME NEW p \in Processes, RequestShutdown(p) PROVE LeaseInv'
  BY <1>12 DEF RequestShutdown
<1>13. CASE Tick
  <2>1. UNCHANGED <<queue, lane, shutdown>> /\ clock' = clock + 1 /\ clock \in Nat
    BY <1>13 DEF Tick
  <2>2. QED
    BY <2>1 DEF Lane
<1>14. CASE UNCHANGED vars
  BY <1>14 DEF vars
<1>15. QED
  BY <1>1, <1>2, <1>3, <1>4, <1>5, <1>6, <1>7, <1>8, <1>9, <1>10, <1>11, <1>12, <1>13, <1>14
  DEF Next, LaneStep

\* In every reachable state a lane that processes a job owns its row under its
\* newest token, or was overtaken after its lease ran out.
THEOREM LeaseInvariant == Spec => []LeaseInv
  BY InitLeaseInv, StepLeaseInv, PTL DEF Spec

\* The rows and the lanes always have their types.
THEOREM TypeCorrect == Spec => []TypeOK
<1>1. LeaseInv => TypeOK
  BY DEF LeaseInv
<1>2. QED
  BY <1>1, LeaseInvariant, PTL

\* Two lanes never process one job under two leases that both still run.
THEOREM MutualExclusion == Spec => []OneLiveLease
<1>1. LeaseInv => OneLiveLease
  BY DEF LeaseInv, OneLiveLease, OwnsOrWasOvertaken
<1>2. QED
  BY <1>1, LeaseInvariant, PTL

\* Whatever passes the fence comes from the newest claim of a row still leased.
THEOREM FenceIsNewestClaim == Spec => []HolderIsNewestClaim
<1>1. LeaseInv => HolderIsNewestClaim
  BY DEF LeaseInv, HolderIsNewestClaim, OwnsOrWasOvertaken, Holds, Active
<1>2. QED
  BY <1>1, LeaseInvariant, PTL

-----------------------------------------------------------------------------
(***************************************************************************)
(* Finality                                                                *)
(***************************************************************************)
LEMMA FinishedStep ==
  ASSUME LeaseInv, [Next]_vars, NEW j \in Jobs, queue[j].status \in {"done", "failed"}
  PROVE  queue'[j].status = queue[j].status
<1>1. queue \in [Jobs -> Row] /\ queue[j].status \notin {"absent", "pending", "leased"}
  BY DEF LeaseInv, TypeOK
<1>2. ASSUME NEW k \in Jobs, Enqueue(k) PROVE queue'[j].status = queue[j].status
  BY <1>1, <1>2 DEF Enqueue
<1>3. ASSUME NEW w \in Lanes, ClaimUpdate(w) PROVE queue'[j].status = queue[j].status
  BY <1>1, <1>3 DEF ClaimUpdate, Claimable
<1>4. ASSUME NEW w \in Lanes, Heartbeat(w) PROVE queue'[j].status = queue[j].status
  BY <1>1, <1>4 DEF Heartbeat, Row
<1>5. ASSUME NEW w \in Lanes, SettleJob(w) PROVE queue'[j].status = queue[j].status
  <2>1. Active(w)
    BY <1>5 DEF SettleJob, Active
  <2>2. Holds(w) => queue[lane[w].job].status = "leased"
    BY <2>1 DEF LeaseInv, OwnsOrWasOvertaken, Holds
  <2>3. QED
    BY <1>1, <1>5, <2>2 DEF SettleJob
<1>6. ASSUME NEW w \in Lanes,
             ClaimSelect(w) \/ ClaimReadBack(w) \/ Checkpoint(w) \/ Run(w) \/ StopLane(w) \/ LaneFails(w)
      PROVE  UNCHANGED queue
  BY <1>6 DEF ClaimSelect, ClaimReadBack, Checkpoint, Run, StopLane, LaneFails
<1>7. ASSUME NEW p \in Processes, StartProcess(p) \/ RequestShutdown(p) \/ Crash(p)
      PROVE  UNCHANGED queue
  BY <1>7 DEF StartProcess, RequestShutdown, Crash
<1>8. CASE Tick \/ UNCHANGED vars
  BY <1>8 DEF Tick, vars
<1>9. QED
  BY <1>2, <1>3, <1>4, <1>5, <1>6, <1>7, <1>8 DEF Next, LaneStep

\* A finished job is never leased, released or finished again.
THEOREM FinishedJobsStayFinished == Spec => FinishedIsFinal
<1>1. LeaseInv /\ [Next]_vars =>
        [\A j \in Jobs : queue[j].status \in {"done", "failed"} => queue'[j].status = queue[j].status]_vars
  BY FinishedStep
<1>2. QED
  BY <1>1, LeaseInvariant, PTL DEF Spec, FinishedIsFinal

-----------------------------------------------------------------------------
(***************************************************************************)
(* Refinement                                                              *)
(***************************************************************************)
\* A step that leaves rows' status and token alone, and at most ends the work
\* of some lanes, forfeits their grants.
LEMMA ForfeitStep ==
  ASSUME \A j \in Jobs : queue'[j].status = queue[j].status /\ queue'[j].token = queue[j].token,
         \A w \in Lanes : Active(w)' => /\ Active(w)
                                       /\ lane'[w].job = lane[w].job
                                       /\ lane'[w].won = lane[w].won
  PROVE  Abstract!FLNext
<1> DEFINE W == {w \in Lanes : ~Active(w)'}
<1>1. absState' = absState /\ absEpoch' = absEpoch
  BY DEF absState, absEpoch
<1>2. absGrant' = [w \in Lanes |-> IF w \in W THEN NoOne ELSE absGrant[w]]
  BY DEF absGrant
<1>3. Abstract!Forfeit(W)
  BY <1>1, <1>2 DEF Abstract!Forfeit
<1>4. W \in SUBSET Lanes
  OBVIOUS
<1>5. QED
  BY <1>3, <1>4 DEF Abstract!FLNext

\* A row that does not exist yet was never claimed.
AbsentIsUnclaimed == \A j \in Jobs : queue[j].status = "absent" => queue[j].token = 0

LEMMA AbsentStep == LeaseInv /\ AbsentIsUnclaimed /\ [Next]_vars => AbsentIsUnclaimed'
<1> SUFFICES ASSUME LeaseInv, AbsentIsUnclaimed, [Next]_vars, NEW j \in Jobs
             PROVE  (queue[j].status = "absent" => queue[j].token = 0)'
  BY DEF AbsentIsUnclaimed
<1> USE DEF AbsentIsUnclaimed
<1>0. queue \in [Jobs -> Row] /\ lane \in [Lanes -> Lane]
  BY DEF LeaseInv, TypeOK
<1>1. ASSUME NEW k \in Jobs, Enqueue(k) PROVE (queue[j].status = "absent" => queue[j].token = 0)'
  BY <1>0, <1>1 DEF Enqueue, NoRow
<1>2. ASSUME NEW w \in Lanes, ClaimUpdate(w) PROVE (queue[j].status = "absent" => queue[j].token = 0)'
  BY <1>0, <1>2 DEF ClaimUpdate, Claimed
<1>3. ASSUME NEW w \in Lanes, Heartbeat(w) PROVE (queue[j].status = "absent" => queue[j].token = 0)'
  BY <1>0, <1>3 DEF Heartbeat, Row
<1>4. ASSUME NEW w \in Lanes, SettleJob(w) PROVE (queue[j].status = "absent" => queue[j].token = 0)'
  BY <1>0, <1>4 DEF SettleJob, Row, Lane
<1>5. ASSUME NEW w \in Lanes,
             ClaimSelect(w) \/ ClaimReadBack(w) \/ Checkpoint(w) \/ Run(w) \/ StopLane(w) \/ LaneFails(w)
      PROVE  UNCHANGED queue
  BY <1>5 DEF ClaimSelect, ClaimReadBack, Checkpoint, Run, StopLane, LaneFails
<1>6. ASSUME NEW p \in Processes, StartProcess(p) \/ RequestShutdown(p) \/ Crash(p)
      PROVE  UNCHANGED queue
  BY <1>6 DEF StartProcess, RequestShutdown, Crash
<1>7. CASE Tick \/ UNCHANGED vars
  BY <1>7 DEF Tick, vars
<1>8. QED
  BY <1>1, <1>2, <1>3, <1>4, <1>5, <1>6, <1>7 DEF Next, LaneStep

LEMMA RefineInit == Init => Abstract!FLInit
<1> SUFFICES ASSUME Init PROVE Abstract!FLInit
  OBVIOUS
<1>1. \A w \in Lanes : ~Active(w)
  BY IdleLaneFields DEF Init, Active
<1>2. \A j \in Jobs : queue[j].status = "absent" /\ queue[j].token = 0
  BY DEF Init, NoRow
<1>3. QED
  BY <1>1, <1>2 DEF Abstract!FLInit, absState, absEpoch, absGrant

LEMMA RefineStep == LeaseInv /\ AbsentIsUnclaimed /\ [Next]_vars => [Abstract!FLNext]_(Abstract!absVars)
<1> SUFFICES ASSUME LeaseInv, AbsentIsUnclaimed, [Next]_vars PROVE [Abstract!FLNext]_(Abstract!absVars)
  OBVIOUS
<1>0. queue \in [Jobs -> Row] /\ lane \in [Lanes -> Lane]
  BY DEF LeaseInv, TypeOK
<1>1. ASSUME NEW j \in Jobs, Enqueue(j) PROVE Abstract!FLNext
  <2>0. queue[j].status = "absent"
    BY <1>1 DEF Enqueue
  <2>1. queue'[j].status = "pending" /\ queue'[j].token = 0 /\ UNCHANGED lane
    BY <1>0, <1>1 DEF Enqueue, NoRow
  <2>2. \A k \in Jobs : k /= j => queue'[k] = queue[k]
    BY <1>0, <1>1 DEF Enqueue
  <2>3. absState' = [absState EXCEPT ![j] = "pending"] /\ absState[j] = "absent"
    BY <2>0, <2>1, <2>2 DEF absState
  <2>4. UNCHANGED absGrant
    BY <2>1 DEF absGrant, Active
  <2>5. queue[j].token = 0
    BY <1>1 DEF Enqueue, AbsentIsUnclaimed
  <2>6. UNCHANGED absEpoch
    BY <2>1, <2>2, <2>5 DEF absEpoch
  <2>7. QED
    BY <2>3, <2>4, <2>6 DEF Abstract!FLNext, Abstract!Submit
<1>2. ASSUME NEW w \in Lanes, ClaimUpdate(w) PROVE Abstract!FLNext
  <2> DEFINE j == lane[w].job
  <2>0. j \in Jobs /\ lane[w].pc = "selected" /\ queue[j] \in Row /\ lane[w] \in Lane
    BY <1>0, <1>2 DEF ClaimUpdate, LeaseInv, TypeOK
  <2>1. CASE ~Claimable(j, lane[w].now) /\ lane' = [lane EXCEPT ![w] = IdleLane] /\ UNCHANGED queue
    <3>1. \A v \in Lanes : Active(v)' => v /= w /\ lane'[v] = lane[v]
      BY <1>0, <2>1, IdleLaneFields DEF Active
    <3>2. QED
      BY <2>1, <3>1, ForfeitStep DEF Active
  <2>2. CASE /\ Claimable(j, lane[w].now)
             /\ queue' = [queue EXCEPT ![j] = Claimed(@, w, lane[w].now)]
             /\ lane' = [lane EXCEPT ![w] = Winner(@, queue[j].token + 1)]
    <3>1. queue'[j].status = "leased" /\ queue'[j].token = queue[j].token + 1
      BY <1>0, <2>0, <2>2 DEF Claimed
    <3>2. lane'[w].pc = "won" /\ lane'[w].job = j /\ lane'[w].won = queue[j].token + 1
      BY <1>0, <2>0, <2>2 DEF Winner
    <3>3. (\A k \in Jobs : k /= j => queue'[k] = queue[k]) /\ (\A v \in Lanes : v /= w => lane'[v] = lane[v])
      BY <1>0, <2>2
    <3>4. absState' = [absState EXCEPT ![j] = "leased"] /\ absState[j] \in {"pending", "leased"}
      BY <2>0, <2>2, <3>1, <3>3 DEF absState, Claimable
    <3>5. absEpoch' = [absEpoch EXCEPT ![j] = @ + 1]
      BY <2>0, <3>1, <3>3 DEF absEpoch
    <3>6. ~Active(w) /\ Active(w)' /\ \A v \in Lanes : v /= w => Active(v)' = Active(v)
      BY <2>0, <3>2, <3>3 DEF Active
    <3>7. absGrant' = [absGrant EXCEPT ![w] = <<j, absEpoch[j] + 1>>] /\ absGrant[w] = NoOne
      BY <2>0, <3>2, <3>3, <3>6 DEF absGrant, absEpoch
    <3>8. Abstract!Grant(w, j)
      BY <3>4, <3>5, <3>7 DEF Abstract!Grant
    <3>9. QED
      BY <2>0, <3>8 DEF Abstract!FLNext
  <2>3. QED
    BY <1>2, <2>1, <2>2 DEF ClaimUpdate
<1>3. ASSUME NEW w \in Lanes, SettleJob(w) PROVE Abstract!FLNext
  <2> DEFINE j == lane[w].job
  <2>0. j \in Jobs /\ lane[w].pc = "settle" /\ queue[j] \in Row /\ lane[w] \in Lane /\ Active(w)
    BY <1>0, <1>3 DEF SettleJob, LeaseInv, TypeOK, Active
  <2>1. lane'[w].pc = "idle" /\ \A v \in Lanes : v /= w => lane'[v] = lane[v]
    BY <1>0, <1>3, IdleLaneFields DEF SettleJob
  <2>2. ~Active(w)' /\ \A v \in Lanes : v /= w => Active(v)' = Active(v)
    BY <2>1 DEF Active
  <2>3. CASE ~Holds(w)
    BY <1>3, <2>1, <2>2, <2>3, ForfeitStep DEF SettleJob
  <2>4. CASE Holds(w)
    <3>1. queue' = [queue EXCEPT ![j].status = lane[w].write]
      BY <1>3, <2>4 DEF SettleJob
    <3>2. queue'[j].status = lane[w].write /\ queue'[j].token = queue[j].token
      BY <1>0, <2>0, <3>1 DEF Row
    <3>3. \A k \in Jobs : k /= j => queue'[k] = queue[k]
      BY <1>0, <3>1
    <3>4. queue[j].status = "leased" /\ queue[j].token = lane[w].won
      BY <2>0, <2>4 DEF LeaseInv, OwnsOrWasOvertaken, Holds
    <3>5. absState' = [absState EXCEPT ![j] = lane[w].write] /\ absState[j] = "leased"
      BY <2>0, <3>2, <3>3, <3>4 DEF absState
    <3>6. UNCHANGED absEpoch
      BY <3>2, <3>3 DEF absEpoch
    <3>7. absGrant' = [absGrant EXCEPT ![w] = NoOne] /\ absGrant[w] = <<j, absEpoch[j]>>
      BY <2>0, <2>1, <2>2, <3>4 DEF absGrant, absEpoch
    <3>8. lane[w].write \in {"pending", "done", "failed"}
      BY <2>0 DEF Lane
    <3>9. Abstract!Settle(w, j, lane[w].write)
      BY <3>5, <3>6, <3>7, <3>8 DEF Abstract!Settle
    <3>10. QED
      BY <2>0, <3>8, <3>9 DEF Abstract!FLNext
  <2>5. QED
    BY <2>3, <2>4
<1>4. ASSUME NEW w \in Lanes, Heartbeat(w) PROVE Abstract!FLNext
  <2>0. lane[w].job \in Jobs /\ lane[w].pc = "heartbeat" /\ lane[w] \in Lane
    BY <1>0, <1>4 DEF Heartbeat, LeaseInv, TypeOK
  <2>1. \A k \in Jobs : queue'[k].status = queue[k].status /\ queue'[k].token = queue[k].token
    BY <1>0, <1>4, <2>0 DEF Heartbeat, Row
  <2>2. \A v \in Lanes : v /= w => lane'[v] = lane[v]
    BY <1>0, <1>4 DEF Heartbeat
  <2>3. lane'[w].pc = "idle" \/ (lane'[w].job = lane[w].job /\ lane'[w].won = lane[w].won)
    BY <1>0, <1>4, <2>0, IdleLaneFields DEF Heartbeat, AfterBeat
  <2>4. Active(w)
    BY <2>0 DEF Active
  <2>5. \A v \in Lanes : Active(v)' => Active(v) /\ lane'[v].job = lane[v].job /\ lane'[v].won = lane[v].won
    BY <2>2, <2>3, <2>4 DEF Active
  <2>6. QED
    BY ONLY <2>1, <2>5, ForfeitStep
<1>5. ASSUME NEW w \in Lanes, ClaimReadBack(w) \/ Checkpoint(w) \/ Run(w) PROVE Abstract!FLNext
  <2>0. lane[w] \in Lane /\ Active(w) /\ UNCHANGED queue
    BY <1>0, <1>5 DEF ClaimReadBack, Checkpoint, Run, Active
  <2>1. \A v \in Lanes : v /= w => lane'[v] = lane[v]
    BY <1>0, <1>5 DEF ClaimReadBack, Checkpoint, Run
  <2>2. lane'[w].job = lane[w].job /\ lane'[w].won = lane[w].won
    <3>1. CASE ClaimReadBack(w)
      BY <1>0, <2>0, <3>1 DEF ClaimReadBack, Lane
    <3>2. CASE Checkpoint(w)
      BY <1>0, <2>0, <3>2 DEF Checkpoint, Lane
    <3>3. CASE Run(w)
      BY <1>0, <2>0, <3>3 DEF Run, Lane
    <3>4. QED
      BY <1>5, <3>1, <3>2, <3>3
  <2>3. QED
    BY <2>0, <2>1, <2>2, ForfeitStep DEF Active
<1>6. ASSUME NEW w \in Lanes, ClaimSelect(w) \/ StopLane(w) \/ LaneFails(w) PROVE Abstract!FLNext
  <2>0. UNCHANGED queue /\ \A v \in Lanes : v /= w => lane'[v] = lane[v]
    BY <1>0, <1>6 DEF ClaimSelect, StopLane, LaneFails
  <2>1. ~Active(w)'
    <3>1. CASE ClaimSelect(w)
      BY <1>0, <3>1 DEF ClaimSelect, Active, IdleLane, BlankLane
    <3>2. CASE StopLane(w) \/ LaneFails(w)
      BY <1>0, <3>2, IdleLaneFields DEF StopLane, LaneFails, Active
    <3>3. QED
      BY <1>6, <3>1, <3>2
  <2>2. QED
    BY <2>0, <2>1, ForfeitStep DEF Active
<1>7. ASSUME NEW p \in Processes, StartProcess(p) \/ RequestShutdown(p) \/ Crash(p) PROVE Abstract!FLNext
  <2>0. UNCHANGED queue
    BY <1>7 DEF StartProcess, RequestShutdown, Crash
  <2>1. \A v \in Lanes : lane'[v] = lane[v] \/ lane'[v] = IdleLane \/ lane'[v] = GoneLane
    BY <1>7 DEF StartProcess, RequestShutdown, Crash
  <2>2. QED
    BY <2>0, <2>1, IdleLaneFields, ForfeitStep DEF Active
<1>8. CASE Tick \/ UNCHANGED vars
  <2>1. UNCHANGED <<queue, lane>>
    BY <1>8 DEF Tick, vars
  <2>2. QED
    BY <2>1, ForfeitStep DEF Active
<1>9. QED
  BY <1>1, <1>2, <1>3, <1>4, <1>5, <1>6, <1>7, <1>8 DEF Next, LaneStep

\* The queue, its lanes, crashes and expiring leases implement the fenced
\* lease: only the newest grant settles a job, and a closed job stays closed.
THEOREM RefinesFencedLease == Spec => IsFencedLease
<1>1. Init => Abstract!FLInit
  BY RefineInit
<1>2. LeaseInv /\ AbsentIsUnclaimed /\ [Next]_vars => [Abstract!FLNext]_(Abstract!absVars)
  BY RefineStep
<1>3. Init => AbsentIsUnclaimed
  BY DEF Init, NoRow, AbsentIsUnclaimed
<1>4. QED
  BY <1>1, <1>2, <1>3, AbsentStep, LeaseInvariant, PTL DEF Spec, IsFencedLease, Abstract!FLSpec
=============================================================================
