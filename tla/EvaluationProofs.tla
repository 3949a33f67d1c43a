--------------------------- MODULE EvaluationProofs ---------------------------
(***************************************************************************)
(* Proofs about Evaluation, for any number of candidates, evaluations,     *)
(* requests, lanes, faults and edits, whatever lanes die or outlive their  *)
(* leases:                                                                 *)
(*                                                                         *)
(*   - an evaluation's status, its results and its evaluator's end agree,  *)
(*     and a COMPLETED one judged the bytes that were bound;               *)
(*   - a verdict is final;                                                 *)
(*   - a node's evaluations are retried one after the other;               *)
(*   - a candidate is evaluated twice only after a statement failed;       *)
(*   - the lanes, sweeps, requests and retries implement JudgedOnce.       *)
(***************************************************************************)
EXTENDS Evaluation, TLAPS

USE EvaluationAssumption DEF EvaluationAssumption, Candidates, Methods, Keys, Evals, Nothing

-----------------------------------------------------------------------------
(***************************************************************************)
(* The invariant: what a lane, a request and a row may rely on             *)
(***************************************************************************)
Row == [of : Candidates \cup {Nothing}, method : {"none", "deterministic", "agent"},
        owner : {"none", "api", "direct", "workflow"}, status : {"none", "pending", "running"} \cup Ended,
        results : BOOLEAN, agent : {"none", "created", "running"} \cup AgentEnded,
        task : {"none", "created", "queued"} \cup Ended, cancel : BOOLEAN,
        given : {"none", "bound", "other"}, output : {"none", "valid", "invalid"},
        why : {"none", "transient", "other"}, retried : BOOLEAN,
        job : {"none", "queued", "leased", "done"}, holder : Lanes \cup {Nobody}, lost : BOOLEAN]
Handler == [pc : {"begin", "reclaim", "create", "queue", "enqueue", "complete", "fail", "gone"},
            at : Candidates, eval : Evals \cup {Nothing}]
Memory == [pc : {"idle", "finish", "read", "start", "check", "complete", "error", "recover", "call",
                 "judge", "task", "reconcile", "finalize", "decide"},
           eval : Evals \cup {Nothing}, outcome : {"none", "stopped"} \cup Ended]

\* The verdict v is one that an evaluator which ended like that may be given.
Fits(r, v) ==
    CASE v = "completed" -> r.agent = "completed" /\ r.output = "valid"
      [] v = "cancelled" -> r.agent = "stopped"
      [] v = "failed"    -> r.agent \in {"completed", "failed"}
      [] OTHER           -> FALSE

\* A row that was not created yet is blank; of the others, what was written in
\* one transaction stays together.
RowOK(r) ==
    /\ r.status = "none" => r = NoEval
    /\ r.status /= "none" => r.of \in Candidates /\ r.method \in Methods /\ r.owner /= "none"
    /\ r.agent = "none" <=> r.method /= "agent"
    /\ r.owner = "workflow" => r.method = "agent" /\ r.job /= "none"
    /\ r.method = "agent" /\ r.agent \in {"running", "completed"} => r.given = "bound"
    /\ r.status = "completed" => r.results
    /\ r.method = "agent" =>
         /\ r.results => r.status = "completed"
         /\ r.status \in Ended => Fits(r, r.status)
    /\ r.retried => r.method = "agent" /\ r.status = "failed"

DeterministicSteps == {"read", "start", "check", "complete", "error"}
AgentSteps == {"recover", "call", "judge", "task", "reconcile", "finalize", "decide"}

\* The lane that made the call, until it has said how the call ended.
Calling(m) == m.pc = "call" \/ (m.pc = "judge" /\ m.outcome = "completed")

\* What a lane with memory m relies on in the row r it works on.
Relies(w, m, r) ==
    /\ r.status /= "none" /\ r.job /= "none"
    /\ m.pc \in DeterministicSteps =>
         /\ r.method = "deterministic"
         /\ r.lost \/ (r.job = "leased" /\ r.holder = w)
    /\ m.pc \in DeterministicSteps \ {"read"} => r.lost \/ r.status \notin Ended
    /\ m.pc = "complete" => r.results
    /\ m.pc \in AgentSteps => r.method = "agent"
    /\ Calling(m) => r.agent \in {"running", "failed", "stopped"} /\ r.given = "bound"
    /\ m.pc = "judge" => m.outcome \in AgentEnded
    /\ m.pc = "task" => m.outcome \in AgentEnded /\ r.agent = m.outcome
    /\ m.pc = "finalize" => r.agent \in AgentEnded /\ m.outcome = AsTaskRunStatus(r.agent)
    /\ m.pc = "decide" => Fits(r, m.outcome)

Busy(w) == lane[w].pc /= "idle"
LaneOK(w) == Busy(w) => lane[w].eval \in Evals /\ Relies(w, lane[w], eval[lane[w].eval])

\* The provider is called by one lane.
OneCall ==
    \A v, w \in Lanes : v /= w /\ Calling(lane[v]) /\ Calling(lane[w]) => lane[v].eval /= lane[w].eval

\* A request between its row and its job is the only one that knows the row.
Creating(q) == request[q].pc \in {"queue", "enqueue"}
RequestOK(q) ==
    Creating(q) => /\ request[q].eval \in Evals
                   /\ eval[request[q].eval].owner = "api" /\ eval[request[q].eval].job = "none"
OneRequest ==
    \A p, q \in Requests : p /= q /\ Creating(p) /\ Creating(q) => request[p].eval /= request[q].eval

EvaluationInv ==
    /\ EvaluationTypeOK
    /\ \A e \in Evals : RowOK(eval[e])
    /\ \A w \in Lanes : LaneOK(w)
    /\ OneCall
    /\ \A q \in Requests : RequestOK(q)
    /\ OneRequest

-----------------------------------------------------------------------------
(***************************************************************************)
(* What the steps write                                                    *)
(***************************************************************************)
\* The parts of the invariant that a step starts from.
LEMMA Parts ==
  ASSUME EvaluationInv
  PROVE  /\ eval \in [Evals -> Row] /\ lane \in [Lanes -> Memory] /\ request \in [Requests -> Handler]
         /\ original \in [Candidates -> BOOLEAN] /\ faults \in 0 .. MaxFaults /\ edits \in 0 .. MaxEdits
         /\ \A e \in Evals : RowOK(eval[e])
         /\ \A w \in Lanes : Busy(w) => lane[w].eval \in Evals /\ Relies(w, lane[w], eval[lane[w].eval])
  BY DEF EvaluationInv, EvaluationTypeOK, Row, Memory, Handler, LaneOK

\* Lane w is at pc, at the row it was at, with an outcome.
Placed(w, pc, outcome) ==
    /\ lane' \in [Lanes -> Memory]
    /\ lane'[w].pc = pc /\ lane'[w].eval = lane[w].eval /\ lane'[w].outcome = outcome
    /\ \A v \in Lanes \ {w} : lane'[v] = lane[v]

Pcs == {"idle", "finish", "read", "start", "check", "complete", "error", "recover", "call",
        "judge", "task", "reconcile", "finalize", "decide"}

\* What a lane holds after its program counter moved, with an outcome ...
LEMMA ToWithPlaces ==
  ASSUME lane \in [Lanes -> Memory], NEW w \in Lanes, NEW pc \in Pcs,
         NEW outcome \in {"none", "stopped"} \cup Ended, ToWith(w, pc, outcome)
  PROVE  Placed(w, pc, outcome)
<1> DEFINE m == [lane[w] EXCEPT !.pc = pc, !.outcome = outcome]
<1>1. lane[w] \in Memory
  OBVIOUS
<1>2. m \in Memory /\ m.pc = pc /\ m.eval = lane[w].eval /\ m.outcome = outcome
  BY <1>1 DEF Memory, Pcs
<1>3. lane' = [lane EXCEPT ![w] = m]
  BY <1>1 DEF ToWith, Memory
<1> HIDE DEF m
<1>4. QED
  BY <1>2, <1>3 DEF Placed

\* ... or without one.
LEMMA ToPlaces ==
  ASSUME lane \in [Lanes -> Memory], NEW w \in Lanes, NEW pc \in Pcs, To(w, pc)
  PROVE  Placed(w, pc, lane[w].outcome)
<1> DEFINE m == [lane[w] EXCEPT !.pc = pc]
<1>1. lane[w] \in Memory
  OBVIOUS
<1>2. m \in Memory /\ m.pc = pc /\ m.eval = lane[w].eval /\ m.outcome = lane[w].outcome
  BY <1>1 DEF Memory, Pcs
<1>3. lane' = [lane EXCEPT ![w] = m]
  BY <1>1 DEF To, Memory
<1> HIDE DEF m
<1>4. QED
  BY <1>2, <1>3 DEF Placed

\* The fields that a step writes keep their types: those of the verdict, ...
LEMMA VerdictFields ==
  ASSUME NEW r \in Row,
         NEW status \in {"pending", "running"} \cup Ended,
         NEW results \in BOOLEAN
  PROVE  /\ [r EXCEPT !.status = status] \in Row
         /\ [r EXCEPT !.status = status, !.results = results] \in Row
<1>1. [r EXCEPT !.status = status] \in Row
  BY DEF Row
<1>2. [r EXCEPT !.status = status, !.results = results] \in Row
  BY DEF Row
<1>3. QED
  BY <1>1, <1>2

\* ... those of the evaluator and of what it was given, ...
LEMMA GivenFields ==
  ASSUME NEW r \in Row,
         NEW results \in BOOLEAN,
         NEW given \in {"bound", "other"},
         NEW agent \in {"created", "running"} \cup AgentEnded
  PROVE  /\ [r EXCEPT !.agent = agent] \in Row
         /\ [r EXCEPT !.agent = agent, !.given = given] \in Row
         /\ [r EXCEPT !.results = results, !.given = given] \in Row
<1>1. [r EXCEPT !.agent = agent] \in Row
  BY DEF Row
<1>2. [r EXCEPT !.agent = agent, !.given = given] \in Row
  BY DEF Row
<1>3. [r EXCEPT !.results = results, !.given = given] \in Row
  BY DEF Row
<1>4. QED
  BY <1>1, <1>2, <1>3

\* ... of its Task Run and its output, ...
LEMMA TextFields ==
  ASSUME NEW r \in Row,
         NEW task \in {"none", "created", "queued"} \cup Ended,
         NEW output \in {"valid", "invalid"},
         NEW why \in {"none", "transient", "other"}
  PROVE  /\ [r EXCEPT !.task = task] \in Row
         /\ [r EXCEPT !.output = output] \in Row
         /\ [r EXCEPT !.why = why] \in Row
         /\ [r EXCEPT !.cancel = TRUE] \in Row
         /\ [r EXCEPT !.retried = TRUE] \in Row
<1>1. [r EXCEPT !.task = task] \in Row
  BY DEF Row
<1>2. [r EXCEPT !.output = output] \in Row
  BY DEF Row
<1>3. [r EXCEPT !.why = why] \in Row
  BY DEF Row
<1>4. [r EXCEPT !.cancel = TRUE] \in Row
  BY DEF Row
<1>5. [r EXCEPT !.retried = TRUE] \in Row
  BY DEF Row
<1>6. QED
  BY <1>1, <1>2, <1>3, <1>4, <1>5

\* ... and of the job.
LEMMA JobFields ==
  ASSUME NEW r \in Row,
         NEW job \in {"none", "queued", "leased", "done"},
         NEW holder \in Lanes \cup {Nobody}
  PROVE  /\ [r EXCEPT !.job = job] \in Row
         /\ [r EXCEPT !.job = job, !.holder = holder] \in Row
         /\ [r EXCEPT !.lost = TRUE, !.job = job, !.holder = holder] \in Row
<1>1. [r EXCEPT !.job = job] \in Row
  BY DEF Row
<1>2. [r EXCEPT !.job = job, !.holder = holder] \in Row
  BY ZenonT(60) DEF Row
<1>3. [r EXCEPT !.lost = TRUE, !.job = job, !.holder = holder] \in Row
  BY ZenonT(60) DEF Row
<1>4. QED
  BY <1>1, <1>2, <1>3

\* A row that is written, and the others, which are not.
LEMMA Wrote ==
  ASSUME eval \in [Evals -> Row], NEW e \in Evals, NEW r \in Row, eval' = [eval EXCEPT ![e] = r]
  PROVE  /\ eval' \in [Evals -> Row] /\ eval'[e] = r
         /\ \A f \in Evals \ {e} : eval'[f] = eval[f]
  OBVIOUS

-----------------------------------------------------------------------------
(***************************************************************************)
(* What keeps the invariant                                                *)
(***************************************************************************)
\* What a lane may do to a row that other lanes work on, too.
Keeps(w, r, x) ==
    /\ x.of = r.of /\ x.method = r.method /\ x.owner = r.owner
    /\ x.status /= "none" /\ r.job /= "none" /\ x.job /= "none"
    /\ r.results => x.results
    /\ r.lost => x.lost
    /\ r.agent \in AgentEnded => x.agent = r.agent
    /\ r.agent = "running" => x.agent /= "created"
    /\ r.agent \in {"running", "failed", "stopped"} => x.given = r.given
    /\ r.agent = "completed" => x.output = r.output
    /\ \/ x.lost \/ r.holder = w \/ r.job /= "leased" \/ r.method = "agent"
       \/ /\ x.job = r.job /\ x.holder = r.holder
          /\ x.status \in Ended => r.status \in Ended

\* An evaluator's end and its output are final, so a verdict goes on fitting them.
LEMMA FitsStay ==
  ASSUME NEW r \in Row, NEW x \in Row, NEW v, Fits(r, v), r.agent \in AgentEnded => x.agent = r.agent,
         r.agent = "completed" => x.output = r.output
  PROVE  Fits(x, v)
  BY DEF Fits, AgentEnded

\* The other lanes may go on with the row, if the provider did not answer twice.
LEMMA OthersGoOn ==
  ASSUME NEW w \in Lanes, NEW v \in Lanes \ {w}, NEW r \in Row, NEW x \in Row, NEW m \in Memory,
         RowOK(r), RowOK(x), Keeps(w, r, x), Relies(v, m, r),
         Calling(m) /\ x.agent = "completed" => r.agent = "completed"
  PROVE  Relies(v, m, x)
<1>1. m.pc \in DeterministicSteps => x.lost \/ (x.job = "leased" /\ x.holder = v)
  BY DEF Relies, Keeps
<1>2. m.pc \in DeterministicSteps \ {"read"} => x.lost \/ x.status \notin Ended
  BY DEF Relies, Keeps, DeterministicSteps
<1>3. Calling(m) => x.agent \in {"running", "failed", "stopped"} /\ x.given = "bound"
  <2> SUFFICES ASSUME Calling(m) PROVE x.agent \in {"running", "failed", "stopped"} /\ x.given = "bound"
    OBVIOUS
  <2>1. r.agent \in {"running", "failed", "stopped"} /\ r.given = "bound"
    BY DEF Relies
  <2>2. x.agent /= "created" /\ x.agent /= "completed" /\ x.given = "bound"
    BY <2>1 DEF Keeps, AgentEnded
  <2>3. x.agent /= "none"
    BY <2>1 DEF RowOK, Keeps
  <2>4. QED
    BY <2>2, <2>3 DEF Row, AgentEnded
<1>4. m.pc = "task" => x.agent = m.outcome
  BY DEF Relies, Keeps
<1>5. m.pc = "finalize" => x.agent \in AgentEnded /\ m.outcome = AsTaskRunStatus(x.agent)
  BY DEF Relies, Keeps
<1>6. m.pc = "decide" => Fits(x, m.outcome)
  BY FitsStay DEF Relies, Keeps
<1>7. QED
  BY <1>1, <1>2, <1>3, <1>4, <1>5, <1>6 DEF Relies, Keeps

\* One step of one lane at one row.
LEMMA LaneMoves ==
  ASSUME EvaluationInv, NEW w \in Lanes, NEW e \in Evals,
         lane' \in [Lanes -> Memory], \A v \in Lanes \ {w} : lane'[v] = lane[v],
         eval' \in [Evals -> Row], \A f \in Evals \ {e} : eval'[f] = eval[f],
         faults' \in 0 .. MaxFaults, UNCHANGED <<key, request, original, edits>>,
         RowOK(eval'[e]), Keeps(w, eval[e], eval'[e]),
         lane'[w].pc /= "idle" => lane'[w].eval = e /\ Relies(w, lane'[w], eval'[e]),
         Calling(lane'[w]) => eval[e].agent = "created" \/ (Calling(lane[w]) /\ lane[w].eval = e),
         eval'[e].agent = "completed" =>
            eval[e].agent = "completed" \/ (Calling(lane[w]) /\ lane[w].eval = e)
  PROVE  EvaluationInv'
<1>1. EvaluationTypeOK'
  BY Parts DEF EvaluationInv, EvaluationTypeOK, Row, Memory
<1>2. \A f \in Evals : RowOK(eval[f])'
  BY Parts
<1>3. ASSUME NEW v \in Lanes \ {w}, lane[v].pc /= "idle", lane[v].eval = e
      PROVE  Relies(v, lane[v], eval'[e])
  <2>1. Relies(v, lane[v], eval[e]) /\ lane[v] \in Memory /\ eval[e] \in Row /\ RowOK(eval[e])
    BY <1>3, Parts DEF Busy
  <2>2. Calling(lane[v]) => ~(Calling(lane[w]) /\ lane[w].eval = e)
    BY <1>3 DEF EvaluationInv, OneCall
  <2>3. QED
    BY <2>1, <2>2, OthersGoOn
<1>4. \A v \in Lanes : LaneOK(v)'
  <2> SUFFICES ASSUME NEW v \in Lanes, Busy(v)'
               PROVE  lane'[v].eval \in Evals /\ Relies(v, lane'[v], eval'[lane'[v].eval])
    BY DEF LaneOK
  <2>1. CASE v = w
    BY <2>1 DEF Busy
  <2>2. CASE v /= w
    BY <1>3, <2>2, Parts DEF Busy
  <2>3. QED
    BY <2>1, <2>2
<1>5. OneCall'
  <2> SUFFICES ASSUME NEW v \in Lanes \ {w}, Calling(lane[v]), Calling(lane'[w])
               PROVE  lane[v].eval /= lane'[w].eval
    BY DEF OneCall, EvaluationInv
  <2>1. lane[v].pc /= "idle" /\ lane'[w].pc /= "idle"
    BY DEF Calling
  <2>2. lane[v].eval = e => eval[e].agent /= "created"
    <3>1. lane[v].eval = e => Relies(v, lane[v], eval[e])
      BY <2>1, Parts DEF Busy
    <3>2. QED
      BY <3>1 DEF Relies
  <2>3. QED
    BY <2>1, <2>2 DEF EvaluationInv, OneCall
<1>6. \A q \in Requests : RequestOK(q)'
  BY DEF EvaluationInv, RequestOK, Creating, Keeps
<1>7. OneRequest'
  BY DEF EvaluationInv, OneRequest, Creating
<1>8. QED
  BY <1>1, <1>2, <1>4, <1>5, <1>6, <1>7 DEF EvaluationInv

\* A lane moves and writes no row.
LEMMA LaneThinks ==
  ASSUME EvaluationInv, NEW w \in Lanes,
         lane' \in [Lanes -> Memory], \A v \in Lanes \ {w} : lane'[v] = lane[v],
         faults' \in 0 .. MaxFaults, UNCHANGED <<key, eval, request, original, edits>>,
         lane'[w].pc /= "idle" => lane'[w].eval \in Evals /\ Relies(w, lane'[w], eval[lane'[w].eval]),
         Calling(lane'[w]) => Calling(lane[w]) /\ lane'[w].eval = lane[w].eval
  PROVE  EvaluationInv'
<1>1. EvaluationTypeOK'
  BY DEF EvaluationInv, EvaluationTypeOK, Memory
<1>2. \A v \in Lanes : LaneOK(v)'
  BY Parts DEF LaneOK, Busy
<1>3. OneCall'
  BY DEF EvaluationInv, OneCall
<1>4. QED
  BY <1>1, <1>2, <1>3 DEF EvaluationInv, RequestOK, OneRequest, Creating

-----------------------------------------------------------------------------
(***************************************************************************)
(* Steps of a lane that write no row                                       *)
(***************************************************************************)
\* Where a lane is when it is not idle.
LEMMA Working ==
  ASSUME EvaluationInv, NEW w \in Lanes, ~At(w, "idle")
  PROVE  /\ Mine(w) \in Evals /\ lane[w] \in Memory /\ lane[w].eval = Mine(w)
         /\ eval[Mine(w)] \in Row /\ RowOK(eval[Mine(w)]) /\ Relies(w, lane[w], eval[Mine(w)])
         /\ lane \in [Lanes -> Memory] /\ eval \in [Evals -> Row] /\ faults \in 0 .. MaxFaults
         /\ eval[Mine(w)].status /= "none" /\ eval[Mine(w)].job /= "none"
<1>1. Busy(w)
  BY DEF At, Busy
<1>2. Mine(w) \in Evals /\ Relies(w, lane[w], eval[Mine(w)])
  BY <1>1, Parts DEF Mine
<1>3. QED
  BY <1>2, Parts DEF Mine, Relies

\* A lane that lets go of a row, or keeps what it relied on, moves freely.
LEMMA Thinks ==
  ASSUME EvaluationInv, NEW w \in Lanes, ~At(w, "idle"),
         NEW pc, NEW outcome, Placed(w, pc, outcome),
         ~Calling(lane'[w]), Relies(w, lane'[w], eval[Mine(w)]),
         faults' \in 0 .. MaxFaults, UNCHANGED <<key, eval, request, original, edits>>
  PROVE  EvaluationInv'
  BY Working, LaneThinks DEF Placed

\* Nothing is relied on at the end but that there is a row.
LEMMA ReliesAtEnd ==
  ASSUME NEW w \in Lanes, NEW m, NEW r, r.status /= "none", r.job /= "none", m.pc \in {"finish", "idle"}
  PROVE  Relies(w, m, r) /\ ~Calling(m)
  BY DEF Relies, Calling, DeterministicSteps, AgentSteps

\* The number of faults stays within its bound.
LEMMA FaultCounts ==
  ASSUME faults \in 0 .. MaxFaults, Fault \/ UNCHANGED faults
  PROVE  faults' \in 0 .. MaxFaults
  BY DEF Fault

\* A lane that has nothing left to do at a row finishes the job.
LEMMA GoesToEnd ==
  ASSUME EvaluationInv, NEW w \in Lanes, ~At(w, "idle"), To(w, "finish"),
         faults' \in 0 .. MaxFaults, UNCHANGED <<key, eval, request, original, edits>>
  PROVE  EvaluationInv'
<1>1. Placed(w, "finish", lane[w].outcome)
  BY Working, ToPlaces DEF Pcs
<1>2. QED
  BY <1>1, Working, Thinks, ReliesAtEnd DEF Placed

\* A run that is pending may be started, any other is left alone.
LEMMA ReadRunKeeps ==
  ASSUME EvaluationInv, NEW w \in Lanes, ReadRun(w)
  PROVE  EvaluationInv'
<1>1. ~At(w, "idle") /\ lane[w].pc = "read" /\ UNCHANGED <<key, eval, request, original, edits, faults>>
  BY DEF ReadRun, At, LaneOnly
<1>2. CASE eval[Mine(w)].status = "pending"
  <2>1. To(w, "start")
    BY <1>2 DEF ReadRun
  <2>2. Placed(w, "start", lane[w].outcome)
    BY <1>1, <2>1, Working, ToPlaces DEF Pcs
  <2>3. Relies(w, lane'[w], eval[Mine(w)]) /\ ~Calling(lane'[w])
    BY <1>1, <1>2, <2>2, Working DEF Placed, Relies, Calling, DeterministicSteps, AgentSteps, Ended
  <2>4. QED
    BY <1>1, <2>2, <2>3, Working, Thinks
<1>3. CASE eval[Mine(w)].status /= "pending"
  BY <1>1, <1>3, Working, GoesToEnd DEF ReadRun
<1>4. QED
  BY <1>2, <1>3

\* The evaluator ended and nobody decided: the lane will.
LEMMA ReconcileKeeps ==
  ASSUME EvaluationInv, NEW w \in Lanes, Reconcile(w)
  PROVE  EvaluationInv'
<1>1. ~At(w, "idle") /\ lane[w].pc = "reconcile" /\ UNCHANGED <<key, eval, request, original, edits, faults>>
  BY DEF Reconcile, At, LaneOnly
<1>2. CASE NeedsOutcome(Mine(w))
  <2> DEFINE outcome == AsTaskRunStatus(eval[Mine(w)].agent)
  <2>1. ToWith(w, "finalize", outcome)
    BY <1>2 DEF Reconcile
  <2>2. outcome \in {"none", "stopped"} \cup Ended /\ eval[Mine(w)].agent \in AgentEnded
    BY <1>2 DEF NeedsOutcome, AsTaskRunStatus, AgentEnded, Ended
  <2> HIDE DEF outcome
  <2>3. Placed(w, "finalize", outcome)
    BY <1>1, <2>1, <2>2, Working, ToWithPlaces DEF Pcs
  <2>4. Relies(w, lane'[w], eval[Mine(w)]) /\ ~Calling(lane'[w])
    BY <1>1, <2>2, <2>3, Working DEF Placed, Relies, Calling, DeterministicSteps, AgentSteps, outcome
  <2>5. QED
    BY <1>1, <2>3, <2>4, Working, Thinks
<1>3. CASE ~NeedsOutcome(Mine(w))
  BY <1>1, <1>3, Working, GoesToEnd DEF Reconcile
<1>4. QED
  BY <1>2, <1>3

\* A sweep finds the same of any evaluation of a node.
LEMMA SweepKeeps ==
  ASSUME EvaluationInv, NEW w \in Lanes, NEW e \in Evals, Sweep(w, e)
  PROVE  EvaluationInv'
<1> DEFINE outcome == AsTaskRunStatus(eval[e].agent)
           m == [pc |-> "finalize", eval |-> e, outcome |-> outcome]
<1>1. UNCHANGED <<key, eval, request, original, edits, faults>> /\ lane' = [lane EXCEPT ![w] = m]
  BY DEF Sweep, LaneOnly
<1>2. outcome \in Ended /\ eval[e].agent \in AgentEnded /\ eval[e].owner = "workflow" /\ Undecided(e)
  BY DEF Sweep, NeedsOutcome, OfNode, AsTaskRunStatus, AgentEnded, Ended
<1>3. eval[e].method = "agent" /\ eval[e].job /= "none" /\ eval[e].status /= "none"
  BY <1>2, Parts DEF RowOK, Undecided
<1>4. m \in Memory /\ m.pc = "finalize" /\ m.eval = e /\ m.outcome = outcome
  BY <1>2 DEF Memory
<1>5. Relies(w, m, eval[e]) /\ ~Calling(m)
  BY <1>2, <1>3, <1>4 DEF Relies, Calling, DeterministicSteps, AgentSteps
<1> HIDE DEF m
<1>6. lane' \in [Lanes -> Memory] /\ lane'[w] = m /\ \A v \in Lanes \ {w} : lane'[v] = lane[v]
  BY <1>1, <1>4, Parts
<1>7. QED
  BY <1>1, <1>4, <1>5, <1>6, Parts, LaneThinks

\* The verdict a lane carries from its reading to its write fits the evaluator's
\* end, and goes on fitting it: the end and the output are final.
LEMMA FinalizeKeeps ==
  ASSUME EvaluationInv, NEW w \in Lanes, Finalize(w)
  PROVE  EvaluationInv'
<1>1. ~At(w, "idle") /\ lane[w].pc = "finalize" /\ UNCHANGED <<key, eval, request, original, edits>>
  BY DEF Finalize, At, LaneOnly
<1>2. faults' \in 0 .. MaxFaults
  BY <1>1, Working, FaultCounts DEF Finalize
<1>3. ASSUME NEW v, ToWith(w, "decide", v), v \in Verdict(w) \/ (v = "failed" /\ lane[w].outcome = "completed")
      PROVE  EvaluationInv'
  <2>1. /\ eval[Mine(w)].agent \in AgentEnded /\ eval[Mine(w)].method = "agent"
        /\ lane[w].outcome = AsTaskRunStatus(eval[Mine(w)].agent)
    BY <1>1, Working DEF Relies, AgentSteps
  <2>2. v \in Ended /\ Fits(eval[Mine(w)], v)
    BY <1>3, <2>1 DEF Verdict, Fits, AsTaskRunStatus, AgentEnded, Ended
  <2>3. Placed(w, "decide", v)
    BY <1>1, <1>3, <2>2, Working, ToWithPlaces DEF Pcs
  <2>4. Relies(w, lane'[w], eval[Mine(w)]) /\ ~Calling(lane'[w])
    BY <1>1, <2>1, <2>2, <2>3, Working DEF Placed, Relies, Calling, DeterministicSteps, AgentSteps
  <2>5. QED
    BY <1>1, <1>2, <2>3, <2>4, Working, Thinks
<1>4. CASE To(w, "finish")
  BY <1>1, <1>2, <1>4, GoesToEnd
<1>5. QED
  BY <1>3, <1>4 DEF Finalize

-----------------------------------------------------------------------------
(***************************************************************************)
(* Steps of a lane that write the row it works on                          *)
(***************************************************************************)
\* What is left to show of each of them.
LEMMA Writes ==
  ASSUME EvaluationInv, NEW w \in Lanes, ~At(w, "idle"), NEW pc, NEW outcome, Placed(w, pc, outcome),
         NEW r \in Row, eval' = [eval EXCEPT ![Mine(w)] = r],
         faults' \in 0 .. MaxFaults, UNCHANGED <<key, request, original, edits>>,
         RowOK(r), Keeps(w, eval[Mine(w)], r), Relies(w, lane'[w], r),
         Calling(lane'[w]) => eval[Mine(w)].agent = "created" \/ Calling(lane[w]),
         r.agent = "completed" => eval[Mine(w)].agent = "completed" \/ Calling(lane[w])
  PROVE  EvaluationInv'
<1>1. /\ eval' \in [Evals -> Row] /\ eval'[Mine(w)] = r
      /\ \A f \in Evals \ {Mine(w)} : eval'[f] = eval[f]
  BY Working, Wrote
<1>2. lane'[w].eval = Mine(w) /\ lane[w].eval = Mine(w)
  BY Working DEF Placed
<1>3. QED
  BY <1>1, <1>2, Working, LaneMoves DEF Placed

\* A deterministic run is set RUNNING; nobody else works on it unless the lease was lost.
LEMMA StartRunKeeps ==
  ASSUME EvaluationInv, NEW w \in Lanes, StartRun(w)
  PROVE  EvaluationInv'
<1> DEFINE e == Mine(w)
           r == [eval[e] EXCEPT !.status = "running"]
<1>1. ~At(w, "idle") /\ lane[w].pc = "start" /\ UNCHANGED <<key, request, original, edits, faults>>
  BY DEF StartRun, At, LaneOnly
<1>2. Placed(w, "check", lane[w].outcome)
  BY <1>1, Working, ToPlaces DEF StartRun, Pcs
<1>3. eval' = [eval EXCEPT ![e] = r]
  BY DEF StartRun
<1>4. r \in Row
  BY <1>1, Working, VerdictFields
<1>5. eval[e].method = "deterministic"
  BY <1>1, Working DEF Relies, DeterministicSteps
<1>6. RowOK(r)
  BY <1>1, <1>5, Working DEF RowOK, Row, Ended
<1>7. Keeps(w, eval[e], r)
  BY <1>1, <1>5, Working DEF Keeps, Row, Ended, RowOK
<1>8. Relies(w, lane'[w], r) /\ ~Calling(lane'[w]) /\ r.agent /= "completed"
  BY <1>1, <1>2, <1>5, Working DEF Placed, Relies, Calling, DeterministicSteps, AgentSteps, Row, Ended, RowOK
<1> HIDE DEF r, e
<1>9. QED
  BY <1>1, <1>2, <1>3, <1>4, <1>6, <1>7, <1>8, Working, Writes DEF e

\* The results come before the status.
LEMMA RunChecksKeeps ==
  ASSUME EvaluationInv, NEW w \in Lanes, RunChecks(w)
  PROVE  EvaluationInv'
<1> DEFINE e == Mine(w)
           r == [eval[e] EXCEPT !.results = TRUE, !.given = Bytes(e)]
<1>1. ~At(w, "idle") /\ lane[w].pc = "check" /\ UNCHANGED <<key, request, original, edits, faults>>
  BY DEF RunChecks, At, LaneOnly
<1>2. eval[e].method = "deterministic"
  BY <1>1, Working DEF Relies, DeterministicSteps
<1>3. CASE To(w, "finish") /\ UNCHANGED eval
  BY <1>1, <1>3, Working, GoesToEnd
<1>4. CASE To(w, "error") /\ UNCHANGED eval
  <2>1. Placed(w, "error", lane[w].outcome)
    BY <1>1, <1>4, Working, ToPlaces DEF Pcs
  <2>2. Relies(w, lane'[w], eval[e]) /\ ~Calling(lane'[w])
    BY <1>1, <2>1, Working DEF Placed, Relies, Calling, DeterministicSteps, AgentSteps
  <2>3. QED
    BY <1>1, <1>4, <2>1, <2>2, Working, Thinks
<1>5. CASE eval' = [eval EXCEPT ![e] = r] /\ To(w, "complete")
  <2>1. Placed(w, "complete", lane[w].outcome)
    BY <1>1, <1>5, Working, ToPlaces DEF Pcs
  <2>2. r \in Row
    BY <1>1, Working, GivenFields DEF Bytes
  <2>3. RowOK(r)
    BY <1>1, <1>2, Working DEF RowOK, Row
  <2>4. Keeps(w, eval[e], r)
    BY <1>1, <1>2, Working DEF Keeps, Row, RowOK, AgentEnded
  <2>5. Relies(w, lane'[w], r) /\ ~Calling(lane'[w]) /\ r.agent /= "completed"
    BY <1>1, <1>2, <2>1, Working DEF Placed, Relies, Calling, DeterministicSteps, AgentSteps, Row, RowOK
  <2> HIDE DEF r, e
  <2>6. QED
    BY <1>1, <1>5, <2>1, <2>2, <2>3, <2>4, <2>5, Working, Writes DEF e
<1>6. QED
  BY <1>3, <1>4, <1>5 DEF RunChecks

\* The one lane that has the lease ends the run.
LEMMA EndRunKeeps ==
  ASSUME EvaluationInv, NEW w \in Lanes, EndRun(w)
  PROVE  EvaluationInv'
<1>1. ~At(w, "idle") /\ lane[w].pc \in {"complete", "error"} /\ UNCHANGED <<key, request, original, edits, faults>>
  BY DEF EndRun, At, LaneOnly
<1>2. ASSUME NEW status \in {"completed", "failed"}, eval' = [eval EXCEPT ![Mine(w)].status = status],
             status = "completed" => lane[w].pc = "complete"
      PROVE  EvaluationInv'
  <2> DEFINE e == Mine(w)
             r == [eval[e] EXCEPT !.status = status]
  <2>1. Placed(w, "finish", lane[w].outcome)
    BY <1>1, Working, ToPlaces DEF EndRun, Pcs
  <2>2. eval' = [eval EXCEPT ![e] = r] /\ r \in Row
    BY <1>1, <1>2, Working, VerdictFields DEF Ended
  <2>3. /\ eval[e].method = "deterministic" /\ (status = "completed" => eval[e].results)
        /\ eval[e].lost \/ (eval[e].job = "leased" /\ eval[e].holder = w)
    BY <1>1, <1>2, Working DEF Relies, DeterministicSteps
  <2>4. RowOK(r)
    BY <1>1, <2>3, Working DEF RowOK, Row, Ended
  <2>5. Keeps(w, eval[e], r)
    BY <1>1, <2>3, Working DEF Keeps, Row, RowOK, AgentEnded
  <2>6. r.agent /= "completed" /\ r.status /= "none" /\ r.job /= "none"
    BY <1>1, <2>3, Working DEF RowOK, Row
  <2> HIDE DEF r, e
  <2>7. Relies(w, lane'[w], r) /\ ~Calling(lane'[w])
    BY <2>1, <2>6, ReliesAtEnd DEF Placed
  <2>8. QED
    BY <1>1, <2>1, <2>2, <2>4, <2>5, <2>6, <2>7, Working, Writes DEF e
<1>3. QED
  BY <1>2 DEF EndRun, At

\* complete() is fenced.
LEMMA FinishKeeps ==
  ASSUME EvaluationInv, NEW w \in Lanes, Finish(w)
  PROVE  EvaluationInv'
<1> DEFINE e == Mine(w)
           r == [eval[e] EXCEPT !.job = "done", !.holder = Nobody]
<1>1. ~At(w, "idle") /\ lane[w].pc = "finish" /\ UNCHANGED <<key, request, original, edits, faults>>
  BY DEF Finish, At, LaneOnly
<1>2. /\ lane' \in [Lanes -> Memory] /\ lane'[w].pc = "idle" /\ ~Calling(lane'[w])
      /\ \A v \in Lanes \ {w} : lane'[v] = lane[v]
  BY <1>1, Working DEF Finish, IdleLane, Memory, Calling
<1>3. CASE eval[e].holder = w
  <2>1. eval' = [eval EXCEPT ![e] = r]
    BY <1>3 DEF Finish
  <2>2. r \in Row
    BY <1>1, Working, JobFields
  <2>3. RowOK(r)
    BY <1>1, Working DEF RowOK, Row, Fits
  <2>4. Keeps(w, eval[e], r)
    BY <1>1, <1>3, Working DEF Keeps, Row, AgentEnded
  <2>5. r.agent = eval[e].agent
    BY <1>1, Working DEF Row
  <2> HIDE DEF r
  <2>6. QED
    BY <1>1, <1>2, <2>1, <2>2, <2>3, <2>4, <2>5, Working, Wrote, LaneMoves
<1>4. CASE eval[e].holder /= w
  BY <1>1, <1>2, <1>4, Working, LaneThinks DEF Finish
<1>5. QED
  BY <1>3, <1>4

-----------------------------------------------------------------------------
(***************************************************************************)
(* Steps of a lane at an agent evaluation                                  *)
(***************************************************************************)
\* Where a step leads when the call was never made, or failed: to the verdict.
LEMMA JudgesWithout ==
  ASSUME EvaluationInv, NEW w \in Lanes, ~At(w, "idle"), lane[w].pc \in AgentSteps,
         NEW outcome \in {"failed", "stopped"}, ToWith(w, "judge", outcome),
         NEW why \in {"none", "transient", "other"}, eval' = [eval EXCEPT ![Mine(w)].why = why],
         UNCHANGED <<key, request, original, edits, faults>>
  PROVE  EvaluationInv'
<1> DEFINE e == Mine(w)
           r == [eval[e] EXCEPT !.why = why]
<1>1. Placed(w, "judge", outcome)
  BY Working, ToWithPlaces DEF Pcs, Ended
<1>2. r \in Row
  BY Working, TextFields
<1>3. eval[e].method = "agent"
  BY Working DEF Relies
<1>4. RowOK(r)
  BY <1>3, Working DEF RowOK, Row, Fits
<1>5. Keeps(w, eval[e], r)
  BY Working DEF Keeps, Row, AgentEnded
<1>6. Relies(w, lane'[w], r) /\ ~Calling(lane'[w]) /\ r.agent = eval[e].agent
  BY <1>1, <1>3, Working DEF Placed, Relies, Calling, DeterministicSteps, AgentSteps, Row, AgentEnded
<1>7. eval' = [eval EXCEPT ![e] = r]
  OBVIOUS
<1> HIDE DEF r, e
<1>8. QED
  BY <1>1, <1>2, <1>4, <1>5, <1>6, <1>7, Working, Writes DEF e

\* The lane that finds the evaluator CREATED makes the call, and no other one can.
LEMMA CallsOnce ==
  ASSUME EvaluationInv, NEW w \in Lanes, At(w, "recover"), eval[Mine(w)].agent = "created",
         original[eval[Mine(w)].of], To(w, "call"),
         eval' = [eval EXCEPT ![Mine(w)].agent = "running", ![Mine(w)].given = Bytes(Mine(w))],
         UNCHANGED <<key, request, original, edits, faults>>
  PROVE  EvaluationInv'
<1> DEFINE e == Mine(w)
           r == [eval[e] EXCEPT !.agent = "running", !.given = "bound"]
<1>1. ~At(w, "idle") /\ lane[w].pc = "recover"
  BY DEF At
<1>2. Placed(w, "call", lane[w].outcome)
  BY <1>1, Working, ToPlaces, SMTT(40) DEF Pcs
<1>3. r \in Row
  BY <1>1, Working, GivenFields
<1>4. eval[e].method = "agent"
  BY <1>1, Working DEF Relies, AgentSteps
<1>5. eval[e].status \notin Ended
  BY <1>1, <1>4, Working DEF RowOK, Fits, Ended
<1>6. RowOK(r)
  BY <1>1, <1>4, <1>5, Working DEF RowOK, Row, Ended
<1>7. Keeps(w, eval[e], r)
  BY <1>1, Working DEF Keeps, Row, AgentEnded
<1>8. Relies(w, lane'[w], r) /\ r.agent /= "completed"
  BY <1>1, <1>2, <1>4, Working DEF Placed, Relies, Calling, DeterministicSteps, AgentSteps, Row
<1>9. eval' = [eval EXCEPT ![e] = r]
  BY DEF Bytes
<1> HIDE DEF r, e
<1>10. QED
  BY <1>1, <1>2, <1>3, <1>6, <1>7, <1>8, <1>9, Working, Writes DEF e

\* What a lane finds when it takes an evaluator up.
LEMMA RecoverKeeps ==
  ASSUME EvaluationInv, NEW w \in Lanes, Recover(w)
  PROVE  EvaluationInv'
<1> DEFINE e == Mine(w)
<1>1. /\ ~At(w, "idle") /\ At(w, "recover") /\ lane[w].pc = "recover" /\ lane[w].pc \in AgentSteps
      /\ UNCHANGED <<key, request, original, edits, faults>>
  BY DEF Recover, At, LaneOnly, AgentSteps
<1>2. eval[e].method = "agent" /\ eval[e].agent \in {"created", "running"} \cup AgentEnded
  BY <1>1, Working DEF Relies, AgentSteps, RowOK, Row
<1>3. eval[e].why \in {"none", "transient", "other"} /\ eval[e].cancel \in BOOLEAN
  BY <1>1, Working DEF Row
<1>4. CASE eval[e].agent \in AgentEnded
  <2>1. To(w, "reconcile") /\ UNCHANGED eval
    BY <1>1, <1>4 DEF Recover, AgentEnded
  <2>2. Placed(w, "reconcile", lane[w].outcome)
    BY <1>1, <2>1, Working, ToPlaces DEF Pcs
  <2>3. Relies(w, lane'[w], eval[e]) /\ ~Calling(lane'[w])
    BY <1>1, <1>2, <2>2, Working DEF Placed, Relies, Calling, DeterministicSteps, AgentSteps
  <2>4. QED
    BY <1>1, <2>1, <2>2, <2>3, Working, Thinks
<1>5. CASE eval[e].agent = "running"
  <2> DEFINE why == IF eval[e].output = "none" THEN Why(e, "transient") ELSE eval[e].why
  <2>1. ToWith(w, "judge", "failed") /\ eval' = [eval EXCEPT ![e].why = why]
    BY <1>1, <1>5, Working DEF Recover, AgentEnded
  <2>2. why \in {"none", "transient", "other"}
    BY <1>3 DEF Why
  <2> HIDE DEF why
  <2>3. QED
    BY <1>1, <2>1, <2>2, JudgesWithout
<1>6. CASE eval[e].agent = "created" /\ eval[e].cancel
  <2>1. ToWith(w, "judge", "stopped") /\ UNCHANGED eval
    BY <1>1, <1>6 DEF Recover, AgentEnded
  <2>2. Placed(w, "judge", "stopped")
    BY <1>1, <2>1, Working, ToWithPlaces DEF Pcs
  <2>3. Relies(w, lane'[w], eval[e]) /\ ~Calling(lane'[w])
    BY <1>1, <1>2, <2>2, Working DEF Placed, Relies, Calling, DeterministicSteps, AgentSteps, AgentEnded
  <2>4. QED
    BY <1>1, <2>1, <2>2, <2>3, Working, Thinks
<1>7. CASE eval[e].agent = "created" /\ ~eval[e].cancel /\ ~Acceptable(e)
  <2>1. ToWith(w, "judge", "failed") /\ eval' = [eval EXCEPT ![e].why = "other"]
    BY <1>1, <1>7 DEF Recover, AgentEnded
  <2>2. QED
    BY <1>1, <2>1, JudgesWithout
<1>8. CASE eval[e].agent = "created" /\ ~eval[e].cancel /\ Acceptable(e)
  <2>1. To(w, "call") /\ eval' = [eval EXCEPT ![e].agent = "running", ![e].given = Bytes(e)]
    BY <1>1, <1>8 DEF Recover, AgentEnded
  <2>2. QED
    BY <1>1, <1>8, <2>1, CallsOnce DEF Acceptable
<1>9. QED
  BY <1>2, <1>3, <1>4, <1>5, <1>6, <1>7, <1>8

\* An answer is the only output, and what was given is not written any more.
LEMMA AnswerKeeps ==
  ASSUME EvaluationInv, NEW w \in Lanes, Answer(w)
  PROVE  EvaluationInv'
<1>1. /\ ~At(w, "idle") /\ lane[w].pc = "call" /\ lane[w].pc \in AgentSteps
      /\ UNCHANGED <<key, request, original, edits, faults>>
  BY DEF Answer, At, LaneOnly, AgentSteps
<1>2. ASSUME NEW text \in {"valid", "invalid"}, eval' = [eval EXCEPT ![Mine(w)].output = text],
             NEW outcome \in {"stopped", "completed"}, ToWith(w, "judge", outcome)
      PROVE  EvaluationInv'
  <2> DEFINE e == Mine(w)
             r == [eval[e] EXCEPT !.output = text]
  <2>1. Placed(w, "judge", outcome)
    BY <1>1, <1>2, Working, ToWithPlaces DEF Pcs, Ended
  <2>2. r \in Row
    BY <1>1, Working, TextFields
  <2>3. /\ eval[e].method = "agent" /\ eval[e].agent \in {"running", "failed", "stopped"}
        /\ eval[e].given = "bound"
    BY <1>1, Working DEF Relies, AgentSteps, Calling
  <2>4. RowOK(r)
    BY <1>1, <2>3, Working DEF RowOK, Row, Fits
  <2>5. Keeps(w, eval[e], r)
    BY <1>1, <2>3, Working DEF Keeps, Row, AgentEnded
  <2>6. Relies(w, lane'[w], r) /\ Calling(lane[w]) /\ r.agent /= "completed"
    BY <1>1, <2>1, <2>3, Working DEF Placed, Relies, Calling, DeterministicSteps, AgentSteps, Row, AgentEnded
  <2>7. eval' = [eval EXCEPT ![e] = r]
    BY <1>2
  <2> HIDE DEF r, e
  <2>8. QED
    BY <1>1, <2>1, <2>2, <2>4, <2>5, <2>6, <2>7, Working, Writes DEF e
<1>3. ASSUME NEW category \in {"transient", "other"}, ToWith(w, "judge", "failed"),
             eval' = [eval EXCEPT ![Mine(w)].why = Why(Mine(w), category)]
      PROVE  EvaluationInv'
  <2>1. Why(Mine(w), category) \in {"none", "transient", "other"}
    BY <1>1, Working DEF Why, Row
  <2>2. QED
    BY <1>1, <1>3, <2>1, JudgesWithout
<1>4. QED
  BY <1>2, <1>3 DEF Answer

\* The first one ends the Agent Run; as completed only the lane that called.
LEMMA JudgeKeeps ==
  ASSUME EvaluationInv, NEW w \in Lanes, Judge(w)
  PROVE  EvaluationInv'
<1> DEFINE e == Mine(w)
           r == [eval[e] EXCEPT !.agent = lane[w].outcome]
<1>1. ~At(w, "idle") /\ lane[w].pc = "judge" /\ UNCHANGED <<key, request, original, edits, faults>>
  BY DEF Judge, At, LaneOnly
<1>2. eval[e].method = "agent" /\ lane[w].outcome \in AgentEnded
  BY <1>1, Working DEF Relies, AgentSteps
<1>3. CASE eval[e].agent \in AgentEnded
  <2>1. To(w, "reconcile") /\ UNCHANGED eval
    BY <1>3 DEF Judge
  <2>2. Placed(w, "reconcile", lane[w].outcome)
    BY <1>1, <2>1, Working, ToPlaces DEF Pcs
  <2>3. Relies(w, lane'[w], eval[e]) /\ ~Calling(lane'[w])
    BY <1>1, <1>2, <2>2, Working DEF Placed, Relies, Calling, DeterministicSteps, AgentSteps
  <2>4. QED
    BY <1>1, <2>1, <2>2, <2>3, Working, Thinks
<1>4. CASE eval[e].agent \notin AgentEnded
  <2>1. To(w, "task") /\ eval' = [eval EXCEPT ![e] = r]
    BY <1>4 DEF Judge
  <2>2. Placed(w, "task", lane[w].outcome)
    BY <1>1, <2>1, Working, ToPlaces DEF Pcs
  <2>3. r \in Row
    BY <1>1, <1>2, Working, GivenFields
  <2>4. eval[e].status \notin Ended
    BY <1>1, <1>2, <1>4, Working DEF RowOK, Fits, Ended, AgentEnded
  <2>5. lane[w].outcome = "completed" => eval[e].given = "bound" /\ Calling(lane[w])
    BY <1>1, Working DEF Relies, Calling
  <2>6. RowOK(r)
    BY <1>1, <1>2, <2>4, <2>5, Working DEF RowOK, Row, AgentEnded, Ended
  <2>7. Keeps(w, eval[e], r)
    BY <1>1, <1>2, <1>4, Working DEF Keeps, Row, AgentEnded
  <2>8. Relies(w, lane'[w], r) /\ ~Calling(lane'[w]) /\ r.agent = lane[w].outcome
    BY <1>1, <1>2, <2>2, Working DEF Placed, Relies, Calling, DeterministicSteps, AgentSteps, Row
  <2> HIDE DEF r, e
  <2>9. QED
    BY <1>1, <2>1, <2>2, <2>3, <2>5, <2>6, <2>7, <2>8, Working, Writes DEF e
<1>5. QED
  BY <1>3, <1>4

\* The Task Run gets its status, and the evaluation may be concluded.
LEMMA EndTaskKeeps ==
  ASSUME EvaluationInv, NEW w \in Lanes, EndTask(w)
  PROVE  EvaluationInv'
<1> DEFINE e == Mine(w)
           outcome == AsTaskRunStatus(lane[w].outcome)
           r == [eval[e] EXCEPT !.task = outcome]
<1>1. /\ ~At(w, "idle") /\ lane[w].pc = "task" /\ eval' = [eval EXCEPT ![e] = r]
      /\ UNCHANGED <<key, request, original, edits, faults>>
  BY DEF EndTask, At, LaneOnly
<1>2. /\ eval[e].method = "agent" /\ lane[w].outcome \in AgentEnded
      /\ eval[e].agent = lane[w].outcome
  BY <1>1, Working DEF Relies, AgentSteps
<1>3. outcome \in Ended
  BY <1>2 DEF AsTaskRunStatus, AgentEnded, Ended
<1>4. Placed(w, "finalize", outcome)
  BY <1>1, <1>3, Working, ToWithPlaces DEF EndTask, Pcs
<1>5. r \in Row
  BY <1>1, <1>3, Working, TextFields
<1>6. RowOK(r)
  BY <1>1, <1>2, Working DEF RowOK, Row, Fits
<1>7. Keeps(w, eval[e], r)
  BY <1>1, Working DEF Keeps, Row, AgentEnded
<1>8. Relies(w, lane'[w], r) /\ ~Calling(lane'[w]) /\ r.agent = eval[e].agent
  BY <1>1, <1>2, <1>4, Working DEF Placed, Relies, Calling, DeterministicSteps, AgentSteps, Row
<1> HIDE DEF r, e
<1>9. QED
  BY <1>1, <1>4, <1>5, <1>6, <1>7, <1>8, Working, Writes DEF e

\* The verdict is written once, with its results.
LEMMA DecideKeeps ==
  ASSUME EvaluationInv, NEW w \in Lanes, Decide(w)
  PROVE  EvaluationInv'
<1> DEFINE e == Mine(w)
           v == lane[w].outcome
           r == [eval[e] EXCEPT !.status = v, !.results = @ \/ v = "completed"]
<1>1. /\ ~At(w, "idle") /\ lane[w].pc = "decide" /\ To(w, "finish")
      /\ UNCHANGED <<key, request, original, edits, faults>>
  BY DEF Decide, At, LaneOnly
<1>2. eval[e].method = "agent" /\ Fits(eval[e], v) /\ v \in Ended
  BY <1>1, Working DEF Relies, AgentSteps, Fits, Ended
<1>3. CASE CasTerminal(e)
  <2>1. eval' = [eval EXCEPT ![e] = r]
    BY <1>3 DEF Decide
  <2>2. Placed(w, "finish", v)
    BY <1>1, Working, ToPlaces DEF Pcs
  <2>3. r \in Row
    <3> DEFINE results == eval[e].results \/ v = "completed"
    <3>1. eval[e] \in Row /\ results \in BOOLEAN /\ r = [eval[e] EXCEPT !.status = v, !.results = results]
      BY <1>1, Working DEF Row
    <3> HIDE DEF results
    <3>2. QED
      BY <1>2, <3>1, VerdictFields
  <2>4. eval[e].status \in {"pending", "running"}
    BY <1>3 DEF CasTerminal, Undecided
  <2>5. RowOK(r)
    <3>1. /\ r.status = v /\ r.method = "agent" /\ r.agent = eval[e].agent /\ r.output = eval[e].output
          /\ r.of = eval[e].of /\ r.owner = eval[e].owner /\ r.job = eval[e].job
          /\ r.given = eval[e].given /\ r.retried = eval[e].retried
      BY <1>1, <1>2, Working DEF Row
    <3>2. r.results = (eval[e].results \/ v = "completed")
      BY <1>1, Working DEF Row
    <3>3. ~eval[e].results /\ ~eval[e].retried
      BY <1>1, <1>2, <2>4, Working DEF RowOK
    <3>4. Fits(r, v)
      BY <1>2, <3>1 DEF Fits
    <3> HIDE DEF r
    <3>5. QED
      BY <1>1, <1>2, <3>1, <3>3, <3>4, <3>2, Working DEF RowOK, Ended
  <2>6. Keeps(w, eval[e], r)
    BY <1>1, <1>2, <2>4, Working DEF Keeps, Row, AgentEnded, Ended, RowOK, Fits
  <2>7. r.agent = eval[e].agent /\ r.status /= "none" /\ r.job /= "none"
    BY <1>1, <1>2, Working DEF Row, Ended
  <2>8. Relies(w, lane'[w], r) /\ ~Calling(lane'[w])
    BY <2>2, <2>7, ReliesAtEnd DEF Placed
  <2> HIDE DEF r, e
  <2>9. QED
    BY <1>1, <2>1, <2>2, <2>3, <2>5, <2>6, <2>7, <2>8, Working, Writes DEF e
<1>4. CASE ~CasTerminal(e)
  BY <1>1, <1>4, Working, GoesToEnd DEF Decide
<1>5. QED
  BY <1>3, <1>4

-----------------------------------------------------------------------------
(***************************************************************************)
(* Leases: a job is claimed, or its lane dies or outlives its lease        *)
(***************************************************************************)
\* A job that is queued is nobody's.
LEMMA ClaimKeeps ==
  ASSUME EvaluationInv, NEW w \in Lanes, NEW e \in Evals, Claim(w, e)
  PROVE  EvaluationInv'
<1> DEFINE r == [eval[e] EXCEPT !.job = "leased", !.holder = w]
           pc == IF eval[e].method = "agent" THEN "recover" ELSE "read"
           m == [pc |-> pc, eval |-> e, outcome |-> "none"]
<1>1. /\ eval' = [eval EXCEPT ![e] = r] /\ lane' = [lane EXCEPT ![w] = m]
      /\ eval[e].job = "queued" /\ UNCHANGED <<key, request, original, edits, faults>>
  BY DEF Claim, LaneOnly
<1>2. eval[e] \in Row /\ RowOK(eval[e])
  BY Parts
<1>3. eval[e].status /= "none" /\ eval[e].method \in Methods
  BY <1>1, <1>2 DEF RowOK, NoEval
<1>4. r \in Row
  BY <1>2, JobFields
<1>5. RowOK(r)
  BY <1>2, <1>3 DEF RowOK, Row, Fits
<1>6. Keeps(w, eval[e], r)
  BY <1>1, <1>2, <1>3 DEF Keeps, Row, AgentEnded
<1>7. m \in Memory /\ m.pc = pc /\ m.eval = e
  BY DEF Memory
<1>8. /\ r.status /= "none" /\ r.job = "leased" /\ r.holder = w /\ r.method = eval[e].method
      /\ r.agent = eval[e].agent
  BY <1>2, <1>3 DEF Row
<1>9. Relies(w, m, r) /\ ~Calling(m)
  BY <1>3, <1>7, <1>8 DEF Relies, Calling, DeterministicSteps, AgentSteps
<1> HIDE DEF r, m
<1>10. lane' \in [Lanes -> Memory] /\ lane'[w] = m /\ \A v \in Lanes \ {w} : lane'[v] = lane[v]
  BY <1>1, <1>7, Parts
<1>11. /\ eval' \in [Evals -> Row] /\ eval'[e] = r /\ \A f \in Evals \ {e} : eval'[f] = eval[f]
  BY <1>1, <1>4, Parts, Wrote
<1>12. QED
  BY <1>1, <1>5, <1>6, <1>7, <1>8, <1>9, <1>10, <1>11, Parts, LaneMoves

\* A lane that dies or outlives its lease gives the job back, and the row remembers it.
LEMMA JobReturnsKeeps ==
  ASSUME EvaluationInv, NEW w \in Lanes, ~At(w, "idle"), JobReturns(w), Fault, LaneOnly,
         lane' = lane \/ lane' = [lane EXCEPT ![w] = IdleLane]
  PROVE  EvaluationInv'
<1> DEFINE e == Mine(w)
           job == IF eval[e].holder = w THEN "queued" ELSE eval[e].job
           holder == IF eval[e].holder = w THEN Nobody ELSE eval[e].holder
           r == [eval[e] EXCEPT !.lost = TRUE, !.job = job, !.holder = holder]
<1>1. UNCHANGED <<key, request, original, edits>> /\ faults' \in 0 .. MaxFaults
  BY Working, FaultCounts DEF LaneOnly
<1>2. eval' = [eval EXCEPT ![e] = r]
  BY Working DEF JobReturns, Row
<1>3. job \in {"queued", "leased", "done"} /\ holder \in Lanes \cup {Nobody}
  BY Working, SMTT(40) DEF Row
<1> HIDE DEF job, holder
<1>4. r \in Row
  BY <1>3, Working, JobFields
<1>5. RowOK(r)
  BY <1>3, Working DEF RowOK, Row, Fits
<1>6. Keeps(w, eval[e], r)
  BY <1>3, Working DEF Keeps, Row, AgentEnded
<1>7. /\ r.lost /\ r.job /= "none" /\ r.status = eval[e].status /\ r.results = eval[e].results
      /\ r.method = eval[e].method /\ r.agent = eval[e].agent
      /\ r.output = eval[e].output /\ r.given = eval[e].given
  BY <1>3, Working DEF Row
<1> HIDE DEF r
<1>8. Relies(w, lane[w], r)
  BY <1>7, Working DEF Relies, Fits
<1>9. /\ lane' \in [Lanes -> Memory] /\ \A v \in Lanes \ {w} : lane'[v] = lane[v]
      /\ lane'[w] = lane[w] \/ lane'[w] = IdleLane
  BY Working DEF IdleLane, Memory
<1>10. IdleLane.pc = "idle" /\ ~Calling(IdleLane)
  BY DEF IdleLane, Calling
<1>11. /\ eval' \in [Evals -> Row] /\ eval'[e] = r /\ \A f \in Evals \ {e} : eval'[f] = eval[f]
  BY <1>2, <1>4, Working, Wrote
<1>12. QED
  BY <1>1, <1>5, <1>6, <1>7, <1>8, <1>9, <1>10, <1>11, Working, LaneMoves, SMTT(40)

\* A step of a lane that works.
LEMMA LaneStepKeeps ==
  ASSUME EvaluationInv, NEW w \in Lanes, LaneStep(w) \/ LaneDies(w) \/ OutliveLease(w)
  PROVE  EvaluationInv'
<1>1. CASE LaneStep(w)
  BY <1>1, FinishKeeps, ReadRunKeeps, StartRunKeeps, RunChecksKeeps, EndRunKeeps, RecoverKeeps, AnswerKeeps,
     JudgeKeeps, EndTaskKeeps, ReconcileKeeps, FinalizeKeeps, DecideKeeps DEF LaneStep
<1>2. CASE LaneDies(w)
  BY <1>2, JobReturnsKeeps DEF LaneDies
<1>3. CASE OutliveLease(w)
  BY <1>3, JobReturnsKeeps DEF OutliveLease
<1>4. QED
  BY <1>1, <1>2, <1>3

-----------------------------------------------------------------------------
(***************************************************************************)
(* Steps of the requests, of the nodes and of the people                   *)
(***************************************************************************)
\* What they may do to a row: create it, queue its job, and write what no lane
\* relies on.
Beside(r, x) ==
    \/ x = r
    \/ r.status = "none"
    \/ r.job = "none" /\ x.status /= "none"
    \/ /\ x.status = r.status /\ x.method = r.method /\ x.job = r.job /\ x.holder = r.holder
       /\ x.lost = r.lost /\ x.results = r.results /\ x.agent = r.agent
       /\ x.given = r.given /\ x.output = r.output

\* The lanes may go on when rows were created, or written beside them.
LEMMA RowsChange ==
  ASSUME EvaluationInv, EvaluationTypeOK', UNCHANGED lane,
         \A e \in Evals : RowOK(eval'[e]) /\ Beside(eval[e], eval'[e]),
         \A q \in Requests : RequestOK(q)', OneRequest'
  PROVE  EvaluationInv'
<1>1. ASSUME NEW w \in Lanes, Busy(w) PROVE Relies(w, lane[w], eval'[lane[w].eval])
  <2>1. lane[w].eval \in Evals /\ Relies(w, lane[w], eval[lane[w].eval])
    BY <1>1, Parts
  <2>2. eval[lane[w].eval].status /= "none" /\ eval[lane[w].eval].job /= "none"
    BY <2>1 DEF Relies
  <2>3. QED
    BY <2>1, <2>2 DEF Relies, Beside, Fits
<1>2. \A w \in Lanes : LaneOK(w)'
  BY <1>1, Parts DEF LaneOK, Busy
<1>3. OneCall'
  BY DEF EvaluationInv, OneCall
<1>4. QED
  BY <1>2, <1>3 DEF EvaluationInv

Status == [status : {"absent", "in_progress", "completed", "failed"}, ref : Evals \cup {Nothing}]

\* A row as it is created.
LEMMA NewRow ==
  ASSUME NEW s \in Candidates, NEW method \in Methods, NEW owner \in {"api", "direct", "workflow"},
         NEW task \in {"none", "created", "queued"}, NEW job \in {"none", "queued"},
         owner = "workflow" => method = "agent" /\ job = "queued"
  PROVE  LET r == NewEval(s, method, owner, task, job)
         IN  /\ r \in Row /\ RowOK(r)
             /\ r.of = s /\ r.method = method /\ r.owner = owner /\ r.job = job /\ ~r.retried
             /\ r.status \in {"pending", "running"}
             /\ r.agent = (IF method = "agent" THEN "created" ELSE "none") /\ ~r.results
<1> DEFINE r == NewEval(s, method, owner, task, job)
           status == IF method = "agent" THEN "running" ELSE "pending"
           agent == IF method = "agent" THEN "created" ELSE "none"
<1>1. r = [of |-> s, method |-> method, owner |-> owner, status |-> status, results |-> FALSE,
           agent |-> agent, task |-> task, cancel |-> FALSE, given |-> "none", output |-> "none",
           why |-> "none", retried |-> FALSE, job |-> job, holder |-> Nobody, lost |-> FALSE]
  <2>1. r = [NoEval EXCEPT !.of = s, !.method = method, !.owner = owner, !.status = status,
                           !.agent = agent, !.task = task, !.job = job]
    BY DEF NewEval
  <2> HIDE DEF r, status, agent
  <2>2. QED
    BY <2>1 DEF NoEval
<1>2. r \in Row
  BY <1>1 DEF Row
<1>3. RowOK(r)
  BY <1>1 DEF RowOK, Ended
<1>4. QED
  BY <1>1, <1>2, <1>3

\* A row that may be created is blank: no request knows it.
LEMMA Blank ==
  ASSUME EvaluationInv, NEW e \in Evals, Fresh(e)
  PROVE  /\ eval[e].status = "none" /\ eval[e].job = "none" /\ eval[e].owner = "none"
         /\ eval[e].of = Nothing /\ eval[e].method = "none" /\ ~eval[e].retried
         /\ \A q \in Requests : Creating(q) => request[q].eval /= e
<1>1. eval[e] = NoEval /\ eval[e].status = "none"
  BY Parts DEF Fresh, RowOK
<1>2. QED
  BY <1>1 DEF NoEval, EvaluationInv, RequestOK

\* The types, when no lane moves.
LEMMA TypesStay ==
  ASSUME EvaluationInv, UNCHANGED lane, key' \in [Keys -> Status], eval' \in [Evals -> Row],
         request' \in [Requests -> Handler], original' \in [Candidates -> BOOLEAN],
         faults' \in 0 .. MaxFaults, edits' \in 0 .. MaxEdits
  PROVE  EvaluationTypeOK'
  BY DEF EvaluationInv, EvaluationTypeOK, Row, Handler, Status

\* The type of the keys, by name.
LEMMA KeyType ==
  ASSUME EvaluationInv
  PROVE  key \in [Keys -> Status]
  BY DEF EvaluationInv, EvaluationTypeOK, Status

\* A row that is not written disturbs nobody.
LEMMA SameBeside ==
  ASSUME NEW r
  PROVE  Beside(r, r)
  BY DEF Beside

\* A request that is not between a row and its job writes no row.
LEMMA RequestGoesOn ==
  ASSUME EvaluationInv, UNCHANGED <<eval, lane, original, edits>>, faults' \in 0 .. MaxFaults,
         key' \in [Keys -> Status], NEW q \in Requests, request' \in [Requests -> Handler],
         \A p \in Requests \ {q} : request'[p] = request[p], ~Creating(q)'
  PROVE  EvaluationInv'
<1>1. EvaluationTypeOK'
  BY Parts, TypesStay
<1>2. \A p \in Requests : RequestOK(p)'
  BY DEF EvaluationInv, RequestOK, Creating
<1>3. OneRequest'
  BY DEF EvaluationInv, OneRequest, Creating
<1>4. QED
  BY <1>1, <1>2, <1>3, Parts, SameBeside, RowsChange

\* Where a request is after its program counter moved ...
LEMMA Gone ==
  ASSUME request \in [Requests -> Handler], NEW q \in Requests,
         NEW pc \in {"begin", "reclaim", "create", "queue", "enqueue", "complete", "fail", "gone"}, Go(q, pc)
  PROVE  /\ request' \in [Requests -> Handler]
         /\ request'[q].pc = pc /\ request'[q].eval = request[q].eval /\ request'[q].at = request[q].at
         /\ \A p \in Requests \ {q} : request'[p] = request[p]
<1> DEFINE h == [request[q] EXCEPT !.pc = pc]
<1>1. h \in Handler /\ h.pc = pc /\ h.eval = request[q].eval /\ h.at = request[q].at
  BY DEF Handler
<1>2. request' = [request EXCEPT ![q] = h]
  BY DEF Go
<1> HIDE DEF h
<1>3. QED
  BY <1>1, <1>2

\* ... or it took up the next candidate.
LEMMA WentOn ==
  ASSUME request \in [Requests -> Handler], NEW q \in Requests, NextCandidate(q)
  PROVE  /\ request' \in [Requests -> Handler]
         /\ request'[q].pc \in {"begin", "gone"}
         /\ \A p \in Requests \ {q} : request'[p] = request[p]
<1> DEFINE h == IF request[q].at < NCandidates THEN [NewRequest EXCEPT !.at = request[q].at + 1]
                ELSE [NewRequest EXCEPT !.pc = "gone"]
<1>1. request[q].at \in 1 .. NCandidates
  BY DEF Handler
<1>2. h \in Handler /\ h.pc \in {"begin", "gone"}
  <2>1. CASE request[q].at < NCandidates
    <3>1. h = [pc |-> "begin", at |-> request[q].at + 1, eval |-> Nothing]
      BY <2>1 DEF NewRequest
    <3>2. QED
      BY <1>1, <2>1, <3>1 DEF Handler
  <2>2. CASE ~(request[q].at < NCandidates)
    <3>1. h = [pc |-> "gone", at |-> 1, eval |-> Nothing]
      BY <2>2 DEF NewRequest
    <3>2. QED
      BY <3>1 DEF Handler
  <2>3. QED
    BY <2>1, <2>2
<1>3. request' = [request EXCEPT ![q] = h]
  BY DEF NextCandidate
<1> HIDE DEF h
<1>4. QED
  BY <1>2, <1>3

\* Steps of a request around its key.
LEMMA KeyStepKeeps ==
  ASSUME EvaluationInv, NEW q \in Requests,
         SkipCandidate(q) \/ Begin(q) \/ Reclaim(q) \/ CompleteKey(q) \/ FailKey(q) \/ RequestDies(q)
  PROVE  EvaluationInv'
<1>1. /\ request \in [Requests -> Handler] /\ request[q].eval \in Evals \cup {Nothing}
      /\ UNCHANGED <<eval, lane, original, edits>>
  BY Parts DEF SkipCandidate, Begin, Reclaim, CompleteKey, FailKey, RequestDies, RequestsOnly, Handler
<1>2. faults' \in 0 .. MaxFaults
  BY Parts, FaultCounts DEF SkipCandidate, Begin, Reclaim, CompleteKey, FailKey, RequestDies
<1>3. Key(q) \in Keys
  <2>1. request[q].at \in Candidates /\ Asks[q] \in Methods
    BY <1>1 DEF Handler
  <2>2. QED
    BY <2>1 DEF Key
<1>4. key' \in [Keys -> Status]
  <2>1. ASSUME NEW k \in Status, key' = [key EXCEPT ![Key(q)] = k] PROVE key' \in [Keys -> Status]
    BY <2>1, KeyType
  <2>2. ASSUME NEW status \in {"in_progress", "failed"}, key' = [key EXCEPT ![Key(q)].status = status]
        PROVE  key' \in [Keys -> Status]
    <3>1. [key[Key(q)] EXCEPT !.status = status] \in Status
      BY <1>3, KeyType DEF Status
    <3>2. QED
      BY <2>1, <2>2, <3>1
  <2>3. [status |-> "in_progress", ref |-> Nothing] \in Status
    BY DEF Status
  <2>4. [status |-> "completed", ref |-> request[q].eval] \in Status
    BY <1>1 DEF Status
  <2>5. UNCHANGED key => key' \in [Keys -> Status]
    BY KeyType
  <2>6. QED
    BY <2>1, <2>2, <2>3, <2>4, <2>5
       DEF SkipCandidate, Begin, Reclaim, CompleteKey, FailKey, RequestDies
<1>5. /\ request' \in [Requests -> Handler] /\ request'[q].pc \notin {"queue", "enqueue"}
      /\ \A p \in Requests \ {q} : request'[p] = request[p]
  <2>1. NextCandidate(q) \/ Go(q, "create") \/ Go(q, "reclaim") \/ Go(q, "gone")
    BY DEF SkipCandidate, Begin, Reclaim, CompleteKey, FailKey, RequestDies
  <2>2. QED
    BY <1>1, <2>1, Gone, WentOn
<1>6. QED
  BY <1>1, <1>2, <1>4, <1>5, RequestGoesOn DEF Creating

\* One row is written, and no request begins or stops to know it.
LEMMA RowWritten ==
  ASSUME EvaluationInv, NEW e \in Evals, NEW r \in Row, eval' = [eval EXCEPT ![e] = r],
         RowOK(r), Beside(eval[e], r), UNCHANGED <<key, lane, original, edits>>, faults' \in 0 .. MaxFaults,
         request' \in [Requests -> Handler],
         \A q \in Requests : Creating(q)' => /\ request'[q].eval \in Evals
                                             /\ eval'[request'[q].eval].owner = "api"
                                             /\ eval'[request'[q].eval].job = "none",
         \A p, q \in Requests : p /= q /\ Creating(p)' /\ Creating(q)' => request'[p].eval /= request'[q].eval
  PROVE  EvaluationInv'
<1>1. /\ eval' \in [Evals -> Row] /\ eval'[e] = r /\ \A f \in Evals \ {e} : eval'[f] = eval[f]
  BY Parts, Wrote
<1>2. EvaluationTypeOK'
  BY <1>1, Parts, KeyType, TypesStay
<1>3. \A f \in Evals : RowOK(eval'[f]) /\ Beside(eval[f], eval'[f])
  BY <1>1, Parts, SameBeside
<1>4. (\A q \in Requests : RequestOK(q)') /\ OneRequest'
  BY DEF RequestOK, OneRequest
<1>5. QED
  BY <1>2, <1>3, <1>4, RowsChange

\* The row of a request, and the request that knows it.
LEMMA CreateKeeps ==
  ASSUME EvaluationInv, NEW q \in Requests, Create(q)
  PROVE  EvaluationInv'
<1>1. /\ request[q].pc = "create" /\ request \in [Requests -> Handler] /\ request[q] \in Handler
      /\ UNCHANGED <<key, lane, original, edits>>
  BY Parts DEF Create, Asking, RequestsOnly
<1>2. ASSUME NEW e \in Evals, Fresh(e), UNCHANGED faults,
             eval' = [eval EXCEPT ![e] = NewEval(request[q].at, Asks[q], "api", "created", "none")],
             request' = [request EXCEPT ![q].eval = e,
                            ![q].pc = IF Asks[q] = "agent" THEN "queue" ELSE "enqueue"]
      PROVE  EvaluationInv'
  <2> DEFINE r == NewEval(request[q].at, Asks[q], "api", "created", "none")
             pc == IF Asks[q] = "agent" THEN "queue" ELSE "enqueue"
             h == [request[q] EXCEPT !.eval = e, !.pc = pc]
  <2>1. request[q].at \in Candidates /\ Asks[q] \in Methods
    BY <1>1 DEF Handler
  <2>2. r \in Row /\ RowOK(r) /\ r.owner = "api" /\ r.job = "none"
    BY <2>1, NewRow
  <2>3. Beside(eval[e], r)
    BY <1>2, Blank DEF Beside
  <2>4. h \in Handler /\ h.eval = e /\ h.pc \in {"queue", "enqueue"}
    BY <1>1 DEF Handler
  <2>5. request' = [request EXCEPT ![q] = h] /\ eval' = [eval EXCEPT ![e] = r]
    BY <1>1, <1>2
  <2> HIDE DEF r, h
  <2>6. /\ request' \in [Requests -> Handler] /\ request'[q] = h
        /\ \A p \in Requests \ {q} : request'[p] = request[p]
    BY <1>1, <2>4, <2>5
  <2>7. /\ eval' \in [Evals -> Row] /\ eval'[e] = r /\ \A f \in Evals \ {e} : eval'[f] = eval[f]
    BY <2>2, <2>5, Parts, Wrote
  <2>8. \A p \in Requests \ {q} :
           Creating(p) => /\ request[p].eval \in Evals \ {e}
                          /\ eval[request[p].eval].owner = "api" /\ eval[request[p].eval].job = "none"
    BY <1>2, Blank DEF EvaluationInv, RequestOK
  <2>9. \A p \in Requests : Creating(p)' => /\ request'[p].eval \in Evals
                                            /\ eval'[request'[p].eval].owner = "api"
                                            /\ eval'[request'[p].eval].job = "none"
    BY <2>2, <2>4, <2>6, <2>7, <2>8 DEF Creating
  <2>10. \A p, s \in Requests : p /= s /\ Creating(p)' /\ Creating(s)' => request'[p].eval /= request'[s].eval
    BY <2>4, <2>6, <2>8 DEF Creating, EvaluationInv, OneRequest
  <2>11. QED
    BY <1>1, <1>2, <2>2, <2>3, <2>5, <2>6, <2>9, <2>10, Parts, RowWritten
<1>3. CASE Fault /\ Go(q, "fail") /\ UNCHANGED eval
  <2>1. faults' \in 0 .. MaxFaults
    BY <1>3, Parts, FaultCounts
  <2>2. QED
    BY <1>1, <1>3, <2>1, Gone, KeyType, RequestGoesOn DEF Creating
<1>4. QED
  BY <1>2, <1>3 DEF Create

\* The evaluator's Task Run is queued, ...
LEMMA QueueKeeps ==
  ASSUME EvaluationInv, NEW q \in Requests, Queue(q)
  PROVE  EvaluationInv'
<1> DEFINE e == request[q].eval
           r == [eval[e] EXCEPT !.task = "queued"]
<1>1. /\ Creating(q) /\ request \in [Requests -> Handler] /\ eval' = [eval EXCEPT ![e] = r]
      /\ UNCHANGED <<key, lane, original, edits, faults>>
  BY Parts DEF Queue, Asking, RequestsOnly, Creating
<1>2. /\ request' \in [Requests -> Handler] /\ request'[q].pc = "enqueue" /\ request'[q].eval = e
      /\ \A p \in Requests \ {q} : request'[p] = request[p]
  BY <1>1, Gone DEF Queue
<1>3. e \in Evals /\ eval[e] \in Row /\ RowOK(eval[e]) /\ eval[e].owner = "api" /\ eval[e].job = "none"
  BY <1>1, Parts DEF EvaluationInv, RequestOK
<1>4. r \in Row
  BY <1>3, TextFields
<1>5. RowOK(r) /\ Beside(eval[e], r) /\ r.owner = "api" /\ r.job = "none"
  BY <1>3 DEF RowOK, Row, Fits, Beside, NoEval
<1> HIDE DEF r
<1>6. /\ eval' \in [Evals -> Row] /\ eval'[e] = r /\ \A f \in Evals \ {e} : eval'[f] = eval[f]
  BY <1>1, <1>3, <1>4, Parts, Wrote
<1>7. \A p \in Requests : Creating(p)' => Creating(p) /\ request'[p].eval = request[p].eval
  BY <1>1, <1>2 DEF Creating
<1>8. \A p \in Requests : Creating(p)' => /\ request'[p].eval \in Evals
                                          /\ eval'[request'[p].eval].owner = "api"
                                          /\ eval'[request'[p].eval].job = "none"
  BY <1>5, <1>6, <1>7 DEF EvaluationInv, RequestOK
<1>9. \A p, s \in Requests : p /= s /\ Creating(p)' /\ Creating(s)' => request'[p].eval /= request'[s].eval
  BY <1>7 DEF EvaluationInv, OneRequest
<1>10. QED
  BY <1>1, <1>2, <1>3, <1>4, <1>5, <1>8, <1>9, Parts, RowWritten

\* ... and its job; the request forgets the row.
LEMMA EnqueueKeeps ==
  ASSUME EvaluationInv, NEW q \in Requests, Enqueue(q)
  PROVE  EvaluationInv'
<1> DEFINE e == request[q].eval
           r == [eval[e] EXCEPT !.job = "queued"]
<1>1. /\ Creating(q) /\ request \in [Requests -> Handler] /\ UNCHANGED <<key, lane, original, edits>>
  BY Parts DEF Enqueue, Asking, RequestsOnly, Creating
<1>2. /\ request' \in [Requests -> Handler] /\ request'[q].pc \in {"complete", "fail"}
      /\ \A p \in Requests \ {q} : request'[p] = request[p]
  BY <1>1, Gone DEF Enqueue
<1>3. faults' \in 0 .. MaxFaults
  BY Parts, FaultCounts DEF Enqueue
<1>4. CASE eval' = [eval EXCEPT ![e] = r]
  <2>1. e \in Evals /\ eval[e] \in Row /\ RowOK(eval[e]) /\ eval[e].owner = "api" /\ eval[e].job = "none"
    BY <1>1, Parts, SMTT(40) DEF EvaluationInv, RequestOK
  <2>2. r \in Row
    BY <2>1, JobFields
  <2>3. RowOK(r) /\ Beside(eval[e], r)
    BY <2>1 DEF RowOK, Row, Fits, Beside, NoEval
  <2> HIDE DEF r
  <2>4. /\ eval' \in [Evals -> Row] /\ eval'[e] = r /\ \A f \in Evals \ {e} : eval'[f] = eval[f]
    BY <1>4, <2>1, <2>2, Parts, Wrote
  <2>5. \A p \in Requests : Creating(p)' => /\ Creating(p) /\ request'[p].eval = request[p].eval
                                            /\ request[p].eval /= e
    BY <1>1, <1>2 DEF Creating, EvaluationInv, OneRequest
  <2>6. \A p \in Requests : Creating(p)' => /\ request'[p].eval \in Evals
                                            /\ eval'[request'[p].eval].owner = "api"
                                            /\ eval'[request'[p].eval].job = "none"
    BY <2>4, <2>5 DEF EvaluationInv, RequestOK
  <2>7. \A p, s \in Requests : p /= s /\ Creating(p)' /\ Creating(s)' => request'[p].eval /= request'[s].eval
    BY <2>5 DEF EvaluationInv, OneRequest
  <2>8. QED
    BY <1>1, <1>2, <1>3, <1>4, <2>1, <2>2, <2>3, <2>6, <2>7, Parts, RowWritten
<1>5. CASE UNCHANGED eval
  BY <1>1, <1>2, <1>3, <1>5, KeyType, RequestGoesOn DEF Creating
<1>6. QED
  BY <1>4, <1>5 DEF Enqueue

\* A row that no request is creating is written and the requests stay as they are.
LEMMA RowBeside ==
  ASSUME EvaluationInv, NEW e \in Evals, NEW r \in Row, eval' = [eval EXCEPT ![e] = r],
         RowOK(r), Beside(eval[e], r), UNCHANGED <<key, request, lane, original, faults, edits>>,
         \/ \A q \in Requests : Creating(q) => request[q].eval /= e
         \/ r.owner = eval[e].owner /\ r.job = eval[e].job
  PROVE  EvaluationInv'
<1>1. /\ eval' \in [Evals -> Row] /\ eval'[e] = r /\ \A f \in Evals \ {e} : eval'[f] = eval[f]
  BY Parts, Wrote
<1>2. \A q \in Requests : Creating(q)' => /\ request'[q].eval \in Evals
                                          /\ eval'[request'[q].eval].owner = "api"
                                          /\ eval'[request'[q].eval].job = "none"
  BY <1>1 DEF EvaluationInv, RequestOK, Creating
<1>3. \A p, q \in Requests : p /= q /\ Creating(p)' /\ Creating(q)' => request'[p].eval /= request'[q].eval
  BY DEF EvaluationInv, OneRequest, Creating
<1>4. QED
  BY <1>2, <1>3, Parts, RowWritten

\* Rows that are created without a request.
LEMMA DirectKeeps ==
  ASSUME EvaluationInv, NEW s \in Candidates, CreateDirect(s) \/ DispatchNode(s)
  PROVE  EvaluationInv'
<1>1. ASSUME NEW e \in Evals, Fresh(e), UNCHANGED <<key, request, lane, original, faults, edits>>,
             NEW method \in Methods, NEW owner \in {"direct", "workflow"}, NEW job \in {"none", "queued"},
             NEW task \in {"none", "created", "queued"}, owner = "workflow" => method = "agent" /\ job = "queued",
             eval' = [eval EXCEPT ![e] = NewEval(s, method, owner, task, job)]
      PROVE  EvaluationInv'
  <2> DEFINE r == NewEval(s, method, owner, task, job)
  <2>1. r \in Row /\ RowOK(r)
    BY <1>1, NewRow
  <2>2. Beside(eval[e], r)
    BY <1>1, Blank DEF Beside
  <2> HIDE DEF r
  <2>3. QED
    BY <1>1, <2>1, <2>2, Blank, RowBeside DEF r
<1>2. CASE CreateDirect(s)
  BY <1>1, <1>2 DEF CreateDirect
<1>3. CASE DispatchNode(s)
  BY <1>1, <1>3 DEF DispatchNode, NodeOnly
<1>4. QED
  BY <1>2, <1>3

\* The job of an evaluation that no request creates.
LEMMA EnqueueDirectKeeps ==
  ASSUME EvaluationInv, NEW e \in Evals, EnqueueDirect(e)
  PROVE  EvaluationInv'
<1> DEFINE r == [eval[e] EXCEPT !.job = "queued"]
<1>1. /\ eval[e].owner = "direct" /\ eval[e].job = "none" /\ eval' = [eval EXCEPT ![e] = r]
      /\ UNCHANGED <<key, request, lane, original, faults, edits>>
  BY DEF EnqueueDirect
<1>2. eval[e] \in Row /\ RowOK(eval[e])
  BY Parts
<1>3. r \in Row
  BY <1>2, JobFields
<1>4. RowOK(r) /\ Beside(eval[e], r)
  BY <1>1, <1>2 DEF RowOK, Row, Fits, Beside, NoEval
<1>5. \A q \in Requests : Creating(q) => request[q].eval /= e
  BY <1>1 DEF EvaluationInv, RequestOK
<1> HIDE DEF r
<1>6. QED
  BY <1>1, <1>3, <1>4, <1>5, RowBeside

\* A cancellation is a mark that the lanes read later.
LEMMA CancelEvaluatorKeeps ==
  ASSUME EvaluationInv, NEW e \in Evals, CancelEvaluator(e)
  PROVE  EvaluationInv'
<1> DEFINE r == [eval[e] EXCEPT !.cancel = TRUE]
<1>1. /\ eval[e].method = "agent" /\ eval' = [eval EXCEPT ![e] = r]
      /\ UNCHANGED <<key, request, lane, original, faults, edits>>
  BY DEF CancelEvaluator, NodeOnly
<1>2. eval[e] \in Row /\ RowOK(eval[e])
  BY Parts
<1>3. r \in Row
  BY <1>2, TextFields
<1>4. RowOK(r) /\ Beside(eval[e], r) /\ r.owner = eval[e].owner /\ r.job = eval[e].job
  BY <1>1, <1>2 DEF RowOK, Row, Fits, Beside, NoEval
<1> HIDE DEF r
<1>5. QED
  BY <1>1, <1>3, <1>4, RowBeside

\* A retry writes two rows: the failed one is marked, the next one created.
LEMMA Retries ==
  ASSUME EvaluationInv, NEW e \in Evals, NEW f \in Evals, Fresh(f), eval[e].status = "failed", OfNode(e),
         eval' = [eval EXCEPT ![e].retried = TRUE,
                              ![f] = NewEval(eval[e].of, "agent", "workflow", "queued", "queued")]
  PROVE  /\ eval' \in [Evals -> Row] /\ \A g \in Evals \ {e, f} : eval'[g] = eval[g]
         /\ e /= f
         /\ eval'[e] = [eval[e] EXCEPT !.retried = TRUE] /\ eval'[e] \in Row /\ RowOK(eval'[e])
         /\ Beside(eval[e], eval'[e]) /\ eval'[e].owner = "workflow" /\ eval'[e].of = eval[e].of
         /\ eval'[e].retried
         /\ RowOK(eval'[f]) /\ Beside(eval[f], eval'[f]) /\ eval'[f].of = eval[e].of
         /\ eval'[f].owner = "workflow"
<1> DEFINE x == [eval[e] EXCEPT !.retried = TRUE]
           r == NewEval(eval[e].of, "agent", "workflow", "queued", "queued")
<1>1. eval[e] \in Row /\ RowOK(eval[e]) /\ eval[e].method = "agent" /\ eval[e].of \in Candidates
  BY Parts DEF OfNode, RowOK
<1>2. e /= f
  BY Blank
<1>3. r \in Row /\ RowOK(r) /\ r.of = eval[e].of /\ r.owner = "workflow"
  BY <1>1, NewRow
<1>4. x \in Row
  BY <1>1, TextFields
<1>5. /\ RowOK(x) /\ Beside(eval[e], x) /\ x.owner = "workflow" /\ x.of = eval[e].of /\ x.retried
  BY <1>1 DEF RowOK, Row, Fits, Beside, NoEval, OfNode
<1>6. eval' = [[eval EXCEPT ![e] = x] EXCEPT ![f] = r]
  OBVIOUS
<1>7. Beside(eval[f], r)
  BY Blank DEF Beside
<1> HIDE DEF r
<1>8. /\ eval'[e] = x /\ eval'[f] = r /\ eval' \in [Evals -> Row]
      /\ \A g \in Evals \ {e, f} : eval'[g] = eval[g]
  <2> DEFINE once == [eval EXCEPT ![e] = x]
  <2> HIDE DEF x
  <2>1. once \in [Evals -> Row] /\ once[e] = x /\ \A g \in Evals \ {e} : once[g] = eval[g]
    BY <1>4, Parts
  <2>2. eval' = [once EXCEPT ![f] = r]
    BY <1>6
  <2> HIDE DEF once
  <2>3. QED
    BY <1>2, <1>3, <2>1, <2>2
<1>9. QED
  BY <1>2, <1>3, <1>4, <1>5, <1>7, <1>8

\* The next iteration of a node.
LEMMA RetryNodeKeeps ==
  ASSUME EvaluationInv, NEW e \in Evals, RetryNode(e)
  PROVE  EvaluationInv'
<1>1. eval[e].status = "failed" /\ OfNode(e) /\ UNCHANGED <<key, request, lane, original, faults, edits>>
  BY DEF RetryNode, RecoveryEligible, NodeOnly
<1>2. PICK f \in Evals :
        /\ Fresh(f)
        /\ eval' = [eval EXCEPT ![e].retried = TRUE,
                                ![f] = NewEval(eval[e].of, "agent", "workflow", "queued", "queued")]
  BY DEF RetryNode
<1>3. /\ eval' \in [Evals -> Row] /\ \A g \in Evals \ {e, f} : eval'[g] = eval[g]
      /\ RowOK(eval'[e]) /\ Beside(eval[e], eval'[e])
      /\ RowOK(eval'[f]) /\ Beside(eval[f], eval'[f])
  BY <1>1, <1>2, Retries
<1>4. EvaluationTypeOK'
  BY <1>1, <1>3, Parts, KeyType, TypesStay
<1>5. \A g \in Evals : RowOK(eval'[g]) /\ Beside(eval[g], eval'[g])
  BY <1>3, Parts, SameBeside
<1>6. \A q \in Requests : Creating(q) => request[q].eval \in Evals \ {e, f}
  BY <1>1, <1>2, Blank DEF EvaluationInv, RequestOK, OfNode
<1>7. (\A q \in Requests : RequestOK(q)') /\ OneRequest'
  BY <1>1, <1>3, <1>6 DEF EvaluationInv, RequestOK, OneRequest, Creating
<1>8. QED
  BY <1>1, <1>4, <1>5, <1>7, RowsChange

\* A file may change at any time: no lane relies on it between two steps.
LEMMA EditFileKeeps ==
  ASSUME EvaluationInv, NEW s \in Candidates, EditFile(s)
  PROVE  EvaluationInv'
<1>1. original' \in [Candidates -> BOOLEAN] /\ edits' \in 0 .. MaxEdits
  BY Parts DEF EditFile
<1>2. UNCHANGED <<key, eval, request, lane, faults>>
  BY DEF EditFile
<1>3. EvaluationTypeOK'
  BY <1>1, <1>2, Parts, KeyType, TypesStay
<1>4. QED
  BY <1>2, <1>3, Parts, SameBeside, RowsChange DEF EvaluationInv, RequestOK, OneRequest, Creating

-----------------------------------------------------------------------------
(***************************************************************************)
(* The invariant, and what follows from it                                 *)
(***************************************************************************)
\* Nothing was asked for yet.
LEMMA InitInv ==
  ASSUME Init
  PROVE  EvaluationInv
<1>1. NoEval \in Row /\ RowOK(NoEval)
  BY DEF NoEval, Row, RowOK, Ended
<1>2. NewRequest \in Handler /\ NewRequest.pc = "begin"
  BY DEF NewRequest, Handler
<1>3. IdleLane \in Memory /\ IdleLane.pc = "idle"
  BY DEF IdleLane, Memory
<1>4. EvaluationTypeOK
  BY <1>1, <1>2, <1>3 DEF Init, EvaluationTypeOK, Row, Handler, Memory
<1>5. QED
  BY <1>1, <1>2, <1>3, <1>4
     DEF Init, EvaluationInv, LaneOK, Busy, OneCall, Calling, RequestOK, OneRequest, Creating

\* Every step keeps it.
LEMMA NextInv ==
  ASSUME EvaluationInv, [Next]_vars
  PROVE  EvaluationInv'
<1>1. CASE \E q \in Requests : RequestStep(q) \/ RequestDies(q)
  BY <1>1, KeyStepKeeps, CreateKeeps, QueueKeeps, EnqueueKeeps DEF RequestStep
<1>2. CASE \E s \in Candidates : CreateDirect(s) \/ DispatchNode(s) \/ EditFile(s)
  BY <1>2, DirectKeeps, EditFileKeeps
<1>3. CASE \E e \in Evals : EnqueueDirect(e) \/ RetryNode(e) \/ CancelEvaluator(e)
  BY <1>3, EnqueueDirectKeeps, RetryNodeKeeps, CancelEvaluatorKeeps
<1>4. CASE \E w \in Lanes, e \in Evals : Claim(w, e) \/ Sweep(w, e)
  BY <1>4, ClaimKeeps, SweepKeeps
<1>5. CASE \E w \in Lanes : LaneStep(w) \/ LaneDies(w) \/ OutliveLease(w)
  BY <1>5, LaneStepKeeps
<1>6. CASE UNCHANGED vars
  BY <1>6 DEF vars, EvaluationInv, EvaluationTypeOK, LaneOK, Busy, OneCall, RequestOK, OneRequest, Creating
<1>7. QED
  BY <1>1, <1>2, <1>3, <1>4, <1>5, <1>6 DEF Next

\* What every lane, request and row may rely on: the inductive invariant.
THEOREM EvaluationInvariant == Spec => []EvaluationInv
<1>1. QED
  BY InitInv, NextInv, PTL DEF Spec

\* Whoever concludes an evaluation (the lane that ended its evaluator, a later
\* one, or a sweep), its status, its results and its evaluator's end agree.
THEOREM VerdictsAgree == Spec => []VerdictInv
<1>1. EvaluationInv => VerdictInv
  <2> SUFFICES ASSUME EvaluationInv PROVE VerdictInv
    OBVIOUS
  <2>1. ResultsWithVerdict
    BY Parts DEF ResultsWithVerdict, RowOK
  <2>2. VerdictFollowsEvaluator
    <3> SUFFICES ASSUME NEW e \in Evals, eval[e].method = "agent"
                 PROVE  CASE eval[e].status = "completed" -> eval[e].agent = "completed" /\ eval[e].output = "valid"
                          [] eval[e].status = "cancelled" -> eval[e].agent = "stopped"
                          [] eval[e].status = "failed" -> eval[e].agent \in {"completed", "failed"}
                          [] OTHER -> TRUE
      BY DEF VerdictFollowsEvaluator
    <3>1. eval[e].status \in Ended => Fits(eval[e], eval[e].status)
      BY Parts DEF RowOK
    <3>2. QED
      BY <3>1 DEF Fits, Ended
  <2>3. QED
    BY <2>1, <2>2 DEF VerdictInv, EvaluationInv
<1>2. QED
  BY <1>1, EvaluationInvariant, PTL

\* Exact-artifact protection: a COMPLETED agent evaluation judged the bytes that
\* were bound, whenever the file was changed and put back.
THEOREM EvidenceIsBound == Spec => []EvidenceWasBound
<1>1. EvaluationInv => EvidenceWasBound
  <2> SUFFICES ASSUME EvaluationInv, NEW e \in Evals, eval[e].method = "agent", eval[e].status = "completed"
               PROVE  eval[e].given = "bound"
    BY DEF EvidenceWasBound
  <2>1. RowOK(eval[e])
    BY Parts
  <2>2. eval[e].agent = "completed"
    BY <2>1 DEF RowOK, Fits, Ended
  <2>3. QED
    BY <2>1, <2>2 DEF RowOK
<1>2. QED
  BY <1>1, EvaluationInvariant, PTL

-----------------------------------------------------------------------------
(***************************************************************************)
(* What no lane changes, and a verdict is final                            *)
(***************************************************************************)
\* What a row is about, and its verdict if it has one that nobody may replace.
SameRow(r, x) ==
    /\ x.of = r.of /\ x.method = r.method /\ x.owner = r.owner /\ x.retried = r.retried
    /\ r.status \in Ended /\ (r.method = "agent" \/ ~r.lost) => x.status = r.status

\* A step that writes no row.
LEMMA Untouched ==
  ASSUME UNCHANGED eval
  PROVE  \A e \in Evals : SameRow(eval[e], eval'[e])
  BY DEF SameRow

\* A write of one row that keeps what it is about.
LEMMA TouchesOne ==
  ASSUME eval \in [Evals -> Row], NEW e \in Evals, NEW r, eval' = [eval EXCEPT ![e] = r], SameRow(eval[e], r)
  PROVE  \A f \in Evals : SameRow(eval[f], eval'[f])
  BY DEF SameRow

\* The writes of the steps, but for the verdicts: of one field, ...
LEMMA OneField ==
  ASSUME eval \in [Evals -> Row], NEW e \in Evals, NEW v,
         \/ eval' = [eval EXCEPT ![e].why = v]
         \/ eval' = [eval EXCEPT ![e].output = v]
         \/ eval' = [eval EXCEPT ![e].agent = v]
         \/ eval' = [eval EXCEPT ![e].task = v]
         \/ eval' = [eval EXCEPT ![e].job = v]
         \/ eval' = [eval EXCEPT ![e].cancel = v]
  PROVE  \A f \in Evals : SameRow(eval[f], eval'[f])
<1>1. eval[e] \in Row
  OBVIOUS
<1>2. CASE eval' = [eval EXCEPT ![e].why = v]
  <2> DEFINE x == [eval[e] EXCEPT !.why = v]
  <2>1. SameRow(eval[e], x)
    BY <1>1 DEF SameRow, Row
  <2>2. eval' = [eval EXCEPT ![e] = x]
    BY <1>2
  <2> HIDE DEF x
  <2>3. QED
    BY <2>1, <2>2, TouchesOne
<1>3. CASE eval' = [eval EXCEPT ![e].output = v]
  <2> DEFINE x == [eval[e] EXCEPT !.output = v]
  <2>1. SameRow(eval[e], x)
    BY <1>1 DEF SameRow, Row
  <2>2. eval' = [eval EXCEPT ![e] = x]
    BY <1>3
  <2> HIDE DEF x
  <2>3. QED
    BY <2>1, <2>2, TouchesOne
<1>4. CASE eval' = [eval EXCEPT ![e].agent = v]
  <2> DEFINE x == [eval[e] EXCEPT !.agent = v]
  <2>1. SameRow(eval[e], x)
    BY <1>1 DEF SameRow, Row
  <2>2. eval' = [eval EXCEPT ![e] = x]
    BY <1>4
  <2> HIDE DEF x
  <2>3. QED
    BY <2>1, <2>2, TouchesOne
<1>5. CASE eval' = [eval EXCEPT ![e].task = v]
  <2> DEFINE x == [eval[e] EXCEPT !.task = v]
  <2>1. SameRow(eval[e], x)
    BY <1>1 DEF SameRow, Row
  <2>2. eval' = [eval EXCEPT ![e] = x]
    BY <1>5
  <2> HIDE DEF x
  <2>3. QED
    BY <2>1, <2>2, TouchesOne
<1>6. CASE eval' = [eval EXCEPT ![e].job = v]
  <2> DEFINE x == [eval[e] EXCEPT !.job = v]
  <2>1. SameRow(eval[e], x)
    BY <1>1 DEF SameRow, Row
  <2>2. eval' = [eval EXCEPT ![e] = x]
    BY <1>6
  <2> HIDE DEF x
  <2>3. QED
    BY <2>1, <2>2, TouchesOne
<1>7. CASE eval' = [eval EXCEPT ![e].cancel = v]
  <2> DEFINE x == [eval[e] EXCEPT !.cancel = v]
  <2>1. SameRow(eval[e], x)
    BY <1>1 DEF SameRow, Row
  <2>2. eval' = [eval EXCEPT ![e] = x]
    BY <1>7
  <2> HIDE DEF x
  <2>3. QED
    BY <2>1, <2>2, TouchesOne
<1>8. QED
  BY <1>2, <1>3, <1>4, <1>5, <1>6, <1>7

\* ... and of two or three.
LEMMA TwoFields ==
  ASSUME eval \in [Evals -> Row], NEW e \in Evals, NEW v, NEW u,
         \/ eval' = [eval EXCEPT ![e].job = v, ![e].holder = u]
         \/ eval' = [eval EXCEPT ![e].lost = TRUE, ![e].job = v, ![e].holder = u]
         \/ eval' = [eval EXCEPT ![e].results = v, ![e].given = u]
         \/ eval' = [eval EXCEPT ![e].agent = v, ![e].given = u]
  PROVE  \A f \in Evals : SameRow(eval[f], eval'[f])
<1>1. eval[e] \in Row
  OBVIOUS
<1>2. CASE eval' = [eval EXCEPT ![e].job = v, ![e].holder = u]
  <2> DEFINE x == [eval[e] EXCEPT !.job = v, !.holder = u]
  <2>1. SameRow(eval[e], x)
    BY <1>1 DEF SameRow, Row
  <2>2. eval' = [eval EXCEPT ![e] = x]
    BY <1>2
  <2> HIDE DEF x
  <2>3. QED
    BY <2>1, <2>2, TouchesOne
<1>3. CASE eval' = [eval EXCEPT ![e].lost = TRUE, ![e].job = v, ![e].holder = u]
  <2> DEFINE x == [eval[e] EXCEPT !.lost = TRUE, !.job = v, !.holder = u]
  <2>1. SameRow(eval[e], x)
    BY <1>1 DEF SameRow, Row
  <2>2. eval' = [eval EXCEPT ![e] = x]
    BY <1>3
  <2> HIDE DEF x
  <2>3. QED
    BY <2>1, <2>2, TouchesOne
<1>4. CASE eval' = [eval EXCEPT ![e].results = v, ![e].given = u]
  <2> DEFINE x == [eval[e] EXCEPT !.results = v, !.given = u]
  <2>1. SameRow(eval[e], x)
    BY <1>1 DEF SameRow, Row
  <2>2. eval' = [eval EXCEPT ![e] = x]
    BY <1>4
  <2> HIDE DEF x
  <2>3. QED
    BY <2>1, <2>2, TouchesOne
<1>5. CASE eval' = [eval EXCEPT ![e].agent = v, ![e].given = u]
  <2> DEFINE x == [eval[e] EXCEPT !.agent = v, !.given = u]
  <2>1. SameRow(eval[e], x)
    BY <1>1 DEF SameRow, Row
  <2>2. eval' = [eval EXCEPT ![e] = x]
    BY <1>5
  <2> HIDE DEF x
  <2>3. QED
    BY <2>1, <2>2, TouchesOne
<1>6. QED
  BY <1>2, <1>3, <1>4, <1>5

\* A lane writes a verdict where there is none, unless it outlived its lease.
LEMMA LaneKeepsRow ==
  ASSUME EvaluationInv, NEW w \in Lanes, LaneStep(w) \/ LaneDies(w) \/ OutliveLease(w)
  PROVE  \A e \in Evals : SameRow(eval[e], eval'[e])
<1> DEFINE e == Mine(w)
           r == eval[e]
<1>1. CASE At(w, "idle")
  <2>1. ~LaneStep(w) /\ ~LaneDies(w) /\ ~OutliveLease(w)
    BY <1>1 DEF LaneStep, LaneDies, OutliveLease, At, Finish, ReadRun, StartRun, RunChecks, EndRun, Recover,
       Answer, Judge, EndTask, Reconcile, Finalize, Decide
  <2>2. QED
    BY <2>1
<1>2. CASE ~At(w, "idle")
  <2>1. e \in Evals /\ r \in Row /\ eval \in [Evals -> Row]
    BY <1>2, Working
  <2>2. CASE StartRun(w) \/ EndRun(w)
    <3>1. lane[w].pc \in DeterministicSteps \ {"read"}
      BY <2>2 DEF StartRun, EndRun, At, DeterministicSteps
    <3>2. r.method = "deterministic" /\ (r.lost \/ r.status \notin Ended)
      BY <1>2, <3>1, Working DEF Relies
    <3>3. ASSUME NEW status PROVE SameRow(r, [r EXCEPT !.status = status])
      BY <2>1, <3>2 DEF SameRow, Row
    <3>4. PICK status : eval' = [eval EXCEPT ![e] = [r EXCEPT !.status = status]]
      BY <2>2 DEF StartRun, EndRun
    <3>5. QED
      BY <2>1, <3>3, <3>4, TouchesOne
  <2>3. CASE Decide(w)
    <3>1. CASE CasTerminal(e)
      <4> DEFINE x == [r EXCEPT !.status = lane[w].outcome, !.results = @ \/ lane[w].outcome = "completed"]
      <4>1. SameRow(r, x)
        BY <2>1, <3>1 DEF SameRow, Row, CasTerminal, Undecided, Ended
      <4>2. eval' = [eval EXCEPT ![e] = x]
        BY <2>3, <3>1 DEF Decide
      <4> HIDE DEF x
      <4>3. QED
        BY <2>1, <4>1, <4>2, TouchesOne
    <3>2. CASE ~CasTerminal(e)
      BY <2>3, <3>2, Untouched DEF Decide
    <3>3. QED
      BY <3>1, <3>2
  <2>4. CASE Finish(w)
    <3>1. UNCHANGED eval \/ eval' = [eval EXCEPT ![e].job = "done", ![e].holder = Nobody]
      BY <2>4, SMTT(40) DEF Finish
    <3>2. QED
      BY <2>1, <3>1, TwoFields, Untouched
  <2>5. CASE RunChecks(w)
    <3>1. UNCHANGED eval \/ eval' = [eval EXCEPT ![e].results = TRUE, ![e].given = Bytes(e)]
      BY <2>5 DEF RunChecks
    <3>2. QED
      BY <2>1, <3>1, TwoFields, Untouched
  <2>6. CASE Recover(w)
    <3>1. \/ UNCHANGED eval
          \/ \E why : eval' = [eval EXCEPT ![e].why = why]
          \/ eval' = [eval EXCEPT ![e].agent = "running", ![e].given = Bytes(e)]
      <4>1. eval[e].output = "none" \/ eval[e].output /= "none"
        OBVIOUS
      <4>2. QED
        BY <2>6, <4>1 DEF Recover
    <3>2. QED
      BY <2>1, <3>1, OneField, TwoFields, Untouched
  <2>7. CASE Answer(w)
    <3>1. \/ \E text : eval' = [eval EXCEPT ![e].output = text]
          \/ \E why : eval' = [eval EXCEPT ![e].why = why]
      BY <2>7 DEF Answer
    <3>2. QED
      BY <2>1, <3>1, OneField
  <2>8. CASE Judge(w)
    <3>1. UNCHANGED eval \/ eval' = [eval EXCEPT ![e].agent = lane[w].outcome]
      BY <2>8 DEF Judge
    <3>2. QED
      BY <2>1, <3>1, OneField, Untouched
  <2>9. CASE EndTask(w)
    <3>1. eval' = [eval EXCEPT ![e].task = AsTaskRunStatus(lane[w].outcome)]
      BY <2>9 DEF EndTask
    <3>2. QED
      BY <2>1, <3>1, OneField
  <2>10. CASE ReadRun(w) \/ Reconcile(w) \/ Finalize(w)
    BY <2>10, Untouched DEF ReadRun, Reconcile, Finalize
  <2>11. CASE LaneDies(w) \/ OutliveLease(w)
    <3> DEFINE job == IF r.holder = w THEN "queued" ELSE r.job
               holder == IF r.holder = w THEN Nobody ELSE r.holder
    <3>1. eval' = [eval EXCEPT ![e].lost = TRUE, ![e].job = job, ![e].holder = holder]
      BY <2>1, <2>11 DEF LaneDies, OutliveLease, JobReturns
    <3> HIDE DEF job, holder
    <3>2. QED
      BY <2>1, <3>1, TwoFields
  <2>12. QED
    BY <2>2, <2>3, <2>4, <2>5, <2>6, <2>7, <2>8, <2>9, <2>10, <2>11 DEF LaneStep
<1>3. QED
  BY <1>1, <1>2

\* Steps beside the lanes that create no row.
Unrelated ==
    \/ \E q \in Requests :
         \/ SkipCandidate(q) \/ Begin(q) \/ Reclaim(q) \/ CompleteKey(q) \/ FailKey(q) \/ RequestDies(q)
         \/ Queue(q) \/ Enqueue(q)
    \/ \E s \in Candidates : EditFile(s)
    \/ \E e \in Evals : EnqueueDirect(e) \/ CancelEvaluator(e)
    \/ \E w \in Lanes, e \in Evals : Claim(w, e) \/ Sweep(w, e)

\* They keep what each row is about, and its verdict.
LEMMA OthersKeepRow ==
  ASSUME EvaluationInv, Unrelated
  PROVE  \A e \in Evals : SameRow(eval[e], eval'[e])
<1>1. eval \in [Evals -> Row]
  BY Parts
<1>2. ASSUME NEW q \in Requests, Queue(q) \/ Enqueue(q)
      PROVE  \A e \in Evals : SameRow(eval[e], eval'[e])
  <2>1. request[q].eval \in Evals
    BY <1>2 DEF Queue, Enqueue, Asking, EvaluationInv, RequestOK, Creating
  <2>2. \/ eval' = [eval EXCEPT ![request[q].eval].task = "queued"]
        \/ eval' = [eval EXCEPT ![request[q].eval].job = "queued"]
        \/ UNCHANGED eval
    BY <1>2 DEF Queue, Enqueue
  <2>3. QED
    BY <1>1, <2>1, <2>2, OneField, Untouched
<1>3. ASSUME NEW f \in Evals, EnqueueDirect(f) \/ CancelEvaluator(f)
      PROVE  \A e \in Evals : SameRow(eval[e], eval'[e])
  <2>1. eval' = [eval EXCEPT ![f].job = "queued"] \/ eval' = [eval EXCEPT ![f].cancel = TRUE]
    BY <1>3 DEF EnqueueDirect, CancelEvaluator
  <2>2. QED
    BY <1>1, <2>1, OneField
<1>4. ASSUME NEW w \in Lanes, NEW f \in Evals, Claim(w, f) \/ Sweep(w, f)
      PROVE  \A e \in Evals : SameRow(eval[e], eval'[e])
  <2>1. eval' = [eval EXCEPT ![f].job = "leased", ![f].holder = w] \/ UNCHANGED eval
    BY <1>4 DEF Claim, Sweep
  <2>2. QED
    BY <1>1, <2>1, TwoFields, Untouched
<1>5. ASSUME \/ \E q \in Requests : \/ SkipCandidate(q) \/ Begin(q) \/ Reclaim(q) \/ CompleteKey(q)
                                    \/ FailKey(q) \/ RequestDies(q)
             \/ \E s \in Candidates : EditFile(s)
      PROVE  \A e \in Evals : SameRow(eval[e], eval'[e])
  BY <1>5, Untouched DEF SkipCandidate, Begin, Reclaim, CompleteKey, FailKey, RequestDies, EditFile
<1>6. QED
  BY <1>2, <1>3, <1>4, <1>5 DEF Unrelated

\* A row is created, and nothing else is written.
Creates(s, method, owner) ==
    \E e \in Evals : /\ Fresh(e) /\ eval'[e].of = s /\ eval'[e].method = method /\ eval'[e].owner = owner
                     /\ \A f \in Evals \ {e} : eval'[f] = eval[f]

\* NewEval in a blank row.
LEMMA Created ==
  ASSUME EvaluationInv, NEW e \in Evals, Fresh(e), NEW s \in Candidates, NEW method \in Methods,
         NEW owner \in {"api", "direct", "workflow"}, NEW task \in {"none", "created", "queued"},
         NEW job \in {"none", "queued"}, owner = "workflow" => method = "agent" /\ job = "queued",
         eval' = [eval EXCEPT ![e] = NewEval(s, method, owner, task, job)]
  PROVE  Creates(s, method, owner)
<1> DEFINE r == NewEval(s, method, owner, task, job)
<1>1. r \in Row /\ r.of = s /\ r.method = method /\ r.owner = owner
  BY NewRow
<1> HIDE DEF r
<1>2. eval'[e] = r /\ \A f \in Evals \ {e} : eval'[f] = eval[f]
  BY <1>1, Parts, Wrote DEF r
<1>3. QED
  BY <1>1, <1>2 DEF Creates

\* A request creates its row, or fails to.
LEMMA CreateCreates ==
  ASSUME EvaluationInv, NEW q \in Requests, Create(q)
  PROVE  Creates(request[q].at, Asks[q], "api") \/ UNCHANGED eval
<1>1. request[q].at \in Candidates /\ Asks[q] \in Methods
  BY Parts DEF Handler
<1>2. ASSUME NEW e \in Evals, Fresh(e),
             eval' = [eval EXCEPT ![e] = NewEval(request[q].at, Asks[q], "api", "created", "none")]
      PROVE  Creates(request[q].at, Asks[q], "api")
  BY <1>1, <1>2, Created
<1>3. QED
  BY <1>2 DEF Create

\* So do a request without a key, and a node.
LEMMA DirectCreates ==
  ASSUME EvaluationInv, NEW s \in Candidates
  PROVE  /\ CreateDirect(s) => Creates(s, "deterministic", "direct")
         /\ DispatchNode(s) => Creates(s, "agent", "workflow")
<1>1. ASSUME NEW e \in Evals, Fresh(e),
             eval' = [eval EXCEPT ![e] = NewEval(s, "deterministic", "direct", "none", "none")]
      PROVE  Creates(s, "deterministic", "direct")
  BY <1>1, Created
<1>2. ASSUME NEW e \in Evals, Fresh(e),
             eval' = [eval EXCEPT ![e] = NewEval(s, "agent", "workflow", "queued", "queued")]
      PROVE  Creates(s, "agent", "workflow")
  BY <1>2, Created
<1>3. QED
  BY <1>1, <1>2 DEF CreateDirect, DispatchNode

\* What a step does to the rows.
LEMMA StepKinds ==
  ASSUME EvaluationInv, [Next]_vars
  PROVE  \/ \A e \in Evals : SameRow(eval[e], eval'[e])
         \/ \E q \in Requests : Create(q) /\ Creates(request[q].at, Asks[q], "api")
         \/ \E s \in Candidates : CreateDirect(s) /\ Creates(s, "deterministic", "direct")
         \/ \E s \in Candidates : DispatchNode(s) /\ Creates(s, "agent", "workflow")
         \/ \E e \in Evals : RetryNode(e)
<1>1. CASE UNCHANGED vars
  BY <1>1, Untouched DEF vars
<1>2. CASE \E q \in Requests : Create(q)
  BY <1>2, CreateCreates, Untouched
<1>3. CASE \E s \in Candidates : CreateDirect(s) \/ DispatchNode(s)
  BY <1>3, DirectCreates
<1>4. CASE \E w \in Lanes : LaneStep(w) \/ LaneDies(w) \/ OutliveLease(w)
  BY <1>4, LaneKeepsRow
<1>5. CASE Unrelated
  BY <1>5, OthersKeepRow
<1>6. QED
  BY <1>1, <1>2, <1>3, <1>4, <1>5 DEF Next, RequestStep, Unrelated

\* "a COMPLETED run can never be overwritten by FAILED": no verdict is ever
\* replaced, save that of a deterministic evaluation whose lane was overtaken.
THEOREM VerdictsAreFinal == Spec => VerdictIsFinal
<1>1. EvaluationInv /\ [Next]_vars =>
        [\A e \in Evals :
           eval[e].status \in Ended /\ (eval[e].method = "agent" \/ ~eval[e].lost)
              => eval'[e].status = eval[e].status]_vars
  <2> SUFFICES ASSUME EvaluationInv, [Next]_vars, NEW e \in Evals,
                      eval[e].status \in Ended, eval[e].method = "agent" \/ ~eval[e].lost
               PROVE  eval'[e].status = eval[e].status
    OBVIOUS
  <2>1. ~Fresh(e) /\ eval[e] \in Row
    BY Blank, Parts DEF Ended
  <2>2. CASE SameRow(eval[e], eval'[e])
    BY <2>2 DEF SameRow
  <2>3. CASE \E s, method, owner : Creates(s, method, owner)
    BY <2>1, <2>3 DEF Creates
  <2>4. ASSUME NEW f \in Evals, RetryNode(f) PROVE eval'[e].status = eval[e].status
    <3>1. eval[f].status = "failed" /\ OfNode(f)
      BY <2>4 DEF RetryNode, RecoveryEligible
    <3>2. PICK g \in Evals :
            /\ Fresh(g)
            /\ eval' = [eval EXCEPT ![f].retried = TRUE,
                                    ![g] = NewEval(eval[f].of, "agent", "workflow", "queued", "queued")]
      BY <2>4 DEF RetryNode
    <3>3. CASE e = f
      <4>1. eval'[f] = [eval[f] EXCEPT !.retried = TRUE]
        BY <3>1, <3>2, Retries
      <4>2. QED
        BY <2>1, <3>3, <4>1 DEF Row
    <3>4. CASE e /= f
      BY <2>1, <3>1, <3>2, <3>4, Retries
    <3>5. QED
      BY <3>3, <3>4
  <2>5. QED
    BY <2>2, <2>3, <2>4, StepKinds
<1>2. QED
  BY <1>1, EvaluationInvariant, PTL DEF Spec, VerdictIsFinal

-----------------------------------------------------------------------------
(***************************************************************************)
(* A node's evaluations come one after the other                           *)
(***************************************************************************)
\* Of the evaluations of a node all but the last were retried.
NodeInv ==
    \A e, f \in Evals :
        e /= f /\ OfNode(e) /\ OfNode(f) /\ eval[e].of = eval[f].of
            => eval[e].retried \/ eval[f].retried

\* Every step keeps it: only the last evaluation of a node can be retried.
LEMMA NodeStep ==
  ASSUME EvaluationInv, NodeInv, [Next]_vars
  PROVE  NodeInv'
<1> SUFFICES ASSUME NEW e \in Evals, NEW f \in Evals, e /= f, OfNode(e)', OfNode(f)', eval'[e].of = eval'[f].of
             PROVE  eval'[e].retried \/ eval'[f].retried
  BY DEF NodeInv
<1>1. CASE \A g \in Evals : SameRow(eval[g], eval'[g])
  BY <1>1 DEF SameRow, NodeInv, OfNode
<1>2. CASE \E s \in Candidates, method \in Methods, owner \in {"api", "direct"} : Creates(s, method, owner)
  BY <1>2 DEF Creates, NodeInv, OfNode
<1>3. ASSUME NEW s \in Candidates, DispatchNode(s), Creates(s, "agent", "workflow")
      PROVE  eval'[e].retried \/ eval'[f].retried
  BY <1>3 DEF Creates, DispatchNode, NodeInv, OfNode
<1>4. ASSUME NEW h \in Evals, RetryNode(h)
      PROVE  eval'[e].retried \/ eval'[f].retried
  <2>1. eval[h].status = "failed" /\ OfNode(h) /\ ~eval[h].retried
    BY <1>4 DEF RetryNode, RecoveryEligible
  <2>2. PICK g \in Evals :
          /\ Fresh(g)
          /\ eval' = [eval EXCEPT ![h].retried = TRUE,
                                  ![g] = NewEval(eval[h].of, "agent", "workflow", "queued", "queued")]
    BY <1>4 DEF RetryNode
  <2>3. /\ \A i \in Evals \ {h, g} : eval'[i] = eval[i]
        /\ eval'[h].retried /\ eval'[h].of = eval[h].of /\ eval'[g].of = eval[h].of
    BY <2>1, <2>2, Retries
  <2>4. CASE e = h \/ f = h
    BY <2>3, <2>4
  <2>5. CASE e /= h /\ f /= h
    <3>1. \A i \in Evals \ {h, g} : OfNode(i)' /\ eval'[i].of = eval[h].of => eval'[i].retried
      BY <2>1, <2>3 DEF NodeInv, OfNode
    <3>2. CASE e = g \/ f = g
      BY <2>3, <2>5, <3>1, <3>2
    <3>3. CASE e /= g /\ f /= g
      BY <2>3, <2>5, <3>3 DEF NodeInv, OfNode
    <3>4. QED
      BY <3>2, <3>3
  <2>6. QED
    BY <2>4, <2>5
<1>5. Asks \in [Requests -> Methods] /\ request \in [Requests -> Handler]
  BY Parts
<1>6. \A q \in Requests : request[q].at \in Candidates /\ Asks[q] \in Methods
  BY <1>5 DEF Handler
<1>7. QED
  BY <1>1, <1>2, <1>3, <1>4, <1>6, StepKinds

\* A retry of an EVALUATION node never runs beside an evaluation that is open,
\* and never after one that has a verdict.
THEOREM NodesEvaluateInTurn == Spec => []OneOpenEvaluationPerNode
<1>1. Init => NodeInv
  BY DEF Init, NodeInv, OfNode, NoEval
<1>2. EvaluationInv /\ NodeInv => OneOpenEvaluationPerNode
  BY Parts DEF NodeInv, OneOpenEvaluationPerNode, RowOK
<1>3. QED
  BY <1>1, <1>2, NodeStep, EvaluationInvariant, PTL DEF Spec

-----------------------------------------------------------------------------
(***************************************************************************)
(* A candidate is evaluated once, while no statement fails                 *)
(***************************************************************************)
\* A key is in progress while one request works under it, and has an evaluation
\* only after that request's Create.
Under(q) == request[q].pc \in {"create", "queue", "enqueue", "complete"}
Evaluated(s, method) ==
    \E e \in Evals : eval[e].owner = "api" /\ eval[e].of = s /\ eval[e].method = method
SameKey(p, q) == request[p].at = request[q].at /\ Asks[p] = Asks[q]

KeyInv ==
    /\ \A s \in Candidates, method \in Methods :
         /\ key[<<s, method>>].status /= "failed"
         /\ key[<<s, method>>].status = "absent" => ~Evaluated(s, method)
    /\ \A q \in Requests :
         /\ request[q].pc \notin {"reclaim", "fail"}
         /\ Under(q) => key[Key(q)].status = "in_progress"
         /\ request[q].pc = "create" => ~Evaluated(request[q].at, Asks[q])
    /\ \A p, q \in Requests : p /= q /\ Under(p) /\ Under(q) => ~SameKey(p, q)
    /\ \A e, f \in Evals : e /= f /\ eval[e].owner = "api" /\ eval[f].owner = "api"
                             => eval[e].of /= eval[f].of \/ eval[e].method /= eval[f].method

NoFailureInv == faults = 0 => KeyInv

\* No request's row is added.
NoNewRow ==
    \A e \in Evals : eval'[e].owner = "api" =>
        eval[e].owner = "api" /\ eval'[e].of = eval[e].of /\ eval'[e].method = eval[e].method

\* The keys say the same of the rows when nobody writes a key.
LEMMA KeysStay ==
  ASSUME KeyInv, NoNewRow, UNCHANGED <<key, request>>
  PROVE  KeyInv'
<1>1. \A s, method : Evaluated(s, method)' => Evaluated(s, method)
  BY DEF Evaluated, NoNewRow
<1>2. QED
  BY <1>1 DEF KeyInv, NoNewRow, Under, Key, SameKey

\* One request moves to pc, and its key gets a status that fits.
LEMMA KeyMoves ==
  ASSUME EvaluationInv, KeyInv, NoNewRow, NEW q \in Requests, NEW pc,
         request' \in [Requests -> Handler], request'[q].pc = pc,
         \A p \in Requests \ {q} : request'[p] = request[p],
         \/ pc \in {"begin", "gone"} /\ (key' = key \/ (Under(q) /\ \E ref \in Evals \cup {Nothing} :
               key' = [key EXCEPT ![Key(q)] = [status |-> "completed", ref |-> ref]]))
         \/ /\ pc \in {"enqueue", "complete"} /\ Under(q) /\ UNCHANGED key
            /\ request'[q].at = request[q].at
         \/ /\ pc = "create" /\ key[Key(q)].status = "absent" /\ request'[q].at = request[q].at
            /\ key' = [key EXCEPT ![Key(q)].status = "in_progress"]
  PROVE  KeyInv'
<1>1. \A s, method : Evaluated(s, method)' => Evaluated(s, method)
  BY DEF Evaluated, NoNewRow
<1>2. \A p \in Requests : request[p].at \in Candidates /\ Asks[p] \in Methods /\ Key(p) \in Keys
  BY Parts DEF Handler, Key
<1>3. key \in [Keys -> Status]
  BY KeyType
<1>4. \A p \in Requests \ {q} : /\ request'[p] = request[p] /\ (Under(p)' <=> Under(p)) /\ Key(p)' = Key(p)
                                /\ (SameKey(p, q) <=> Key(p) = Key(q))
  BY DEF Under, Key, SameKey
<1>5. CASE pc \in {"begin", "gone"} /\ key' = key
  BY <1>1, <1>4, <1>5 DEF KeyInv, NoNewRow, Under, SameKey
<1>6. ASSUME pc \in {"begin", "gone"}, Under(q), NEW ref \in Evals \cup {Nothing},
             key' = [key EXCEPT ![Key(q)] = [status |-> "completed", ref |-> ref]]
      PROVE  KeyInv'
  <2>1. /\ key'[Key(q)].status = "completed"
        /\ \A k \in Keys : k /= Key(q) => key'[k] = key[k]
    BY <1>2, <1>3, <1>6
  <2>2. \A s \in Candidates, method \in Methods :
          /\ key'[<<s, method>>].status /= "failed"
          /\ key'[<<s, method>>].status = "absent" => ~Evaluated(s, method)'
    <3> SUFFICES ASSUME NEW s \in Candidates, NEW method \in Methods
                 PROVE  /\ key'[<<s, method>>].status /= "failed"
                        /\ key'[<<s, method>>].status = "absent" => ~Evaluated(s, method)'
      OBVIOUS
    <3>1. CASE <<s, method>> = Key(q)
      BY <2>1, <3>1
    <3>2. CASE <<s, method>> /= Key(q)
      <4>1. key'[<<s, method>>] = key[<<s, method>>]
        BY <2>1, <3>2
      <4>2. Evaluated(s, method)' => Evaluated(s, method)
        BY <1>1
      <4>3. /\ key[<<s, method>>].status /= "failed"
            /\ key[<<s, method>>].status = "absent" => ~Evaluated(s, method)
        BY DEF KeyInv
      <4>4. QED
        BY <4>1, <4>2, <4>3
    <3>3. QED
      BY <3>1, <3>2
  <2>3. ~Under(q)' /\ request'[q].pc \in {"begin", "gone"}
    BY <1>6 DEF Under
  <2>4. \A p \in Requests \ {q} : Under(p) => Key(p) /= Key(q)
    BY <1>4, <1>6 DEF KeyInv
  <2>5. \A p \in Requests : Under(p)' => key'[Key(p)'].status = "in_progress"
    BY <1>2, <1>4, <2>1, <2>3, <2>4 DEF KeyInv
  <2>6. QED
    BY <1>1, <1>4, <2>2, <2>3, <2>5 DEF KeyInv, NoNewRow, SameKey
<1>7. CASE /\ pc \in {"enqueue", "complete"} /\ Under(q) /\ UNCHANGED key
           /\ request'[q].at = request[q].at
  BY <1>1, <1>4, <1>7 DEF KeyInv, NoNewRow, Under, Key, SameKey
<1>8. CASE /\ pc = "create" /\ key[Key(q)].status = "absent" /\ request'[q].at = request[q].at
           /\ key' = [key EXCEPT ![Key(q)].status = "in_progress"]
  <2>1. /\ key'[Key(q)].status = "in_progress"
        /\ \A k \in Keys : k /= Key(q) => key'[k] = key[k]
    BY <1>2, <1>3, <1>8 DEF Status
  <2>2. \A s \in Candidates, method \in Methods :
          /\ key'[<<s, method>>].status /= "failed"
          /\ key'[<<s, method>>].status = "absent" => ~Evaluated(s, method)'
    <3> SUFFICES ASSUME NEW s \in Candidates, NEW method \in Methods
                 PROVE  /\ key'[<<s, method>>].status /= "failed"
                        /\ key'[<<s, method>>].status = "absent" => ~Evaluated(s, method)'
      OBVIOUS
    <3>1. CASE <<s, method>> = Key(q)
      BY <2>1, <3>1
    <3>2. CASE <<s, method>> /= Key(q)
      <4>1. key'[<<s, method>>] = key[<<s, method>>]
        BY <2>1, <3>2
      <4>2. Evaluated(s, method)' => Evaluated(s, method)
        BY <1>1
      <4>3. /\ key[<<s, method>>].status /= "failed"
            /\ key[<<s, method>>].status = "absent" => ~Evaluated(s, method)
        BY DEF KeyInv
      <4>4. QED
        BY <4>1, <4>2, <4>3
    <3>3. QED
      BY <3>1, <3>2
  <2>3. Key(q)' = Key(q) /\ Under(q)' /\ request'[q].pc = "create"
    BY <1>8 DEF Key, Under
  <2>4. ~Evaluated(request[q].at, Asks[q])
    <3>1. key[<<request[q].at, Asks[q]>>].status = "absent"
      BY <1>8 DEF Key
    <3>2. QED
      BY <1>2, <3>1, ZenonT(60) DEF KeyInv
  <2>5. \A p \in Requests \ {q} : Under(p) => Key(p) /= Key(q)
    BY <1>8 DEF KeyInv
  <2>6. \A p \in Requests : Under(p)' => key'[Key(p)'].status = "in_progress"
    BY <1>2, <1>4, <2>1, <2>3, <2>5 DEF KeyInv
  <2>7. \A p, s \in Requests : p /= s /\ Under(p)' /\ Under(s)' => ~SameKey(p, s)'
    BY <1>4, <1>8, <2>5 DEF KeyInv, SameKey, Key
  <2>8. QED
    BY <1>1, <1>4, <1>8, <2>2, <2>3, <2>4, <2>6, <2>7 DEF KeyInv, NoNewRow
<1>9. QED
  BY <1>5, <1>6, <1>7, <1>8

\* A request that no statement fails.
LEMMA RequestKeepsKeys ==
  ASSUME EvaluationInv, KeyInv, NEW q \in Requests, faults = 0, faults' = 0,
         SkipCandidate(q) \/ Begin(q) \/ Reclaim(q) \/ Queue(q) \/ Enqueue(q) \/ CompleteKey(q)
           \/ FailKey(q) \/ RequestDies(q)
  PROVE  KeyInv'
<1>1. NoNewRow
  <2>1. \A e \in Evals : SameRow(eval[e], eval'[e])
    BY OthersKeepRow DEF Unrelated
  <2>2. QED
    BY <2>1 DEF SameRow, NoNewRow
<1>2. request \in [Requests -> Handler] /\ request[q].eval \in Evals \cup {Nothing}
  BY Parts DEF Handler
<1>3. request[q].pc \notin {"reclaim", "fail"} /\ ~Fault
  BY DEF KeyInv, Fault
<1>4. key[Key(q)].status /= "failed"
  BY Parts DEF KeyInv, Key, Handler
<1>5. CASE SkipCandidate(q)
  BY <1>1, <1>2, <1>5, WentOn, KeyMoves DEF SkipCandidate
<1>6. CASE Begin(q)
  <2>1. CASE key[Key(q)].status = "absent"
    <3>1. key' = [key EXCEPT ![Key(q)].status = "in_progress"] /\ Go(q, "create")
      BY <1>6, <2>1 DEF Begin, Claimable
    <3>2. QED
      BY <1>1, <1>2, <2>1, <3>1, Gone, KeyMoves
  <2>2. CASE key[Key(q)].status /= "absent"
    <3>1. UNCHANGED key /\ (NextCandidate(q) \/ Go(q, "gone"))
      BY <1>4, <1>6, <2>2 DEF Begin, Claimable
    <3>2. QED
      BY <1>1, <1>2, <3>1, Gone, WentOn, KeyMoves
  <2>3. QED
    BY <2>1, <2>2
<1>7. CASE Queue(q)
  BY <1>1, <1>2, <1>7, Gone, KeyMoves DEF Queue, Asking, Under
<1>8. CASE Enqueue(q)
  <2>1. Go(q, "complete") /\ Under(q) /\ UNCHANGED key
    BY <1>3, <1>8 DEF Enqueue, Asking, Under
  <2>2. QED
    BY <1>1, <1>2, <2>1, Gone, KeyMoves
<1>9. CASE CompleteKey(q)
  <2>1. /\ Under(q) /\ NextCandidate(q)
        /\ key' = [key EXCEPT ![Key(q)] = [status |-> "completed", ref |-> request[q].eval]]
    BY <1>9 DEF CompleteKey, Asking, Under
  <2>2. QED
    BY <1>1, <1>2, <2>1, WentOn, KeyMoves
<1>10. CASE Reclaim(q) \/ FailKey(q) \/ RequestDies(q)
  BY <1>3, <1>10 DEF Reclaim, FailKey, RequestDies, Asking
<1>11. QED
  BY <1>5, <1>6, <1>7, <1>8, <1>9, <1>10

\* The first row under its key.
LEMMA CreateKeepsKeys ==
  ASSUME EvaluationInv, KeyInv, NEW q \in Requests, faults = 0, faults' = 0, Create(q),
         Creates(request[q].at, Asks[q], "api")
  PROVE  KeyInv'
<1>1. PICK e \in Evals : /\ Fresh(e) /\ eval'[e].of = request[q].at /\ eval'[e].method = Asks[q]
                         /\ eval'[e].owner = "api" /\ \A f \in Evals \ {e} : eval'[f] = eval[f]
  BY DEF Creates
<1>2. eval[e].owner = "none"
  BY <1>1, Blank
<1>3. /\ UNCHANGED key /\ Under(q) /\ ~Evaluated(request[q].at, Asks[q]) /\ ~Fault
  BY DEF Create, Asking, Under, KeyInv, Fault
<1>4. /\ request'[q].pc \in {"queue", "enqueue"} /\ request'[q].at = request[q].at
      /\ \A p \in Requests \ {q} : request'[p] = request[p]
  <2>1. request \in [Requests -> Handler] /\ request[q] \in Handler
    BY Parts
  <2>2. PICK f : request' = [request EXCEPT ![q].eval = f, ![q].pc = IF Asks[q] = "agent" THEN "queue" ELSE "enqueue"]
    BY <1>3 DEF Create
  <2> DEFINE pc == IF Asks[q] = "agent" THEN "queue" ELSE "enqueue"
             h == [request[q] EXCEPT !.eval = f, !.pc = pc]
  <2>3. h.pc \in {"queue", "enqueue"} /\ h.at = request[q].at
    BY <2>1 DEF Handler
  <2>4. request' = [request EXCEPT ![q] = h]
    BY <2>2
  <2> HIDE DEF h
  <2>5. QED
    BY <2>1, <2>3, <2>4
<1>5. \A s, method : Evaluated(s, method)' =>
         Evaluated(s, method) \/ (s = request[q].at /\ method = Asks[q])
  BY <1>1 DEF Evaluated
<1>6. \A p \in Requests : request[p].at \in Candidates /\ Asks[p] \in Methods
  BY Parts DEF Handler
<1>7. \A s \in Candidates, method \in Methods :
        /\ key'[<<s, method>>].status /= "failed"
        /\ key'[<<s, method>>].status = "absent" => ~Evaluated(s, method)'
  BY <1>3, <1>5 DEF KeyInv, Key
<1>8. \A p \in Requests : Under(p)' <=> Under(p)
  BY <1>3, <1>4 DEF Under
<1>9. \A p \in Requests : /\ request'[p].pc \notin {"reclaim", "fail"}
                          /\ Under(p)' => key'[Key(p)'].status = "in_progress"
  BY <1>3, <1>4, <1>8 DEF KeyInv, Key
<1>10. \A p \in Requests : request'[p].pc = "create" => ~Evaluated(request[p].at, Asks[p])'
  <2> SUFFICES ASSUME NEW p \in Requests, request'[p].pc = "create"
               PROVE  ~Evaluated(request[p].at, Asks[p])'
    OBVIOUS
  <2>1. p /= q /\ request'[p] = request[p] /\ Under(p)
    BY <1>4 DEF Under
  <2>2. ~SameKey(p, q) /\ ~Evaluated(request[p].at, Asks[p])
    BY <1>3, <2>1 DEF KeyInv
  <2>3. QED
    BY <1>5, <2>1, <2>2 DEF SameKey
<1>11. \A p, s \in Requests : p /= s /\ Under(p)' /\ Under(s)' => ~SameKey(p, s)'
  BY <1>4, <1>8 DEF KeyInv, SameKey
<1>12. \A f \in Evals \ {e} : eval[f].owner = "api" => eval[f].of /= request[q].at \/ eval[f].method /= Asks[q]
  BY <1>3 DEF Evaluated
<1>13. \A f, g \in Evals : f /= g /\ eval'[f].owner = "api" /\ eval'[g].owner = "api"
                            => eval'[f].of /= eval'[g].of \/ eval'[f].method /= eval'[g].method
  BY <1>1, <1>12 DEF KeyInv
<1>14. QED
  BY <1>7, <1>9, <1>10, <1>11, <1>13 DEF KeyInv

\* Who is not a request adds no row under a key.
LEMMA OthersKeepKeys ==
  ASSUME EvaluationInv, KeyInv, [Next]_vars,
         ~(\E q \in Requests : RequestStep(q) \/ RequestDies(q))
  PROVE  KeyInv'
<1>1. UNCHANGED <<key, request>>
  <2>1. CASE UNCHANGED vars
    BY <2>1 DEF vars
  <2>2. ASSUME NEW s \in Candidates, CreateDirect(s) \/ DispatchNode(s) \/ EditFile(s)
        PROVE  UNCHANGED <<key, request>>
    BY <2>2 DEF CreateDirect, DispatchNode, EditFile, NodeOnly
  <2>3. ASSUME NEW e \in Evals, EnqueueDirect(e) \/ RetryNode(e) \/ CancelEvaluator(e)
        PROVE  UNCHANGED <<key, request>>
    BY <2>3 DEF EnqueueDirect, RetryNode, CancelEvaluator, NodeOnly
  <2>4. ASSUME NEW w \in Lanes, NEW e \in Evals, Claim(w, e) \/ Sweep(w, e)
        PROVE  UNCHANGED <<key, request>>
    BY <2>4 DEF Claim, Sweep, LaneOnly
  <2>5. ASSUME NEW w \in Lanes, LaneStep(w) \/ LaneDies(w) \/ OutliveLease(w)
        PROVE  UNCHANGED <<key, request>>
    BY <2>5 DEF LaneStep, LaneDies, OutliveLease, Finish, ReadRun, StartRun, RunChecks, EndRun, Recover, Answer,
       Judge, EndTask, Reconcile, Finalize, Decide, LaneOnly
  <2>6. QED
    BY <2>1, <2>2, <2>3, <2>4, <2>5 DEF Next
<1>2. NoNewRow
  <2>1. CASE \A e \in Evals : SameRow(eval[e], eval'[e])
    BY <2>1 DEF SameRow, NoNewRow
  <2>2. CASE \E s \in Candidates : Creates(s, "deterministic", "direct") \/ Creates(s, "agent", "workflow")
    BY <2>2 DEF Creates, NoNewRow
  <2>3. ASSUME NEW h \in Evals, RetryNode(h) PROVE NoNewRow
    <3>1. eval[h].status = "failed" /\ OfNode(h)
      BY <2>3 DEF RetryNode, RecoveryEligible
    <3>2. PICK g \in Evals :
            /\ Fresh(g)
            /\ eval' = [eval EXCEPT ![h].retried = TRUE,
                                    ![g] = NewEval(eval[h].of, "agent", "workflow", "queued", "queued")]
      BY <2>3 DEF RetryNode
    <3>3. /\ \A i \in Evals \ {h, g} : eval'[i] = eval[i]
          /\ eval'[h].owner = "workflow" /\ eval'[g].owner = "workflow"
      BY <3>1, <3>2, Retries
    <3>4. QED
      BY <3>3 DEF NoNewRow
  <2>4. QED
    BY <2>1, <2>2, <2>3, StepKinds DEF RequestStep
<1>3. QED
  BY <1>1, <1>2, KeysStay

\* Every step keeps it, for as long as there was no fault.
LEMMA KeyStep ==
  ASSUME EvaluationInv, NoFailureInv, [Next]_vars
  PROVE  NoFailureInv'
<1> SUFFICES ASSUME faults' = 0 PROVE KeyInv'
  BY DEF NoFailureInv
<1>1. faults = 0
  <2>1. UNCHANGED faults \/ Fault
    <3>1. CASE UNCHANGED vars
      BY <3>1 DEF vars
    <3>2. ASSUME NEW q \in Requests, RequestStep(q) \/ RequestDies(q)
          PROVE  UNCHANGED faults \/ Fault
      BY <3>2 DEF RequestStep, RequestDies, SkipCandidate, Begin, Reclaim, Create, Queue, Enqueue, CompleteKey, FailKey
    <3>3. ASSUME NEW s \in Candidates, CreateDirect(s) \/ DispatchNode(s) \/ EditFile(s)
          PROVE  UNCHANGED faults \/ Fault
      BY <3>3 DEF CreateDirect, DispatchNode, EditFile, NodeOnly
    <3>4. ASSUME NEW e \in Evals, EnqueueDirect(e) \/ RetryNode(e) \/ CancelEvaluator(e)
          PROVE  UNCHANGED faults \/ Fault
      BY <3>4 DEF EnqueueDirect, RetryNode, CancelEvaluator, NodeOnly
    <3>5. ASSUME NEW w \in Lanes, NEW e \in Evals, Claim(w, e) \/ Sweep(w, e)
          PROVE  UNCHANGED faults \/ Fault
      BY <3>5 DEF Claim, Sweep
    <3>6. ASSUME NEW w \in Lanes, LaneStep(w) \/ LaneDies(w) \/ OutliveLease(w)
          PROVE  UNCHANGED faults \/ Fault
      BY <3>6 DEF LaneStep, LaneDies, OutliveLease, Finish, ReadRun, StartRun, RunChecks, EndRun, Recover, Answer,
         Judge, EndTask, Reconcile, Finalize, Decide
    <3>7. QED
      BY <3>1, <3>2, <3>3, <3>4, <3>5, <3>6 DEF Next
  <2>2. QED
    BY <2>1, Parts DEF Fault
<1>2. KeyInv
  BY <1>1 DEF NoFailureInv
<1>3. ASSUME NEW q \in Requests, Create(q) PROVE KeyInv'
  <2>1. ~Fault
    BY <1>1 DEF Fault
  <2>2. PICK e \in Evals :
          /\ Fresh(e)
          /\ eval' = [eval EXCEPT ![e] = NewEval(request[q].at, Asks[q], "api", "created", "none")]
    BY <1>3, <2>1 DEF Create
  <2>3. request[q].at \in Candidates /\ Asks[q] \in Methods
    BY Parts DEF Handler
  <2>4. Creates(request[q].at, Asks[q], "api")
    BY <2>2, <2>3, Created
  <2>5. QED
    BY <1>1, <1>2, <1>3, <2>4, CreateKeepsKeys
<1>4. QED
  BY <1>1, <1>2, <1>3, RequestKeepsKeys, OthersKeepKeys DEF RequestStep

\* "Idempotent: retrying the identical request reuses the prior EvaluationRun":
\* requests that overlap in any order evaluate a candidate twice only if a
\* statement of one of them failed.
THEOREM KeysPreventDuplicates == Spec => []DuplicatesOnlyAfterFailure
<1>1. Init => NoFailureInv
  <2> SUFFICES ASSUME Init PROVE KeyInv
    BY DEF NoFailureInv
  <2>1. /\ \A e \in Evals : eval[e].owner = "none"
        /\ \A q \in Requests : request[q].pc = "begin"
        /\ \A k \in Keys : key[k].status = "absent"
    BY DEF Init, NoEval, NewRequest
  <2>2. QED
    BY <2>1 DEF KeyInv, Evaluated, Under
<1>2. EvaluationInv /\ NoFailureInv => DuplicatesOnlyAfterFailure
  BY Parts DEF NoFailureInv, KeyInv, DuplicatesOnlyAfterFailure
<1>3. QED
  BY <1>1, <1>2, KeyStep, EvaluationInvariant, PTL DEF Spec

-----------------------------------------------------------------------------
(***************************************************************************)
(* An evaluation by an agent is judged once                                *)
(***************************************************************************)
\* What a row is about.
About(r, x) == x.of = r.of /\ x.owner = r.owner /\ x.method = r.method

\* Rows that look the same from outside; one whose evaluator has ended since; and
\* one that was concluded.
Alike(r, x) ==
    /\ About(r, x) /\ OpinionOf(x) = OpinionOf(r) /\ OutcomeOf(x) = OutcomeOf(r)
    /\ r.method = "agent" => x.results = r.results

Opined(r, x) ==
    /\ About(r, x) /\ OutcomeOf(x) = OutcomeOf(r) /\ x.results = r.results
    /\ OpinionOf(r) = "awaited" /\ OpinionOf(x) \in {"sound", "unsound", "failed", "stopped"}

Concluded(r, x) ==
    /\ About(r, x) /\ OpinionOf(x) = OpinionOf(r) /\ r.method = "agent"
    /\ OutcomeOf(r) = "open" /\ OpinionOf(r) /= "awaited" /\ OutcomeOf(x) \in Ended
    /\ OutcomeOf(x) = "completed" => OpinionOf(r) = "sound"
    /\ OutcomeOf(x) = "cancelled" <=> OpinionOf(r) = "stopped"
    /\ x.results = (OutcomeOf(x) = "completed")

GoesOn(r, x) == Alike(r, x) \/ Opined(r, x) \/ Concluded(r, x)

\* A step that writes one row.
Changes(e) == GoesOn(eval[e], eval'[e]) /\ \A f \in Evals \ {e} : eval'[f] = eval[f]

LEMMA ChangesOne ==
  ASSUME eval \in [Evals -> Row], NEW e \in Evals, NEW x, eval' = [eval EXCEPT ![e] = x], GoesOn(eval[e], x)
  PROVE  Changes(e)
  BY DEF Changes

LEMMA ChangesNone ==
  ASSUME UNCHANGED eval, NEW e \in Evals PROVE Changes(e)
  BY DEF Changes, GoesOn, Alike, About

\* Writes that are not seen.
LEMMA Unseen ==
  ASSUME NEW r \in Row, NEW v, NEW u
  PROVE  /\ GoesOn(r, [r EXCEPT !.why = v])
         /\ GoesOn(r, [r EXCEPT !.task = v])
         /\ GoesOn(r, [r EXCEPT !.job = v])
         /\ GoesOn(r, [r EXCEPT !.cancel = v])
         /\ GoesOn(r, [r EXCEPT !.job = v, !.holder = u])
         /\ GoesOn(r, [r EXCEPT !.lost = TRUE, !.job = v, !.holder = u])
<1>1. ASSUME NEW x, About(r, x), x.agent = r.agent, x.output = r.output, x.given = r.given,
             x.status = r.status, x.results = r.results
      PROVE  GoesOn(r, x)
  BY <1>1 DEF GoesOn, Alike, About, OpinionOf, OutcomeOf
<1>2. GoesOn(r, [r EXCEPT !.why = v])
  BY <1>1 DEF Row, About
<1>3. GoesOn(r, [r EXCEPT !.task = v])
  BY <1>1 DEF Row, About
<1>4. GoesOn(r, [r EXCEPT !.job = v])
  BY <1>1 DEF Row, About
<1>5. GoesOn(r, [r EXCEPT !.cancel = v])
  BY <1>1 DEF Row, About
<1>6. GoesOn(r, [r EXCEPT !.job = v, !.holder = u])
  <2> DEFINE x == [r EXCEPT !.job = v, !.holder = u]
  <2>1. /\ About(r, x) /\ x.agent = r.agent /\ x.output = r.output /\ x.given = r.given
        /\ x.status = r.status /\ x.results = r.results
    BY DEF Row, About
  <2> HIDE DEF x
  <2>2. GoesOn(r, x)
    BY <1>1, <2>1
  <2>3. QED
    BY <2>2 DEF x
<1>7. GoesOn(r, [r EXCEPT !.lost = TRUE, !.job = v, !.holder = u])
  <2> DEFINE x == [r EXCEPT !.lost = TRUE, !.job = v, !.holder = u]
  <2>1. /\ About(r, x) /\ x.agent = r.agent /\ x.output = r.output /\ x.given = r.given
        /\ x.status = r.status /\ x.results = r.results
    BY DEF Row, About
  <2> HIDE DEF x
  <2>2. GoesOn(r, x)
    BY <1>1, <2>1
  <2>3. QED
    BY <2>2 DEF x
<1>8. QED
  BY <1>2, <1>3, <1>4, <1>5, <1>6, <1>7

\* Writes of a deterministic evaluation are not seen at all.
LEMMA UnseenDeterministic ==
  ASSUME NEW r \in Row, RowOK(r), r.method = "deterministic", NEW v, NEW u
  PROVE  /\ GoesOn(r, [r EXCEPT !.status = v])
         /\ GoesOn(r, [r EXCEPT !.results = v, !.given = u])
<1>1. r.agent = "none"
  BY DEF RowOK
<1>2. ASSUME NEW x, About(r, x), x.agent = r.agent PROVE GoesOn(r, x)
  BY <1>1, <1>2 DEF GoesOn, Alike, About, OpinionOf, OutcomeOf
<1>3. GoesOn(r, [r EXCEPT !.status = v])
  BY <1>2 DEF Row, About
<1>4. GoesOn(r, [r EXCEPT !.results = v, !.given = u])
  <2> DEFINE x == [r EXCEPT !.results = v, !.given = u]
  <2>1. About(r, x) /\ x.agent = r.agent
    BY DEF Row, About
  <2> HIDE DEF x
  <2>2. GoesOn(r, x)
    BY <1>2, <2>1
  <2>3. QED
    BY <2>2 DEF x
<1>5. QED
  BY <1>3, <1>4

\* The evaluator is at work, answers, and ends.
LEMMA EvaluatorGoesOn ==
  ASSUME NEW r \in Row, RowOK(r), r.method = "agent", NEW v
  PROVE  /\ r.agent = "created" => GoesOn(r, [r EXCEPT !.agent = "running", !.given = v])
         /\ r.agent \in {"running", "failed", "stopped"} => GoesOn(r, [r EXCEPT !.output = v])
         /\ r.agent \notin AgentEnded /\ v \in AgentEnded => GoesOn(r, [r EXCEPT !.agent = v])
<1>1. ASSUME r.agent = "created" PROVE GoesOn(r, [r EXCEPT !.agent = "running", !.given = v])
  <2> DEFINE x == [r EXCEPT !.agent = "running", !.given = v]
  <2>1. About(r, x) /\ x.agent = "running" /\ x.status = r.status /\ x.results = r.results
    BY DEF Row, About
  <2> HIDE DEF x
  <2>2. GoesOn(r, x)
    BY <1>1, <2>1 DEF GoesOn, Alike, About, OpinionOf, OutcomeOf
  <2>3. QED
    BY <2>2 DEF x
<1>2. ASSUME r.agent \in {"running", "failed", "stopped"} PROVE GoesOn(r, [r EXCEPT !.output = v])
  <2> DEFINE x == [r EXCEPT !.output = v]
  <2>1. About(r, x) /\ x.agent = r.agent /\ x.status = r.status /\ x.results = r.results
    BY DEF Row, About
  <2> HIDE DEF x
  <2>2. GoesOn(r, x)
    BY <1>2, <2>1 DEF GoesOn, Alike, About, OpinionOf, OutcomeOf
  <2>3. QED
    BY <2>2 DEF x
<1>3. ASSUME r.agent \notin AgentEnded, v \in AgentEnded PROVE GoesOn(r, [r EXCEPT !.agent = v])
  <2> DEFINE x == [r EXCEPT !.agent = v]
  <2>1. About(r, x) /\ x.agent = v /\ x.status = r.status /\ x.results = r.results
    BY DEF Row, About
  <2>2. r.agent \in {"created", "running"}
    BY <1>3 DEF Row, RowOK
  <2> HIDE DEF x
  <2>3. OpinionOf(r) = "awaited" /\ OpinionOf(x) \in {"sound", "unsound", "failed", "stopped"}
    BY <1>3, <2>1, <2>2 DEF OpinionOf, AgentEnded
  <2>4. GoesOn(r, x)
    BY <2>1, <2>3 DEF GoesOn, Opined, About, OutcomeOf
  <2>5. QED
    BY <2>4 DEF x
<1>4. QED
  BY <1>1, <1>2, <1>3

\* The one who wins the compare-and-swap concludes it.
LEMMA DecideGoesOn ==
  ASSUME NEW r \in Row, RowOK(r), r.method = "agent", r.status \in {"pending", "running"},
         NEW v, Fits(r, v), NEW found, found = (r.results \/ v = "completed")
  PROVE  GoesOn(r, [r EXCEPT !.status = v, !.results = found])
<1> DEFINE x == [r EXCEPT !.status = v, !.results = found]
<1>1. About(r, x) /\ x.agent = r.agent /\ x.output = r.output /\ x.given = r.given
      /\ x.status = v /\ x.results = found
  BY DEF Row, About
<1>2. ~r.results /\ v \in Ended /\ r.status \notin Ended
  BY DEF RowOK, Fits, Ended, Row
<1> HIDE DEF x
<1>3. OutcomeOf(r) = "open" /\ OutcomeOf(x) = v /\ OpinionOf(x) = OpinionOf(r)
  BY <1>1, <1>2 DEF OutcomeOf, OpinionOf, About
<1>4. OpinionOf(r) /= "awaited" /\ (v = "completed" => OpinionOf(r) = "sound")
      /\ (v = "cancelled" <=> OpinionOf(r) = "stopped")
  BY DEF Fits, OpinionOf, RowOK
<1>5. found = (v = "completed")
  BY <1>2 DEF Row
<1>6. Concluded(r, x)
  BY <1>1, <1>2, <1>3, <1>4, <1>5 DEF Concluded
<1>7. QED
  BY <1>6 DEF GoesOn, x

LEMMA LaneChanges ==
  ASSUME EvaluationInv, NEW w \in Lanes, LaneStep(w) \/ LaneDies(w) \/ OutliveLease(w)
  PROVE  \E e \in Evals : Changes(e)
<1> DEFINE e == Mine(w)
           r == eval[e]
<1>1. ~At(w, "idle")
  BY DEF LaneStep, LaneDies, OutliveLease, At, Finish, ReadRun, StartRun, RunChecks, EndRun, Recover,
     Answer, Judge, EndTask, Reconcile, Finalize, Decide
<1>2. e \in Evals /\ r \in Row /\ eval \in [Evals -> Row] /\ RowOK(r) /\ Relies(w, lane[w], r)
      /\ r.status /= "none"
  BY <1>1, Working
<1> SUFFICES Changes(e)
  BY <1>2
<1>3. ASSUME NEW x, GoesOn(r, x), eval' = [eval EXCEPT ![e] = x] PROVE Changes(e)
  BY <1>2, <1>3, ChangesOne
<1>4. CASE UNCHANGED eval
  BY <1>2, <1>4, ChangesNone
<1>5. CASE StartRun(w) \/ EndRun(w) \/ RunChecks(w)
  <2>1. r.method = "deterministic"
    BY <1>2, <1>5 DEF Relies, DeterministicSteps, StartRun, EndRun, RunChecks, At
  <2>2. \/ UNCHANGED eval
        \/ \E v : eval' = [eval EXCEPT ![e] = [r EXCEPT !.status = v]]
        \/ \E u : eval' = [eval EXCEPT ![e] = [r EXCEPT !.results = TRUE, !.given = u]]
    BY <1>5 DEF StartRun, EndRun, RunChecks
  <2>3. QED
    BY <1>2, <1>3, <1>4, <2>1, <2>2, UnseenDeterministic
<1>6. CASE Decide(w)
  <2> DEFINE found == r.results \/ lane[w].outcome = "completed"
  <2>1. r.method = "agent" /\ Fits(r, lane[w].outcome)
    BY <1>2, <1>6 DEF Relies, AgentSteps, Decide, At
  <2>2. CASE CasTerminal(e)
    <3>1. r.status \in {"pending", "running"}
      BY <2>2 DEF CasTerminal, Undecided
    <3>2. eval' = [eval EXCEPT ![e] = [r EXCEPT !.status = lane[w].outcome, !.results = found]]
      BY <1>6, <2>2 DEF Decide
    <3>3. GoesOn(r, [r EXCEPT !.status = lane[w].outcome, !.results = found])
      BY <1>2, <2>1, <3>1, DecideGoesOn
    <3>4. QED
      BY <1>3, <3>2, <3>3
  <2>3. CASE ~CasTerminal(e)
    BY <1>4, <1>6, <2>3 DEF Decide
  <2>4. QED
    BY <2>2, <2>3
<1>7. CASE Recover(w)
  <2>1. r.method = "agent"
    BY <1>2, <1>7 DEF Relies, AgentSteps, Recover, At
  <2>2. r.agent \in {"created", "running"} \cup AgentEnded
    BY <1>2, <2>1 DEF Row, RowOK
  <2>3. \/ UNCHANGED eval
        \/ \E why : eval' = [eval EXCEPT ![e] = [r EXCEPT !.why = why]]
        \/ r.agent = "created" /\ eval' = [eval EXCEPT ![e] = [r EXCEPT !.agent = "running", !.given = Bytes(e)]]
    <3>1. CASE r.agent \in AgentEnded
      BY <1>7, <3>1 DEF Recover
    <3>2. CASE r.agent = "running"
      <4>1. \E why : eval' = [eval EXCEPT ![e].why = why]
        BY <1>7, <3>2 DEF Recover, AgentEnded
      <4>2. QED
        BY <4>1
    <3>3. CASE r.agent = "created"
      <4>1. \/ UNCHANGED eval
            \/ eval' = [eval EXCEPT ![e].why = "other"]
            \/ eval' = [eval EXCEPT ![e].agent = "running", ![e].given = Bytes(e)]
        BY <1>7, <3>3 DEF Recover, AgentEnded
      <4>2. QED
        BY <3>3, <4>1
    <3>4. QED
      BY <2>2, <3>1, <3>2, <3>3
  <2>4. \A why : GoesOn(r, [r EXCEPT !.why = why])
    BY <1>2, Unseen
  <2>5. r.agent = "created" => GoesOn(r, [r EXCEPT !.agent = "running", !.given = Bytes(e)])
    BY <1>2, <2>1, EvaluatorGoesOn
  <2>6. QED
    BY <1>3, <1>4, <2>3, <2>4, <2>5
<1>8. CASE Answer(w)
  <2>1. r.method = "agent" /\ r.agent \in {"running", "failed", "stopped"}
    BY <1>2, <1>8 DEF Relies, AgentSteps, Calling, Answer, At
  <2>2. \/ \E text : eval' = [eval EXCEPT ![e] = [r EXCEPT !.output = text]]
        \/ \E why : eval' = [eval EXCEPT ![e] = [r EXCEPT !.why = why]]
    BY <1>8 DEF Answer
  <2>3. QED
    BY <1>2, <1>3, <2>1, <2>2, Unseen, EvaluatorGoesOn
<1>9. CASE Judge(w)
  <2>1. r.method = "agent" /\ lane[w].outcome \in AgentEnded
    BY <1>2, <1>9 DEF Relies, AgentSteps, Judge, At
  <2>2. UNCHANGED eval \/ (r.agent \notin AgentEnded
                           /\ eval' = [eval EXCEPT ![e] = [r EXCEPT !.agent = lane[w].outcome]])
    BY <1>9 DEF Judge
  <2>3. QED
    BY <1>2, <1>3, <1>4, <2>1, <2>2, EvaluatorGoesOn
<1>10. CASE EndTask(w)
  <2>1. eval' = [eval EXCEPT ![e] = [r EXCEPT !.task = AsTaskRunStatus(lane[w].outcome)]]
    BY <1>10 DEF EndTask
  <2>2. GoesOn(r, [r EXCEPT !.task = AsTaskRunStatus(lane[w].outcome)])
    BY <1>2, Unseen
  <2>3. QED
    BY <1>3, <2>1, <2>2
<1>11. CASE Finish(w)
  <2>1. UNCHANGED eval \/ eval' = [eval EXCEPT ![e].job = "done", ![e].holder = Nobody]
    BY <1>11, SMTT(40) DEF Finish
  <2>2. UNCHANGED eval \/ eval' = [eval EXCEPT ![e] = [r EXCEPT !.job = "done", !.holder = Nobody]]
    BY <2>1
  <2>3. QED
    <3>1. GoesOn(r, [r EXCEPT !.job = "done", !.holder = Nobody])
      BY <1>2, Unseen
    <3>2. QED
      BY <1>3, <1>4, <2>2, <3>1
<1>12. CASE LaneDies(w) \/ OutliveLease(w)
  <2> DEFINE job == IF r.holder = w THEN "queued" ELSE r.job
             holder == IF r.holder = w THEN Nobody ELSE r.holder
  <2>1. eval' = [eval EXCEPT ![e] = [r EXCEPT !.lost = TRUE, !.job = job, !.holder = holder]]
    BY <1>2, <1>12 DEF LaneDies, OutliveLease, JobReturns
  <2> HIDE DEF job, holder
  <2>2. GoesOn(r, [r EXCEPT !.lost = TRUE, !.job = job, !.holder = holder])
    BY <1>2, Unseen
  <2>3. QED
    BY <1>3, <2>1, <2>2
<1>13. CASE ReadRun(w) \/ Reconcile(w) \/ Finalize(w)
  BY <1>4, <1>13 DEF ReadRun, Reconcile, Finalize
<1>14. QED
  BY <1>5, <1>6, <1>7, <1>8, <1>9, <1>10, <1>11, <1>12, <1>13 DEF LaneStep

LEMMA OthersChange ==
  ASSUME EvaluationInv, Unrelated
  PROVE  UNCHANGED eval \/ \E e \in Evals : Changes(e)
<1>1. eval \in [Evals -> Row]
  BY Parts
<1>2. ASSUME NEW e \in Evals, NEW x, GoesOn(eval[e], x), eval' = [eval EXCEPT ![e] = x] PROVE Changes(e)
  BY <1>1, <1>2, ChangesOne
<1>3. ASSUME NEW e \in Evals, NEW v, NEW u,
             \/ eval' = [eval EXCEPT ![e] = [eval[e] EXCEPT !.task = v]]
             \/ eval' = [eval EXCEPT ![e] = [eval[e] EXCEPT !.job = v]]
             \/ eval' = [eval EXCEPT ![e] = [eval[e] EXCEPT !.cancel = v]]
             \/ eval' = [eval EXCEPT ![e] = [eval[e] EXCEPT !.job = v, !.holder = u]]
      PROVE  Changes(e)
  BY <1>1, <1>2, <1>3, Unseen
<1>4. ASSUME NEW q \in Requests, Queue(q) \/ Enqueue(q)
      PROVE  UNCHANGED eval \/ \E e \in Evals : Changes(e)
  <2> DEFINE e == request[q].eval
  <2>1. e \in Evals
    BY <1>4 DEF Queue, Enqueue, Asking, EvaluationInv, RequestOK, Creating
  <2>2. \/ UNCHANGED eval
        \/ eval' = [eval EXCEPT ![e] = [eval[e] EXCEPT !.task = "queued"]]
        \/ eval' = [eval EXCEPT ![e] = [eval[e] EXCEPT !.job = "queued"]]
    BY <1>4 DEF Queue, Enqueue
  <2>3. QED
    BY <1>3, <2>1, <2>2
<1>5. ASSUME NEW f \in Evals, EnqueueDirect(f) \/ CancelEvaluator(f) PROVE Changes(f)
  <2>1. \/ eval' = [eval EXCEPT ![f] = [eval[f] EXCEPT !.job = "queued"]]
        \/ eval' = [eval EXCEPT ![f] = [eval[f] EXCEPT !.cancel = TRUE]]
    BY <1>5 DEF EnqueueDirect, CancelEvaluator
  <2>2. QED
    BY <1>3, <2>1
<1>6. ASSUME NEW w \in Lanes, NEW f \in Evals, Claim(w, f) \/ Sweep(w, f) PROVE Changes(f)
  <2>1. UNCHANGED eval \/ eval' = [eval EXCEPT ![f] = [eval[f] EXCEPT !.job = "leased", !.holder = w]]
    BY <1>6 DEF Claim, Sweep
  <2>2. QED
    BY <1>3, <2>1, ChangesNone
<1>7. QED
  BY <1>4, <1>5, <1>6 DEF Unrelated, SkipCandidate, Begin, Reclaim, CompleteKey, FailKey, RequestDies, EditFile

-----------------------------------------------------------------------------
\* What the rows show, one by one.
SubjectOf(r) == IF r.owner = "workflow" THEN r.of ELSE Nothing
Found(r) == r.method = "agent" /\ r.results

LEMMA Shows ==
  /\ Subject = [e \in Evals |-> SubjectOf(eval[e])]
  /\ Opinion = [e \in Evals |-> OpinionOf(eval[e])]
  /\ Outcome = [e \in Evals |-> OutcomeOf(eval[e])]
  /\ Findings = [e \in Evals |-> Found(eval[e])]
  BY DEF Subject, Opinion, Outcome, Findings, SubjectOf, Found, OfNode

LEMMA ShowsNext ==
  /\ Subject' = [e \in Evals |-> SubjectOf(eval'[e])]
  /\ Opinion' = [e \in Evals |-> OpinionOf(eval'[e])]
  /\ Outcome' = [e \in Evals |-> OutcomeOf(eval'[e])]
  /\ Findings' = [e \in Evals |-> Found(eval'[e])]
  BY DEF Subject, Opinion, Outcome, Findings, SubjectOf, Found, OfNode

\* Rows that look alike show the same.
LEMMA AlikeShows ==
  ASSUME NEW r, NEW x, Alike(r, x)
  PROVE  SubjectOf(x) = SubjectOf(r) /\ OpinionOf(x) = OpinionOf(r)
         /\ OutcomeOf(x) = OutcomeOf(r) /\ Found(x) = Found(r)
  BY DEF Alike, About, SubjectOf, Found

LEMMA SameAlike ==
  ASSUME NEW r PROVE Alike(r, r)
  BY DEF Alike, About

\* Row e is written, and no other is seen to change.
OnlySeen(e) == \A f \in Evals \ {e} : Alike(eval[f], eval'[f])

LEMMA ShowsOne ==
  ASSUME NEW e \in Evals, OnlySeen(e)
  PROVE  /\ Subject' = [Subject EXCEPT ![e] = SubjectOf(eval'[e])]
         /\ Opinion' = [Opinion EXCEPT ![e] = OpinionOf(eval'[e])]
         /\ Outcome' = [Outcome EXCEPT ![e] = OutcomeOf(eval'[e])]
         /\ Findings' = [Findings EXCEPT ![e] = Found(eval'[e])]
<1>1. \A f \in Evals \ {e} :
         /\ SubjectOf(eval'[f]) = SubjectOf(eval[f]) /\ OpinionOf(eval'[f]) = OpinionOf(eval[f])
         /\ OutcomeOf(eval'[f]) = OutcomeOf(eval[f]) /\ Found(eval'[f]) = Found(eval[f])
  BY AlikeShows DEF OnlySeen
<1>2. Subject' = [Subject EXCEPT ![e] = SubjectOf(eval'[e])]
  BY <1>1, Shows, ShowsNext
<1>3. Opinion' = [Opinion EXCEPT ![e] = OpinionOf(eval'[e])]
  BY <1>1, Shows, ShowsNext
<1>4. Outcome' = [Outcome EXCEPT ![e] = OutcomeOf(eval'[e])]
  BY <1>1, Shows, ShowsNext
<1>5. Findings' = [Findings EXCEPT ![e] = Found(eval'[e])]
  BY <1>1, Shows, ShowsNext
<1>6. QED
  BY <1>2, <1>3, <1>4, <1>5

\* A write at one row that shows nothing of it.
LEMMA ShowsNothing ==
  ASSUME NEW e \in Evals, OnlySeen(e),
         SubjectOf(eval'[e]) = SubjectOf(eval[e]), OpinionOf(eval'[e]) = OpinionOf(eval[e]),
         OutcomeOf(eval'[e]) = OutcomeOf(eval[e]), Found(eval'[e]) = Found(eval[e])
  PROVE  UNCHANGED Judged!judgedVars
<1>1. UNCHANGED Subject
  BY ShowsOne, Shows
<1>2. UNCHANGED Opinion
  BY ShowsOne, Shows
<1>3. UNCHANGED Outcome
  BY ShowsOne, Shows
<1>4. UNCHANGED Findings
  BY ShowsOne, Shows
<1>5. QED
  BY <1>1, <1>2, <1>3, <1>4 DEF Judged!judgedVars

\* A step that writes one row is a step of the abstract evaluation, or is not seen.
LEMMA ChangesJudged ==
  ASSUME NEW e \in Evals, Changes(e)
  PROVE  [Judged!JudgedNext]_(Judged!judgedVars)
<1> DEFINE r == eval[e]
           x == eval'[e]
<1>1. OnlySeen(e)
  BY SameAlike DEF Changes, OnlySeen
<1>2. CASE Alike(r, x)
  <2>1. UNCHANGED Judged!judgedVars
    BY <1>1, <1>2, AlikeShows, ShowsNothing
  <2>2. QED
    BY <2>1
<1>3. /\ Subject[e] = SubjectOf(r) /\ Opinion[e] = OpinionOf(r)
      /\ Outcome[e] = OutcomeOf(r) /\ Findings[e] = Found(r)
  BY Shows
<1>4. CASE Opined(r, x)
  <2>1. /\ SubjectOf(x) = SubjectOf(r) /\ OutcomeOf(x) = OutcomeOf(r) /\ Found(x) = Found(r)
        /\ OpinionOf(r) = "awaited" /\ OpinionOf(x) \in {"sound", "unsound", "failed", "stopped"}
    BY <1>4 DEF Opined, About, SubjectOf, Found
  <2>2. UNCHANGED <<Subject, Outcome, Findings>>
    BY <1>1, <2>1, ShowsOne, Shows
  <2>3. Opinion'[e] = OpinionOf(x) /\ Opinion' = [Opinion EXCEPT ![e] = OpinionOf(x)]
    BY <1>1, ShowsOne, ShowsNext
  <2>4. Judged!Opine(e)
    BY <1>3, <2>1, <2>2, <2>3 DEF Judged!Opine
  <2>5. QED
    BY <2>4 DEF Judged!JudgedNext
<1>5. CASE Concluded(r, x)
  <2> DEFINE v == OutcomeOf(x)
  <2>1. /\ SubjectOf(x) = SubjectOf(r) /\ OpinionOf(x) = OpinionOf(r)
        /\ OutcomeOf(r) = "open" /\ OpinionOf(r) /= "awaited" /\ v \in {"completed", "failed", "cancelled"}
        /\ v = "completed" => OpinionOf(r) = "sound"
        /\ v = "cancelled" <=> OpinionOf(r) = "stopped"
    BY <1>5 DEF Concluded, About, SubjectOf, Ended
  <2>2. Found(x) = (v = "completed")
    BY <1>5 DEF Concluded, About, Found
  <2> HIDE DEF v
  <2>3. UNCHANGED <<Subject, Opinion>>
    BY <1>1, <2>1, ShowsOne, Shows
  <2>4. Outcome' = [Outcome EXCEPT ![e] = v]
    BY <1>1, ShowsOne DEF v
  <2>5. Findings' = [Findings EXCEPT ![e] = v = "completed"]
    BY <1>1, <2>2, ShowsOne
  <2>6. Judged!Conclude(e)
    BY <1>3, <2>1, <2>3, <2>4, <2>5 DEF Judged!Conclude
  <2>7. QED
    BY <2>6 DEF Judged!JudgedNext
<1>6. QED
  BY <1>2, <1>4, <1>5 DEF Changes, GoesOn

\* A row that appears.
Appears(e, s, method, owner) ==
    /\ Fresh(e) /\ OnlySeen(e)
    /\ eval'[e].of = s /\ eval'[e].method = method /\ eval'[e].owner = owner
    /\ eval'[e].status \in {"pending", "running"} /\ ~eval'[e].results
    /\ eval'[e].agent = (IF method = "agent" THEN "created" ELSE "none")

\* It shows an evaluation that was opened if an agent is to judge it, and else nothing.
LEMMA AppearsJudged ==
  ASSUME EvaluationInv, NEW e \in Evals, NEW s \in Candidates, NEW method \in Methods, NEW owner,
         Appears(e, s, method, owner), owner = "workflow" => method = "agent",
         owner = "workflow" => \A f \in Evals : OfNode(f) /\ eval[f].of = s => eval[f].status = "failed"
  PROVE  [Judged!JudgedNext]_(Judged!judgedVars)
<1> DEFINE r == eval[e]
           x == eval'[e]
<1>1. /\ SubjectOf(r) = Nothing /\ OpinionOf(r) = "none" /\ OutcomeOf(r) = "none" /\ ~Found(r)
  <2>1. r = NoEval
    BY Parts DEF Appears, Fresh, RowOK
  <2>2. r.owner = "none" /\ r.method = "none" /\ r.agent = "none"
    BY <2>1 DEF NoEval
  <2>3. QED
    BY <2>2 DEF SubjectOf, OpinionOf, OutcomeOf, Found
<1>2. OnlySeen(e)
  BY DEF Appears
<1>3. ~Found(x)
  BY DEF Appears, Found
<1>4. CASE method = "deterministic"
  <2>1. OpinionOf(x) = "none" /\ OutcomeOf(x) = "none" /\ SubjectOf(x) = Nothing
    BY <1>4 DEF Appears, OpinionOf, OutcomeOf, SubjectOf
  <2>2. Found(x) = Found(r)
    BY <1>1, <1>3 DEF Found
  <2>3. UNCHANGED Judged!judgedVars
    BY <1>1, <1>2, <2>1, <2>2, ShowsNothing
  <2>4. QED
    BY <2>3
<1>5. CASE method = "agent"
  <2>1. OpinionOf(x) = "awaited" /\ OutcomeOf(x) = "open"
    BY <1>5 DEF Appears, OpinionOf, OutcomeOf, Ended
  <2>2. SubjectOf(x) = (IF owner = "workflow" THEN s ELSE Nothing)
    BY DEF Appears, SubjectOf
  <2>3. Opinion' = [Opinion EXCEPT ![e] = "awaited"] /\ Outcome' = [Outcome EXCEPT ![e] = "open"]
    BY <1>2, <2>1, ShowsOne
  <2>4. Subject' = [Subject EXCEPT ![e] = SubjectOf(x)]
    BY <1>2, ShowsOne
  <2>5. UNCHANGED Findings
    <3>1. Found(x) = Found(r)
      BY <1>1, <1>3 DEF Found
    <3>2. QED
      BY <1>2, <3>1, ShowsOne, Shows
  <2>6. SubjectOf(x) \in Candidates \cup {Nothing}
    BY <2>2
  <2>7. SubjectOf(x) /= Nothing => \A f \in Evals : Subject[f] = SubjectOf(x) => Outcome[f] = "failed"
    <3> SUFFICES ASSUME SubjectOf(x) /= Nothing, NEW f \in Evals, Subject[f] = SubjectOf(x)
                 PROVE  Outcome[f] = "failed"
      OBVIOUS
    <3>1. owner = "workflow" /\ SubjectOf(x) = s
      BY <2>2
    <3>2. OfNode(f) /\ eval[f].of = s
      BY <3>1, Shows DEF SubjectOf, OfNode
    <3>3. eval[f].status = "failed" /\ eval[f].method = "agent"
      BY <3>1, <3>2, Parts DEF RowOK, OfNode
    <3>4. QED
      BY <3>3, Shows DEF OutcomeOf, Ended
  <2>8. Outcome[e] = "none"
    BY <1>1, Shows
  <2>9. Judged!Open(e)
    BY <2>3, <2>4, <2>5, <2>6, <2>7, <2>8 DEF Judged!Open
  <2>10. QED
    BY <2>9 DEF Judged!JudgedNext
<1>6. QED
  BY <1>4, <1>5 DEF Methods

\* NewEval in a blank row.
LEMMA NewAppears ==
  ASSUME EvaluationInv, NEW e \in Evals, Fresh(e), NEW s \in Candidates, NEW method \in Methods,
         NEW owner \in {"api", "direct", "workflow"}, NEW task \in {"none", "created", "queued"},
         NEW job \in {"none", "queued"}, owner = "workflow" => method = "agent" /\ job = "queued",
         eval' = [eval EXCEPT ![e] = NewEval(s, method, owner, task, job)]
  PROVE  Appears(e, s, method, owner)
<1> DEFINE r == NewEval(s, method, owner, task, job)
<1>1. /\ r \in Row /\ r.of = s /\ r.method = method /\ r.owner = owner
      /\ r.status \in {"pending", "running"}
      /\ r.agent = (IF method = "agent" THEN "created" ELSE "none") /\ ~r.results
  BY NewRow
<1> HIDE DEF r
<1>2. eval'[e] = r /\ \A f \in Evals \ {e} : eval'[f] = eval[f]
  BY <1>1, Parts, Wrote DEF r
<1>3. OnlySeen(e)
  BY <1>2, SameAlike DEF OnlySeen
<1>4. QED
  BY <1>1, <1>2, <1>3 DEF Appears

\* A request's row, with or without a key, takes no turn.
LEMMA RequestsJudged ==
  ASSUME EvaluationInv, \/ \E q \in Requests : Create(q)
                        \/ \E s \in Candidates : CreateDirect(s)
  PROVE  [Judged!JudgedNext]_(Judged!judgedVars) \/ UNCHANGED eval
<1>1. ASSUME NEW q \in Requests, Create(q) PROVE [Judged!JudgedNext]_(Judged!judgedVars) \/ UNCHANGED eval
  <2>1. request[q].at \in Candidates /\ Asks[q] \in Methods
    BY Parts DEF Handler
  <2>2. ASSUME NEW e \in Evals, Fresh(e),
               eval' = [eval EXCEPT ![e] = NewEval(request[q].at, Asks[q], "api", "created", "none")]
        PROVE  [Judged!JudgedNext]_(Judged!judgedVars)
    <3>1. Appears(e, request[q].at, Asks[q], "api")
      BY <2>1, <2>2, NewAppears
    <3>2. QED
      BY <2>1, <3>1, AppearsJudged
  <2>3. QED
    BY <1>1, <2>2 DEF Create
<1>2. ASSUME NEW s \in Candidates, CreateDirect(s) PROVE [Judged!JudgedNext]_(Judged!judgedVars)
  <2>1. PICK e \in Evals :
          /\ Fresh(e)
          /\ eval' = [eval EXCEPT ![e] = NewEval(s, "deterministic", "direct", "none", "none")]
    BY <1>2 DEF CreateDirect
  <2>2. Appears(e, s, "deterministic", "direct")
    BY <2>1, NewAppears
  <2>3. QED
    BY <2>2, AppearsJudged
<1>3. QED
  BY <1>1, <1>2

\* A node's first evaluation finds no other of that node.
LEMMA DispatchJudged ==
  ASSUME EvaluationInv, NEW s \in Candidates, DispatchNode(s)
  PROVE  [Judged!JudgedNext]_(Judged!judgedVars)
<1>1. PICK e \in Evals :
        /\ Fresh(e)
        /\ eval' = [eval EXCEPT ![e] = NewEval(s, "agent", "workflow", "queued", "queued")]
  BY DEF DispatchNode
<1>2. \A f \in Evals : OfNode(f) /\ eval[f].of = s => eval[f].status = "failed"
  BY DEF DispatchNode
<1>3. Appears(e, s, "agent", "workflow")
  BY <1>1, NewAppears
<1>4. QED
  BY <1>2, <1>3, AppearsJudged

\* Its later ones find only evaluations that have failed.
LEMMA RetryJudged ==
  ASSUME EvaluationInv, NodeInv, NEW e \in Evals, RetryNode(e)
  PROVE  [Judged!JudgedNext]_(Judged!judgedVars)
<1> DEFINE s == eval[e].of
           r == NewEval(s, "agent", "workflow", "queued", "queued")
<1>1. eval[e].status = "failed" /\ OfNode(e) /\ ~eval[e].retried
  BY DEF RetryNode, RecoveryEligible
<1>2. s \in Candidates /\ eval[e] \in Row
  BY <1>1, Parts DEF RowOK, OfNode
<1>3. PICK g \in Evals : Fresh(g) /\ eval' = [eval EXCEPT ![e].retried = TRUE, ![g] = r]
  BY DEF RetryNode
<1>4. /\ e /= g /\ eval'[e] = [eval[e] EXCEPT !.retried = TRUE]
      /\ \A f \in Evals \ {e, g} : eval'[f] = eval[f]
  BY <1>1, <1>3, Retries
<1>5. eval'[g] = r
  BY <1>3, <1>4, Parts
<1>6. /\ r.of = s /\ r.method = "agent" /\ r.owner = "workflow"
      /\ r.status \in {"pending", "running"} /\ r.agent = "created" /\ ~r.results
  BY <1>2, NewRow
<1> HIDE DEF r
<1>7. Alike(eval[e], eval'[e])
  BY <1>2, <1>4 DEF Alike, About, OpinionOf, OutcomeOf, Row
<1>8. OnlySeen(g)
  BY <1>4, <1>7, SameAlike DEF OnlySeen
<1>9. Appears(g, s, "agent", "workflow")
  BY <1>3, <1>5, <1>6, <1>8 DEF Appears
<1>10. \A f \in Evals : OfNode(f) /\ eval[f].of = s => eval[f].status = "failed"
  BY <1>1, Parts DEF NodeInv, RowOK
<1>11. QED
  BY <1>2, <1>9, <1>10, AppearsJudged DEF Methods

\* Every step is one of the abstract evaluation, or is not seen.
LEMMA StepIsJudged ==
  ASSUME EvaluationInv, NodeInv, [Next]_vars
  PROVE  [Judged!JudgedNext]_(Judged!judgedVars)
<1>1. CASE UNCHANGED eval
  <2>1. UNCHANGED Judged!judgedVars
    BY <1>1, Shows, ShowsNext DEF Judged!judgedVars
  <2>2. QED
    BY <2>1
<1>2. CASE \E e \in Evals : Changes(e)
  BY <1>2, ChangesJudged
<1>3. CASE UNCHANGED vars
  BY <1>1, <1>3 DEF vars
<1>4. CASE (\E q \in Requests : Create(q)) \/ (\E s \in Candidates : CreateDirect(s))
  BY <1>1, <1>4, RequestsJudged
<1>5. CASE \E s \in Candidates : DispatchNode(s)
  BY <1>5, DispatchJudged
<1>6. CASE \E e \in Evals : RetryNode(e)
  BY <1>6, RetryJudged
<1>7. CASE \E w \in Lanes : LaneStep(w) \/ LaneDies(w) \/ OutliveLease(w)
  BY <1>2, <1>7, LaneChanges
<1>8. CASE Unrelated
  BY <1>1, <1>2, <1>8, OthersChange
<1>9. QED
  BY <1>3, <1>4, <1>5, <1>6, <1>7, <1>8 DEF Next, RequestStep, Unrelated

\* However lanes, sweeps, retries and cancellations race, an evaluator ends once,
\* and its evaluation is concluded once and as it ended; a node's evaluations
\* take turns.
THEOREM EvaluationsAreJudgedOnce == Spec => IsJudgedOnce
<1>1. Init => Judged!JudgedInit
  <2> SUFFICES ASSUME Init PROVE Judged!JudgedInit
    OBVIOUS
  <2>1. \A e \in Evals : /\ SubjectOf(eval[e]) = Nothing /\ OpinionOf(eval[e]) = "none"
                         /\ OutcomeOf(eval[e]) = "none" /\ Found(eval[e]) = FALSE
    BY DEF Init, NoEval, SubjectOf, OpinionOf, OutcomeOf, Found
  <2>2. QED
    BY <2>1, Shows DEF Judged!JudgedInit
<1>2. Init => NodeInv
  BY DEF Init, NodeInv, OfNode, NoEval
<1>3. QED
  BY <1>1, <1>2, NodeStep, StepIsJudged, EvaluationInvariant, PTL DEF Spec, IsJudgedOnce, Judged!JudgedSpec

=============================================================================
