--------------------------- MODULE ComparisonProofs ---------------------------
(***************************************************************************)
(* Proofs about Comparison and the review cycles in it, for any number of  *)
(* Task Runs, lanes, repairs and crashes and any budget: what a reviewed   *)
(* run hands out was accepted, a late stage never calls the provider, the  *)
(* budget is overrun by one call per lane at most, and the verdict of the  *)
(* comparison agrees with its candidates.                                  *)
(*                                                                         *)
(* No status is written under a condition, so the argument cannot rest on  *)
(* the statuses.  It rests on who may write them: of the lanes that work   *)
(* on one Task Run, all but one only have their WAITING_FOR_AGENT left to  *)
(* write (Alone), and the one that ends the run has nobody after it        *)
(* (Over).                                                                 *)
(***************************************************************************)
EXTENDS Comparison, FiniteSetTheorems, WellFoundedInduction, TLAPS

-----------------------------------------------------------------------------
(* The inductive invariant *)

Pc == {"idle", "begin", "reserve", "call", "answer", "finish", "complete", "fail", "stop",
       "another", "insert", "enqueue", "waiting", "review", "accept", "notify", "transition"}
\* Where a lane has inserted the next stage.
Later == {"enqueue", "waiting"}
\* Where a lane can no longer deliver anything.
Harmless == {"idle", "begin", "waiting", "notify", "transition"}

LaneRow == [pc : Pc, run : Runs \cup {NoRun}, k : Nat, wrote : {"none"} \cup TaskEnded, saw : BOOLEAN]
StageRow == [k : 0 .. 2 * (MaxRepairs + 1), status : {"created", "running"} \cup StageEnded,
             call : {"none", "running", "success", "error"},
             job : {"none", "queued", "leased", "done"}, late : BOOLEAN]
TaskRow == [status : {"created", "queued", "waiting_for_agent", "cancelling"} \cup TaskEnded,
            cancel : BOOLEAN, final : {None} \cup 0 .. MaxRepairs]

CycleTypes == ComparisonTypeOK /\ lane \in [Lanes -> LaneRow]

\* The reviews of r: requests for repair only; or an acceptance after them; or none that accepts.
AllRepair(r) == \A i \in 1 .. Len(reviews[r]) : reviews[r][i] = "repair"
Accepted(r) ==
    /\ Len(reviews[r]) >= 1
    /\ reviews[r][Len(reviews[r])] = "accept"
    /\ \A i \in 1 .. Len(reviews[r]) - 1 : reviews[r][i] = "repair"
NoAccept(r) == \A i \in 1 .. Len(reviews[r]) : reviews[r][i] /= "accept"
Rejected(r) == ~Delivered(r) /\ (r \in Reviewed => NoAccept(r))

\* Nobody will change what r has delivered.
Over(r) ==
    /\ stage[r].status \in StageEnded
    /\ \A w \in Lanes : lane[w].run = r => lane[w].pc \in Harmless

\* A lane's stage is the newest one, unless it has inserted the next.
Placed(w) ==
    LET r == lane[w].run IN
    lane[w].pc /= "idle" =>
        /\ r \in Runs
        /\ lane[w].k >= 1
        /\ IF lane[w].pc \in Later THEN lane[w].k < stage[r].k
           ELSE lane[w].k = stage[r].k /\ stage[r].job = "leased"
        /\ lane[w].pc = "enqueue" => stage[r].job = "none"

\* One lane at most works on a Task Run; the others are waiting.
Alone ==
    \A w \in Lanes, v \in Lanes :
        /\ lane[w].pc \notin {"idle", "waiting"} /\ lane[v].pc \notin {"idle", "waiting"}
        /\ lane[w].run = lane[v].run
        => w = v

\* What a lane's next step relies on.
Grounded(w) ==
    LET r == lane[w].run
        n == Len(reviews[r])
        at == lane[w].pc
    IN
    /\ at \in {"reserve", "call", "answer", "finish"} => stage[r].status = "running"
    /\ at = "answer" => stage[r].call = "running"
    /\ at \in {"review", "another", "insert", "accept", "complete"} => stage[r].status = "completed"
    /\ at \in {"review", "another", "insert", "accept"} => r \in Reviewed
    /\ at = "review" => AllRepair(r) /\ lane[w].k = 2 * n + 2 /\ n <= MaxRepairs
    /\ at \in {"review", "another", "insert", "accept"} => task[r].final = None
    /\ at \in {"another", "insert"} =>
         AllRepair(r) /\ lane[w].k \in {2 * n, 2 * n + 1} /\ n <= MaxRepairs
    /\ at = "accept" => Accepted(r) /\ lane[w].k = 2 * n
    /\ at = "complete" => Delivered(r)
    /\ at \in {"fail", "stop"} => stage[r].status \in StageEnded /\ Rejected(r)
    /\ at \in {"notify", "transition"} =>
         /\ stage[r].status \in StageEnded
         /\ lane[w].wrote \in TaskEnded
         /\ lane[w].wrote /= "completed" => Rejected(r)

\* What the rows of a Task Run say together.
Coherent(r) ==
    LET n == Len(reviews[r]) IN
    /\ IF origin[r] = "none"
       THEN stage[r] = NewStage(0, FALSE) /\ n = 0
       ELSE stage[r].k >= 1
    /\ stage[r].late => task[r].cancel /\ stage[r].call = "none"
    /\ r \in Reviewed =>
         /\ n <= MaxRepairs + 1
         /\ task[r].final /= None => task[r].final = n - 1 /\ Accepted(r)
         /\ stage[r].status \in {"created", "running"} =>
              /\ AllRepair(r) /\ task[r].final = None /\ n <= MaxRepairs
              /\ origin[r] = "none" \/ stage[r].k \in {2 * n + 1, 2 * n + 2}
    /\ task[r].status \in TaskEnded => Over(r)
    /\ task[r].status = "completed" => Delivered(r)
    /\ task[r].status \in {"failed", "cancelled"} => Rejected(r)

CycleInv ==
    /\ CycleTypes
    /\ Alone
    /\ \A w \in Lanes : Placed(w) /\ Grounded(w)
    /\ \A r \in Runs : Coherent(r)

\* The comparison: its verdict is about runs that are over, its winner has
\* delivered, and the launch is done before anything can be selected.
Judged ==
    /\ cmp.status = "none" => \A r \in Runs : origin[r] /= "candidate"
    /\ cmp.status = "none" => launch.pc = "idle"
    /\ launch.pc = "job" => launch.next \in Runs
    /\ cmp.status \in {"running", "completed"} => launch.pc = "gone"
    /\ cmp.status = "failed" => \A r \in Runs : Over(r) /\ Rejected(r)
    /\ cmp.status = "completed" => cmp.winner /= NoRun
    /\ \A r \in Runs : r \in {cmp.winner, select} => Delivered(r)
    /\ select /= NoRun => launch.pc = "gone" /\ cmp.status /= "completed"
    /\ \A w \in Lanes : lane[w].saw => cmp.cancel

Inv == CycleInv /\ Judged

-----------------------------------------------------------------------------
(* What a step leaves alone *)

\* Nothing has been started: every row is as its Task Run was created.
LEMMA Initially == CmpInit => Inv
<1> SUFFICES ASSUME CmpInit PROVE Inv
  OBVIOUS
<1> USE DEF CmpInit, Init
<1>1. CycleTypes
  BY ReviewCycleAssumption
     DEF CycleTypes, ComparisonTypeOK, ReviewTypeOK, LaneRow, NewStage, IdleLane, Pc, Runs, None
<1>2. Alone
  BY DEF Alone, IdleLane
<1>3. ASSUME NEW w \in Lanes PROVE Placed(w) /\ Grounded(w)
  BY DEF Placed, Grounded, IdleLane
<1>4. ASSUME NEW r \in Runs PROVE Coherent(r)
  BY ReviewCycleAssumption DEF Coherent, NewStage, AllRepair, TaskEnded
<1>5. Judged
  BY ReviewCycleAssumption DEF Judged, IdleLane
<1> QED
  BY <1>1, <1>2, <1>3, <1>4, <1>5 DEF Inv, CycleInv

\* A lane that is the only one at work on r changes the rows of r alone.
LEMMA LaneFrame ==
    ASSUME CycleInv, CycleTypes',
           NEW w \in Lanes, NEW r \in Runs,
           lane[w].run = r, lane[w].pc \notin {"idle", "waiting"},
           \A v \in Lanes \ {w} : lane'[v] = lane[v],
           lane'[w].pc = "idle" \/ lane'[w].run = r,
           origin' = origin,
           \A q \in Runs \ {r} : stage'[q] = stage[q] /\ task'[q] = task[q] /\ reviews'[q] = reviews[q],
           stage'[r].k >= stage[r].k,
           Placed(w)', Grounded(w)', Coherent(r)'
    PROVE  CycleInv'
<1>1. ASSUME NEW v \in Lanes \ {w}, lane[v].pc /= "idle", lane[v].run = r PROVE lane[v].pc = "waiting"
  BY <1>1 DEF CycleInv, Alone
<1>2. ASSUME NEW v \in Lanes \ {w} PROVE Placed(v)'
  <2>1. CASE lane[v].run = r /\ lane[v].pc /= "idle"
    <3>1. lane[v].pc = "waiting" /\ lane[v].k >= 1 /\ lane[v].k < stage[r].k
      BY <1>1, <2>1 DEF CycleInv, Placed, Later
    <3>2. lane[v].k \in Nat /\ stage[r].k \in Nat /\ stage'[r].k \in Nat
      BY ReviewCycleAssumption DEF CycleInv, CycleTypes, LaneRow, ComparisonTypeOK, ReviewTypeOK
    <3> QED
      BY <2>1, <3>1, <3>2 DEF Placed, Later
  <2>2. CASE lane[v].run /= r /\ lane[v].pc /= "idle"
    <3>1. lane[v].run \in Runs \ {r} /\ Placed(v)
      BY <2>2 DEF CycleInv, Placed
    <3> QED
      BY <3>1 DEF Placed
  <2>3. CASE lane[v].pc = "idle"
    BY <2>3 DEF Placed
  <2> QED
    BY <2>1, <2>2, <2>3
<1>3. ASSUME NEW v \in Lanes \ {w} PROVE Grounded(v)'
  <2>1. CASE lane[v].pc \in {"idle", "waiting"}
    BY <2>1 DEF Grounded
  <2>2. CASE lane[v].pc \notin {"idle", "waiting"}
    <3>1. lane[v].run \in Runs \ {r} /\ Grounded(v)
      BY <1>1, <2>2 DEF CycleInv, Placed
    <3>2. lane'[v] = lane[v] /\ stage'[lane[v].run] = stage[lane[v].run]
          /\ task'[lane[v].run] = task[lane[v].run] /\ reviews'[lane[v].run] = reviews[lane[v].run]
      BY <3>1
    <3>3. Delivered(lane[v].run)' = Delivered(lane[v].run) /\ Rejected(lane[v].run)' = Rejected(lane[v].run)
      BY <3>2 DEF Delivered, Rejected, NoAccept
    <3> QED
      BY <3>1, <3>2, <3>3 DEF Grounded, AllRepair, Accepted
  <2> QED
    BY <2>1, <2>2
<1>4. Alone'
  BY DEF CycleInv, Alone
<1>5. ASSUME NEW q \in Runs \ {r} PROVE Coherent(q)'
  <2>1. Over(q) => Over(q)'
    BY DEF Over, Harmless
  <2>2. Coherent(q)
    BY DEF CycleInv
  <2>3. Delivered(q)' = Delivered(q) /\ Rejected(q)' = Rejected(q)
    BY DEF Delivered, Rejected, NoAccept
  <2>4. AllRepair(q)' = AllRepair(q) /\ Accepted(q)' = Accepted(q)
    BY DEF AllRepair, Accepted
  <2>5. stage'[q] = stage[q] /\ task'[q] = task[q] /\ reviews'[q] = reviews[q] /\ origin'[q] = origin[q]
    OBVIOUS
  <2>6. NewStage(0, FALSE)' = NewStage(0, FALSE)
    BY DEF NewStage
  <2> QED
    BY <2>1, <2>2, <2>3, <2>4, <2>5, <2>6 DEF Coherent
<1> QED
  BY <1>2, <1>3, <1>4, <1>5 DEF CycleInv

\* A status may be overwritten by WAITING_FOR_AGENT or CANCELLING, and a lane may
\* stop, at any time.
LEMMA Overwritten ==
    ASSUME CycleInv, CycleTypes',
           UNCHANGED <<origin, stage, reviews>>,
           \A w \in Lanes : lane'[w] = lane[w] \/ lane'[w].pc = "idle",
           \A r \in Runs :
               /\ task'[r].final = task[r].final
               /\ task[r].cancel => task'[r].cancel
               /\ \/ task'[r] = task[r]
                  \/ task'[r].status \in {"waiting_for_agent", "cancelling"}
    PROVE  CycleInv'
<1>1. ASSUME NEW w \in Lanes PROVE Placed(w)' /\ Grounded(w)'
  <2>1. CASE lane'[w].pc = "idle"
    BY <2>1 DEF Placed, Grounded
  <2>2. CASE lane'[w] = lane[w] /\ lane[w].pc /= "idle"
    <3>1. lane[w].run \in Runs /\ Placed(w) /\ Grounded(w)
      BY <2>2 DEF CycleInv, Placed
    <3>2. lane'[w] = lane[w] /\ task'[lane[w].run].final = task[lane[w].run].final
      BY <2>2, <3>1
    <3>3. Placed(w)'
      BY <3>1, <3>2 DEF Placed
    <3>4. Delivered(lane[w].run)' = Delivered(lane[w].run) /\ Rejected(lane[w].run)' = Rejected(lane[w].run)
      BY <3>2 DEF Delivered, Rejected, NoAccept
    <3> QED
      BY <3>1, <3>2, <3>3, <3>4 DEF Grounded, AllRepair, Accepted
  <2> QED
    BY <2>1, <2>2
<1>2. Alone'
  <2>1. \A w \in Lanes : lane'[w].pc \notin {"idle", "waiting"} => lane'[w] = lane[w]
    OBVIOUS
  <2> QED
    BY <2>1 DEF CycleInv, Alone
<1>3. ASSUME NEW r \in Runs PROVE Coherent(r)'
  <2>1. Over(r) => Over(r)'
    BY DEF Over, Harmless
  <2>2. Coherent(r)
    BY DEF CycleInv
  <2>3. task'[r].final = task[r].final /\ (task[r].cancel => task'[r].cancel)
    OBVIOUS
  <2>4. Delivered(r)' = Delivered(r) /\ Rejected(r)' = Rejected(r)
    BY <2>3 DEF Delivered, Rejected, NoAccept
  <2>5. CASE task'[r] = task[r]
    BY <2>1, <2>2, <2>4, <2>5 DEF Coherent, AllRepair, Accepted
  <2>6. CASE task'[r].status \in {"waiting_for_agent", "cancelling"}
    <3>1. task'[r].status \notin TaskEnded
      BY <2>6 DEF TaskEnded
    <3> QED
      BY <2>2, <2>3, <2>6, <3>1 DEF Coherent, AllRepair, Accepted, TaskEnded
  <2> QED
    BY <2>5, <2>6
<1> QED
  BY <1>1, <1>2, <1>3 DEF CycleInv

\* The comparison's own facts outlive a step that touches none of its rows, as
\* long as what was delivered stays so, and what is over.
LEMMA JudgedStays ==
    ASSUME Judged,
           UNCHANGED cmpVars,
           \A r \in Runs : origin'[r] = origin[r] \/ origin'[r] = "task",
           cmp.winner \in Runs \cup {NoRun}, select \in Runs \cup {NoRun},
           \A r \in Runs : Delivered(r) => Delivered(r)',
           \A r \in Runs : Over(r) /\ Rejected(r) => Over(r)' /\ Rejected(r)',
           \A w \in Lanes : lane'[w].saw => lane[w].saw
    PROVE  Judged'
  BY DEF Judged, cmpVars

\* LaneFrame, with the comparison, which the step leaves alone.
LEMMA LaneStep ==
    ASSUME Inv, CycleTypes', UNCHANGED cmpVars,
           NEW w \in Lanes, NEW r \in Runs,
           lane[w].run = r, lane[w].pc \notin {"idle", "waiting"},
           \A v \in Lanes \ {w} : lane'[v] = lane[v],
           lane'[w].pc = "idle" \/ lane'[w].run = r,
           lane'[w].saw => lane[w].saw,
           origin' = origin,
           \A q \in Runs \ {r} : stage'[q] = stage[q] /\ task'[q] = task[q] /\ reviews'[q] = reviews[q],
           stage'[r].k >= stage[r].k,
           Placed(w)', Grounded(w)', Coherent(r)',
           Delivered(r) => Delivered(r)',
           Over(r) /\ Rejected(r) => Over(r)' /\ Rejected(r)'
    PROVE  Inv'
<1>1. CycleInv'
  BY LaneFrame DEF Inv
<1>2. ASSUME NEW q \in Runs PROVE (Delivered(q) => Delivered(q)') /\ (Over(q) /\ Rejected(q) => Over(q)' /\ Rejected(q)')
  <2>1. CASE q = r
    BY <2>1
  <2>2. CASE q /= r
    <3>1. Delivered(q)' = Delivered(q) /\ Rejected(q)' = Rejected(q)
      BY <2>2 DEF Delivered, Rejected, NoAccept
    <3>2. Over(q) => Over(q)'
      BY <2>2 DEF Over, Harmless
    <3> QED
      BY <3>1, <3>2
  <2> QED
    BY <2>1, <2>2
<1>3. cmp.winner \in Runs \cup {NoRun} /\ select \in Runs \cup {NoRun}
  BY DEF Inv, CycleInv, CycleTypes, ComparisonTypeOK
<1>4. \A v \in Lanes : lane'[v].saw => lane[v].saw
  OBVIOUS
<1>5. Judged'
  BY <1>2, <1>3, <1>4, JudgedStays DEF Inv
<1> QED
  BY <1>1, <1>5 DEF Inv

\* The types of the rows that lanes change ...
LEMMA RowTypes ==
    ASSUME Inv
    PROVE  /\ lane \in [Lanes -> LaneRow] /\ stage \in [Runs -> StageRow] /\ task \in [Runs -> TaskRow]
           /\ reviews \in [Runs -> Seq(Decision)] /\ held \in [Runs -> {0, Estimate}]
  BY DEF Inv, CycleInv, CycleTypes, ComparisonTypeOK, ReviewTypeOK, StageRow, TaskRow

\* The types after a step that changes no comparison.
LEMMA TypesAfter ==
    ASSUME Inv, UNCHANGED cmpVars,
           lane' \in [Lanes -> LaneRow], stage' \in [Runs -> StageRow], task' \in [Runs -> TaskRow],
           reviews' \in [Runs -> Seq(Decision)], held' \in [Runs -> {0, Estimate}],
           origin' \in [Runs -> {"none", "task", "candidate"}],
           spent' \in Nat, crashes' \in 0 .. MaxCrashes, asks' \subseteq Runs
    PROVE  CycleTypes'
  BY DEF Inv, CycleInv, CycleTypes, ComparisonTypeOK, ReviewTypeOK, StageRow, TaskRow, cmpVars

\* What is known of a lane at work and of its Task Run.
LEMMA AtWork ==
    ASSUME Inv, NEW w \in Lanes, lane[w].pc /= "idle"
    PROVE  /\ lane[w].run \in Runs
           /\ lane[w] \in LaneRow
           /\ stage[lane[w].run] \in StageRow
           /\ task[lane[w].run] \in TaskRow
           /\ stage[lane[w].run].k \in Nat
           /\ reviews[lane[w].run] \in Seq(Decision) /\ Len(reviews[lane[w].run]) \in Nat
           /\ Placed(w) /\ Grounded(w) /\ Coherent(lane[w].run)
<1>1. Placed(w) /\ lane[w].run \in Runs
  BY DEF Inv, CycleInv, Placed
<1>2. stage[lane[w].run] \in StageRow
  BY <1>1, RowTypes
<1>3. stage[lane[w].run].k \in Nat
  BY <1>2, ReviewCycleAssumption DEF StageRow
<1> QED
  BY <1>1, <1>2, <1>3, RowTypes DEF Inv, CycleInv

\* A stage that was open fails or is stopped.
LEMMA GiveUp ==
    ASSUME Inv, CycleTypes', UNCHANGED <<origin, task, reviews, cmpVars>>,
           NEW w \in Lanes, NEW r \in Runs, NEW status \in {"failed", "stopped"},
           lane[w].run = r, lane[w].pc \notin {"idle"} \cup Later,
           stage[r].status \in {"created", "running"},
           \A v \in Lanes \ {w} : lane'[v] = lane[v],
           lane'[w].pc \in {"fail", "stop"}, lane'[w].run = r,
           lane'[w].k = lane[w].k, lane'[w].saw = lane[w].saw,
           \A q \in Runs \ {r} : stage'[q] = stage[q],
           stage'[r].status = status, stage'[r].k = stage[r].k, stage'[r].job = stage[r].job,
           stage'[r].late = stage[r].late,
           stage'[r].call = stage[r].call \/ stage[r].call = "running"
    PROVE  Inv'
<1>1. /\ Placed(w) /\ Grounded(w) /\ Coherent(r)
      /\ stage[r].k \in Nat /\ reviews[r] \in Seq(Decision) /\ Len(reviews[r]) \in Nat
  BY AtWork
<1>2. origin[r] /= "none"
  BY <1>1 DEF Placed, Coherent, NewStage, Later
<1>3. task[r].status \notin TaskEnded
  BY <1>1 DEF Coherent, Over, StageEnded
<1>4. (NoAccept(r) /\ ~Delivered(r)) \/ r \notin Reviewed
  BY <1>1 DEF Coherent, AllRepair, NoAccept, Delivered
<1>5. Rejected(r)' /\ ~Delivered(r)
  BY <1>4 DEF Rejected, Delivered, NoAccept
<1>6. Placed(w)'
  BY <1>1 DEF Placed, Later
<1>7. Grounded(w)'
  BY <1>5 DEF Grounded, StageEnded
<1>8. Coherent(r)'
  BY <1>1, <1>2, <1>3 DEF Coherent, AllRepair, Accepted, TaskEnded
<1>9. ~Over(r)
  BY DEF Over, StageEnded
<1> QED
  BY <1>1, <1>5, <1>6, <1>7, <1>8, <1>9, LaneStep DEF Later

\* A stage goes on: nobody lets a late one reach the provider.
LEMMA GoOn ==
    ASSUME Inv, CycleTypes', UNCHANGED <<origin, task, reviews, cmpVars>>,
           NEW w \in Lanes, NEW r \in Runs,
           lane[w].run = r, lane[w].pc \notin {"idle"} \cup Later,
           stage[r].status \in {"created", "running"},
           \A v \in Lanes \ {w} : lane'[v] = lane[v],
           lane'[w].pc \in {"reserve", "call", "answer", "finish"}, lane'[w].run = r,
           lane'[w].k = lane[w].k, lane'[w].saw = lane[w].saw,
           \A q \in Runs \ {r} : stage'[q] = stage[q],
           stage'[r].status = "running", stage'[r].k = stage[r].k, stage'[r].job = stage[r].job,
           stage'[r].late = stage[r].late,
           lane'[w].pc = "answer" => stage'[r].call = "running",
           stage'[r].call = stage[r].call \/ stage[r].call = "running" \/ ~task[r].cancel
    PROVE  Inv'
<1>1. /\ Placed(w) /\ Grounded(w) /\ Coherent(r)
      /\ stage[r].k \in Nat /\ reviews[r] \in Seq(Decision) /\ Len(reviews[r]) \in Nat
  BY AtWork
<1>2. origin[r] /= "none"
  BY <1>1 DEF Placed, Coherent, NewStage, Later
<1>3. task[r].status \notin TaskEnded
  BY <1>1 DEF Coherent, Over, StageEnded
<1>4. (Delivered(r) => Delivered(r)')
  BY DEF Delivered
<1>5. Placed(w)'
  BY <1>1 DEF Placed, Later
<1>6. Grounded(w)'
  BY DEF Grounded
<1>7. Coherent(r)'
  BY <1>1, <1>2, <1>3 DEF Coherent, AllRepair, Accepted, TaskEnded
<1>8. ~Over(r)
  BY DEF Over, StageEnded
<1> QED
  BY <1>1, <1>4, <1>5, <1>6, <1>7, <1>8, LaneStep DEF Later

\* What a step of one lane leaves of the other Task Runs.
LEMMA OthersStay ==
    ASSUME NEW w \in Lanes, NEW r \in Runs,
           \A v \in Lanes \ {w} : lane'[v] = lane[v],
           lane[w].run = r, lane'[w].pc = "idle" \/ lane'[w].run = r,
           \A q \in Runs \ {r} : stage'[q] = stage[q] /\ task'[q] = task[q] /\ reviews'[q] = reviews[q],
           NEW q \in Runs \ {r}
    PROVE  Delivered(q)' = Delivered(q) /\ Rejected(q)' = Rejected(q) /\ (Over(q) => Over(q)')
<1>1. Delivered(q)' = Delivered(q) /\ Rejected(q)' = Rejected(q)
  BY DEF Delivered, Rejected, NoAccept
<1>2. Over(q) => Over(q)'
  BY DEF Over, Harmless
<1> QED
  BY <1>1, <1>2

\* A lane is done with its job.
LEMMA LeaveFrame ==
    ASSUME Inv, CycleTypes', UNCHANGED <<origin, task, reviews>>,
           NEW w \in Lanes, NEW r \in Runs,
           lane[w].run = r, lane[w].pc \notin {"idle"} \cup Later,
           lane' = [lane EXCEPT ![w] = IdleLane],
           NEW job, stage' = [stage EXCEPT ![r].job = job]
    PROVE  /\ CycleInv'
           /\ \A v \in Lanes : lane'[v].saw => lane[v].saw
           /\ \A q \in Runs : Delivered(q)' = Delivered(q) /\ Rejected(q)' = Rejected(q) /\ (Over(q) => Over(q)')
<1>1. Coherent(r) /\ stage[r].k \in Nat /\ stage \in [Runs -> StageRow]
  BY AtWork, RowTypes
<1>2. lane'[w] = IdleLane /\ \A v \in Lanes \ {w} : lane'[v] = lane[v]
  BY DEF Inv, CycleInv, CycleTypes
<1>3. /\ \A q \in Runs \ {r} : stage'[q] = stage[q]
      /\ stage'[r].k = stage[r].k /\ stage'[r].status = stage[r].status
      /\ stage'[r].call = stage[r].call /\ stage'[r].late = stage[r].late
  BY <1>1 DEF StageRow
<1>4. origin[r] /= "none"
  BY AtWork DEF Placed, Coherent, NewStage, Later
<1>5. Over(r) => Over(r)'
  BY <1>2, <1>3 DEF Over, IdleLane, Harmless
<1>6. Delivered(r)' = Delivered(r) /\ Rejected(r)' = Rejected(r)
  BY <1>3 DEF Delivered, Rejected, NoAccept
<1>7. Placed(w)' /\ Grounded(w)'
  BY <1>2 DEF Placed, Grounded, IdleLane
<1>8. Coherent(r)'
  BY <1>1, <1>3, <1>4, <1>5, <1>6 DEF Coherent, AllRepair, Accepted
<1>9. lane'[w].pc = "idle" /\ ~lane'[w].saw
  BY <1>2 DEF IdleLane
<1>10. CycleInv'
  BY <1>1, <1>2, <1>3, <1>7, <1>8, <1>9, LaneFrame DEF Inv, Later
<1>11. ASSUME NEW q \in Runs
       PROVE  Delivered(q)' = Delivered(q) /\ Rejected(q)' = Rejected(q) /\ (Over(q) => Over(q)')
  BY <1>2, <1>3, <1>5, <1>6, <1>9, OthersStay
<1> QED
  BY <1>2, <1>9, <1>10, <1>11

\* LeaveFrame, with the comparison, which the step leaves alone.
LEMMA Leave ==
    ASSUME Inv, CycleTypes', UNCHANGED <<origin, task, reviews, cmpVars>>,
           NEW w \in Lanes, NEW r \in Runs,
           lane[w].run = r, lane[w].pc \notin {"idle"} \cup Later,
           lane' = [lane EXCEPT ![w] = IdleLane],
           NEW job, stage' = [stage EXCEPT ![r].job = job]
    PROVE  Inv'
<1>1. /\ CycleInv'
      /\ \A v \in Lanes : lane'[v].saw => lane[v].saw
      /\ \A q \in Runs : Delivered(q)' = Delivered(q) /\ Rejected(q)' = Rejected(q) /\ (Over(q) => Over(q)')
  BY LeaveFrame
<1>2. cmp.winner \in Runs \cup {NoRun} /\ select \in Runs \cup {NoRun}
  BY DEF Inv, CycleInv, CycleTypes, ComparisonTypeOK
<1>3. Judged'
  BY <1>1, <1>2, JudgedStays DEF Inv
<1> QED
  BY <1>1, <1>3 DEF Inv

-----------------------------------------------------------------------------
(* One stage *)

\* A lane moves on and keeps its Task Run and its stage.
LEMMA GotoEffect ==
    ASSUME Inv, NEW w \in Lanes, NEW pc \in Pc, Goto(w, pc)
    PROVE  /\ lane' \in [Lanes -> LaneRow]
           /\ \A v \in Lanes \ {w} : lane'[v] = lane[v]
           /\ lane'[w].pc = pc /\ lane'[w].run = lane[w].run /\ lane'[w].k = lane[w].k
           /\ lane'[w].saw = lane[w].saw /\ lane'[w].wrote = lane[w].wrote
<1>1. lane \in [Lanes -> LaneRow]
  BY RowTypes
<1>2. lane' = [lane EXCEPT ![w].pc = pc]
  BY DEF Goto
<1>3. lane' \in [Lanes -> LaneRow] /\ \A v \in Lanes \ {w} : lane'[v] = lane[v]
  BY <1>1, <1>2 DEF LaneRow
<1>4. lane'[w] = [lane[w] EXCEPT !.pc = pc]
  BY <1>1, <1>2 DEF LaneRow
<1> QED
  BY <1>1, <1>3, <1>4 DEF LaneRow

\* row: the newest stage of r after the step.
LEMMA StageEffect ==
    ASSUME Inv, NEW r \in Runs, NEW row \in StageRow, stage' = [stage EXCEPT ![r] = row]
    PROVE  /\ stage' \in [Runs -> StageRow] /\ stage'[r] = row
           /\ \A q \in Runs \ {r} : stage'[q] = stage[q]
  BY RowTypes

\* EndStage changes the status of the newest stage of one run, and moves the lane.
LEMMA EndStageEffect ==
    ASSUME Inv, NEW w \in Lanes, lane[w].run \in Runs, NEW status \in {"created", "running"} \cup StageEnded, NEW pc \in Pc,
           EndStage(w, status, pc)
    PROVE  LET r == lane[w].run IN
           /\ Goto(w, pc)
           /\ stage' \in [Runs -> StageRow]
           /\ \A q \in Runs \ {r} : stage'[q] = stage[q]
           /\ stage'[r].status = status /\ stage'[r].k = stage[r].k /\ stage'[r].job = stage[r].job
           /\ stage'[r].late = stage[r].late /\ stage'[r].call = stage[r].call
<1> DEFINE r == lane[w].run
           row == [stage[r] EXCEPT !.status = status]
<1>1. stage[r] \in StageRow
  BY RowTypes
<1>2. row \in StageRow /\ row.status = status /\ row.k = stage[r].k /\ row.job = stage[r].job
      /\ row.late = stage[r].late /\ row.call = stage[r].call
  BY <1>1 DEF StageRow
<1>3. stage' = [stage EXCEPT ![r] = row] /\ Goto(w, pc)
  BY DEF EndStage, Run
<1> HIDE DEF row
<1> QED
  BY <1>2, <1>3, StageEffect

\* A lane that ends an open stage without success.
LEMMA GivingUp ==
    ASSUME Inv, UNCHANGED <<origin, task, reviews, cmpVars>>,
           held' \in [Runs -> {0, Estimate}], spent' \in Nat, crashes' \in 0 .. MaxCrashes, asks' \subseteq Runs,
           NEW w \in Lanes, lane[w].pc \notin {"idle"} \cup Later,
           stage[lane[w].run].status \in {"created", "running"},
           EndStage(w, "failed", "fail") \/ EndStage(w, "stopped", "stop")
    PROVE  Inv'
<1> DEFINE r == lane[w].run
<1>1. PICK status \in {"failed", "stopped"}, pc \in {"fail", "stop"} : EndStage(w, status, pc)
  OBVIOUS
<1>2. status \in {"created", "running"} \cup StageEnded /\ pc \in Pc /\ r \in Runs
  BY AtWork DEF Pc, StageEnded
<1>3. /\ Goto(w, pc)
      /\ stage' \in [Runs -> StageRow]
      /\ \A q \in Runs \ {r} : stage'[q] = stage[q]
      /\ stage'[r].status = status /\ stage'[r].k = stage[r].k /\ stage'[r].job = stage[r].job
      /\ stage'[r].late = stage[r].late /\ stage'[r].call = stage[r].call
  BY <1>1, <1>2, EndStageEffect
<1>4. /\ lane' \in [Lanes -> LaneRow]
      /\ \A v \in Lanes \ {w} : lane'[v] = lane[v]
      /\ lane'[w].pc = pc /\ lane'[w].run = r /\ lane'[w].k = lane[w].k /\ lane'[w].saw = lane[w].saw
  BY <1>2, <1>3, GotoEffect
<1>5. CycleTypes'
  BY <1>3, <1>4, RowTypes, TypesAfter DEF Inv, CycleInv, CycleTypes, ComparisonTypeOK, ReviewTypeOK
<1> QED
  BY <1>2, <1>3, <1>4, <1>5, GiveUp

\* A lane that works on at an open stage, whose call it leaves alone.
LEMMA GoingOn ==
    ASSUME Inv, UNCHANGED <<origin, task, reviews, cmpVars>>,
           held' \in [Runs -> {0, Estimate}], spent' \in Nat, crashes' \in 0 .. MaxCrashes, asks' \subseteq Runs,
           NEW w \in Lanes, lane[w].pc \notin {"idle"} \cup Later,
           stage[lane[w].run].status \in {"created", "running"},
           NEW pc \in {"reserve", "call"}, EndStage(w, "running", pc)
    PROVE  Inv'
<1> DEFINE r == lane[w].run
<1>1. pc \in Pc /\ r \in Runs
  BY AtWork DEF Pc
<1>2. /\ Goto(w, pc)
      /\ stage' \in [Runs -> StageRow]
      /\ \A q \in Runs \ {r} : stage'[q] = stage[q]
      /\ stage'[r].status = "running" /\ stage'[r].k = stage[r].k /\ stage'[r].job = stage[r].job
      /\ stage'[r].late = stage[r].late /\ stage'[r].call = stage[r].call
  BY <1>1, EndStageEffect
<1>3. /\ lane' \in [Lanes -> LaneRow]
      /\ \A v \in Lanes \ {w} : lane'[v] = lane[v]
      /\ lane'[w].pc = pc /\ lane'[w].run = r /\ lane'[w].k = lane[w].k /\ lane'[w].saw = lane[w].saw
  BY <1>1, <1>2, GotoEffect
<1>4. CycleTypes'
  BY <1>2, <1>3, RowTypes, TypesAfter DEF Inv, CycleInv, CycleTypes, ComparisonTypeOK, ReviewTypeOK
<1> QED
  BY <1>1, <1>2, <1>3, <1>4, GoOn

\* ... and of the others.
LEMMA RestTypes ==
    ASSUME Inv
    PROVE  /\ origin \in [Runs -> {"none", "task", "candidate"}]
           /\ spent \in Nat /\ crashes \in 0 .. MaxCrashes /\ asks \subseteq Runs
  BY DEF Inv, CycleInv, CycleTypes, ComparisonTypeOK, ReviewTypeOK

\* A lane releases the job of the newest stage.
LEMMA Releasing ==
    ASSUME Inv, UNCHANGED <<origin, task, reviews, held, spent, crashes, asks, cmpVars>>,
           NEW w \in Lanes, lane[w].pc \notin {"idle"} \cup Later, Release(w)
    PROVE  Inv'
<1> DEFINE r == lane[w].run
<1>1. r \in Runs /\ lane[w].k = stage[r].k
  BY AtWork DEF Placed
<1>2. stage' = [stage EXCEPT ![r].job = "done"] /\ lane' = [lane EXCEPT ![w] = IdleLane]
  BY <1>1 DEF Release, Run
<1>3. stage' \in [Runs -> StageRow] /\ lane' \in [Lanes -> LaneRow]
  <2>1. [stage[r] EXCEPT !.job = "done"] \in StageRow
    BY <1>1, RowTypes, ZenonT(60) DEF StageRow
  <2>2. IdleLane \in LaneRow
    BY DEF LaneRow, IdleLane, Pc
  <2>3. stage' = [stage EXCEPT ![r] = [stage[r] EXCEPT !.job = "done"]]
    BY <1>2
  <2> QED
    BY <1>1, <1>2, <2>1, <2>2, <2>3, RowTypes
<1>4. CycleTypes'
  BY <1>3, RowTypes, RestTypes, TypesAfter
<1> QED
  BY <1>1, <1>2, <1>4, Leave

\* A claimed stage is released, failed, stopped or taken on.
LEMMA BeginStep == ASSUME Inv, NEW w \in Lanes, Begin(w), UNCHANGED cmpVars PROVE Inv'
<1> DEFINE r == lane[w].run
<1>1. lane[w].pc = "begin" /\ lane[w].pc \notin {"idle"} \cup Later /\ r = Run(w)
  BY DEF Begin, At, Later, Run
<1>2. UNCHANGED <<origin, task, reviews, spent, asks, crashes, cmpVars>>
  BY DEF Begin
<1>3. CASE Release(w) /\ UNCHANGED held
  BY <1>1, <1>2, <1>3, Releasing
<1>4. CASE /\ stage[r].status = "running" /\ stage[r].call /= "none"
           /\ EndStage(w, "failed", "fail") /\ UNCHANGED held
  BY <1>1, <1>2, <1>4, RowTypes, RestTypes, GivingUp
<1>5. CASE /\ stage[r].status \in {"created", "running"} /\ stage[r].call = "none"
           /\ Free(r) /\ UNCHANGED <<stage, lane>>
  <2>1. held' \in [Runs -> {0, Estimate}]
    BY <1>1, <1>5, RowTypes DEF Free
  <2>2. CycleTypes'
    BY <1>2, <1>5, <2>1, RowTypes, RestTypes, TypesAfter
  <2>3. CycleInv'
    BY <1>2, <1>5, <2>2, Overwritten DEF Inv
  <2>4. Judged'
    BY <1>2, <1>5 DEF Inv, Judged, Over, Rejected, Delivered, NoAccept, cmpVars
  <2> QED
    BY <2>3, <2>4 DEF Inv
<1>6. CASE /\ stage[r].status \in {"created", "running"}
           /\ EndStage(w, "stopped", "stop") \/ EndStage(w, "failed", "fail")
           /\ UNCHANGED held
  BY <1>1, <1>2, <1>6, RowTypes, RestTypes, GivingUp
<1>7. CASE stage[r].status \in {"created", "running"} /\ AskBudget(w) /\ UNCHANGED held
  <2>1. EndStage(w, "running", "call") \/ EndStage(w, "failed", "fail") \/ EndStage(w, "running", "reserve")
    BY <1>7 DEF AskBudget
  <2>2. CASE EndStage(w, "running", "call")
    BY <1>1, <1>2, <1>7, <2>2, RowTypes, RestTypes, GoingOn
  <2>3. CASE EndStage(w, "failed", "fail")
    BY <1>1, <1>2, <1>7, <2>3, RowTypes, RestTypes, GivingUp
  <2>4. CASE EndStage(w, "running", "reserve")
    BY <1>1, <1>2, <1>7, <2>4, RowTypes, RestTypes, GoingOn
  <2> QED
    BY <2>1, <2>2, <2>3, <2>4
<1>8. \/ stage[r].status \in StageEnded /\ Release(w) /\ UNCHANGED held
      \/ /\ stage[r].status = "running" /\ stage[r].call /= "none"
         /\ EndStage(w, "failed", "fail") /\ UNCHANGED held
      \/ /\ stage[r].status \in {"created", "running"} /\ stage[r].call = "none"
         /\ IF held[r] > 0 THEN Free(r) /\ UNCHANGED <<stage, lane>>
            ELSE /\ IF Cancelled(r) THEN EndStage(w, "stopped", "stop")
                    ELSE EndStage(w, "failed", "fail") \/ AskBudget(w)
                 /\ UNCHANGED held
  BY <1>1 DEF Begin
<1> QED
  BY <1>3, <1>4, <1>5, <1>6, <1>7, <1>8

\* The reservation is inserted: no row of a Task Run changes.
LEMMA ReserveStep == ASSUME Inv, NEW w \in Lanes, Reserve(w), UNCHANGED cmpVars PROVE Inv'
<1> DEFINE r == lane[w].run
<1>1. lane[w].pc = "reserve" /\ lane[w].pc \notin {"idle"} \cup Later /\ r \in Runs /\ stage[r].status = "running"
  BY AtWork DEF Reserve, At, Later, Grounded
<1>2. UNCHANGED <<origin, task, stage, reviews, spent, asks, crashes, cmpVars>> /\ Goto(w, "call")
  BY DEF Reserve
<1>3. held' \in [Runs -> {0, Estimate}]
  BY <1>1, RowTypes DEF Reserve, Run
<1>4. /\ lane' \in [Lanes -> LaneRow]
      /\ \A v \in Lanes \ {w} : lane'[v] = lane[v]
      /\ lane'[w].pc = "call" /\ lane'[w].run = r /\ lane'[w].k = lane[w].k /\ lane'[w].saw = lane[w].saw
  BY <1>2, GotoEffect DEF Pc
<1>5. CycleTypes'
  BY <1>2, <1>3, <1>4, RowTypes, RestTypes, TypesAfter
<1> QED
  BY <1>1, <1>2, <1>4, <1>5, GoOn

\* A stage calls the provider only when no cancellation was requested.
LEMMA StartCallStep == ASSUME Inv, NEW w \in Lanes, StartCall(w), UNCHANGED cmpVars PROVE Inv'
<1> DEFINE r == lane[w].run
<1>1. lane[w].pc = "call" /\ lane[w].pc \notin {"idle"} \cup Later /\ r \in Runs /\ stage[r].status = "running" /\ r = Run(w)
  BY AtWork DEF StartCall, At, Later, Grounded, Run
<1>2. UNCHANGED <<origin, task, reviews, spent, asks, crashes, cmpVars>>
  BY DEF StartCall
<1>3. CASE (EndStage(w, "stopped", "stop") \/ EndStage(w, "failed", "fail")) /\ Free(r)
  <2>1. held' \in [Runs -> {0, Estimate}]
    BY <1>1, <1>3, RowTypes DEF Free
  <2> QED
    BY <1>1, <1>2, <1>3, <2>1, RestTypes, GivingUp
<1>4. CASE ~task[r].cancel /\ stage' = [stage EXCEPT ![r].call = "running"] /\ Goto(w, "answer") /\ UNCHANGED held
  <2> DEFINE row == [stage[r] EXCEPT !.call = "running"]
  <2>1. row \in StageRow /\ row.status = "running" /\ row.k = stage[r].k /\ row.job = stage[r].job
        /\ row.late = stage[r].late /\ row.call = "running"
    BY <1>1, RowTypes DEF StageRow
  <2>2. stage' = [stage EXCEPT ![r] = row]
    BY <1>4
  <2> HIDE DEF row
  <2>3. stage' \in [Runs -> StageRow] /\ stage'[r] = row /\ \A q \in Runs \ {r} : stage'[q] = stage[q]
    BY <1>1, <2>1, <2>2, StageEffect
  <2>4. /\ lane' \in [Lanes -> LaneRow]
        /\ \A v \in Lanes \ {w} : lane'[v] = lane[v]
        /\ lane'[w].pc = "answer" /\ lane'[w].run = r /\ lane'[w].k = lane[w].k /\ lane'[w].saw = lane[w].saw
    BY <1>4, GotoEffect DEF Pc
  <2>5. CycleTypes'
    BY <1>2, <1>4, <2>3, <2>4, RowTypes, RestTypes, TypesAfter
  <2> QED
    BY <1>1, <1>2, <1>4, <2>1, <2>3, <2>4, <2>5, GoOn
<1> QED
  BY <1>1, <1>3, <1>4 DEF StartCall, Cancelled

\* The provider's answer, or its failure, ends the call of an open stage.
LEMMA AnswerStep == ASSUME Inv, NEW w \in Lanes, Answer(w), UNCHANGED cmpVars PROVE Inv'
<1> DEFINE r == lane[w].run
<1>1. /\ lane[w].pc = "answer" /\ lane[w].pc \notin {"idle"} \cup Later /\ r \in Runs
      /\ stage[r].status = "running" /\ stage[r].call = "running" /\ r = Run(w)
  BY AtWork DEF Answer, At, Later, Grounded, Run
<1>2. UNCHANGED <<origin, task, reviews, asks, crashes, cmpVars>>
  BY DEF Answer
<1>3. held' \in [Runs -> {0, Estimate}]
  BY <1>1, RowTypes DEF Answer, Free
<1>4. stage[r] \in StageRow
  BY <1>1, RowTypes
<1>5. CASE /\ \E cost \in IF HasBudget(r) THEN Costs ELSE {0} : spent' = spent + cost
           /\ stage' = [stage EXCEPT ![r].call = "success"] /\ Goto(w, "finish")
  <2> DEFINE row == [stage[r] EXCEPT !.call = "success"]
  <2>1. row \in StageRow /\ row.status = "running" /\ row.k = stage[r].k /\ row.job = stage[r].job
        /\ row.late = stage[r].late /\ row.call = "success"
    BY <1>1, <1>4 DEF StageRow
  <2>2. stage' = [stage EXCEPT ![r] = row]
    BY <1>5
  <2> HIDE DEF row
  <2>3. stage' \in [Runs -> StageRow] /\ stage'[r] = row /\ \A q \in Runs \ {r} : stage'[q] = stage[q]
    BY <1>1, <2>1, <2>2, StageEffect
  <2>4. /\ lane' \in [Lanes -> LaneRow]
        /\ \A v \in Lanes \ {w} : lane'[v] = lane[v]
        /\ lane'[w].pc = "finish" /\ lane'[w].run = r /\ lane'[w].k = lane[w].k /\ lane'[w].saw = lane[w].saw
    BY <1>5, GotoEffect DEF Pc
  <2>5. spent' \in Nat
    BY <1>5, RestTypes, ReviewCycleAssumption
  <2>6. CycleTypes'
    BY <1>2, <1>3, <2>3, <2>4, <2>5, RowTypes, RestTypes, TypesAfter
  <2> QED
    BY <1>1, <1>2, <2>1, <2>3, <2>4, <2>6, GoOn
<1>6. CASE stage' = [stage EXCEPT ![r].call = "error", ![r].status = "failed"] /\ Goto(w, "fail") /\ UNCHANGED spent
  <2> DEFINE row == [stage[r] EXCEPT !.call = "error", !.status = "failed"]
  <2>1. row \in StageRow /\ row.status = "failed" /\ row.k = stage[r].k /\ row.job = stage[r].job
        /\ row.late = stage[r].late /\ row.call = "error"
    BY <1>1, <1>4 DEF StageRow, StageEnded
  <2>2. stage' = [stage EXCEPT ![r] = row]
    BY <1>1, <1>4, <1>6, RowTypes DEF StageRow
  <2> HIDE DEF row
  <2>3. stage' \in [Runs -> StageRow] /\ stage'[r] = row /\ \A q \in Runs \ {r} : stage'[q] = stage[q]
    BY <1>1, <2>1, <2>2, StageEffect
  <2>4. /\ lane' \in [Lanes -> LaneRow]
        /\ \A v \in Lanes \ {w} : lane'[v] = lane[v]
        /\ lane'[w].pc = "fail" /\ lane'[w].run = r /\ lane'[w].k = lane[w].k /\ lane'[w].saw = lane[w].saw
    BY <1>6, GotoEffect DEF Pc
  <2>5. CycleTypes'
    BY <1>2, <1>3, <1>6, <2>3, <2>4, RowTypes, RestTypes, TypesAfter
  <2> QED
    BY <1>1, <1>2, <2>1, <2>3, <2>4, <2>5, GiveUp
<1>7. \/ /\ \E cost \in IF HasBudget(r) THEN Costs ELSE {0} : spent' = spent + cost
         /\ stage' = [stage EXCEPT ![r].call = "success"] /\ Goto(w, "finish")
      \/ stage' = [stage EXCEPT ![r].call = "error", ![r].status = "failed"] /\ Goto(w, "fail") /\ UNCHANGED spent
  BY <1>1 DEF Answer
<1> QED
  BY <1>5, <1>6, <1>7

\* A stage's number says how many reviews there are, and who works at it.
LEMMA Halves ==
    ASSUME NEW n \in Nat
    PROVE  /\ (2 * n + 1) % 2 = 1 /\ (2 * n + 2) % 2 = 0 /\ (2 * n) % 2 = 0
           /\ Iteration(2 * n + 1) = n /\ Iteration(2 * n + 2) = n
  BY DEF Iteration

\* A stage is completed by the lane that stands on it, which then owes the run its end.
LEMMA FinishStep == ASSUME Inv, NEW w \in Lanes, Finish(w), UNCHANGED cmpVars PROVE Inv'
<1> PICK r \in Runs : r = lane[w].run
  BY AtWork DEF Finish, At
<1> DEFINE n == Len(reviews[r])
           pc == After(r, lane[w].k)
<1>1. lane[w].pc = "finish" /\ lane[w].pc \notin {"idle"} \cup Later /\ stage[r].status = "running" /\ r = Run(w)
  BY AtWork DEF Finish, At, Later, Grounded, Run
<1>2. UNCHANGED <<origin, task, reviews, held, spent, asks, crashes, cmpVars>>
  BY DEF Finish, budget
<1>3. CASE EndStage(w, "stopped", "stop")
  BY <1>1, <1>2, <1>3, RowTypes, RestTypes, GivingUp
<1>4. CASE EndStage(w, "completed", pc)
  <2>1. pc \in {"complete", "review", "another"} /\ pc \in Pc /\ (pc = "complete" <=> r \notin Reviewed)
    BY DEF After, Pc
  <2>2. /\ Goto(w, pc)
        /\ stage' \in [Runs -> StageRow]
        /\ \A q \in Runs \ {r} : stage'[q] = stage[q]
        /\ stage'[r].status = "completed" /\ stage'[r].k = stage[r].k /\ stage'[r].job = stage[r].job
        /\ stage'[r].late = stage[r].late /\ stage'[r].call = stage[r].call
    BY <1>1, <1>4, <2>1, EndStageEffect, ZenonT(60) DEF StageEnded
  <2> HIDE DEF pc
  <2>3. /\ lane' \in [Lanes -> LaneRow]
        /\ \A v \in Lanes \ {w} : lane'[v] = lane[v]
        /\ lane'[w].pc = pc /\ lane'[w].run = r /\ lane'[w].k = lane[w].k /\ lane'[w].saw = lane[w].saw
    BY <2>1, <2>2, GotoEffect
  <2>4. CycleTypes'
    BY <1>2, <2>2, <2>3, RowTypes, RestTypes, TypesAfter
  <2>5. /\ Placed(w) /\ Grounded(w) /\ Coherent(r) /\ stage[r].k \in Nat /\ n \in Nat
        /\ lane[w].k = stage[r].k /\ stage[r].job = "leased" /\ lane[w].k >= 1
    BY <1>1, AtWork DEF Placed
  <2>6. task[r].status \notin TaskEnded /\ origin[r] /= "none"
    BY <1>1, <2>5 DEF Coherent, Over, StageEnded, NewStage
  <2>7. Placed(w)'
    BY <2>1, <2>2, <2>3, <2>5, <1>1 DEF Placed, Later
  <2>8. r \in Reviewed => /\ AllRepair(r) /\ task[r].final = None /\ n <= MaxRepairs
                           /\ lane[w].k \in {2 * n + 1, 2 * n + 2}
    BY <1>1, <2>5, <2>6 DEF Coherent
  <2>9. pc = "review" => lane[w].k = 2 * n + 2
    BY <2>5, <2>8, Halves DEF pc, After, IsReviewer
  <2>10. pc = "another" => r \in Reviewed /\ lane[w].k = 2 * n + 1
    BY <2>5, <2>8, Halves DEF pc, After, IsReviewer
  <2>11. AllRepair(r)' = AllRepair(r) /\ Accepted(r)' = Accepted(r) /\ task'[r] = task[r] /\ reviews'[r] = reviews[r]
    BY <1>2 DEF AllRepair, Accepted
  <2>12. Grounded(w)'
    <3>1. pc = "complete" => Delivered(r)'
      BY <2>1, <2>2 DEF Delivered
    <3>2. CASE pc = "complete"
      BY <2>2, <2>3, <3>1, <3>2 DEF Grounded
    <3>3. CASE pc = "review"
      BY <2>2, <2>3, <2>8, <2>9, <2>11, <3>3, <2>1 DEF Grounded
    <3>4. CASE pc = "another"
      BY <2>2, <2>3, <2>8, <2>10, <2>11, <3>4 DEF Grounded
    <3> QED
      BY <2>1, <3>2, <3>3, <3>4
  <2>14. Coherent(r)'
    BY <1>1, <1>2, <2>2, <2>5, <2>6, <2>8, <2>11 DEF Coherent, TaskEnded
  <2>13. ~Over(r) /\ (Delivered(r) => Delivered(r)')
    BY <1>1, <1>2, <2>2 DEF Over, StageEnded, Delivered
  <2>15. lane[w].pc \notin {"idle", "waiting"} /\ stage'[r].k >= stage[r].k
    BY <1>1, <2>2, <2>5
  <2> HIDE DEF n
  <2> QED
    BY <1>2, <2>2, <2>3, <2>4, <2>7, <2>12, <2>13, <2>14, <2>15, LaneStep
<1> QED
  BY <1>1, <1>3, <1>4 DEF Finish

-----------------------------------------------------------------------------
(* The end of a Task Run, and of a review *)

\* One lane's row is replaced ...
LEMMA LaneEffect ==
    ASSUME Inv, NEW w \in Lanes, NEW row \in LaneRow, lane' = [lane EXCEPT ![w] = row]
    PROVE  lane' \in [Lanes -> LaneRow] /\ lane'[w] = row /\ \A v \in Lanes \ {w} : lane'[v] = lane[v]
  BY RowTypes

\* ... or one Task Run's.
LEMMA TaskEffect ==
    ASSUME Inv, NEW r \in Runs, NEW row \in TaskRow, task' = [task EXCEPT ![r] = row]
    PROVE  task' \in [Runs -> TaskRow] /\ task'[r] = row /\ \A q \in Runs \ {r} : task'[q] = task[q]
  BY RowTypes

\* When the one lane at work on r is past its end, r is over.
LEMMA NowOver ==
    ASSUME Inv, NEW w \in Lanes, NEW r \in Runs, lane[w].run = r, lane[w].pc \notin {"idle", "waiting"},
           \A v \in Lanes \ {w} : lane'[v] = lane[v],
           lane'[w].pc \in Harmless, stage'[r].status \in StageEnded
    PROVE  Over(r)'
  BY DEF Inv, CycleInv, Alone, Over, Harmless

\* The blind write of a terminal status comes from the only lane at work on the run.
LEMMA FinalizeStep == ASSUME Inv, NEW w \in Lanes, Finalize(w), UNCHANGED cmpVars PROVE Inv'
<1> PICK r \in Runs : r = lane[w].run
  BY AtWork DEF Finalize, Outcome
<1>1. PICK status \in TaskEnded :
        /\ lane[w].pc \in {"complete", "fail", "stop"}
        /\ status = "completed" <=> lane[w].pc = "complete"
        /\ task' = [task EXCEPT ![r].status = status]
        /\ lane' = [lane EXCEPT ![w].pc = "notify", ![w].wrote = status]
  <2>1. lane[w].pc \in {"complete", "fail", "stop"}
    BY DEF Finalize, Outcome
  <2>2. /\ Outcome.complete = "completed" /\ Outcome.fail = "failed" /\ Outcome.stop = "cancelled"
        /\ Outcome["complete"] = "completed" /\ Outcome["fail"] = "failed" /\ Outcome["stop"] = "cancelled"
    BY DEF Outcome
  <2> DEFINE s == Outcome[lane[w].pc]
  <2>3. s \in TaskEnded /\ (s = "completed" <=> lane[w].pc = "complete")
    BY <2>1, <2>2 DEF TaskEnded
  <2>4. task' = [task EXCEPT ![r].status = s] /\ lane' = [lane EXCEPT ![w].pc = "notify", ![w].wrote = s]
    BY DEF Finalize, Set, Run
  <2> QED
    BY <2>1, <2>3, <2>4
<1>2. UNCHANGED <<origin, stage, reviews, held, spent, asks, crashes, cmpVars>>
  BY DEF Finalize, budget
<1>3. Placed(w) /\ Grounded(w) /\ Coherent(r) /\ lane[w] \in LaneRow /\ task[r] \in TaskRow /\ stage[r].k \in Nat
  BY <1>1, AtWork
<1> DEFINE lrow == [lane[w] EXCEPT !.pc = "notify", !.wrote = status]
           trow == [task[r] EXCEPT !.status = status]
<1>4. /\ lrow \in LaneRow /\ lrow.pc = "notify" /\ lrow.wrote = status
      /\ lrow.run = r /\ lrow.k = lane[w].k /\ lrow.saw = lane[w].saw
  BY <1>3 DEF LaneRow, Pc
<1>5. trow \in TaskRow /\ trow.status = status /\ trow.cancel = task[r].cancel /\ trow.final = task[r].final
  BY <1>3 DEF TaskRow
<1>6. lane' = [lane EXCEPT ![w] = lrow] /\ task' = [task EXCEPT ![r] = trow]
  BY <1>1, <1>3, RowTypes DEF LaneRow
<1> HIDE DEF lrow, trow
<1>7. lane' \in [Lanes -> LaneRow] /\ lane'[w] = lrow /\ \A v \in Lanes \ {w} : lane'[v] = lane[v]
  BY <1>4, <1>6, LaneEffect
<1>8. task' \in [Runs -> TaskRow] /\ task'[r] = trow /\ \A q \in Runs \ {r} : task'[q] = task[q]
  BY <1>5, <1>6, TaskEffect
<1>9. CycleTypes'
  BY <1>2, <1>7, <1>8, RowTypes, RestTypes, TypesAfter
<1>10. Delivered(r)' = Delivered(r) /\ Rejected(r)' = Rejected(r)
  BY <1>2, <1>5, <1>8 DEF Delivered, Rejected, NoAccept
<1>11. stage[r].status \in StageEnded /\ (status /= "completed" => Rejected(r)) /\ (status = "completed" => Delivered(r))
  BY <1>1, <1>3 DEF Grounded, StageEnded
<1>12. Placed(w)'
  BY <1>1, <1>2, <1>3, <1>4, <1>7 DEF Placed, Later
<1>13. Grounded(w)'
  BY <1>2, <1>4, <1>7, <1>10, <1>11 DEF Grounded
<1>14. Over(r)'
  BY <1>1, <1>2, <1>4, <1>7, <1>11, NowOver DEF Harmless
<1>15. Coherent(r)'
  <2>1. AllRepair(r)' = AllRepair(r) /\ Accepted(r)' = Accepted(r)
    BY <1>2 DEF AllRepair, Accepted
  <2>2. origin[r] /= "none" /\ (status \in {"failed", "cancelled"} => status /= "completed")
    BY <1>1, <1>3 DEF Placed, Coherent, NewStage, Later
  <2> QED
    BY <1>2, <1>3, <1>5, <1>8, <1>10, <1>11, <1>14, <2>1, <2>2 DEF Coherent
<1>16. lane[w].pc \notin {"idle", "waiting"} /\ stage'[r].k >= stage[r].k
  BY <1>1, <1>2, <1>3
<1> QED
  BY <1>2, <1>4, <1>7, <1>8, <1>9, <1>10, <1>12, <1>13, <1>14, <1>15, <1>16, LaneStep

\* The end of a Task Run that is no candidate is told to nobody.
LEMMA UnobservedStep == ASSUME Inv, NEW w \in Lanes, Unobserved(w), UNCHANGED cmpVars PROVE Inv'
  BY Releasing DEF Unobserved, At, Later, budget

-----------------------------------------------------------------------------
(* The review cycle *)

\* A lane that handles a completed stage does so for a reviewed run that has delivered nothing yet.
LEMMA Handling ==
    ASSUME Inv, NEW w \in Lanes, NEW r \in Runs, lane[w].run = r,
           lane[w].pc \in {"review", "another", "insert", "accept"}
    PROVE  /\ r \in Reviewed /\ stage[r].status = "completed" /\ task[r].final = None
           /\ task[r].status \notin TaskEnded /\ origin[r] /= "none"
           /\ ~Over(r) /\ ~Delivered(r)
           /\ lane[w].pc \notin {"idle"} \cup Later
           /\ lane[w].k = stage[r].k /\ stage[r].job = "leased" /\ lane[w].k >= 1
<1>1. Placed(w) /\ Grounded(w) /\ Coherent(r) /\ lane[w].pc \notin {"idle"} \cup Later
  BY AtWork DEF Later
<1>2. r \in Reviewed /\ stage[r].status = "completed" /\ task[r].final = None
  BY <1>1 DEF Grounded
<1>3. ~Over(r)
  BY DEF Over, Harmless
<1>4. lane[w].k = stage[r].k /\ stage[r].job = "leased" /\ lane[w].k >= 1
  BY <1>1 DEF Placed
<1> QED
  BY <1>1, <1>2, <1>3, <1>4 DEF Coherent, Delivered, NewStage

\* A verdict is recorded or acted upon.
LEMMA Decided ==
    ASSUME Inv, CycleTypes', UNCHANGED <<origin, task, stage, cmpVars>>,
           NEW w \in Lanes, NEW r \in Runs, lane[w].run = r,
           lane[w].pc \in {"review", "another"},
           \A v \in Lanes \ {w} : lane'[v] = lane[v],
           lane'[w].pc \in {"another", "insert", "accept", "fail", "stop"}, lane'[w].run = r,
           lane'[w].k = lane[w].k, lane'[w].saw = lane[w].saw,
           \A q \in Runs \ {r} : reviews'[q] = reviews[q],
           Len(reviews[r])' <= MaxRepairs + 1,
           Grounded(w)'
    PROVE  Inv'
<1>1. /\ r \in Reviewed /\ stage[r].status = "completed" /\ task[r].final = None
      /\ task[r].status \notin TaskEnded /\ origin[r] /= "none"
      /\ ~Over(r) /\ ~Delivered(r)
      /\ lane[w].k = stage[r].k /\ stage[r].job = "leased" /\ lane[w].k >= 1
  BY Handling
<1>2. Coherent(r) /\ stage[r].k \in Nat
  BY AtWork
<1>3. Placed(w)'
  BY <1>1 DEF Placed, Later
<1>4. Coherent(r)'
  BY <1>1, <1>2 DEF Coherent, TaskEnded
<1> QED
  BY <1>1, <1>2, <1>3, <1>4, LaneStep

\* Before another stage the lane stops, fails, gives its job back or goes on.
LEMMA AnotherStep == ASSUME Inv, NEW w \in Lanes, Another(w), UNCHANGED cmpVars PROVE Inv'
<1> PICK r \in Runs : r = lane[w].run
  BY AtWork DEF Another, At
<1> DEFINE n == Len(reviews[r])
<1>1. lane[w].pc = "another" /\ lane[w].pc \notin {"idle"} \cup Later
  BY DEF Another, At, Later
<1>2. UNCHANGED <<origin, task, reviews, held, spent, asks, crashes, cmpVars>>
  BY DEF Another, budget
<1>3. CASE Release(w)
  BY <1>1, <1>2, <1>3, Releasing
<1>4. ASSUME NEW pc \in {"stop", "insert", "fail"}, Goto(w, pc), UNCHANGED stage PROVE Inv'
  <2>1. /\ lane' \in [Lanes -> LaneRow]
        /\ \A v \in Lanes \ {w} : lane'[v] = lane[v]
        /\ lane'[w].pc = pc /\ lane'[w].run = r /\ lane'[w].k = lane[w].k /\ lane'[w].saw = lane[w].saw
    BY <1>4, GotoEffect DEF Pc
  <2>2. CycleTypes'
    BY <1>2, <1>4, <2>1, RowTypes, RestTypes, TypesAfter
  <2>3. /\ r \in Reviewed /\ stage[r].status = "completed" /\ task[r].final = None
    BY <1>1, Handling
  <2>4. AllRepair(r) /\ lane[w].k \in {2 * n, 2 * n + 1} /\ n <= MaxRepairs /\ n \in Nat
    BY <1>1, AtWork DEF Grounded
  <2>5. AllRepair(r)' /\ Rejected(r)'
    BY <1>2, <2>3, <2>4 DEF AllRepair, Rejected, Delivered, NoAccept
  <2>6. Grounded(w)'
    BY <1>2, <1>4, <2>1, <2>3, <2>4, <2>5 DEF Grounded, StageEnded
  <2>7. n <= MaxRepairs + 1 /\ reviews' = reviews
    BY <1>2, <2>4, ReviewCycleAssumption
  <2> QED
    BY <1>1, <1>2, <1>4, <2>1, <2>2, <2>6, <2>7, Decided
<1> QED
  BY <1>3, <1>4 DEF Another

\* A review is recorded after nothing but requests for repair.
LEMMA ReviewStep == ASSUME Inv, NEW w \in Lanes, Review(w), UNCHANGED cmpVars PROVE Inv'
<1> PICK r \in Runs : r = lane[w].run
  BY AtWork DEF Review, At
<1> DEFINE n == Len(reviews[r])
<1>1. lane[w].pc = "review" /\ UNCHANGED <<origin, task, stage, held, spent, asks, crashes, cmpVars>>
  BY DEF Review, At, budget
<1>2. PICK d \in Decision : /\ reviews' = [reviews EXCEPT ![r] = Append(reviews[r], d)]
                            /\ Goto(w, AfterReview(d, Iteration(lane[w].k)))
  BY DEF Review, Run
<1>3. /\ r \in Reviewed /\ stage[r].status = "completed" /\ task[r].final = None
  BY <1>1, Handling
<1>4. /\ AllRepair(r) /\ lane[w].k = 2 * n + 2 /\ n <= MaxRepairs /\ n \in Nat
      /\ reviews[r] \in Seq(Decision)
  BY <1>1, AtWork DEF Grounded
<1>5. PICK pc : /\ pc \in {"accept", "fail", "another"} /\ Goto(w, pc)
                /\ pc = "accept" => d = "accept"
                /\ pc = "fail" => d \in {"invalid", "repair"}
                /\ pc = "another" => d = "repair" /\ n < MaxRepairs
  <2>1. Iteration(lane[w].k) = n
    BY <1>4, Halves
  <2>2. AfterReview(d, n) \in {"accept", "fail", "another"}
        /\ (AfterReview(d, n) = "accept" => d = "accept")
        /\ (AfterReview(d, n) = "fail" => d \in {"invalid", "repair"})
        /\ (AfterReview(d, n) = "another" => d = "repair" /\ n < MaxRepairs)
    BY <1>4, ReviewCycleAssumption DEF AfterReview, Decision
  <2> QED
    BY <1>2, <2>1, <2>2
<1>6. /\ lane' \in [Lanes -> LaneRow]
      /\ \A v \in Lanes \ {w} : lane'[v] = lane[v]
      /\ lane'[w].pc = pc /\ lane'[w].run = r /\ lane'[w].k = lane[w].k /\ lane'[w].saw = lane[w].saw
  BY <1>5, GotoEffect DEF Pc
<1>7. /\ reviews' \in [Runs -> Seq(Decision)] /\ reviews'[r] = Append(reviews[r], d)
      /\ \A q \in Runs \ {r} : reviews'[q] = reviews[q]
  BY <1>2, <1>4, RowTypes
<1>8. /\ Len(reviews'[r]) = n + 1 /\ reviews'[r][n + 1] = d
      /\ \A i \in 1 .. n : reviews'[r][i] = "repair"
  BY <1>4, <1>7, SMTT(40) DEF AllRepair
<1>9. CycleTypes'
  BY <1>1, <1>6, <1>7, RowTypes, RestTypes, TypesAfter
<1>10. Grounded(w)'
  <2>1. stage'[r].status = "completed" /\ task'[r].final = None
    BY <1>1, <1>3
  <2>2. CASE pc = "accept"
    <3>1. Accepted(r)'
      BY <1>4, <1>5, <1>8, <2>2 DEF Accepted
    <3>2. lane'[w].k = 2 * Len(reviews'[r])
      BY <1>4, <1>6, <1>8
    <3> QED
      BY <1>3, <1>6, <2>1, <2>2, <3>1, <3>2 DEF Grounded
  <2>3. CASE pc = "fail"
    <3>1. NoAccept(r)'
      BY <1>4, <1>5, <1>8, <2>3 DEF NoAccept
    <3>2. Rejected(r)'
      BY <1>3, <2>1, <3>1 DEF Rejected, Delivered
    <3> QED
      BY <1>6, <2>1, <2>3, <3>2 DEF Grounded, StageEnded
  <2>4. CASE pc = "another"
    <3>1. AllRepair(r)'
      BY <1>4, <1>5, <1>8, <2>4 DEF AllRepair
    <3>2. lane'[w].k = 2 * Len(reviews'[r]) /\ Len(reviews'[r]) <= MaxRepairs
      BY <1>4, <1>5, <1>6, <1>8, <2>4, ReviewCycleAssumption
    <3> QED
      BY <1>3, <1>6, <2>1, <2>4, <3>1, <3>2 DEF Grounded
  <2> QED
    BY <1>5, <2>2, <2>3, <2>4
<1>11. Len(reviews[r])' <= MaxRepairs + 1
  BY <1>4, <1>8, ReviewCycleAssumption
<1> QED
  BY <1>1, <1>5, <1>6, <1>7, <1>9, <1>10, <1>11, Decided

\* The accepted artifact becomes the run's before its status does.
LEMMA AcceptStep == ASSUME Inv, NEW w \in Lanes, Accept(w), UNCHANGED cmpVars PROVE Inv'
<1> PICK r \in Runs : r = lane[w].run
  BY AtWork DEF Accept, At
<1> DEFINE n == Len(reviews[r])
           row == [task[r] EXCEPT !.final = n - 1]
<1>1. lane[w].pc = "accept" /\ UNCHANGED <<origin, stage, reviews, held, spent, asks, crashes, cmpVars>> /\ Goto(w, "complete")
  BY DEF Accept, At, budget
<1>2. /\ r \in Reviewed /\ stage[r].status = "completed" /\ task[r].status \notin TaskEnded /\ origin[r] /= "none"
      /\ ~Over(r) /\ ~Delivered(r)
      /\ lane[w].k = stage[r].k /\ stage[r].job = "leased" /\ lane[w].k >= 1
  BY <1>1, Handling
<1>3. Accepted(r) /\ lane[w].k = 2 * n /\ n \in Nat /\ Coherent(r) /\ task[r] \in TaskRow /\ stage[r].k \in Nat
  BY <1>1, AtWork DEF Grounded
<1>4. n >= 1 /\ n <= MaxRepairs + 1 /\ n - 1 \in 0 .. MaxRepairs /\ n - 1 /= None /\ Iteration(2 * n) = n - 1
  <2>1. n >= 1 /\ n <= MaxRepairs + 1
    BY <1>2, <1>3 DEF Accepted, Coherent
  <2> HIDE DEF n
  <2> QED
    BY <1>3, <2>1, ReviewCycleAssumption DEF None, Iteration
<1>5. row \in TaskRow /\ row.final = n - 1 /\ row.status = task[r].status /\ row.cancel = task[r].cancel
  BY <1>3, <1>4 DEF TaskRow
<1>6. task' = [task EXCEPT ![r] = row]
  BY <1>3, <1>4 DEF Accept, Run
<1> HIDE DEF row, n
<1>7. task' \in [Runs -> TaskRow] /\ task'[r] = row /\ \A q \in Runs \ {r} : task'[q] = task[q]
  BY <1>5, <1>6, TaskEffect
<1>8. /\ lane' \in [Lanes -> LaneRow]
      /\ \A v \in Lanes \ {w} : lane'[v] = lane[v]
      /\ lane'[w].pc = "complete" /\ lane'[w].run = r /\ lane'[w].k = lane[w].k /\ lane'[w].saw = lane[w].saw
  BY <1>1, GotoEffect DEF Pc
<1>9. CycleTypes'
  BY <1>1, <1>7, <1>8, RowTypes, RestTypes, TypesAfter
<1>10. Delivered(r)' /\ Accepted(r)' /\ Len(reviews[r])' = n
  BY <1>1, <1>2, <1>3, <1>4, <1>5, <1>7 DEF Delivered, Accepted, n
<1>11. Placed(w)'
  BY <1>1, <1>2, <1>8 DEF Placed, Later
<1>12. Grounded(w)'
  BY <1>1, <1>2, <1>8, <1>10 DEF Grounded
<1>13. Coherent(r)'
  BY <1>1, <1>2, <1>3, <1>4, <1>5, <1>7, <1>10 DEF Coherent, TaskEnded
<1>14. lane[w].pc \notin {"idle", "waiting"} /\ stage'[r].k >= stage[r].k
  BY <1>1, <1>3
<1> QED
  BY <1>1, <1>2, <1>7, <1>8, <1>9, <1>10, <1>11, <1>12, <1>13, <1>14, LaneStep

\* The next stage's number follows from the number of reviews.
LEMMA InsertStageStep == ASSUME Inv, NEW w \in Lanes, InsertStage(w), UNCHANGED cmpVars PROVE Inv'
<1> PICK r \in Runs : r = lane[w].run
  BY AtWork DEF InsertStage, At
<1> DEFINE n == Len(reviews[r])
           row == NewStage(lane[w].k + 1, task[r].cancel)
<1>1. lane[w].pc = "insert" /\ UNCHANGED <<origin, task, reviews, held, spent, asks, crashes, cmpVars>> /\ Goto(w, "enqueue")
  BY DEF InsertStage, At, budget
<1>2. /\ r \in Reviewed /\ stage[r].status = "completed" /\ task[r].status \notin TaskEnded /\ origin[r] /= "none"
      /\ task[r].final = None /\ ~Over(r) /\ ~Delivered(r)
      /\ lane[w].k = stage[r].k /\ lane[w].k >= 1
  BY <1>1, Handling
<1>3. /\ AllRepair(r) /\ lane[w].k \in {2 * n, 2 * n + 1} /\ n <= MaxRepairs /\ n \in Nat
      /\ task[r] \in TaskRow /\ stage[r].k \in Nat /\ Coherent(r)
  BY <1>1, AtWork DEF Grounded
<1> HIDE DEF n
<1>4. lane[w].k + 1 \in {2 * n + 1, 2 * n + 2} /\ lane[w].k + 1 \in 0 .. 2 * (MaxRepairs + 1)
  BY <1>3, ReviewCycleAssumption
<1>5. /\ row \in StageRow /\ row.k = lane[w].k + 1 /\ row.status = "created" /\ row.call = "none"
      /\ row.job = "none" /\ row.late = task[r].cancel
  BY <1>3, <1>4 DEF StageRow, NewStage, TaskRow
<1>6. stage' = [stage EXCEPT ![r] = row]
  BY DEF InsertStage, Run
<1> HIDE DEF row
<1>7. stage' \in [Runs -> StageRow] /\ stage'[r] = row /\ \A q \in Runs \ {r} : stage'[q] = stage[q]
  BY <1>5, <1>6, StageEffect
<1>8. /\ lane' \in [Lanes -> LaneRow]
      /\ \A v \in Lanes \ {w} : lane'[v] = lane[v]
      /\ lane'[w].pc = "enqueue" /\ lane'[w].run = r /\ lane'[w].k = lane[w].k /\ lane'[w].saw = lane[w].saw
  BY <1>1, GotoEffect DEF Pc
<1>9. CycleTypes'
  BY <1>1, <1>7, <1>8, RowTypes, RestTypes, TypesAfter
<1>10. AllRepair(r)' /\ Len(reviews[r])' = n /\ stage[r].k + 1 > stage[r].k
  BY <1>1, <1>3 DEF AllRepair, n
<1>11. Placed(w)'
  BY <1>2, <1>5, <1>7, <1>8, <1>10 DEF Placed, Later
<1>12. Grounded(w)'
  BY <1>8 DEF Grounded
<1>13. Coherent(r)'
  <2>1. stage'[r].k >= 1 /\ n <= MaxRepairs + 1
    BY <1>2, <1>3, <1>5, <1>7, ReviewCycleAssumption
  <2> QED
    BY <1>1, <1>2, <1>3, <1>4, <1>5, <1>7, <1>10, <2>1 DEF Coherent, TaskEnded
<1>14. lane[w].pc \notin {"idle", "waiting"} /\ stage'[r].k >= stage[r].k
  BY <1>1, <1>2, <1>3, <1>5, <1>7
<1> QED
  BY <1>1, <1>2, <1>7, <1>8, <1>9, <1>11, <1>12, <1>13, <1>14, LaneStep

\* The next stage can be claimed, and its creator has only WAITING_FOR_AGENT left.
LEMMA EnqueueStageStep == ASSUME Inv, NEW w \in Lanes, EnqueueStage(w), UNCHANGED cmpVars PROVE Inv'
<1> PICK r \in Runs : r = lane[w].run
  BY AtWork DEF EnqueueStage, At
<1> DEFINE row == [stage[r] EXCEPT !.job = "queued"]
<1>1. lane[w].pc = "enqueue" /\ UNCHANGED <<origin, task, reviews, held, spent, asks, crashes, cmpVars>> /\ Goto(w, "waiting")
  BY DEF EnqueueStage, At, budget
<1>2. /\ Placed(w) /\ Coherent(r) /\ stage[r] \in StageRow /\ stage[r].k \in Nat /\ lane[w] \in LaneRow
  BY <1>1, AtWork
<1>3. /\ row \in StageRow /\ row.k = stage[r].k /\ row.status = stage[r].status /\ row.call = stage[r].call
      /\ row.late = stage[r].late
  BY <1>2 DEF StageRow
<1>4. stage' = [stage EXCEPT ![r] = row]
  BY DEF EnqueueStage, Run
<1> HIDE DEF row
<1>5. stage' \in [Runs -> StageRow] /\ stage'[r] = row /\ \A q \in Runs \ {r} : stage'[q] = stage[q]
  BY <1>3, <1>4, StageEffect
<1>6. /\ lane' \in [Lanes -> LaneRow]
      /\ \A v \in Lanes \ {w} : lane'[v] = lane[v]
      /\ lane'[w].pc = "waiting" /\ lane'[w].run = r /\ lane'[w].k = lane[w].k /\ lane'[w].saw = lane[w].saw
  BY <1>1, GotoEffect DEF Pc
<1>7. CycleTypes'
  BY <1>1, <1>5, <1>6, RowTypes, RestTypes, TypesAfter
<1>8. lane[w].k >= 1 /\ lane[w].k < stage[r].k
  BY <1>1, <1>2 DEF Placed, Later
<1>9. Placed(w)' /\ Grounded(w)'
  BY <1>3, <1>5, <1>6, <1>8 DEF Placed, Later, Grounded
<1>10. ~Over(r) /\ origin[r] /= "none"
  <2>1. stage[r].k /= 0
    BY <1>2, <1>8 DEF LaneRow
  <2> QED
    BY <1>1, <1>2, <2>1 DEF Over, Harmless, Coherent, NewStage
<1>11. AllRepair(r)' = AllRepair(r) /\ Accepted(r)' = Accepted(r) /\ Delivered(r)' = Delivered(r)
  BY <1>1, <1>3, <1>5 DEF AllRepair, Accepted, Delivered
<1>12. Coherent(r)'
  BY <1>1, <1>2, <1>3, <1>5, <1>10, <1>11 DEF Coherent, TaskEnded
<1>13. lane[w].pc \notin {"idle", "waiting"} /\ stage'[r].k >= stage[r].k
  BY <1>1, <1>2, <1>3, <1>5
<1> QED
  BY <1>1, <1>5, <1>6, <1>7, <1>9, <1>10, <1>11, <1>12, <1>13, LaneStep

-----------------------------------------------------------------------------
(* Late writes, crashes, claims and requests *)

\* Overwritten, with the comparison.
LEMMA OverwrittenStep ==
    ASSUME Inv, CycleTypes',
           UNCHANGED <<origin, stage, reviews, cmpVars>>,
           \A w \in Lanes : lane'[w] = lane[w] \/ lane'[w] = IdleLane,
           \A r \in Runs :
               /\ task'[r].final = task[r].final
               /\ task[r].cancel => task'[r].cancel
               /\ \/ task'[r] = task[r]
                  \/ task'[r].status \in {"waiting_for_agent", "cancelling"}
    PROVE  Inv'
<1>1. \A w \in Lanes : lane'[w] = lane[w] \/ lane'[w].pc = "idle"
  BY DEF IdleLane
<1>2. CycleInv'
  BY <1>1, Overwritten DEF Inv
<1>3. ASSUME NEW r \in Runs
      PROVE  /\ Delivered(r)' = Delivered(r) /\ Rejected(r)' = Rejected(r) /\ (Over(r) => Over(r)')
             /\ origin'[r] = origin[r]
  <2>1. task'[r].final = task[r].final
    OBVIOUS
  <2> QED
    BY <1>1, <2>1 DEF Delivered, Rejected, NoAccept, Over, Harmless
<1>4. cmp.winner \in Runs \cup {NoRun} /\ select \in Runs \cup {NoRun}
  BY DEF Inv, CycleInv, CycleTypes, ComparisonTypeOK
<1>5. \A w \in Lanes : lane'[w].saw => lane[w].saw
  BY DEF IdleLane
<1>6. Judged'
  BY <1>3, <1>4, <1>5, JudgedStays DEF Inv
<1> QED
  BY <1>2, <1>6 DEF Inv

\* WAITING_FOR_AGENT is written over whatever the next stage has made of the run.
LEMMA WaitForAgentStep == ASSUME Inv, NEW w \in Lanes, WaitForAgent(w), UNCHANGED cmpVars PROVE Inv'
<1> PICK r \in Runs : r = lane[w].run
  BY AtWork DEF WaitForAgent, At
<1> DEFINE row == [task[r] EXCEPT !.status = "waiting_for_agent"]
<1>1. lane[w].pc = "waiting" /\ UNCHANGED <<origin, reviews, held, spent, asks, crashes, cmpVars>> /\ Release(w)
  BY DEF WaitForAgent, At, budget
<1>2. Placed(w) /\ Coherent(r) /\ task[r] \in TaskRow /\ lane[w] \in LaneRow /\ stage[r].k \in Nat
  BY <1>1, AtWork
<1>3. lane[w].k >= 1 /\ lane[w].k < stage[r].k
  BY <1>1, <1>2 DEF Placed, Later
<1>5. stage' = stage /\ lane' = [lane EXCEPT ![w] = IdleLane]
  <2>1. stage[Run(w)].k /= lane[w].k
    BY <1>2, <1>3 DEF LaneRow, Run
  <2> QED
    BY <1>1, <2>1 DEF Release
<1>6. row \in TaskRow /\ row.status = "waiting_for_agent" /\ row.cancel = task[r].cancel /\ row.final = task[r].final
  BY <1>2 DEF TaskRow
<1>7. task' = [task EXCEPT ![r] = row]
  BY DEF WaitForAgent, Set, Run
<1> HIDE DEF row
<1>8. task' \in [Runs -> TaskRow] /\ task'[r] = row /\ \A q \in Runs \ {r} : task'[q] = task[q]
  BY <1>6, <1>7, TaskEffect
<1>9. IdleLane \in LaneRow
  BY DEF LaneRow, IdleLane, Pc
<1>10. lane' \in [Lanes -> LaneRow] /\ \A v \in Lanes : lane'[v] = lane[v] \/ lane'[v] = IdleLane
  BY <1>5, <1>9, LaneEffect
<1>11. CycleTypes'
  BY <1>1, <1>5, <1>8, <1>10, RowTypes, RestTypes, TypesAfter
<1>12. ASSUME NEW q \in Runs
       PROVE  /\ task'[q].final = task[q].final
              /\ task[q].cancel => task'[q].cancel
              /\ \/ task'[q] = task[q]
                 \/ task'[q].status \in {"waiting_for_agent", "cancelling"}
  BY <1>6, <1>8
<1> QED
  BY <1>1, <1>5, <1>10, <1>11, <1>12, OverwrittenStep

\* A dead lane's job is queued again, if its stage is still the newest.
LEMMA CrashStep == ASSUME Inv, NEW w \in Lanes, Crash(w), UNCHANGED cmpVars PROVE Inv'
<1> PICK r \in Runs : r = lane[w].run
  BY AtWork DEF Crash, At
<1>1. lane[w].pc /= "idle" /\ UNCHANGED <<origin, task, reviews, held, spent, asks, cmpVars>>
      /\ lane' = [lane EXCEPT ![w] = IdleLane]
  BY DEF Crash, At, budget
<1>2. crashes' \in 0 .. MaxCrashes
  BY RestTypes, ReviewCycleAssumption DEF Crash
<1>3. Placed(w) /\ stage[r] \in StageRow /\ lane[w] \in LaneRow /\ stage[r].k \in Nat
  BY <1>1, AtWork
<1>4. IdleLane \in LaneRow
  BY DEF LaneRow, IdleLane, Pc
<1>5. lane' \in [Lanes -> LaneRow] /\ \A v \in Lanes : lane'[v] = lane[v] \/ lane'[v] = IdleLane
  BY <1>1, <1>4, LaneEffect
<1>6. CASE lane[w].pc \in Later
  <2>1. stage[Run(w)].k /= lane[w].k
    BY <1>3, <1>6, <1>1 DEF Placed, LaneRow, Run
  <2>2. stage' = stage
    BY <2>1 DEF Crash
  <2>3. CycleTypes'
    BY <1>1, <1>2, <1>5, <2>2, RowTypes, RestTypes, TypesAfter
  <2>4. \A q \in Runs : task'[q] = task[q]
    BY <1>1
  <2> QED
    BY <1>1, <1>5, <2>2, <2>3, <2>4, OverwrittenStep
<1>7. CASE lane[w].pc \notin Later
  <2>1. stage' = [stage EXCEPT ![r].job = "queued"]
    BY <1>1, <1>3, <1>7 DEF Crash, Placed, Run
  <2> DEFINE row == [stage[r] EXCEPT !.job = "queued"]
  <2>2. row \in StageRow
    BY <1>3 DEF StageRow
  <2>3. stage' = [stage EXCEPT ![r] = row]
    BY <2>1
  <2> HIDE DEF row
  <2>4. stage' \in [Runs -> StageRow]
    BY <2>2, <2>3, StageEffect
  <2>5. CycleTypes'
    BY <1>1, <1>2, <1>5, <2>4, RowTypes, RestTypes, TypesAfter
  <2>6. lane[w].pc \notin {"idle"} \cup Later
    BY <1>1, <1>7
  <2> QED
    BY <1>1, <2>1, <2>5, <2>6, Leave
<1> QED
  BY <1>6, <1>7

\* A queued job has nobody at work on its Task Run.
LEMMA ClaimStep == ASSUME Inv, NEW w \in Lanes, NEW r \in Runs, Claim(w, r), UNCHANGED cmpVars PROVE Inv'
<1> DEFINE srow == [stage[r] EXCEPT !.job = "leased"]
           lrow == [IdleLane EXCEPT !.pc = "begin", !.run = r, !.k = stage[r].k]
<1>1. /\ lane[w].pc = "idle" /\ stage[r].job = "queued"
      /\ UNCHANGED <<origin, task, reviews, held, spent, asks, crashes, cmpVars>>
  BY DEF Claim, At, budget
<1>2. stage[r] \in StageRow /\ stage[r].k \in Nat /\ Coherent(r)
  BY RowTypes, ReviewCycleAssumption DEF StageRow, Inv, CycleInv
<1>3. /\ srow \in StageRow /\ srow.k = stage[r].k /\ srow.status = stage[r].status
      /\ srow.call = stage[r].call /\ srow.late = stage[r].late /\ srow.job = "leased"
  BY <1>2 DEF StageRow
<1>4. /\ lrow \in LaneRow /\ lrow.pc = "begin" /\ lrow.run = r /\ lrow.k = stage[r].k /\ ~lrow.saw
  BY <1>2 DEF LaneRow, IdleLane, Pc
<1>5. stage' = [stage EXCEPT ![r] = srow] /\ lane' = [lane EXCEPT ![w] = lrow]
  BY DEF Claim
<1> HIDE DEF srow, lrow
<1>6. stage' \in [Runs -> StageRow] /\ stage'[r] = srow /\ \A q \in Runs \ {r} : stage'[q] = stage[q]
  BY <1>3, <1>5, StageEffect
<1>7. lane' \in [Lanes -> LaneRow] /\ lane'[w] = lrow /\ \A v \in Lanes \ {w} : lane'[v] = lane[v]
  BY <1>4, <1>5, LaneEffect
<1>8. CycleTypes'
  BY <1>1, <1>6, <1>7, RowTypes, RestTypes, TypesAfter
<1>9. stage[r].k >= 1 /\ origin[r] /= "none"
  BY <1>1, <1>2 DEF Coherent, NewStage
<1>10. \A q \in Runs : /\ stage'[q].k = stage[q].k /\ stage'[q].status = stage[q].status
                       /\ stage'[q].call = stage[q].call /\ stage'[q].late = stage[q].late
                       /\ q /= r => stage'[q] = stage[q]
  BY <1>3, <1>6
<1>11. ASSUME NEW v \in Lanes \ {w}, lane[v].pc /= "idle", lane[v].run = r PROVE lane[v].pc = "waiting"
  BY <1>1, <1>11, AtWork DEF Placed, Later
<1>12. ASSUME NEW q \in Runs
       PROVE  /\ Delivered(q)' = Delivered(q) /\ Rejected(q)' = Rejected(q) /\ (Over(q) => Over(q)')
              /\ AllRepair(q)' = AllRepair(q) /\ Accepted(q)' = Accepted(q)
  <2>1. Over(q) => Over(q)'
    BY <1>4, <1>7, <1>10 DEF Over, Harmless
  <2>2. stage'[q].status = stage[q].status /\ task'[q] = task[q] /\ reviews'[q] = reviews[q]
    BY <1>1, <1>10
  <2> QED
    BY <2>1, <2>2 DEF Delivered, Rejected, NoAccept, AllRepair, Accepted
<1>13. Alone'
  <2>1. \A v \in Lanes \ {w} : lane'[v].pc \notin {"idle", "waiting"} => lane'[v].run /= r
    BY <1>7, <1>11
  <2> QED
    BY <1>4, <1>7, <2>1 DEF Inv, CycleInv, Alone
<1>14. ASSUME NEW v \in Lanes PROVE Placed(v)' /\ Grounded(v)'
  <2>1. CASE v = w
    BY <1>2, <1>3, <1>4, <1>6, <1>7, <1>9, <2>1 DEF Placed, Grounded, Later
  <2>2. CASE v /= w /\ lane[v].pc = "idle"
    BY <1>7, <2>2 DEF Placed, Grounded
  <2>3. CASE v /= w /\ lane[v].pc /= "idle"
    <3>1. /\ lane[v].run \in Runs /\ Placed(v) /\ Grounded(v) /\ lane'[v] = lane[v]
          /\ (lane[v].run = r => lane[v].pc = "waiting")
      BY <1>7, <1>11, <2>3, AtWork
    <3>2. Placed(v)'
      BY <1>6, <1>10, <3>1 DEF Placed, Later
    <3>3. Grounded(v)'
      BY <1>1, <1>10, <1>12, <3>1 DEF Grounded
    <3> QED
      BY <3>2, <3>3
  <2> QED
    BY <2>1, <2>2, <2>3
<1>15. ASSUME NEW q \in Runs PROVE Coherent(q)'
  <2>1. Coherent(q)
    BY DEF Inv, CycleInv
  <2>2. origin[q] = "none" => q /= r
    BY <1>9
  <2>3. NewStage(0, FALSE)' = NewStage(0, FALSE)
    BY DEF NewStage
  <2> QED
    BY <1>1, <1>10, <1>12, <2>1, <2>2, <2>3 DEF Coherent
<1>16. CycleInv'
  BY <1>8, <1>13, <1>14, <1>15 DEF CycleInv
<1>17. cmp.winner \in Runs \cup {NoRun} /\ select \in Runs \cup {NoRun}
  BY DEF Inv, CycleInv, CycleTypes, ComparisonTypeOK
<1>18. \A v \in Lanes : lane'[v].saw => lane[v].saw
  BY <1>4, <1>7
<1>19. Judged'
  BY <1>1, <1>12, <1>17, <1>18, JudgedStays DEF Inv
<1> QED
  BY <1>16, <1>19 DEF Inv

\* A request changes the rows of a Task Run that no lane works on.
LEMMA Untouched ==
    ASSUME Inv, CycleTypes', lane' = lane, NEW r \in Runs,
           \A w \in Lanes : lane[w].pc /= "idle" => lane[w].run /= r,
           \A q \in Runs \ {r} : origin'[q] = origin[q] /\ stage'[q] = stage[q] /\ task'[q] = task[q] /\ reviews'[q] = reviews[q],
           Coherent(r)'
    PROVE  /\ CycleInv'
           /\ \A q \in Runs \ {r} : Delivered(q)' = Delivered(q) /\ Rejected(q)' = Rejected(q) /\ (Over(q) => Over(q)')
<1>1. ASSUME NEW q \in Runs \ {r}
      PROVE  /\ Delivered(q)' = Delivered(q) /\ Rejected(q)' = Rejected(q) /\ (Over(q) => Over(q)')
             /\ AllRepair(q)' = AllRepair(q) /\ Accepted(q)' = Accepted(q)
  BY DEF Delivered, Rejected, NoAccept, Over, AllRepair, Accepted
<1>2. ASSUME NEW w \in Lanes PROVE Placed(w)' /\ Grounded(w)'
  <2>1. CASE lane[w].pc = "idle"
    BY <2>1 DEF Placed, Grounded
  <2>2. CASE lane[w].pc /= "idle"
    <3>1. lane[w].run \in Runs \ {r} /\ Placed(w) /\ Grounded(w) /\ lane'[w] = lane[w]
      BY <2>2, AtWork
    <3> QED
      BY <1>1, <3>1 DEF Placed, Grounded
  <2> QED
    BY <2>1, <2>2
<1>3. ASSUME NEW q \in Runs \ {r} PROVE Coherent(q)'
  <2>1. Coherent(q) /\ NewStage(0, FALSE)' = NewStage(0, FALSE)
    BY DEF Inv, CycleInv, NewStage
  <2> QED
    BY <1>1, <2>1 DEF Coherent
<1>4. Alone'
  BY DEF Inv, CycleInv, Alone
<1> QED
  BY <1>1, <1>2, <1>3, <1>4 DEF CycleInv

\* A comparison's own step leaves every Task Run as it is.
LEMMA RowsUnchanged ==
    ASSUME Inv, CycleTypes', UNCHANGED <<origin, task, stage, reviews, lane>>
    PROVE  /\ CycleInv'
           /\ \A r \in Runs : Delivered(r)' = Delivered(r) /\ Rejected(r)' = Rejected(r) /\ Over(r)' = Over(r)
<1>1. CycleInv'
  BY Overwritten DEF Inv
<1> QED
  BY <1>1 DEF Delivered, Rejected, NoAccept, Over

\* The types after any step.
LEMMA AllTypesAfter ==
    ASSUME lane' \in [Lanes -> LaneRow], stage' \in [Runs -> StageRow], task' \in [Runs -> TaskRow],
           reviews' \in [Runs -> Seq(Decision)], held' \in [Runs -> {0, Estimate}],
           origin' \in [Runs -> {"none", "task", "candidate"}],
           spent' \in Nat, crashes' \in 0 .. MaxCrashes, asks' \subseteq Runs,
           cmp' \in [status : {"none", "pending", "running"} \cup CmpEnded, cancel : BOOLEAN,
                     winner : Runs \cup {NoRun}],
           launch' \in [pc : {"idle", "candidate", "job", "gone"}, next : 1 .. NRuns + 1],
           select' \in Runs \cup {NoRun},
           stopping' \in [pc : {"idle", "pending", "running", "candidates"}, todo : SUBSET Runs]
    PROVE  CycleTypes'
  BY DEF CycleTypes, ComparisonTypeOK, ReviewTypeOK, StageRow, TaskRow

\* The types of the comparison's rows.
LEMMA ComparisonTypes ==
    ASSUME Inv
    PROVE  /\ cmp \in [status : {"none", "pending", "running"} \cup CmpEnded, cancel : BOOLEAN,
                       winner : Runs \cup {NoRun}]
           /\ launch \in [pc : {"idle", "candidate", "job", "gone"}, next : 1 .. NRuns + 1]
           /\ select \in Runs \cup {NoRun}
           /\ stopping \in [pc : {"idle", "pending", "running", "candidates"}, todo : SUBSET Runs]
  BY DEF Inv, CycleInv, CycleTypes, ComparisonTypeOK

\* A Task Run is begun once, when nothing has been done for it.
LEMMA BegunFrame ==
    ASSUME Inv, NEW r \in Runs, NEW by \in {"task", "candidate"}, Begun(r, by),
           UNCHANGED <<cmp, select, stopping>>,
           launch' \in [pc : {"idle", "candidate", "job", "gone"}, next : 1 .. NRuns + 1]
    PROVE  /\ CycleInv'
           /\ origin' = [origin EXCEPT ![r] = by] /\ lane' = lane
           /\ ~Over(r) /\ ~Delivered(r)
           /\ \A q \in Runs \ {r} : Delivered(q)' = Delivered(q) /\ Rejected(q)' = Rejected(q) /\ (Over(q) => Over(q)')
<1> DEFINE trow == [task[r] EXCEPT !.status = "queued"]
           srow == NewStage(1, FALSE)
<1>1. /\ origin[r] = "none" /\ origin' = [origin EXCEPT ![r] = by]
      /\ task' = [task EXCEPT ![r].status = "queued"] /\ stage' = [stage EXCEPT ![r] = srow]
      /\ UNCHANGED <<reviews, held, spent, lane, asks, crashes>>
  BY DEF Begun, budget
<1>2. /\ Coherent(r) /\ stage[r] = NewStage(0, FALSE) /\ Len(reviews[r]) = 0 /\ task[r] \in TaskRow
      /\ origin \in [Runs -> {"none", "task", "candidate"}]
  BY <1>1, RowTypes, RestTypes DEF Inv, CycleInv, Coherent
<1>3. trow \in TaskRow /\ trow.status = "queued" /\ trow.final = task[r].final
  BY <1>2 DEF TaskRow
<1>4. srow \in StageRow /\ srow.k = 1 /\ srow.status = "created" /\ ~srow.late
  BY ReviewCycleAssumption DEF StageRow, NewStage
<1>5. task' = [task EXCEPT ![r] = trow]
  BY <1>1
<1>6. stage[r].k = 0 /\ stage[r].status = "created"
  BY <1>2 DEF NewStage
<1> HIDE DEF trow, srow
<1>7. task' \in [Runs -> TaskRow] /\ task'[r] = trow /\ \A q \in Runs \ {r} : task'[q] = task[q]
  BY <1>3, <1>5, TaskEffect
<1>8. stage' \in [Runs -> StageRow] /\ stage'[r] = srow /\ \A q \in Runs \ {r} : stage'[q] = stage[q]
  BY <1>1, <1>4, StageEffect
<1>9. origin' \in [Runs -> {"none", "task", "candidate"}] /\ origin'[r] = by
      /\ \A q \in Runs \ {r} : origin'[q] = origin[q]
  BY <1>1, <1>2
<1>10. CycleTypes'
  BY <1>1, <1>7, <1>8, <1>9, RowTypes, RestTypes, ComparisonTypes, AllTypesAfter
<1>11. ASSUME NEW w \in Lanes, lane[w].pc /= "idle" PROVE lane[w].run /= r
  <2>1. Placed(w) /\ lane[w] \in LaneRow
    BY <1>11, AtWork
  <2> QED
    BY <1>6, <1>11, <2>1 DEF Placed, LaneRow
<1>12. ~Over(r) /\ ~Delivered(r) /\ (r \in Reviewed => task[r].final = None) /\ task[r].status \notin TaskEnded
  BY <1>2, <1>6 DEF Over, Delivered, Coherent, StageEnded
<1>13. Coherent(r)'
  <2>1. AllRepair(r)' /\ Len(reviews[r])' = 0
    BY <1>1, <1>2 DEF AllRepair
  <2>2. 0 <= MaxRepairs + 1 /\ 0 <= MaxRepairs /\ 1 >= 1 /\ 1 \in {2 * 0 + 1, 2 * 0 + 2}
    BY ReviewCycleAssumption
  <2>3. /\ origin'[r] /= "none" /\ stage'[r].k = 1 /\ ~stage'[r].late /\ task'[r].status = "queued"
        /\ r \in Reviewed => task'[r].final = None
    BY <1>3, <1>4, <1>7, <1>8, <1>9, <1>12
  <2> QED
    BY <2>1, <2>2, <2>3 DEF Coherent, TaskEnded
<1>14. \A q \in Runs \ {r} : reviews'[q] = reviews[q]
  BY <1>1
<1> QED
  BY <1>1, <1>7, <1>8, <1>9, <1>10, <1>11, <1>12, <1>13, <1>14, Untouched

\* The job of a first stage, which nobody can have claimed.
LEMMA FirstJobFrame ==
    ASSUME Inv, NEW r \in Runs, FirstJob(r),
           UNCHANGED <<cmp, select, stopping>>,
           launch' \in [pc : {"idle", "candidate", "job", "gone"}, next : 1 .. NRuns + 1]
    PROVE  /\ CycleInv'
           /\ origin' = origin /\ lane' = lane
           /\ \A q \in Runs : Delivered(q)' = Delivered(q) /\ Rejected(q)' = Rejected(q) /\ (Over(q) => Over(q)')
<1> DEFINE row == [stage[r] EXCEPT !.job = "queued"]
<1>1. /\ stage[r].k = 1 /\ stage[r].job = "none" /\ stage' = [stage EXCEPT ![r].job = "queued"]
      /\ UNCHANGED <<origin, task, reviews, held, spent, lane, asks, crashes>>
  BY DEF FirstJob, budget
<1>2. Coherent(r) /\ stage[r] \in StageRow
  BY RowTypes DEF Inv, CycleInv
<1>3. /\ row \in StageRow /\ row.k = stage[r].k /\ row.status = stage[r].status
      /\ row.call = stage[r].call /\ row.late = stage[r].late
  BY <1>2 DEF StageRow
<1>4. stage' = [stage EXCEPT ![r] = row]
  BY <1>1
<1> HIDE DEF row
<1>5. stage' \in [Runs -> StageRow] /\ stage'[r] = row /\ \A q \in Runs \ {r} : stage'[q] = stage[q]
  BY <1>3, <1>4, StageEffect
<1>6. CycleTypes'
  BY <1>1, <1>5, RowTypes, RestTypes, ComparisonTypes, AllTypesAfter
<1>7. ASSUME NEW w \in Lanes, lane[w].pc /= "idle" PROVE lane[w].run /= r
  <2>1. Placed(w) /\ lane[w] \in LaneRow
    BY <1>7, AtWork
  <2> QED
    BY <1>1, <1>7, <2>1 DEF Placed, LaneRow
<1>8. origin[r] /= "none"
  BY <1>1, <1>2 DEF Coherent, NewStage
<1>9. /\ Delivered(r)' = Delivered(r) /\ Rejected(r)' = Rejected(r) /\ (Over(r) => Over(r)')
      /\ AllRepair(r)' = AllRepair(r) /\ Accepted(r)' = Accepted(r)
  BY <1>1, <1>3, <1>5 DEF Delivered, Rejected, NoAccept, Over, AllRepair, Accepted
<1>10. Coherent(r)'
  BY <1>1, <1>2, <1>3, <1>5, <1>8, <1>9 DEF Coherent
<1>11. \A q \in Runs \ {r} : origin'[q] = origin[q] /\ stage'[q] = stage[q] /\ task'[q] = task[q] /\ reviews'[q] = reviews[q]
  BY <1>1, <1>5
<1> QED
  BY <1>1, <1>6, <1>7, <1>9, <1>10, <1>11, Untouched

\* A request starts a Task Run, or enqueues its job.
LEMMA RequestStep ==
    ASSUME Inv, NEW r \in Runs, StartTaskRun(r) \/ EnqueueTaskRun(r), UNCHANGED cmpVars
    PROVE  Inv'
<1>1. UNCHANGED <<cmp, launch, select, stopping>>
  BY DEF cmpVars
<1>2. CASE StartTaskRun(r)
  <2>1. /\ CycleInv'
        /\ origin' = [origin EXCEPT ![r] = "task"] /\ lane' = lane
        /\ ~Over(r) /\ ~Delivered(r)
        /\ \A q \in Runs \ {r} : Delivered(q)' = Delivered(q) /\ Rejected(q)' = Rejected(q) /\ (Over(q) => Over(q)')
    BY <1>1, <1>2, ComparisonTypes, BegunFrame DEF StartTaskRun
  <2>2. Judged'
    BY <2>1, ComparisonTypes, RestTypes, JudgedStays DEF Inv
  <2> QED
    BY <2>1, <2>2 DEF Inv
<1>3. CASE EnqueueTaskRun(r)
  <2>1. /\ CycleInv'
        /\ origin' = origin /\ lane' = lane
        /\ \A q \in Runs : Delivered(q)' = Delivered(q) /\ Rejected(q)' = Rejected(q) /\ (Over(q) => Over(q)')
    BY <1>1, <1>3, ComparisonTypes, FirstJobFrame DEF EnqueueTaskRun
  <2>2. Judged'
    BY <2>1, ComparisonTypes, JudgedStays DEF Inv
  <2> QED
    BY <2>1, <2>2 DEF Inv
<1> QED
  BY <1>2, <1>3

\* A request for cancellation, its CANCELLING written over any status.
LEMMA CancelStep ==
    ASSUME Inv, NEW r \in Runs, CancelRead(r) \/ CancelWrite(r), UNCHANGED cmpVars
    PROVE  Inv'
<1>1. CASE CancelRead(r)
  <2>1. UNCHANGED <<origin, task, stage, reviews, held, spent, lane, crashes>> /\ asks' \subseteq Runs
    BY <1>1, RestTypes DEF CancelRead, budget
  <2>2. CycleTypes'
    BY <2>1, RowTypes, RestTypes, TypesAfter
  <2> QED
    BY <2>1, <2>2, OverwrittenStep
<1>2. CASE CancelWrite(r)
  <2> DEFINE row == [task[r] EXCEPT !.status = "cancelling", !.cancel = TRUE]
  <2>1. UNCHANGED <<origin, stage, reviews, held, spent, lane, crashes>> /\ asks' \subseteq Runs
    BY <1>2, RestTypes DEF CancelWrite, budget
  <2>2. task[r] \in TaskRow
    BY RowTypes
  <2>3. row \in TaskRow /\ row.status = "cancelling" /\ row.cancel /\ row.final = task[r].final
    BY <2>2 DEF TaskRow
  <2>4. task' = [task EXCEPT ![r] = row]
    BY <1>2, RowTypes DEF CancelWrite, TaskRow
  <2> HIDE DEF row
  <2>5. task' \in [Runs -> TaskRow] /\ task'[r] = row /\ \A q \in Runs \ {r} : task'[q] = task[q]
    BY <2>3, <2>4, TaskEffect
  <2>6. CycleTypes'
    BY <2>1, <2>5, RowTypes, RestTypes, TypesAfter
  <2>7. ASSUME NEW q \in Runs
        PROVE  /\ task'[q].final = task[q].final
               /\ task[q].cancel => task'[q].cancel
               /\ \/ task'[q] = task[q]
                  \/ task'[q].status \in {"waiting_for_agent", "cancelling"}
    BY <2>3, <2>5
  <2> QED
    BY <2>1, <2>6, <2>7, OverwrittenStep
<1> QED
  BY <1>1, <1>2

-----------------------------------------------------------------------------
(* The comparison *)

CmpRow == [status : {"none", "pending", "running"} \cup CmpEnded, cancel : BOOLEAN, winner : Runs \cup {NoRun}]
LaunchRow == [pc : {"idle", "candidate", "job", "gone"}, next : 1 .. NRuns + 1]
StopRow == [pc : {"idle", "pending", "running", "candidates"}, todo : SUBSET Runs]

\* The handlers of a comparison leave every Task Run as it is.
LEMMA ComparisonOnly ==
    ASSUME Inv, UNCHANGED vars, cmp' \in CmpRow, launch' \in LaunchRow,
           select' \in Runs \cup {NoRun}, stopping' \in StopRow
    PROVE  /\ CycleInv' /\ UNCHANGED <<origin, lane>>
           /\ \A r \in Runs : Delivered(r)' = Delivered(r) /\ Rejected(r)' = Rejected(r) /\ Over(r)' = Over(r)
<1>1. UNCHANGED <<origin, task, stage, reviews, held, spent, lane, asks, crashes>>
  BY DEF vars
<1>2. CycleTypes'
  BY <1>1, RowTypes, RestTypes, AllTypesAfter DEF CmpRow, LaunchRow, StopRow
<1> QED
  BY <1>1, <1>2, RowsUnchanged

\* They, by name.
LEMMA ComparisonRows ==
    ASSUME Inv PROVE cmp \in CmpRow /\ launch \in LaunchRow /\ select \in Runs \cup {NoRun} /\ stopping \in StopRow
  BY ComparisonTypes DEF CmpRow, LaunchRow, StopRow

\* A comparison is created before anything has been launched.
LEMMA CreateStep == ASSUME Inv, CreateComparison PROVE Inv'
<1> DEFINE row == [cmp EXCEPT !.status = "pending"]
<1>1. row \in CmpRow /\ row.status = "pending" /\ row.winner = cmp.winner /\ row.cancel = cmp.cancel
  BY ComparisonRows DEF CmpRow
<1>2. cmp.status = "none" /\ cmp' = row /\ UNCHANGED <<vars, launch, select, stopping>>
  BY DEF CreateComparison
<1> HIDE DEF row
<1>3. /\ CycleInv' /\ UNCHANGED <<origin, lane>>
      /\ \A r \in Runs : Delivered(r)' = Delivered(r) /\ Rejected(r)' = Rejected(r) /\ Over(r)' = Over(r)
  BY <1>1, <1>2, ComparisonRows, ComparisonOnly
<1>4. Judged'
  BY <1>1, <1>2, <1>3 DEF Inv, Judged, CmpEnded
<1> QED
  BY <1>3, <1>4 DEF Inv

\* A launch that is still under way precedes every selection.
LEMMA LaunchStep ==
    ASSUME Inv, LaunchRead \/ LaunchCandidate \/ LaunchJob \/ LaunchDone
    PROVE  Inv'
<1>1. CASE LaunchRead
  <2>1. cmp.status = "pending" /\ launch.pc = "idle" /\ launch' = [pc |-> "candidate", next |-> 1]
        /\ UNCHANGED <<vars, cmp, select, stopping>>
    BY <1>1 DEF LaunchRead, Launch
  <2>2. launch' \in LaunchRow
    BY <2>1, ReviewCycleAssumption DEF LaunchRow
  <2>3. /\ CycleInv' /\ UNCHANGED <<origin, lane>>
        /\ \A r \in Runs : Delivered(r)' = Delivered(r) /\ Rejected(r)' = Rejected(r) /\ Over(r)' = Over(r)
    BY <2>1, <2>2, ComparisonRows, ComparisonOnly
  <2>4. Judged'
    BY <2>1, <2>3, ComparisonRows DEF Inv, Judged
  <2> QED
    BY <2>3, <2>4 DEF Inv
<1>2. CASE LaunchCandidate
  <2> DEFINE r == launch.next
  <2>1. launch.pc = "candidate" /\ r \in Runs /\ UNCHANGED <<cmp, select, stopping>>
    BY <1>2, ComparisonRows DEF LaunchCandidate, LaunchRow, Runs
  <2>2. select = NoRun /\ cmp.status \notin {"none", "running", "completed"}
    BY <2>1 DEF Inv, Judged
  <2>3. CASE Begun(r, "candidate") /\ Launch("job", r)
    <3>1. launch' = [pc |-> "job", next |-> r]
      BY <2>3 DEF Launch
    <3>2. launch' \in [pc : {"idle", "candidate", "job", "gone"}, next : 1 .. NRuns + 1]
      BY <2>1, <3>1, ComparisonRows DEF LaunchRow
    <3>3. PICK q \in Runs : q = r
      BY <2>1
    <3>4. /\ CycleInv'
          /\ origin' = [origin EXCEPT ![q] = "candidate"] /\ lane' = lane
          /\ ~Over(q) /\ ~Delivered(q)
          /\ \A o \in Runs \ {q} : Delivered(o)' = Delivered(o) /\ Rejected(o)' = Rejected(o) /\ (Over(o) => Over(o)')
      BY <2>1, <2>3, <3>2, <3>3, BegunFrame
    <3>5. cmp.status /= "failed" /\ cmp.winner /= q
      BY <3>4 DEF Inv, Judged
    <3>6. Judged'
      BY <2>1, <2>2, <2>3, <3>1, <3>3, <3>4, <3>5, RestTypes DEF Inv, Judged
    <3> QED
      BY <3>4, <3>6 DEF Inv
  <2>4. CASE Launch("gone", r) /\ UNCHANGED vars
    <3>1. launch' = [pc |-> "gone", next |-> r]
      BY <2>4 DEF Launch
    <3>2. launch' \in LaunchRow
      BY <3>1, ComparisonRows DEF LaunchRow
    <3>3. /\ CycleInv' /\ UNCHANGED <<origin, lane>>
          /\ \A o \in Runs : Delivered(o)' = Delivered(o) /\ Rejected(o)' = Rejected(o) /\ Over(o)' = Over(o)
      BY <2>1, <2>4, <3>2, ComparisonRows, ComparisonOnly
    <3>4. Judged'
      BY <2>1, <2>2, <3>1, <3>3, ComparisonRows DEF Inv, Judged
    <3> QED
      BY <3>3, <3>4 DEF Inv
  <2> QED
    BY <1>2, <2>3, <2>4 DEF LaunchCandidate
<1>3. CASE LaunchJob
  <2>1. launch.pc = "job" /\ FirstJob(launch.next) /\ UNCHANGED <<cmp, select, stopping>>
        /\ launch' = [pc |-> "candidate", next |-> launch.next + 1]
    BY <1>3 DEF LaunchJob, Launch
  <2>2. select = NoRun /\ cmp.status \notin {"none", "running", "completed"}
    BY <2>1 DEF Inv, Judged
  <2>3. PICK r \in Runs : r = launch.next
    BY <2>1 DEF Inv, Judged
  <2>4. launch' \in LaunchRow
    BY <2>1, <2>3, ReviewCycleAssumption DEF LaunchRow, Runs
  <2>5. /\ CycleInv'
        /\ origin' = origin /\ lane' = lane
        /\ \A q \in Runs : Delivered(q)' = Delivered(q) /\ Rejected(q)' = Rejected(q) /\ (Over(q) => Over(q)')
    BY <2>1, <2>3, <2>4, FirstJobFrame DEF LaunchRow
  <2>6. Judged'
    BY <2>1, <2>2, <2>5 DEF Inv, Judged
  <2> QED
    BY <2>5, <2>6 DEF Inv
<1>4. CASE LaunchDone
  <2> DEFINE row == [cmp EXCEPT !.status = "running"]
  <2>1. row \in CmpRow /\ row.status = "running" /\ row.winner = cmp.winner /\ row.cancel = cmp.cancel
    BY ComparisonRows DEF CmpRow
  <2>2. launch.pc = "candidate" /\ cmp' = row /\ launch' = [pc |-> "gone", next |-> launch.next]
        /\ UNCHANGED <<vars, select, stopping>>
    BY <1>4 DEF LaunchDone, Launch
  <2> HIDE DEF row
  <2>3. launch' \in LaunchRow
    BY <2>2, ComparisonRows DEF LaunchRow
  <2>4. /\ CycleInv' /\ UNCHANGED <<origin, lane>>
        /\ \A r \in Runs : Delivered(r)' = Delivered(r) /\ Rejected(r)' = Rejected(r) /\ Over(r)' = Over(r)
    BY <2>1, <2>2, <2>3, ComparisonRows, ComparisonOnly
  <2>5. Judged'
    BY <2>1, <2>2, <2>4, ComparisonRows DEF Inv, Judged
  <2> QED
    BY <2>4, <2>5 DEF Inv
<1> QED
  BY <1>1, <1>2, <1>3, <1>4

\* Only what was delivered is selected, after the launch is done.
LEMMA SelectStep ==
    ASSUME Inv, SelectWrite \/ \E r \in Runs : SelectRead(r)
    PROVE  Inv'
<1>1. ASSUME NEW r \in Runs, SelectRead(r) PROVE Inv'
  <2>1. select' = r /\ UNCHANGED <<vars, cmp, launch, stopping>> /\ Selectable(r)
    BY <1>1 DEF SelectRead
  <2>2. task[r].status = "completed" /\ Phase = "ready_for_selection"
    BY <2>1 DEF Selectable
  <2>3. cmp.status \notin {"pending"} \cup CmpEnded /\ AllEnded
    BY <2>2 DEF Phase, CmpEnded
  <2>4. cmp.status = "running"
    BY <2>3, ComparisonRows DEF AllEnded, Linked, Inv, Judged, CmpRow
  <2>5. launch.pc = "gone"
    BY <2>4 DEF Inv, Judged
  <2>6. Delivered(r)
    BY <2>2 DEF Inv, CycleInv, Coherent
  <2>7. /\ CycleInv' /\ UNCHANGED <<origin, lane>>
        /\ \A q \in Runs : Delivered(q)' = Delivered(q) /\ Rejected(q)' = Rejected(q) /\ Over(q)' = Over(q)
    BY <2>1, ComparisonRows, ComparisonOnly
  <2>8. Judged'
    BY <2>1, <2>4, <2>5, <2>6, <2>7 DEF Inv, Judged
  <2> QED
    BY <2>7, <2>8 DEF Inv
<1>2. CASE SelectWrite
  <2> DEFINE row == [cmp EXCEPT !.status = "completed", !.winner = select]
  <2>1. row \in CmpRow /\ row.status = "completed" /\ row.winner = select /\ row.cancel = cmp.cancel
    BY ComparisonRows DEF CmpRow, CmpEnded
  <2>2. select /= NoRun /\ cmp' = row /\ select' = NoRun /\ UNCHANGED <<vars, launch, stopping>>
    BY <1>2 DEF SelectWrite
  <2> HIDE DEF row
  <2>3. /\ CycleInv' /\ UNCHANGED <<origin, lane>>
        /\ \A r \in Runs : Delivered(r)' = Delivered(r) /\ Rejected(r)' = Rejected(r) /\ Over(r)' = Over(r)
    BY <2>1, <2>2, ComparisonRows, ComparisonOnly
  <2>4. Judged'
    BY <2>1, <2>2, <2>3, ReviewCycleAssumption DEF Inv, Judged
  <2> QED
    BY <2>3, <2>4 DEF Inv
<1> QED
  BY <1>1, <1>2

\* A cancellation writes CANCELLED over any status, and its request with it.
LEMMA StopStep ==
    ASSUME Inv, StopRead \/ StopPending \/ StopRunning
    PROVE  Inv'
<1>1. UNCHANGED <<vars, launch, select>> /\ stopping' \in StopRow
  BY ComparisonRows DEF StopRead, StopPending, StopRunning, Stopping, StopRow, CmpRow
<1>2. /\ cmp' \in CmpRow /\ cmp'.winner = cmp.winner /\ (cmp.cancel => cmp'.cancel)
      /\ cmp'.status = cmp.status \/ cmp'.status = "cancelled"
  BY ComparisonRows DEF StopRead, StopPending, StopRunning, CmpRow, CmpEnded
<1>3. /\ CycleInv' /\ UNCHANGED <<origin, lane>>
      /\ \A r \in Runs : Delivered(r)' = Delivered(r) /\ Rejected(r)' = Rejected(r) /\ Over(r)' = Over(r)
  BY <1>1, <1>2, ComparisonRows, ComparisonOnly
<1>4. Judged'
  BY <1>1, <1>2, <1>3 DEF Inv, Judged
<1> QED
  BY <1>3, <1>4 DEF Inv

\* The cancellation of a candidate reads its status first.
LEMMA StopCandidateStep == ASSUME Inv, StopCandidate PROVE Inv'
<1>1. UNCHANGED <<cmp, launch, select>> /\ stopping' \in StopRow
  BY ComparisonRows DEF StopCandidate, Stopping, StopRow
<1>2. UNCHANGED <<origin, task, stage, reviews, held, spent, lane, crashes>> /\ asks' \subseteq Runs
  <2>1. ASSUME NEW r \in stopping.todo, CancelRead(r)
        PROVE  UNCHANGED <<origin, task, stage, reviews, held, spent, lane, crashes>> /\ asks' \subseteq Runs
    BY <2>1, RestTypes, ComparisonRows DEF CancelRead, budget, StopRow
  <2>2. CASE UNCHANGED vars
    BY <2>2, RestTypes DEF vars
  <2> QED
    BY <2>1, <2>2 DEF StopCandidate
<1>3. CycleTypes'
  BY <1>1, <1>2, RowTypes, RestTypes, ComparisonRows, AllTypesAfter DEF CmpRow, LaunchRow, StopRow
<1>4. /\ CycleInv'
      /\ \A r \in Runs : Delivered(r)' = Delivered(r) /\ Rejected(r)' = Rejected(r) /\ Over(r)' = Over(r)
  BY <1>2, <1>3, RowsUnchanged
<1>5. Judged'
  BY <1>1, <1>2, <1>4 DEF Inv, Judged
<1> QED
  BY <1>4, <1>5 DEF Inv

\* The lane that ended a candidate reads the comparison ...
LEMMA NotifyStep == ASSUME Inv, NEW w \in Lanes, Notify(w) PROVE Inv'
<1> PICK r \in Runs : r = lane[w].run
  BY AtWork DEF Notify, At
<1> DEFINE row == [lane[w] EXCEPT !.pc = "transition", !.saw = cmp.cancel]
<1>1. lane[w].pc = "notify" /\ UNCHANGED <<origin, task, stage, reviews, held, spent, asks, crashes, cmpVars>>
  BY DEF Notify, At, budget
<1>2. Placed(w) /\ Grounded(w) /\ Coherent(r) /\ lane[w] \in LaneRow /\ stage[r].k \in Nat
  BY <1>1, AtWork
<1>3. /\ row \in LaneRow /\ row.pc = "transition" /\ row.saw = cmp.cancel
      /\ row.run = r /\ row.k = lane[w].k /\ row.wrote = lane[w].wrote
  BY <1>2, ComparisonRows DEF LaneRow, Pc, CmpRow
<1>4. lane' = [lane EXCEPT ![w] = row]
  BY RowTypes DEF Notify, LaneRow
<1> HIDE DEF row
<1>5. lane' \in [Lanes -> LaneRow] /\ lane'[w] = row /\ \A v \in Lanes \ {w} : lane'[v] = lane[v]
  BY <1>3, <1>4, LaneEffect
<1>6. CycleTypes'
  BY <1>1, <1>5, RowTypes, RestTypes, TypesAfter
<1>7. /\ Delivered(r)' = Delivered(r) /\ Rejected(r)' = Rejected(r) /\ (Over(r) => Over(r)')
      /\ AllRepair(r)' = AllRepair(r) /\ Accepted(r)' = Accepted(r)
  <2>1. Over(r) => Over(r)'
    BY <1>1, <1>3, <1>5 DEF Over, Harmless
  <2> QED
    BY <1>1, <2>1 DEF Delivered, Rejected, NoAccept, AllRepair, Accepted
<1>8. Placed(w)'
  BY <1>1, <1>2, <1>3, <1>5 DEF Placed, Later
<1>9. Grounded(w)'
  BY <1>1, <1>2, <1>3, <1>5, <1>7 DEF Grounded
<1>10. Coherent(r)'
  <2>1. NewStage(0, FALSE)' = NewStage(0, FALSE)
    BY DEF NewStage
  <2> QED
    BY <1>1, <1>2, <1>7, <2>1 DEF Coherent
<1>11. lane[w].pc \notin {"idle", "waiting"} /\ stage'[r].k >= stage[r].k
  BY <1>1, <1>2
<1>12. CycleInv'
  BY <1>1, <1>3, <1>5, <1>6, <1>8, <1>9, <1>10, <1>11, LaneFrame DEF Inv
<1>13. ASSUME NEW q \in Runs
       PROVE  Delivered(q)' = Delivered(q) /\ Rejected(q)' = Rejected(q) /\ (Over(q) => Over(q)')
  BY <1>1, <1>3, <1>5, <1>7, OthersStay
<1>14. \A v \in Lanes : lane'[v].saw => cmp'.cancel
  BY <1>1, <1>3, <1>5 DEF Inv, Judged, cmpVars
<1>15. Judged'
  BY <1>1, <1>13, <1>14 DEF Inv, Judged, cmpVars
<1> QED
  BY <1>12, <1>15 DEF Inv

\* ... and writes FAILED only when every candidate is over without a result.
LEMMA TransitionStep == ASSUME Inv, NEW w \in Lanes, Transition(w) PROVE Inv'
<1> PICK r \in Runs : r = lane[w].run
  BY AtWork DEF Transition, At
<1>1. lane[w].pc = "transition" /\ UNCHANGED <<origin, task, reviews, held, spent, asks, crashes, launch, select, stopping>>
      /\ Release(w) /\ lane[w].pc \notin {"idle"} \cup Later
  BY DEF Transition, At, budget, Later
<1>2. Placed(w) /\ Grounded(w) /\ stage[r] \in StageRow /\ lane[w].k = stage[r].k
  BY <1>1, AtWork DEF Placed
<1>3. stage' = [stage EXCEPT ![r].job = "done"] /\ lane' = [lane EXCEPT ![w] = IdleLane]
  BY <1>1, <1>2 DEF Release, Run
<1>4. stage' \in [Runs -> StageRow] /\ lane' \in [Lanes -> LaneRow]
      /\ lane'[w] = IdleLane /\ (\A v \in Lanes \ {w} : lane'[v] = lane[v]) /\ stage'[r].status = stage[r].status
  <2> DEFINE row == [stage[r] EXCEPT !.job = "done"]
  <2>1. row \in StageRow /\ row.status = stage[r].status
    BY <1>2 DEF StageRow
  <2>2. IdleLane \in LaneRow
    BY DEF LaneRow, IdleLane, Pc
  <2>3. stage' = [stage EXCEPT ![r] = row]
    BY <1>3
  <2> HIDE DEF row
  <2> QED
    BY <1>3, <2>1, <2>2, <2>3, StageEffect, LaneEffect
<1>5. /\ cmp' \in CmpRow /\ cmp'.winner = cmp.winner /\ cmp'.cancel = cmp.cancel
      /\ \/ cmp' = cmp \/ cmp'.status = "cancelled"
         \/ cmp'.status = "failed" /\ AllSeenEnded(w) /\ ~AnySeenCompleted(w)
  BY ComparisonRows DEF Transition, CmpRow, CmpEnded
<1>6. CycleTypes'
  BY <1>1, <1>4, <1>5, RowTypes, RestTypes, ComparisonRows, AllTypesAfter DEF CmpRow, LaunchRow, StopRow
<1>7. /\ CycleInv'
      /\ \A v \in Lanes : lane'[v].saw => lane[v].saw
      /\ \A q \in Runs : Delivered(q)' = Delivered(q) /\ Rejected(q)' = Rejected(q) /\ (Over(q) => Over(q)')
  BY <1>1, <1>3, <1>6, LeaveFrame
<1>8. ASSUME AllSeenEnded(w), ~AnySeenCompleted(w), NEW q \in Runs PROVE Over(q)' /\ Rejected(q)'
  <2>1. StatusSeen(w, q) \in TaskEnded /\ StatusSeen(w, q) /= "completed"
    BY <1>8 DEF AllSeenEnded, AnySeenCompleted
  <2>2. CASE q = r
    <3>1. stage[r].status \in StageEnded /\ Rejected(r)
      BY <1>1, <1>2, <2>1, <2>2 DEF StatusSeen, Run, Grounded
    <3>2. lane'[w].pc \in Harmless /\ stage'[r].status \in StageEnded /\ lane[w].pc \notin {"idle", "waiting"}
      BY <1>1, <1>4, <3>1 DEF Harmless, IdleLane
    <3>3. Over(r)'
      BY <1>4, <3>2, NowOver
    <3> QED
      BY <1>7, <2>2, <3>1, <3>3
  <2>3. CASE q /= r
    <3>1. task[q].status \in TaskEnded /\ task[q].status /= "completed" /\ Coherent(q)
      BY <2>1, <2>3 DEF StatusSeen, Run, Inv, CycleInv
    <3>2. Over(q) /\ Rejected(q)
      BY <3>1 DEF Coherent, TaskEnded
    <3> QED
      BY <1>7, <3>2
  <2> QED
    BY <2>2, <2>3
<1>9. Judged'
  <2>1. cmp'.status = "failed" => \A q \in Runs : Over(q)' /\ Rejected(q)'
    BY <1>5, <1>7, <1>8 DEF Inv, Judged
  <2> QED
    BY <1>1, <1>5, <1>7, <2>1 DEF Inv, Judged
<1> QED
  BY <1>7, <1>9 DEF Inv

-----------------------------------------------------------------------------
(* The theorems *)

\* Every step of a lane keeps the invariant,
LEMMA LaneSteps == ASSUME Inv, NEW w \in Lanes, Step(w) \/ Crash(w), UNCHANGED cmpVars PROVE Inv'
  BY BeginStep, ReserveStep, StartCallStep, AnswerStep, FinishStep, FinalizeStep, UnobservedStep,
     AnotherStep, InsertStageStep, EnqueueStageStep, WaitForAgentStep, ReviewStep, AcceptStep, CrashStep
     DEF Step

\* and so does every step.
LEMMA Inductive == Inv /\ [CmpNext]_allVars => Inv'
<1> SUFFICES ASSUME Inv, [CmpNext]_allVars PROVE Inv'
  OBVIOUS
<1>1. CASE Next /\ UNCHANGED cmpVars
  <2>1. ASSUME NEW r \in Runs, StartTaskRun(r) \/ EnqueueTaskRun(r) \/ CancelWrite(r) PROVE Inv'
    BY <1>1, <2>1, RequestStep, CancelStep
  <2>2. ASSUME NEW r \in Reviewed, CancelRead(r) PROVE Inv'
    <3>1. r \in Runs
      BY ReviewCycleAssumption
    <3> QED
      BY <1>1, <2>2, <3>1, CancelStep
  <2>3. ASSUME NEW w \in Lanes, NEW r \in Runs, Claim(w, r) PROVE Inv'
    BY <1>1, <2>3, ClaimStep
  <2>4. ASSUME NEW w \in Lanes, Step(w) \/ Crash(w) PROVE Inv'
    BY <1>1, <2>4, LaneSteps
  <2> QED
    BY <1>1, <2>1, <2>2, <2>3, <2>4 DEF Next
<1>2. CASE /\ UNCHANGED cmpVars
           /\ \/ \E r \in Runs : CancelWrite(r)
              \/ \E w \in Lanes, r \in Runs : Claim(w, r)
              \/ \E w \in Lanes : Step(w) \/ Crash(w)
  BY <1>2, CancelStep, ClaimStep, LaneSteps
<1>3. CASE CreateComparison
  BY <1>3, CreateStep
<1>4. CASE LaunchRead \/ LaunchCandidate \/ LaunchJob \/ LaunchDone
  BY <1>4, LaunchStep
<1>5. CASE SelectWrite \/ \E r \in Runs : SelectRead(r)
  BY <1>5, SelectStep
<1>6. CASE StopRead \/ StopPending \/ StopRunning \/ StopCandidate
  BY <1>6, StopStep, StopCandidateStep
<1>7. CASE \E w \in Lanes : Notify(w) \/ Transition(w)
  BY <1>7, NotifyStep, TransitionStep
<1>8. CASE UNCHANGED allVars
  <2>1. UNCHANGED <<vars, cmp, launch, select, stopping>>
    BY <1>8 DEF allVars, cmpVars
  <2>2. /\ CycleInv' /\ UNCHANGED <<origin, lane>>
        /\ \A r \in Runs : Delivered(r)' = Delivered(r) /\ Rejected(r)' = Rejected(r) /\ Over(r)' = Over(r)
    BY <2>1, ComparisonRows, ComparisonOnly
  <2>3. Judged'
    BY <2>1, <2>2 DEF Inv, Judged
  <2> QED
    BY <2>2, <2>3 DEF Inv
<1> QED
  BY <1>1, <1>2, <1>3, <1>4, <1>5, <1>6, <1>7, <1>8 DEF CmpNext

\* Every behaviour of the comparison and of its candidates' review cycles keeps
\* the rows of a Task Run coherent, whatever the lanes overwrite.
THEOREM InvHolds == CmpSpec => []Inv
  BY Initially, Inductive, PTL DEF CmpSpec

\* A stage created behind a cancellation never reaches the provider, though
\* WAITING_FOR_AGENT may be written over CANCELLING before it is claimed: the
\* checkpoints look at the request.
THEOREM LateStages == CmpSpec => []LateStageNeverCalls
<1>1. Inv => LateStageNeverCalls
  BY DEF Inv, CycleInv, Coherent, LateStageNeverCalls
<1> QED
  BY <1>1, InvHolds, PTL

\* What a reviewed Task Run hands out is what its last review accepted, and no
\* accepted review is ever reported as a failure or a cancellation.
THEOREM FinalAccepted == CmpSpec => []FinalWasAccepted
<1>1. ASSUME Inv PROVE FinalWasAccepted
  <2> SUFFICES ASSUME NEW r \in Reviewed
               PROVE  /\ "accept" \in Range(reviews[r]) => Reported(r) \in {"accepted", "in_progress"}
                      /\ task[r].final /= None =>
                           /\ Len(reviews[r]) = task[r].final + 1
                           /\ reviews[r][task[r].final + 1] = "accept"
                           /\ \A i \in 1 .. task[r].final : reviews[r][i] = "repair"
                           /\ task[r].status \notin {"failed", "cancelled"}
                      /\ task[r].status = "completed" => task[r].final /= None
    BY DEF FinalWasAccepted
  <2>1. r \in Runs /\ Coherent(r) /\ reviews[r] \in Seq(Decision) /\ task[r] \in TaskRow
    BY <1>1, RowTypes, ReviewCycleAssumption DEF Inv, CycleInv
  <2>2. task[r].status = "completed" => task[r].final /= None
    BY <2>1 DEF Coherent, Delivered
  <2>3. task[r].status \in {"failed", "cancelled"} => NoAccept(r) /\ task[r].final = None
    BY <2>1 DEF Coherent, Rejected, Delivered
  <2>4. ASSUME "accept" \in Range(reviews[r]) PROVE Reported(r) \in {"accepted", "in_progress"}
    <3>1. PICK i \in 1 .. Len(reviews[r]) : reviews[r][i] = "accept"
      BY <2>1, <2>4 DEF Range
    <3>2. task[r].status \notin {"failed", "cancelled"}
      BY <2>3, <3>1 DEF NoAccept
    <3> QED
      BY <2>2, <3>2 DEF Reported
  <2>5. ASSUME task[r].final /= None
        PROVE  /\ Len(reviews[r]) = task[r].final + 1
               /\ reviews[r][task[r].final + 1] = "accept"
               /\ \A i \in 1 .. task[r].final : reviews[r][i] = "repair"
               /\ task[r].status \notin {"failed", "cancelled"}
    <3>1. task[r].final = Len(reviews[r]) - 1 /\ Accepted(r) /\ Len(reviews[r]) \in Nat
      BY <2>1, <2>5 DEF Coherent
    <3>2. task[r].final + 1 = Len(reviews[r]) /\ 1 .. task[r].final = 1 .. Len(reviews[r]) - 1
      BY <3>1
    <3> QED
      BY <2>3, <2>5, <3>1, <3>2 DEF Accepted
  <2> QED
    BY <2>2, <2>4, <2>5
<1> QED
  BY <1>1, InvHolds, PTL

\* The verdict of the comparison agrees with what its candidates have done:
\* the winner was delivered, and FAILED leaves nothing to select.
THEOREM OutcomeHolds == CmpSpec => []OutcomeInv
<1>1. ASSUME Inv PROVE OutcomeInv
  <2>1. ComparisonTypeOK /\ cmp.winner \in Runs \cup {NoRun}
    BY <1>1, ComparisonRows DEF Inv, CycleInv, CycleTypes, CmpRow
  <2>2. WinnerWasDelivered
    BY <1>1, <2>1 DEF Inv, Judged, WinnerWasDelivered
  <2>3. FailedHasNoSurvivor
    BY <1>1 DEF Inv, Judged, Rejected, FailedHasNoSurvivor
  <2> QED
    BY <2>1, <2>2, <2>3 DEF OutcomeInv
<1> QED
  BY <1>1, InvHolds, PTL

\* When a notified lane sees every candidate ended and none completed, none has
\* delivered anything: what it read of the others is still true.
LEMMA SeenIsTrue ==
    ASSUME Inv, NEW w \in Lanes, lane[w].pc = "transition",
           AllSeenEnded(w), ~AnySeenCompleted(w), NEW q \in Runs
    PROVE  Rejected(q)
<1>1. StatusSeen(w, q) \in TaskEnded /\ StatusSeen(w, q) /= "completed" /\ Grounded(w) /\ Coherent(q)
  BY AtWork DEF AllSeenEnded, AnySeenCompleted, Inv, CycleInv
<1>2. CASE q = lane[w].run
  BY <1>1, <1>2 DEF StatusSeen, Run, Grounded
<1>3. CASE q /= lane[w].run
  BY <1>1, <1>3 DEF StatusSeen, Run, Coherent, TaskEnded
<1> QED
  BY <1>2, <1>3

\* Nothing that is under way changes the status or the winner of a completed comparison.
LEMMA ChoiceKept ==
    ASSUME Inv, [CmpNext]_allVars, cmp.status = "completed", ~cmp'.cancel
    PROVE  cmp'.status = "completed" /\ cmp'.winner = cmp.winner
<1>1. /\ cmp.winner \in Runs /\ Delivered(cmp.winner) /\ launch.pc = "gone" /\ select = NoRun
  BY ComparisonRows DEF Inv, Judged, CmpRow
<1>2. ASSUME NEW w \in Lanes, Transition(w) PROVE cmp' = cmp
  <2>1. lane[w].pc = "transition" /\ cmp' \in {cmp, [cmp EXCEPT !.status = "cancelled"], [cmp EXCEPT !.status = "failed"]}
    BY <1>2 DEF Transition, At
  <2>2. cmp'.cancel = cmp.cancel
    BY <2>1, ComparisonRows DEF CmpRow
  <2>3. ~lane[w].saw
    BY <2>2 DEF Inv, Judged
  <2>4. ~(AllSeenEnded(w) /\ ~AnySeenCompleted(w))
    BY <1>1, <2>1, SeenIsTrue DEF Rejected
  <2> QED
    BY <1>2, <2>3, <2>4 DEF Transition
<1>3. ~LaunchDone /\ ~SelectWrite /\ ~CreateComparison
  BY <1>1 DEF LaunchDone, SelectWrite, CreateComparison
<1>4. ~StopPending /\ ~StopRunning
  BY ComparisonRows DEF StopPending, StopRunning, CmpRow
<1>5. cmp' = cmp
  BY <1>2, <1>3, <1>4
     DEF CmpNext, cmpVars, allVars, LaunchRead, LaunchCandidate, LaunchJob, SelectRead, StopRead, StopCandidate, Notify
<1> QED
  BY <1>5

\* A person's choice stands: no launch and no late notification that was under
\* way when it was made changes the status or the winner.
THEOREM ChoiceStands == CmpSpec => SelectionStands
<1>1. Inv /\ [CmpNext]_allVars
      => [cmp.status = "completed" /\ ~cmp'.cancel => cmp'.status = "completed" /\ cmp'.winner = cmp.winner]_allVars
  BY ChoiceKept
<1> QED
  BY <1>1, InvHolds, PTL DEF CmpSpec, SelectionStands

-----------------------------------------------------------------------------
(* Sums *)

LEMMA LeastNatural ==
  ASSUME NEW S \in SUBSET Nat, S # {}
  PROVE  \E x \in S : \A y \in S : x <= y
<1>1. PICK x \in S : \A y \in S : ~(<<y, x>> \in OpToRel(<, Nat))
  BY NatLessThanWellFounded, WFMin
<1>2. \A y \in S : x <= y
  <2> SUFFICES ASSUME NEW y \in S, y < x PROVE FALSE
    OBVIOUS
  <2>1. <<y, x>> \in OpToRel(<, Nat)
    BY DEF OpToRel
  <2>2. QED
    BY <1>1, <2>1
<1>3. QED
  BY <1>2

\* Induction up to N, on a set in place of a predicate.
LEMMA InductionUpTo ==
  ASSUME NEW N \in Nat, NEW S, 0 \in S, \A k \in 0 .. N - 1 : k \in S => k + 1 \in S
  PROVE  0 .. N \subseteq S
<1> SUFFICES ASSUME 0 .. N \ S # {} PROVE FALSE
  OBVIOUS
<1>1. PICK x \in 0 .. N \ S : \A y \in 0 .. N \ S : x <= y
  BY LeastNatural, 0 .. N \ S \in SUBSET Nat
<1>2. x # 0 /\ x - 1 \in 0 .. N - 1 /\ x - 1 \in S
  BY <1>1
<1>3. QED
  BY <1>1, <1>2

\* A sum takes one element after the other.
AnyOf(s) == CHOOSE x \in s : TRUE
Small(S, m) == {s \in SUBSET S : Cardinality(s) <= m}
SumRest(f, it, s) == IF s = {} THEN 0 ELSE f[AnyOf(s)] + it[s \ {AnyOf(s)}]
AddsUp(f, it, family) == \A s \in family : it[s] = SumRest(f, it, s)

LEMMA SmallSets ==
  ASSUME NEW S, IsFiniteSet(S), NEW m \in Nat
  PROVE  /\ Small(S, 0) = {{}}
         /\ Small(S, Cardinality(S)) = SUBSET S
         /\ \A s \in Small(S, m + 1) : s # {} => 
               AnyOf(s) \in s /\ s \ {AnyOf(s)} \in Small(S, m)
         /\ Small(S, m) \subseteq Small(S, m + 1)
<1>1. \A s \in SUBSET S : IsFiniteSet(s) /\ Cardinality(s) \in Nat /\ Cardinality(s) <= Cardinality(S)
  BY FS_Subset, FS_CardinalityType
<1>2. \A s \in SUBSET S : Cardinality(s) = 0 <=> s = {}
  BY <1>1, FS_EmptySet
<1>3. Small(S, 0) = {{}}
  BY <1>1, <1>2 DEF Small
<1>4. \A s \in SUBSET S, x \in S : x \in s => Cardinality(s \ {x}) = Cardinality(s) - 1
  BY <1>1, FS_RemoveElement
<1>5. \A s \in Small(S, m + 1) : s # {} => AnyOf(s) \in s /\ s \ {AnyOf(s)} \in Small(S, m)
  <2> SUFFICES ASSUME NEW s \in Small(S, m + 1), s # {}
               PROVE  AnyOf(s) \in s /\ s \ {AnyOf(s)} \in Small(S, m)
    OBVIOUS
  <2>1. AnyOf(s) \in s
    BY DEF AnyOf
  <2> DEFINE x == AnyOf(s)
  <2>2. s \in SUBSET S /\ x \in S /\ Cardinality(s) <= m + 1 /\ s \ {x} \in SUBSET S
    BY <2>1 DEF Small
  <2> HIDE DEF x
  <2>3. Cardinality(s \ {x}) <= m
    BY <1>1, <1>4, <2>1, <2>2 DEF x
  <2>4. QED
    BY <2>1, <2>2, <2>3 DEF Small, x
<1>6. QED
  BY <1>1, <1>3, <1>5 DEF Small

LEMMA SumsExist ==
  ASSUME NEW S, IsFiniteSet(S), NEW f \in [S -> Nat]
  PROVE  \E it \in [SUBSET S -> Nat] : AddsUp(f, it, SUBSET S)
<1> DEFINE N == Cardinality(S)
           P == {m \in 0 .. N : \E it \in [Small(S, m) -> Nat] : AddsUp(f, it, Small(S, m))}
<1>0. N \in Nat
  BY FS_CardinalityType
<1>1. 0 \in P
  <2> DEFINE it == [s \in Small(S, 0) |-> 0]
  <2>1. it \in [Small(S, 0) -> Nat] /\ AddsUp(f, it, Small(S, 0))
    BY SmallSets DEF AddsUp, SumRest
  <2> HIDE DEF it
  <2>2. QED
    BY <1>0, <2>1
<1>2. ASSUME NEW m \in 0 .. N - 1, m \in P PROVE m + 1 \in P
  <2>1. PICK it \in [Small(S, m) -> Nat] : AddsUp(f, it, Small(S, m))
    BY <1>2
  <2> DEFINE wider == [s \in Small(S, m + 1) |-> SumRest(f, it, s)]
  <2>2. /\ \A s \in Small(S, m + 1) : s # {} => AnyOf(s) \in S /\ s \ {AnyOf(s)} \in Small(S, m)
        /\ Small(S, m) \subseteq Small(S, m + 1)
    <3>1. m \in Nat
      BY <1>0
    <3>2. \A s \in Small(S, m + 1) : s \in SUBSET S
      BY DEF Small
    <3>3. QED
      BY <3>1, <3>2, SmallSets
  <2>3. \A s \in Small(S, m + 1) : SumRest(f, it, s) \in Nat
    <3> SUFFICES ASSUME NEW s \in Small(S, m + 1), s # {} PROVE SumRest(f, it, s) \in Nat
      BY DEF SumRest
    <3>1. f[AnyOf(s)] \in Nat /\ it[s \ {AnyOf(s)}] \in Nat
      BY <2>2
    <3>2. QED
      BY <3>1 DEF SumRest
  <2>4. \A s \in Small(S, m) : wider[s] = it[s]
    BY <2>1, <2>2 DEF AddsUp
  <2>5. \A s \in Small(S, m + 1) : SumRest(f, wider, s) = SumRest(f, it, s)
    BY <2>2, <2>4 DEF SumRest
  <2>6. wider \in [Small(S, m + 1) -> Nat] /\ AddsUp(f, wider, Small(S, m + 1))
    BY <2>3, <2>5 DEF AddsUp
  <2>7. m + 1 \in 0 .. N
    BY <1>0
  <2> HIDE DEF wider
  <2>8. QED
    BY <2>6, <2>7
<1> HIDE DEF P
<1>3. N \in P
  BY <1>0, <1>1, <1>2, InductionUpTo
<1>4. Small(S, N) = SUBSET S
  BY SmallSets
<1>5. QED
  BY <1>3, <1>4 DEF P

LEMMA SumIsAddedUp ==
  ASSUME NEW S, IsFiniteSet(S), NEW f \in [S -> Nat]
  PROVE  \E it : it = [s \in SUBSET S |-> SumRest(f, it, s)] /\ SumFunction(f) = it[S]
<1>1. PICK it \in [SUBSET S -> Nat] : AddsUp(f, it, SUBSET S)
  BY SumsExist
<1>2. it = [s \in SUBSET S |-> SumRest(f, it, s)]
  BY <1>1 DEF AddsUp
<1> DEFINE sum == CHOOSE g : g = [s \in SUBSET S |-> SumRest(f, g, s)]
<1>3. sum = [s \in SUBSET S |-> SumRest(f, sum, s)]
  BY <1>2
<1>4. SumFunction(f) = sum[S]
  BY DEF SumFunction, SumFunctionOnSet, FoldFunctionOnSet, MapThenFoldSet, SumRest, AnyOf
<1>5. QED
  BY <1>3, <1>4

\* What a set adds up to, and how two sums differ.
Within(S, it, b) == {s \in SUBSET S : it[s] \in Nat /\ it[s] <= Cardinality(s) * b}
Differing(S, u, v, f, g, r) ==
    {s \in SUBSET S : u[s] \in Int /\ v[s] = u[s] + (IF r \in s THEN g[r] - f[r] ELSE 0)}

\* A sum is a number, and what bounds the summands bounds it.
LEMMA SumIsBounded ==
  ASSUME NEW S, IsFiniteSet(S), NEW f \in [S -> Nat], NEW b \in Nat, \A x \in S : f[x] <= b
  PROVE  SumFunction(f) \in Nat /\ SumFunction(f) <= Cardinality(S) * b
<1> DEFINE N == Cardinality(S)
<1>0. N \in Nat /\ \A s \in SUBSET S : IsFiniteSet(s) /\ Cardinality(s) \in Nat
  BY FS_CardinalityType, FS_Subset
<1>1. PICK it : it = [s \in SUBSET S |-> SumRest(f, it, s)] /\ SumFunction(f) = it[S]
  BY SumIsAddedUp
<1> DEFINE P == {m \in 0 .. N : Small(S, m) \subseteq Within(S, it, b)}
<1>2. 0 \in P
  <2>1. it[{}] = 0 /\ Cardinality({}) = 0
    BY <1>1, FS_EmptySet DEF SumRest
  <2>2. {} \in Within(S, it, b)
    BY <2>1 DEF Within
  <2>3. Small(S, 0) \subseteq Within(S, it, b)
    BY <2>2, SmallSets
  <2>4. 0 \in 0 .. N
    BY <1>0
  <2>5. QED
    BY <2>3, <2>4
<1>3. ASSUME NEW m \in 0 .. N - 1, m \in P PROVE m + 1 \in P
  <2>1. ASSUME NEW s \in Small(S, m + 1), s # {} PROVE s \in Within(S, it, b)
    <3> DEFINE x == AnyOf(s)
               c == Cardinality(s)
    <3>1. x \in s /\ s \ {x} \in Small(S, m) /\ s \in SUBSET S
      <4>1. m \in Nat
        BY <1>0
      <4>2. QED
        BY <2>1, <4>1, SmallSets DEF Small
    <3>2. s \ {x} \in Within(S, it, b) /\ x \in S
      <4> HIDE DEF x
      <4>1. QED
        BY <1>3, <3>1
    <3>3. c \in Nat /\ Cardinality(s \ {x}) = c - 1
      <4> HIDE DEF x
      <4>1. QED
        BY <1>0, <3>1, FS_RemoveElement
    <3>4. it[s] = f[x] + it[s \ {x}]
      BY <1>1, <2>1, <3>1 DEF SumRest
    <3>5. f[x] \in Nat /\ f[x] <= b
      BY <3>2
    <3>6. (c - 1) * b + b = c * b
      <4> HIDE DEF c
      <4>1. QED
        BY <3>3
    <3> DEFINE p == (c - 1) * b
               q == c * b
    <3>7. p \in Int /\ q \in Int /\ p + b = q
      <4>1. c \in Nat
        BY <3>3
      <4> HIDE DEF c
      <4>2. QED
        BY <3>6, <4>1
    <3>8. it[s \ {x}] \in Nat /\ it[s \ {x}] <= p
      BY <3>2, <3>3 DEF Within
    <3> HIDE DEF p, c, x
    <3>9. it[s] \in Nat /\ it[s] <= q
      BY <3>4, <3>5, <3>7, <3>8
    <3>10. QED
      BY <3>1, <3>9 DEF c, q, Within
  <2>2. {} \in Within(S, it, b)
    <3>1. it[{}] = 0 /\ Cardinality({}) = 0
      BY <1>1, FS_EmptySet DEF SumRest
    <3>2. QED
      BY <3>1 DEF Within
  <2>3. Small(S, m + 1) \subseteq Within(S, it, b)
    BY <2>1, <2>2
  <2>4. m + 1 \in 0 .. N
    BY <1>0
  <2>5. QED
    BY <2>3, <2>4
<1> HIDE DEF P
<1>4. N \in P
  BY <1>0, <1>2, <1>3, InductionUpTo
<1>5. S \in Small(S, N)
  BY SmallSets
<1>6. S \in Within(S, it, b)
  <2>1. QED
    BY <1>4, <1>5 DEF P
<1>7. QED
  BY <1>1, <1>6 DEF Within

\* Changing one summand changes the sum by as much.
LEMMA SumMoves ==
  ASSUME NEW S, IsFiniteSet(S), NEW f \in [S -> Nat], NEW g \in [S -> Nat],
         NEW r \in S, \A x \in S \ {r} : g[x] = f[x]
  PROVE  SumFunction(g) = SumFunction(f) - f[r] + g[r]
<1> DEFINE N == Cardinality(S)
<1>0. N \in Nat
  BY FS_CardinalityType
<1>1. PICK a : a = [s \in SUBSET S |-> SumRest(f, a, s)] /\ SumFunction(f) = a[S]
  BY SumIsAddedUp
<1>2. PICK b : b = [s \in SUBSET S |-> SumRest(g, b, s)] /\ SumFunction(g) = b[S]
  BY SumIsAddedUp
<1> DEFINE P == {m \in 0 .. N : Small(S, m) \subseteq Differing(S, a, b, f, g, r)}
<1>3. {} \in Differing(S, a, b, f, g, r)
  BY <1>1, <1>2 DEF SumRest, Differing
<1>4. 0 \in P
  <2>1. Small(S, 0) \subseteq Differing(S, a, b, f, g, r)
    BY <1>3, SmallSets
  <2>2. 0 \in 0 .. N
    BY <1>0
  <2>3. QED
    BY <2>1, <2>2
<1>5. ASSUME NEW m \in 0 .. N - 1, m \in P PROVE m + 1 \in P
  <2>1. ASSUME NEW s \in Small(S, m + 1), s # {} PROVE s \in Differing(S, a, b, f, g, r)
    <3> DEFINE x == AnyOf(s)
    <3>1. x \in s /\ s \ {x} \in Small(S, m) /\ s \in SUBSET S
      <4>1. m \in Nat
        BY <1>0
      <4>2. QED
        BY <2>1, <4>1, SmallSets DEF Small
    <3>2. s \ {x} \in Differing(S, a, b, f, g, r) /\ x \in S
      <4> HIDE DEF x
      <4>1. QED
        BY <1>5, <3>1
    <3>3. a[s] = f[x] + a[s \ {x}] /\ b[s] = g[x] + b[s \ {x}]
      BY <1>1, <1>2, <2>1, <3>1 DEF SumRest
    <3> HIDE DEF x
    <3>4. CASE x = r
      BY <3>1, <3>2, <3>3, <3>4 DEF Differing
    <3>5. CASE x # r
      BY <3>1, <3>2, <3>3, <3>5 DEF Differing
    <3>6. QED
      BY <3>4, <3>5
  <2>2. Small(S, m + 1) \subseteq Differing(S, a, b, f, g, r)
    BY <1>3, <2>1
  <2>3. m + 1 \in 0 .. N
    BY <1>0
  <2>4. QED
    BY <2>2, <2>3
<1> HIDE DEF P
<1>6. N \in P
  BY <1>0, <1>4, <1>5, InductionUpTo
<1>7. S \in Small(S, N)
  BY SmallSets
<1>8. S \in Differing(S, a, b, f, g, r)
  <2>1. QED
    BY <1>6, <1>7 DEF P
<1>9. QED
  BY <1>1, <1>2, <1>8 DEF Differing

-----------------------------------------------------------------------------
(* The budget *)

\* The most a call may cost, or be expected to cost.
Worst == Max(Costs \cup {Estimate})

LEMMA Greatest ==
  ASSUME NEW S \in SUBSET Nat, IsFiniteSet(S), S # {}
  PROVE  \E x \in S : \A y \in S : x >= y
<1> DEFINE N == Cardinality(S)
           Has(s) == \E x \in s : \A y \in s : x >= y
           P == {m \in 0 .. N : \A s \in Small(S, m) : s # {} => Has(s)}
<1>0. N \in Nat
  BY FS_CardinalityType
<1>1. 0 \in P
  BY <1>0, SmallSets
<1>2. ASSUME NEW m \in 0 .. N - 1, m \in P PROVE m + 1 \in P
  <2>1. ASSUME NEW s \in Small(S, m + 1), s # {} PROVE Has(s)
    <3> DEFINE a == AnyOf(s)
    <3>1. a \in s /\ s \ {a} \in Small(S, m) /\ s \in SUBSET S
      <4>1. m \in Nat
        BY <1>0
      <4>2. QED
        BY <2>1, <4>1, SmallSets DEF Small
    <3> HIDE DEF a
    <3>2. CASE s \ {a} = {}
      <4>1. \A y \in s : y = a /\ y \in Nat
        BY <3>1, <3>2
      <4>2. QED
        BY <3>1, <4>1
    <3>3. CASE s \ {a} # {}
      <4>1. PICK b \in s \ {a} : \A y \in s \ {a} : b >= y
        BY <1>2, <3>1, <3>3
      <4>2. \A y \in s : y \in Nat
        BY <3>1
      <4>3. CASE a >= b
        <5>1. \A y \in s : a >= y
          BY <3>1, <4>1, <4>2, <4>3
        <5>2. QED
          BY <3>1, <5>1
      <4>4. CASE ~(a >= b)
        <5>1. \A y \in s : b >= y
          BY <3>1, <4>1, <4>2, <4>4
        <5>2. QED
          BY <4>1, <5>1
      <4>5. QED
        BY <4>3, <4>4
    <3>4. QED
      BY <3>2, <3>3
  <2>2. m + 1 \in 0 .. N
    BY <1>0
  <2>3. QED
    BY <2>1, <2>2
<1> HIDE DEF P
<1>3. N \in P
  BY <1>0, <1>1, <1>2, InductionUpTo
<1>4. S \in Small(S, N)
  BY SmallSets
<1>5. QED
  BY <1>3, <1>4 DEF P

LEMMA WorstIsWorst == Worst \in Nat /\ Estimate <= Worst /\ \A c \in Costs : c <= Worst
<1> DEFINE S == Costs \cup {Estimate}
<1>1. S \in SUBSET Nat /\ S # {}
  BY ReviewCycleAssumption DEF ReviewCycleAssumption
<1>2. IsFiniteSet(S)
  BY ReviewCycleAssumption, FS_AddElement DEF ReviewCycleAssumption
<1> HIDE DEF S
<1>3. \E x \in S : \A y \in S : x >= y
  BY <1>1, <1>2, Greatest
<1>4. Max(S) \in S /\ \A y \in S : Max(S) >= y
  BY <1>3 DEF Max
<1>5. Worst = Max(S) /\ Estimate \in S /\ \A c \in Costs : c \in S
  BY DEF Worst, S
<1>6. QED
  BY <1>1, <1>4, <1>5

\* What lane w may still add to the budget: the call it was allowed, as long as
\* its cost is not settled.
Ahead(w) ==
    IF lane[w].pc = "reserve" THEN Worst
    ELSE IF lane[w].pc \in {"call", "answer"} /\ HasBudget(lane[w].run)
         THEN Worst - held[lane[w].run]
    ELSE 0
Plans == [w \in Lanes |-> Ahead(w)]
Promised == SumFunction(Plans)

\* A lane asks before it adds, and whatever the others were allowed meanwhile is at
\* most one call each.
BudgetKept == Total + Promised < Limit + Cardinality(Lanes) * Worst

LEMMA FiniteBudget == IsFiniteSet(Runs) /\ IsFiniteSet(Lanes) /\ Estimate \in Nat /\ Limit \in Nat \ {0}
  BY FS_Interval, ReviewCycleAssumption DEF ReviewCycleAssumption, Runs

BudgetRows ==
    /\ held \in [Runs -> Nat] /\ spent \in Nat
    /\ \A r \in Runs : held[r] <= Worst
    /\ \A w \in Lanes : Ahead(w) \in 0 .. Worst
    /\ Plans \in [Lanes -> Nat] /\ \A w \in Lanes : Plans[w] = Ahead(w)

LEMMA BudgetTypes == Inv => BudgetRows
<1> SUFFICES ASSUME Inv PROVE BudgetRows
  OBVIOUS
<1>2. held \in [Runs -> {0, Estimate}] /\ spent \in Nat
  BY RowTypes, RestTypes
<1>3. \A r \in Runs : held[r] \in Nat /\ held[r] <= Worst
  BY FiniteBudget, <1>2, WorstIsWorst
<1>4. ASSUME NEW w \in Lanes PROVE Ahead(w) \in 0 .. Worst
  <2>1. lane[w].pc \in {"call", "answer"} => lane[w].run \in Runs
    BY AtWork
  <2>2. QED
    BY <1>3, <2>1, WorstIsWorst DEF Ahead
<1>5. QED
  BY <1>2, <1>3, <1>4, WorstIsWorst DEF Plans, BudgetRows

\* The sums are numbers.
BudgetTotals ==
    /\ Total = spent + SumFunction(held) /\ SumFunction(held) \in Nat /\ Total \in Nat
    /\ Promised \in Nat /\ Promised <= Cardinality(Lanes) * Worst

LEMMA BudgetSums == Inv => BudgetTotals
<1> SUFFICES ASSUME BudgetRows PROVE BudgetTotals
  BY BudgetTypes
<1>1. SumFunction(held) \in Nat
  BY FiniteBudget, WorstIsWorst, SumIsBounded DEF BudgetRows
<1>2. Promised \in Nat /\ Promised <= Cardinality(Lanes) * Worst
  <2>1. \A w \in Lanes : Plans[w] <= Worst
    BY WorstIsWorst DEF BudgetRows
  <2>2. QED
    BY <2>1, FiniteBudget, WorstIsWorst, SumIsBounded DEF Promised, BudgetRows
<1>3. QED
  BY <1>1, <1>2 DEF Total, BudgetTotals, BudgetRows

\* A step of lane w on Task Run r that adds no more than was allowed.
LEMMA WithinPlan ==
  ASSUME Inv, Inv', BudgetKept, NEW w \in Lanes, NEW r \in Runs,
         \A q \in Runs \ {r} : held'[q] = held[q],
         \A v \in Lanes \ {w} : Ahead(v)' = Ahead(v),
         spent' + held'[r] + Ahead(w)' <= spent + held[r] + Ahead(w)
  PROVE  BudgetKept'
<1>1. BudgetRows /\ BudgetTotals
  BY BudgetTypes, BudgetSums
<1>2. BudgetRows' /\ BudgetTotals'
  BY BudgetTypes, BudgetSums, PTL
<1>3. SumFunction(held') = SumFunction(held) - held[r] + held'[r]
  BY <1>1, <1>2, FiniteBudget, SumMoves DEF BudgetRows
<1>4. Promised' = Promised - Ahead(w) + Ahead(w)'
  <2>1. Plans \in [Lanes -> Nat] /\ Plans' \in [Lanes -> Nat]
    BY <1>1, <1>2 DEF BudgetRows
  <2>2. Plans[w] = Ahead(w) /\ Plans'[w] = Ahead(w)'
    BY <1>1, <1>2 DEF BudgetRows
  <2>3. \A v \in Lanes \ {w} : Plans'[v] = Plans[v]
    BY <1>1, <1>2 DEF BudgetRows
  <2>4. SumFunction(Plans') = SumFunction(Plans) - Plans[w] + Plans'[w]
    BY <2>1, <2>3, FiniteBudget, SumMoves
  <2>5. QED
    BY <2>2, <2>4 DEF Promised
<1> DEFINE bound == Limit + Cardinality(Lanes) * Worst
<1>5. bound \in Int
  BY FiniteBudget, WorstIsWorst, FS_CardinalityType
<1>6. /\ Ahead(w) \in Int /\ Ahead(w)' \in Int /\ held[r] \in Int /\ held'[r] \in Int
      /\ spent \in Int /\ spent' \in Int /\ SumFunction(held) \in Int /\ Promised \in Int
      /\ Total = spent + SumFunction(held) /\ Total' = spent' + SumFunction(held')
  BY <1>1, <1>2, WorstIsWorst DEF BudgetRows, BudgetTotals
<1>7. Total + Promised < bound
  BY DEF BudgetKept
<1>8. Total' + Promised' < bound
  <2> HIDE DEF bound
  <2>1. QED
    BY <1>3, <1>4, <1>5, <1>6, <1>7
<1>9. QED
  BY <1>8 DEF BudgetKept

\* A step that changes no reservation, and no lane that is about to spend.
LEMMA NobodySpends ==
  ASSUME Inv, Inv', BudgetKept, UNCHANGED <<held, spent>>,
         \A v \in Lanes : Ahead(v)' = Ahead(v)
  PROVE  BudgetKept'
<1>1. Plans' = Plans
  BY DEF Plans
<1>2. QED
  BY <1>1 DEF BudgetKept, Promised, Total

\* What lane v may add rests on its place, its Task Run and the reservation of that.
LEMMA AheadStays ==
  ASSUME Inv, NEW v \in Lanes, lane'[v] = lane[v],
         lane[v].pc /= "idle" =>
            /\ origin'[lane[v].run] = origin[lane[v].run]
            /\ lane[v].pc \in {"call", "answer"} => held'[lane[v].run] = held[lane[v].run]
  PROVE  Ahead(v)' = Ahead(v)
BY DEF Ahead, HasBudget

\* A lane that leaves the place where it may spend, or does not come to one.
LEMMA OneLaneRests ==
  ASSUME Inv, Inv', BudgetKept, UNCHANGED <<origin, held, spent>>, NEW w \in Lanes,
         \A v \in Lanes \ {w} : lane'[v] = lane[v],
         lane'[w].pc \notin {"reserve", "call", "answer"}
  PROVE  BudgetKept'
<1>1. \A v \in Lanes \ {w} : Ahead(v)' = Ahead(v)
  BY AheadStays
<1>2. Ahead(w)' = 0
  BY DEF Ahead
<1>3. Ahead(w) \in 0 .. Worst
  BY BudgetTypes DEF BudgetRows
<1>4. Plans \in [Lanes -> Nat] /\ Plans' \in [Lanes -> Nat]
      /\ \A v \in Lanes : Plans[v] = Ahead(v) /\ Plans'[v] = Ahead(v)'
  <2>1. BudgetRows /\ BudgetRows'
    BY BudgetTypes, PTL
  <2>2. QED
    BY <2>1 DEF BudgetRows
<1>5. Promised' = Promised - Plans[w] + Plans'[w]
  BY <1>1, <1>4, FiniteBudget, SumMoves DEF Promised
<1>6. Promised \in Nat /\ Total \in Nat /\ Plans[w] \in Nat /\ Plans'[w] = 0
  BY <1>2, <1>4, BudgetSums DEF BudgetTotals
<1>7. Promised' <= Promised /\ Promised' \in Int /\ Total' = Total
  BY <1>5, <1>6 DEF Total
<1> DEFINE bound == Limit + Cardinality(Lanes) * Worst
<1>8. bound \in Int
  BY FiniteBudget, WorstIsWorst, FS_CardinalityType
<1>9. Total + Promised < bound
  BY DEF BudgetKept
<1>10. Total' + Promised' < bound
  <2> HIDE DEF bound
  <2>1. \A t, p, q, b \in Int : t + p < b /\ q <= p => t + q < b
    OBVIOUS
  <2>2. Total \in Int /\ Promised \in Int
    BY <1>6
  <2>3. Total + Promised' < bound
    BY <1>7, <1>8, <1>9, <2>1, <2>2
  <2>4. QED
    BY <1>7, <2>3
<1>11. QED
  BY <1>10 DEF BudgetKept

\* What each kind of step does to the lane it is of.
LEMMA Rests ==
  ASSUME Inv, Inv', BudgetKept, UNCHANGED <<origin, held, spent>>, NEW w \in Lanes,
         Release(w) \/ \E pc \in Pc \ {"reserve", "call", "answer"} : Goto(w, pc)
  PROVE  BudgetKept'
<1>1. CASE Release(w)
  <2>1. lane' = [lane EXCEPT ![w] = IdleLane] /\ IdleLane \in LaneRow /\ IdleLane.pc = "idle"
    BY <1>1 DEF Release, LaneRow, IdleLane, Pc
  <2>2. lane'[w] = IdleLane /\ \A v \in Lanes \ {w} : lane'[v] = lane[v]
    BY <2>1, LaneEffect
  <2>3. lane'[w].pc \notin {"reserve", "call", "answer"}
    BY <2>1, <2>2
  <2>4. QED
    BY <2>2, <2>3, OneLaneRests
<1>2. CASE \E pc \in Pc \ {"reserve", "call", "answer"} : Goto(w, pc)
  <2>1. PICK pc \in Pc \ {"reserve", "call", "answer"} : Goto(w, pc)
    BY <1>2
  <2>2. lane'[w].pc = pc /\ \A v \in Lanes \ {w} : lane'[v] = lane[v]
    BY <2>1, GotoEffect
  <2>3. lane'[w].pc \notin {"reserve", "call", "answer"}
    BY <2>2
  <2>4. QED
    BY <2>2, <2>3, OneLaneRests
<1>3. QED
  BY <1>1, <1>2

\* A lane that has its answer spends no more.
LEMMA LateSteps ==
  ASSUME Inv, Inv', BudgetKept, NEW w \in Lanes,
         \/ Finish(w) \/ Unobserved(w) \/ Another(w) \/ InsertStage(w) \/ EnqueueStage(w)
         \/ WaitForAgent(w) \/ Review(w) \/ Accept(w)
  PROVE  BudgetKept'
<1>1. UNCHANGED <<origin, held, spent>>
  BY DEF Finish, Unobserved, Another, InsertStage, EnqueueStage, WaitForAgent, Review, Accept, budget
<1>2. CASE Finish(w)
  <2>1. Goto(w, "stop") \/ Goto(w, After(Run(w), lane[w].k))
    BY <1>2 DEF Finish, EndStage
  <2>2. {"stop", After(Run(w), lane[w].k)} \subseteq Pc \ {"reserve", "call", "answer"}
    BY DEF After, Pc
  <2>3. QED
    BY <1>1, <2>1, <2>2, Rests
<1>3. CASE Unobserved(w)
  BY <1>1, <1>3, Rests DEF Unobserved
<1>4. CASE Another(w)
  <2>1. Release(w) \/ Goto(w, "stop") \/ Goto(w, "insert") \/ Goto(w, "fail")
    BY <1>4 DEF Another
  <2>2. QED
    BY <1>1, <2>1, Rests DEF Pc
<1>5. CASE InsertStage(w) \/ EnqueueStage(w) \/ Accept(w)
  <2>1. Goto(w, "enqueue") \/ Goto(w, "waiting") \/ Goto(w, "complete")
    BY <1>5 DEF InsertStage, EnqueueStage, Accept
  <2>2. QED
    BY <1>1, <2>1, Rests DEF Pc
<1>6. CASE WaitForAgent(w)
  BY <1>1, <1>6, Rests DEF WaitForAgent
<1>7. CASE Review(w)
  <2>1. PICK d \in Decision : Goto(w, AfterReview(d, Iteration(lane[w].k)))
    BY <1>7 DEF Review
  <2>2. AfterReview(d, Iteration(lane[w].k)) \in {"accept", "fail", "another"}
    BY DEF AfterReview, Decision
  <2>3. QED
    BY <1>1, <2>1, <2>2, Rests DEF Pc
<1>8. QED
  BY <1>2, <1>3, <1>4, <1>5, <1>6, <1>7

LEMMA RowSteps ==
  ASSUME Inv, Inv', BudgetKept, NEW w \in Lanes,
         Finalize(w) \/ Crash(w) \/ Notify(w) \/ Transition(w) \/ \E r \in Runs : Claim(w, r)
  PROVE  BudgetKept'
<1>1. UNCHANGED <<origin, held, spent>>
  BY DEF Finalize, Crash, Notify, Transition, Claim, budget
<1>2. lane \in [Lanes -> LaneRow]
  BY RowTypes
<1>3. CASE Finalize(w)
  <2>1. \A v \in Lanes \ {w} : lane'[v] = lane[v]
    BY <1>2, <1>3 DEF Finalize
  <2>2. lane'[w].pc = "notify"
    BY <1>2, <1>3 DEF Finalize, LaneRow
  <2>3. QED
    BY <1>1, <2>1, <2>2, OneLaneRests
<1>4. CASE Crash(w)
  <2>1. \A v \in Lanes \ {w} : lane'[v] = lane[v]
    BY <1>2, <1>4 DEF Crash
  <2>2. lane'[w].pc = "idle"
    BY <1>2, <1>4 DEF Crash, IdleLane
  <2>3. QED
    BY <1>1, <2>1, <2>2, OneLaneRests
<1>5. CASE Notify(w)
  <2>1. \A v \in Lanes \ {w} : lane'[v] = lane[v]
    BY <1>2, <1>5 DEF Notify
  <2>2. lane'[w].pc = "transition"
    BY <1>2, <1>5 DEF Notify, LaneRow
  <2>3. QED
    BY <1>1, <2>1, <2>2, OneLaneRests
<1>6. CASE Transition(w)
  BY <1>1, <1>6, Rests DEF Transition
<1>7. CASE \E r \in Runs : Claim(w, r)
  <2>1. PICK r \in Runs : Claim(w, r)
    BY <1>7
  <2> DEFINE row == [IdleLane EXCEPT !.pc = "begin", !.run = r, !.k = stage[r].k]
  <2>2. lane' = [lane EXCEPT ![w] = row] /\ row.pc = "begin"
    BY <2>1 DEF Claim, IdleLane
  <2> HIDE DEF row
  <2>3. lane'[w] = row /\ \A v \in Lanes \ {w} : lane'[v] = lane[v]
    BY <1>2, <2>2
  <2>4. lane'[w].pc \notin {"reserve", "call", "answer"}
    BY <2>2, <2>3
  <2>5. QED
    BY <1>1, <2>3, <2>4, OneLaneRests
<1>8. QED
  BY <1>3, <1>4, <1>5, <1>6, <1>7

\* A step of the one lane at work on a Task Run, which may change its reservation.
LEMMA OwnReservation ==
  ASSUME Inv, Inv', BudgetKept, NEW w \in Lanes, lane[w].pc \notin {"idle", "waiting"},
         UNCHANGED origin, \A v \in Lanes \ {w} : lane'[v] = lane[v],
         \A q \in Runs \ {lane[w].run} : held'[q] = held[q],
         spent' + held'[lane[w].run] + Ahead(w)' <= spent + held[lane[w].run] + Ahead(w)
  PROVE  BudgetKept'
<1> DEFINE r == lane[w].run
<1>1. r \in Runs
  BY AtWork
<1>2. ASSUME NEW v \in Lanes \ {w} PROVE Ahead(v)' = Ahead(v)
  <2>1. lane'[v] = lane[v]
    OBVIOUS
  <2>2. ASSUME lane[v].pc \in {"call", "answer"} PROVE held'[lane[v].run] = held[lane[v].run]
    <3>1. lane[v].run # r
      BY <2>2 DEF Inv, CycleInv, Alone
    <3>2. lane[v].run \in Runs
      BY <2>2, AtWork
    <3>3. QED
      BY <3>1, <3>2
  <2>3. QED
    BY <2>1, <2>2, AheadStays
<1>3. QED
  BY <1>1, <1>2, WithinPlan

\* A lane that was told that there is room: whatever the others were allowed
\* before it, their calls and its own come to one per lane.
LEMMA AskedFirst ==
  ASSUME Inv, Inv', BudgetKept, UNCHANGED <<held, spent>>, ~Exceeds
  PROVE  BudgetKept'
<1>1. BudgetTotals /\ BudgetTotals'
  BY BudgetSums, PTL
<1>2. Total' = Total
  BY DEF Total
<1>3. Total + Estimate < Limit
  BY <1>1, FiniteBudget DEF Exceeds, BudgetTotals
<1> DEFINE all == Cardinality(Lanes) * Worst
<1>4. all \in Int
  BY FiniteBudget, WorstIsWorst, FS_CardinalityType
<1>5. Promised' \in Int /\ Promised' <= all /\ Total \in Int
  BY <1>1 DEF BudgetTotals
<1>6. Total' + Promised' < Limit + all
  <2> HIDE DEF all
  <2>1. \A t, p, e, l, b \in Int : t + e < l /\ 0 <= e /\ p <= b => t + p < l + b
    OBVIOUS
  <2>2. Estimate \in Int /\ 0 <= Estimate /\ Limit \in Int
    BY FiniteBudget
  <2>3. Total + Promised' < Limit + all
    BY <1>3, <1>4, <1>5, <2>1, <2>2
  <2>4. QED
    BY <1>2, <2>3
<1>7. QED
  BY <1>6 DEF BudgetKept

\* A lane that begins asks, or gives back what an earlier claim had reserved.
LEMMA BeginKeepsBudget ==
  ASSUME Inv, Inv', BudgetKept, NEW w \in Lanes, Begin(w)
  PROVE  BudgetKept'
<1> DEFINE r == lane[w].run
<1>1. lane[w].pc = "begin" /\ r \in Runs /\ r = Run(w)
  BY AtWork DEF Begin, At, Run
<1>2. UNCHANGED <<origin, spent>>
  BY DEF Begin
<1>3. \/ Release(w) /\ UNCHANGED held
      \/ EndStage(w, "failed", "fail") /\ UNCHANGED held
      \/ EndStage(w, "stopped", "stop") /\ UNCHANGED held
      \/ AskBudget(w) /\ UNCHANGED held
      \/ held[r] > 0 /\ Free(r) /\ UNCHANGED <<stage, lane>>
  BY <1>1 DEF Begin
<1>4. CASE Release(w) /\ UNCHANGED held
  BY <1>2, <1>4, Rests
<1>5. CASE EndStage(w, "failed", "fail") /\ UNCHANGED held
  BY <1>2, <1>5, Rests DEF EndStage, Pc
<1>6. CASE EndStage(w, "stopped", "stop") /\ UNCHANGED held
  BY <1>2, <1>6, Rests DEF EndStage, Pc
<1>7. CASE AskBudget(w) /\ UNCHANGED held
  <2>1. CASE ~HasBudget(r) /\ Goto(w, "call")
    <3>1. lane'[w].pc = "call" /\ lane'[w].run = r /\ \A v \in Lanes \ {w} : lane'[v] = lane[v]
      BY <2>1, GotoEffect DEF Pc
    <3>2. ~HasBudget(r)'
      BY <1>2, <2>1, <3>1 DEF HasBudget
    <3>3. Ahead(w)' = 0 /\ Ahead(w) = 0
      BY <1>1, <3>1, <3>2 DEF Ahead
    <3>4. \A v \in Lanes : Ahead(v)' = Ahead(v)
      BY <1>2, <1>7, <3>1, <3>3, AheadStays
    <3>5. QED
      BY <1>2, <1>7, <3>4, NobodySpends
  <2>2. CASE Goto(w, "fail")
    BY <1>2, <1>7, <2>2, Rests DEF Pc
  <2>3. CASE ~Exceeds
    BY <1>2, <1>7, <2>3, AskedFirst
  <2>4. QED
    BY <1>1, <1>7, <2>1, <2>2, <2>3 DEF AskBudget, EndStage
<1>8. CASE held[r] > 0 /\ Free(r) /\ UNCHANGED <<stage, lane>>
  <2>1. held \in [Runs -> Nat] /\ spent \in Nat
    BY BudgetTypes DEF BudgetRows
  <2>2. held'[r] = 0 /\ \A q \in Runs \ {r} : held'[q] = held[q]
    BY <1>1, <1>8, <2>1 DEF Free
  <2>3. Ahead(w)' = 0 /\ Ahead(w) = 0
    BY <1>1, <1>8 DEF Ahead
  <2>4. spent' + held'[r] + Ahead(w)' <= spent + held[r] + Ahead(w)
    BY <1>1, <1>2, <1>8, <2>1, <2>2, <2>3
  <2>5. \A v \in Lanes \ {w} : lane'[v] = lane[v]
    BY <1>8
  <2>6. QED
    BY <1>1, <1>2, <2>2, <2>4, <2>5, OwnReservation
<1>9. QED
  BY <1>3, <1>4, <1>5, <1>6, <1>7, <1>8

LEMMA ReserveKeepsBudget ==
  ASSUME Inv, Inv', BudgetKept, NEW w \in Lanes, Reserve(w)
  PROVE  BudgetKept'
<1> DEFINE r == lane[w].run
<1>1. lane[w].pc = "reserve" /\ r \in Runs /\ r = Run(w)
  BY AtWork DEF Reserve, At, Run
<1>2. UNCHANGED <<origin, spent>> /\ Goto(w, "call") /\ held' = [held EXCEPT ![r] = Estimate]
  BY <1>1 DEF Reserve
<1>3. held \in [Runs -> Nat] /\ spent \in Nat
  BY BudgetTypes DEF BudgetRows
<1>4. held'[r] = Estimate /\ \A q \in Runs \ {r} : held'[q] = held[q]
  BY <1>1, <1>2, <1>3
<1>5. lane'[w].pc = "call" /\ lane'[w].run = r /\ \A v \in Lanes \ {w} : lane'[v] = lane[v]
  BY <1>2, GotoEffect DEF Pc
<1>6. Ahead(w) = Worst /\ Ahead(w)' \in {0, Worst - Estimate}
  BY <1>1, <1>4, <1>5 DEF Ahead
<1>7. spent' + held'[r] + Ahead(w)' <= spent + held[r] + Ahead(w)
  BY <1>1, <1>2, <1>3, <1>4, <1>6, WorstIsWorst, FiniteBudget
<1>8. QED
  BY <1>1, <1>2, <1>4, <1>5, <1>7, OwnReservation

\* The call's reservation is given back, and w goes where it spends no more.
LEMMA GivenBack ==
  ASSUME Inv, Inv', BudgetKept, NEW w \in Lanes, lane[w].pc \in {"call", "answer"},
         UNCHANGED origin, \A v \in Lanes \ {w} : lane'[v] = lane[v],
         lane'[w].pc \notin {"reserve", "call", "answer"}, Free(lane[w].run),
         \/ spent' = spent
         \/ \E c \in IF HasBudget(lane[w].run) THEN Costs ELSE {0} : spent' = spent + c
  PROVE  BudgetKept'
<1> DEFINE r == lane[w].run
<1>1. r \in Runs
  BY AtWork
<1>2. held \in [Runs -> Nat] /\ spent \in Nat /\ held[r] <= Worst
  BY <1>1, BudgetTypes DEF BudgetRows
<1>3. held'[r] = 0 /\ \A q \in Runs \ {r} : held'[q] = held[q]
  BY <1>1, <1>2 DEF Free
<1>4. Ahead(w)' = 0
  BY DEF Ahead
<1>5. Ahead(w) = IF HasBudget(r) THEN Worst - held[r] ELSE 0
  BY DEF Ahead
<1>6. spent' + held'[r] + Ahead(w)' <= spent + held[r] + Ahead(w)
  <2>1. CASE HasBudget(r)
    <3>1. spent' = spent \/ \E c \in Costs : spent' = spent + c
      BY <2>1
    <3>2. spent' <= spent + Worst /\ spent' \in Nat
      <4>1. \A c \in Costs : c \in Nat /\ c <= Worst
        BY WorstIsWorst, ReviewCycleAssumption DEF ReviewCycleAssumption
      <4>2. QED
        BY <1>2, <3>1, <4>1, WorstIsWorst
    <3>3. held[r] \in Nat
      BY <1>1, <1>2
    <3>4. QED
      BY <1>2, <1>3, <1>4, <1>5, <2>1, <3>2, <3>3, WorstIsWorst
  <2>2. CASE ~HasBudget(r)
    <3>1. spent' = spent
      BY <1>2, <2>2
    <3>2. held[r] \in Nat
      BY <1>1, <1>2
    <3>3. QED
      BY <1>2, <1>3, <1>4, <1>5, <2>2, <3>1, <3>2
  <2>3. QED
    BY <2>1, <2>2
<1>7. QED
  BY <1>3, <1>6, OwnReservation

LEMMA CallsKeepBudget ==
  ASSUME Inv, Inv', BudgetKept, NEW w \in Lanes, StartCall(w) \/ Answer(w)
  PROVE  BudgetKept'
<1> DEFINE r == lane[w].run
<1>1. lane[w].pc \in {"call", "answer"} /\ r \in Runs /\ r = Run(w) /\ UNCHANGED origin
  BY AtWork DEF StartCall, Answer, At, Run
<1>2. CASE StartCall(w) /\ Goto(w, "answer") /\ UNCHANGED held
  <2>1. lane'[w].pc = "answer" /\ lane'[w].run = r /\ \A v \in Lanes \ {w} : lane'[v] = lane[v]
    BY <1>2, GotoEffect DEF Pc
  <2>2. UNCHANGED <<held, spent>>
    BY <1>2 DEF StartCall
  <2>3. Ahead(w)' = Ahead(w)
    BY <1>1, <1>2, <2>1 DEF Ahead, HasBudget
  <2>4. \A v \in Lanes : Ahead(v)' = Ahead(v)
    BY <1>1, <2>1, <2>2, <2>3, AheadStays
  <2>5. QED
    BY <2>2, <2>4, NobodySpends
<1>3. CASE StartCall(w) /\ (Goto(w, "stop") \/ Goto(w, "fail")) /\ Free(r)
  <2>1. PICK pc \in {"stop", "fail"} : Goto(w, pc)
    BY <1>3
  <2>2. lane'[w].pc = pc /\ \A v \in Lanes \ {w} : lane'[v] = lane[v]
    BY <2>1, GotoEffect DEF Pc
  <2>3. spent' = spent
    BY <1>3 DEF StartCall
  <2>4. QED
    BY <1>1, <1>3, <2>2, <2>3, GivenBack
<1>4. CASE Answer(w)
  <2>1. PICK pc \in {"finish", "fail"} : Goto(w, pc)
    BY <1>4 DEF Answer
  <2>2. lane'[w].pc = pc /\ \A v \in Lanes \ {w} : lane'[v] = lane[v]
    BY <2>1, GotoEffect DEF Pc
  <2>3. Free(r) /\ \/ spent' = spent
                   \/ \E c \in IF HasBudget(r) THEN Costs ELSE {0} : spent' = spent + c
    BY <1>1, <1>4 DEF Answer
  <2>4. QED
    BY <1>1, <2>2, <2>3, GivenBack
<1>5. QED
  BY <1>1, <1>2, <1>3, <1>4 DEF StartCall, EndStage

\* A lane at work is on a Task Run that was started, so starting one changes nothing for it.
LEMMA BegunKeepsBudget ==
  ASSUME Inv, Inv', BudgetKept, NEW r \in Runs, NEW by, Begun(r, by)
  PROVE  BudgetKept'
<1>1. UNCHANGED <<held, spent, lane>> /\ origin[r] = "none" /\ origin' = [origin EXCEPT ![r] = by]
  BY DEF Begun, budget
<1>2. ASSUME NEW v \in Lanes PROVE Ahead(v)' = Ahead(v)
  <2>1. ASSUME lane[v].pc # "idle" PROVE origin'[lane[v].run] = origin[lane[v].run]
    <3>1. lane[v].run \in Runs /\ Placed(v) /\ Coherent(lane[v].run) /\ lane[v] \in LaneRow
          /\ stage[lane[v].run].k \in Nat
      BY <2>1, AtWork
    <3>2. stage[lane[v].run].k # 0
      BY <2>1, <3>1 DEF Placed, LaneRow
    <3>3. origin[lane[v].run] # "none"
      BY <3>1, <3>2 DEF Coherent, NewStage
    <3>4. QED
      BY <1>1, <3>1, <3>3, RestTypes
  <2>2. QED
    BY <1>1, <2>1, AheadStays
<1>3. QED
  BY <1>1, <1>2, NobodySpends

LEMMA OthersKeepBudget ==
  ASSUME Inv, Inv', BudgetKept, UNCHANGED <<origin, held, spent, lane>>
  PROVE  BudgetKept'
<1>1. \A v \in Lanes : Ahead(v)' = Ahead(v)
  BY AheadStays
<1>2. QED
  BY <1>1, NobodySpends

LEMMA StepKeepsBudget == Inv /\ Inv' /\ BudgetKept /\ [CmpNext]_allVars => BudgetKept'
<1> SUFFICES ASSUME Inv, Inv', BudgetKept, [CmpNext]_allVars PROVE BudgetKept'
  OBVIOUS
<1>1. ASSUME NEW w \in Lanes, Step(w) \/ Crash(w) \/ Notify(w) \/ Transition(w) \/ \E r \in Runs : Claim(w, r)
      PROVE  BudgetKept'
  BY <1>1, LateSteps, RowSteps, BeginKeepsBudget, ReserveKeepsBudget, CallsKeepBudget DEF Step
<1>2. ASSUME NEW r \in Runs, StartTaskRun(r) PROVE BudgetKept'
  BY <1>2, BegunKeepsBudget DEF StartTaskRun
<1>3. ASSUME NEW r \in Runs, EnqueueTaskRun(r) \/ CancelWrite(r) \/ CancelRead(r) PROVE BudgetKept'
  BY <1>3, OthersKeepBudget DEF EnqueueTaskRun, FirstJob, CancelWrite, CancelRead, budget
<1>4. CASE Next
  <2>1. Reviewed \subseteq Runs
    BY ReviewCycleAssumption DEF ReviewCycleAssumption
  <2>2. QED
    BY <1>1, <1>2, <1>3, <1>4, <2>1 DEF Next
<1>5. CASE LaunchCandidate
  <2>1. CASE Begun(launch.next, "candidate")
    <3>1. launch.next \in Runs
      <4>1. launch \in [pc : {"idle", "candidate", "job", "gone"}, next : 1 .. NRuns + 1]
        BY ComparisonTypes
      <4>2. launch.next <= NRuns /\ NRuns \in Nat
        BY <1>5, ReviewCycleAssumption DEF LaunchCandidate, ReviewCycleAssumption
      <4>3. QED
        BY <4>1, <4>2 DEF Runs
    <3>2. QED
      BY <2>1, <3>1, BegunKeepsBudget
  <2>2. CASE UNCHANGED vars
    BY <2>2, OthersKeepBudget DEF vars
  <2>3. QED
    BY <1>5, <2>1, <2>2 DEF LaunchCandidate
<1>6. CASE \/ CreateComparison \/ LaunchRead \/ LaunchJob \/ LaunchDone
           \/ \E r \in Runs : SelectRead(r)
           \/ SelectWrite \/ StopRead \/ StopPending \/ StopRunning \/ StopCandidate
  <2>1. UNCHANGED <<origin, held, spent, lane>>
    BY <1>6 DEF CreateComparison, LaunchRead, LaunchJob, LaunchDone, FirstJob, SelectRead, SelectWrite,
         StopRead, StopPending, StopRunning, StopCandidate, CancelRead, vars, budget
  <2>2. QED
    BY <2>1, OthersKeepBudget
<1>7. CASE UNCHANGED allVars
  BY <1>7, OthersKeepBudget DEF allVars, vars
<1>8. QED
  BY <1>1, <1>3, <1>4, <1>5, <1>6, <1>7 DEF CmpNext

LEMMA BudgetInitially == CmpInit => BudgetKept
<1> SUFFICES ASSUME CmpInit PROVE BudgetKept
  OBVIOUS
<1>1. Inv
  BY Initially
<1>2. held = [r \in Runs |-> 0] /\ spent = 0 /\ lane = [w \in Lanes |-> IdleLane]
  BY DEF CmpInit, Init
<1>3. \A r \in Runs : held[r] <= 0
  BY <1>2
<1>4. SumFunction(held) \in Nat /\ SumFunction(held) <= Cardinality(Runs) * 0
  BY <1>1, <1>3, FiniteBudget, BudgetTypes, SumIsBounded DEF BudgetRows
<1>5. \A w \in Lanes : Ahead(w) = 0
  BY <1>2 DEF Ahead, IdleLane
<1>6. Plans \in [Lanes -> Nat] /\ \A w \in Lanes : Plans[w] <= 0
  BY <1>5 DEF Plans
<1>7. Promised \in Nat /\ Promised <= Cardinality(Lanes) * 0
  BY <1>6, FiniteBudget, SumIsBounded DEF Promised
<1>8. Cardinality(Runs) \in Nat /\ Cardinality(Lanes) \in Nat
  BY FiniteBudget, FS_CardinalityType
<1>9. Promised = 0 /\ Total = 0
  BY <1>2, <1>4, <1>7, <1>8 DEF Total
<1>10. Cardinality(Lanes) * Worst \in Nat
  BY <1>8, WorstIsWorst
<1>11. QED
  BY <1>9, <1>10, FiniteBudget DEF BudgetKept

\* The budget is overrun by at most one call per lane, though a lane sums the
\* reservations in one transaction and inserts its own in another, and a call
\* may cost more than was reserved (BudgetGovernor.reserve, settle).
THEOREM BudgetHolds == CmpSpec => []OvershootIsBounded
<1>1. CmpSpec => []BudgetKept
  <2>1. CmpInit => BudgetKept
    BY BudgetInitially
  <2>2. Inv /\ Inv' /\ BudgetKept /\ [CmpNext]_allVars => BudgetKept'
    BY StepKeepsBudget
  <2>3. QED
    BY <2>1, <2>2, InvHolds, PTL DEF CmpSpec
<1>2. ASSUME Inv, BudgetKept PROVE OvershootIsBounded
  <2>1. Total \in Nat /\ Promised \in Nat
    BY <1>2, BudgetSums DEF BudgetTotals
  <2> DEFINE bound == Limit + Cardinality(Lanes) * Worst
  <2>2. bound \in Int
    BY FiniteBudget, WorstIsWorst, FS_CardinalityType
  <2>3. Total + Promised < bound
    BY <1>2 DEF BudgetKept
  <2>4. Total < bound
    <3> HIDE DEF bound
    <3>1. QED
      BY <2>1, <2>2, <2>3
  <2>5. QED
    BY <2>4 DEF OvershootIsBounded, Worst
<1>3. QED
  BY <1>1, <1>2, InvHolds, PTL
=============================================================================
