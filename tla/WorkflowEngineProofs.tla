------------------------ MODULE WorkflowEngineProofs ------------------------
(***************************************************************************)
(* Proofs about WorkflowEngine, for every graph of any nodes, any number   *)
(* of actors and retries, whichever of them crash: a node starts only      *)
(* after everything it depends on, open work belongs to a node that waits  *)
(* for it, and outcomes are final.                                         *)
(*                                                                         *)
(* And, when nobody retries a node and no node is a gate (Plainly): it     *)
(* implements DrainedRun, for every other graph.  With retries or gates it *)
(* does not: a retry takes a run out of its verdict, and a stale summary   *)
(* status can.  Without retries, but with gates: a run that is over has    *)
(* drained.                                                                *)
(*                                                                         *)
(* And, with retries, gates, crashes and any number of handlers at once,   *)
(* however they interleave but for two windows (Undisturbed): no handler   *)
(* carries out across a retry what it decided before the retry, and a      *)
(* summary that is derived reads an active run both times.  Then what a    *)
(* failure stops is stopped for a failure that still stands, a run that is *)
(* over has drained, its verdict tells what became of the nodes, and the   *)
(* engine implements ResumedRun, the drained run that may be resumed.      *)
(* Both windows are needed: in either of them these are false.             *)
(***************************************************************************)
EXTENDS WorkflowEngine, WellFoundedInduction, TLAPS

-----------------------------------------------------------------------------
(***************************************************************************)
(* The invariant: the rows, and what a handler relies on                   *)
(***************************************************************************)
Runs == RunActive \cup RunEnded
Iterations == 0 .. MaxIteration

\* Routines that act on what the routine before them has just read: nothing is
\* ever left to run before them.
Fresh == {"record", "finalize", "setState", "resync", "replace", "queueRetry"}

Exec == [todo : Seq(Routines), at : NodeRuns, healing : SUBSET NodeRuns, ready : SUBSET Nodes,
         plan : SUBSET NodeRuns, seen : Runs, want : Runs, tries : 0 .. SyncTries]

RowsTyped ==
    /\ run \in Runs
    /\ byHand \in BOOLEAN
    /\ node \in [NodeRuns -> {"absent", "pending"} \cup NodeActive \cup NodeEnded]
    /\ agent \in [NodeRuns -> [status : {"none", "open"} \cup AgentEnded,
                               job : {"none", "queued", "dead"}, signalled : BOOLEAN]]
    /\ approval \in [NodeRuns -> {"none", "pending", "approved", "rejected", "expired"}]

\* Some attempt of node m has completed, in the rows nd.
CompletedIn(nd, m) == \E i \in Iterations : nd[<<m, i>>] = "completed"

\* Every node has its first row, and a later attempt only after the earlier ones
\* have failed or were cancelled: one that completed stays the current one.
AttemptsInOrder ==
    /\ \A n \in Nodes : node[<<n, 0>>] /= "absent"
    /\ \A n \in Nodes, i \in Iterations, j \in Iterations :
          i < j /\ node[<<n, j>>] /= "absent" => node[<<n, i>>] \in {"failed", "cancelled"}

Started == NodeActive \cup {"completed", "failed"}
StartedInOrder == \A r \in NodeRuns : node[r] \in Started => \A m \in Sources(r[1]) : CompletedIn(node, m)

\* What was opened for a node run is still open only while the node run is.
WorkIsTied ==
    \A r \in NodeRuns :
        /\ agent[r].status = "open" => node[r] = "running"
        /\ approval[r] = "pending" <=> node[r] = "waiting"
        /\ node[r] \in {"absent", "pending"} => agent[r].status = "none" /\ approval[r] = "none"

RowsOK == RowsTyped /\ AttemptsInOrder /\ StartedInOrder /\ WorkIsTied

\* Only the first routine of a handler may be a fresh one.
Ordered(todo) == \A i \in 2 .. Len(todo) : todo[i] \notin Fresh
Begins(x, routine) == x.todo /= <<>> /\ Head(x.todo) = routine

\* What handler x has read is still so in the rows: outcomes do not change.
Relies(x, nd, ag) ==
    /\ Ordered(x.todo)
    /\ Begins(x, "setState") \/ Begins(x, "resync") => x.tries < SyncTries
    /\ Begins(x, "record") => ag[x.at].status \in AgentEnded
    /\ Begins(x, "replace") \/ Begins(x, "queueRetry") => nd[x.at] = "failed" /\ HasRoom(x.at)
    /\ \A r \in x.plan : nd[r] = "cancelled" /\ HasRoom(r)
    /\ \A n \in x.ready : \A m \in Sources(n) : CompletedIn(nd, m)

EngineInv ==
    /\ RowsOK
    /\ exec \in [Actors -> Exec]
    /\ \A a \in Actors : Relies(exec[a], node, agent)

-----------------------------------------------------------------------------
(***************************************************************************)
(* Greatest and least numbers, and the current attempt                     *)
(***************************************************************************)
\* A non-empty set of naturals has a least element.
LEMMA MinOfNaturals ==
  ASSUME NEW S \in SUBSET Nat, S /= {}
  PROVE  Min(S) \in S /\ \A n \in S : Min(S) <= n
<1> DEFINE R == OpToRel(<, Nat)
<1>1. PICK x \in S : \A y \in S : ~(<<y, x>> \in R)
  BY NatLessThanWellFounded, WFMin
<1>2. \A y \in S : x <= y
  <2> SUFFICES ASSUME NEW y \in S, y < x PROVE FALSE
    OBVIOUS
  <2>1. <<y, x>> \in R
    BY DEF OpToRel
  <2>2. QED
    BY <1>1, <2>1
<1>3. QED
  BY <1>2 DEF Min

\* A non-empty set of iterations has a greatest element.
LEMMA MaxOfIterations ==
  ASSUME NEW S \in SUBSET Iterations, S /= {}
  PROVE  Max(S) \in S /\ \A n \in S : Max(S) >= n
<1> DEFINE T == {MaxIteration - n : n \in S}
<1> USE WorkflowEngineAssumption DEF WorkflowEngineAssumption, Iterations
<1>0. MaxIteration \in Nat /\ \A n \in S : n \in Nat /\ n <= MaxIteration
  OBVIOUS
<1>1. T \in SUBSET Nat /\ T /= {}
  <2>1. \A t \in T : t \in Nat
    <3> SUFFICES ASSUME NEW n \in S PROVE MaxIteration - n \in Nat
      OBVIOUS
    <3>1. QED
      BY <1>0
  <2>2. QED
    BY <2>1, ZenonT(60)
<1>2. Min(T) \in T /\ \A t \in T : Min(T) <= t
  BY <1>1, MinOfNaturals
<1>3. PICK m \in S : Min(T) = MaxIteration - m
  BY <1>2
<1>4. \A n \in S : m >= n
  <2> SUFFICES ASSUME NEW n \in S PROVE m >= n
    OBVIOUS
  <2>1. MaxIteration - m <= MaxIteration - n
    BY <1>2, <1>3, ZenonT(60)
  <2>2. QED
    BY <1>0, <2>1
<1>5. QED
  BY <1>4 DEF Max

\* The current attempt of a node exists, and no later one does.
LEMMA LatestExists ==
  ASSUME NEW n \in Nodes, node[<<n, 0>>] /= "absent"
  PROVE  /\ Latest(n) \in NodeRuns /\ Latest(n)[1] = n
         /\ node[Latest(n)] /= "absent"
         /\ \A j \in Iterations : j > Latest(n)[2] => node[<<n, j>>] = "absent"
<1> DEFINE S == {i \in 0 .. MaxIteration : node[<<n, i>>] /= "absent"}
<1>1. 0 \in 0 .. MaxIteration
  BY WorkflowEngineAssumption DEF WorkflowEngineAssumption
<1>2. S \in SUBSET Iterations /\ S /= {}
  BY <1>1 DEF Iterations
<1>3. Max(S) \in S /\ \A i \in S : Max(S) >= i
  BY <1>2, MaxOfIterations
<1> DEFINE Newest(i) == node[<<n, i>>] /= "absent" /\ \A j \in i + 1 .. MaxIteration : node[<<n, j>>] = "absent"
<1> HIDE DEF S
<1>4. Max(S) \in 0 .. MaxIteration /\ node[<<n, Max(S)>>] /= "absent"
  BY <1>3 DEF S
<1>5. ASSUME NEW j \in Max(S) + 1 .. MaxIteration PROVE node[<<n, j>>] = "absent"
  <2>1. j \in 0 .. MaxIteration /\ ~(Max(S) >= j)
    BY <1>4, <1>5, WorkflowEngineAssumption DEF WorkflowEngineAssumption
  <2>2. QED
    BY <1>3, <2>1 DEF S
<1>6. \E i \in 0 .. MaxIteration : Newest(i)
  BY <1>4, <1>5
<1>7. Latest(n) = <<n, CHOOSE i \in 0 .. MaxIteration : Newest(i)>>
  BY DEF Latest
<1>8. PICK i \in 0 .. MaxIteration : Newest(i) /\ Latest(n) = <<n, i>>
  BY <1>6, <1>7
<1>9. ASSUME NEW j \in Iterations, j > i PROVE node[<<n, j>>] = "absent"
  <2>1. j \in i + 1 .. MaxIteration
    BY <1>9, WorkflowEngineAssumption DEF Iterations, WorkflowEngineAssumption
  <2>2. QED
    BY <1>8, <2>1
<1>10. QED
  BY <1>8, <1>9 DEF NodeRuns, Iterations

\* The forgetful handler is a handler.
LEMMA IdleExecTyped == IdleExec \in Exec
<1>1. Min(Nodes) \in Nodes
  BY MinOfNaturals, WorkflowEngineAssumption DEF WorkflowEngineAssumption
<1>2. <<Min(Nodes), 0>> \in NodeRuns
  BY <1>1, WorkflowEngineAssumption DEF WorkflowEngineAssumption, NodeRuns
<1>3. "running" \in Runs /\ 0 \in 0 .. SyncTries
  BY WorkflowEngineAssumption DEF WorkflowEngineAssumption, Runs, RunActive, Dispatchable
<1>4. <<>> \in Seq(Routines)
  OBVIOUS
<1>5. QED
  BY <1>2, <1>3, <1>4 DEF IdleExec, Exec

\* It relies on nothing.
LEMMA IdleExecRelies == ASSUME NEW nd, NEW ag PROVE Relies(IdleExec, nd, ag)
<1>1. Len(<<>>) = 0
  OBVIOUS
<1>2. IdleExec.todo = <<>> /\ IdleExec.plan = {} /\ IdleExec.ready = {}
  BY DEF IdleExec
<1>3. Ordered(<<>>)
  BY <1>1 DEF Ordered
<1>4. QED
  BY <1>2, <1>3 DEF Relies, Begins

\* Calling routines puts them before what was left to do.
LEMMA CallsList ==
  ASSUME NEW x \in Exec, x.todo /= <<>>, Ordered(x.todo),
         NEW rs \in Seq(Routines), Ordered(rs)
  PROVE  /\ Calls(x, rs) \in Exec
         /\ Ordered(Calls(x, rs).todo)
         /\ rs = <<>> /\ Calls(x, rs).todo /= <<>> => Head(Calls(x, rs).todo) \notin Fresh
         /\ rs /= <<>> => /\ Calls(x, rs) = [x EXCEPT !.todo = rs \o Tail(x.todo)]
                          /\ Calls(x, rs).todo /= <<>> /\ Head(Calls(x, rs).todo) = rs[1]
         /\ Calls(x, rs) = IdleExec \/ Calls(x, rs) = [x EXCEPT !.todo = Calls(x, rs).todo]
<1> DEFINE t == Tail(x.todo)
           l == rs \o t
<1>0. x.todo \in Seq(Routines)
  BY DEF Exec
<1>1. t \in Seq(Routines) /\ Len(t) = Len(x.todo) - 1 /\ \A i \in 1 .. Len(t) : t[i] = x.todo[i + 1]
  BY <1>0
<1>2. \A i \in 1 .. Len(t) : t[i] \notin Fresh
  BY <1>0, <1>1 DEF Ordered
<1>3. /\ l \in Seq(Routines) /\ Len(l) = Len(rs) + Len(t)
      /\ \A i \in 1 .. Len(l) : l[i] = IF i <= Len(rs) THEN rs[i] ELSE t[i - Len(rs)]
  BY <1>1
<1> HIDE DEF t, l
<1> Len(rs) \in Nat /\ Len(t) \in Nat
  BY <1>1
<1>4. Ordered(l)
  <2> SUFFICES ASSUME NEW i \in 2 .. Len(l) PROVE l[i] \notin Fresh
    BY DEF Ordered
  <2>1. CASE i <= Len(rs)
    BY <1>1, <1>3, <2>1 DEF Ordered
  <2>2. CASE i > Len(rs)
    <3>1. i - Len(rs) \in 1 .. Len(t) /\ l[i] = t[i - Len(rs)]
      BY <1>3, <2>2
    <3>2. QED
      BY <1>2, <3>1
  <2>3. QED
    BY <1>1, <1>3, <2>1, <2>2
<1>5. rs = <<>> /\ l /= <<>> => Head(l) \notin Fresh
  <2> SUFFICES ASSUME rs = <<>>, l /= <<>> PROVE l[1] \notin Fresh
    BY <1>3
  <2>1. Len(rs) = 0 /\ Len(l) >= 1
    BY <1>1, <1>3
  <2>2. 1 \in 1 .. Len(t) /\ l[1] = t[1]
    BY <1>3, <2>1
  <2>3. QED
    BY <1>2, <2>2
<1>6. rs /= <<>> => l /= <<>> /\ Head(l) = rs[1]
  <2> SUFFICES ASSUME rs /= <<>> PROVE l /= <<>> /\ l[1] = rs[1]
    BY <1>3
  <2>1. Len(rs) >= 1
    OBVIOUS
  <2>2. QED
    BY <1>1, <1>3, <2>1
<1>7. Calls(x, rs) = IF l = <<>> THEN IdleExec ELSE [x EXCEPT !.todo = l]
  BY DEF Calls, t, l
<1>8. [x EXCEPT !.todo = l] \in Exec /\ [x EXCEPT !.todo = l].todo = l
  BY <1>3 DEF Exec
<1>9. IdleExec.todo = <<>> /\ Ordered(<<>>)
  BY DEF IdleExec, Ordered
<1>10. CASE l = <<>>
  BY <1>6, <1>7, <1>9, <1>10, IdleExecTyped
<1>11. CASE l /= <<>>
  <2>1. Calls(x, rs) = [x EXCEPT !.todo = l]
    BY <1>7, <1>11
  <2>2. QED
    BY <1>4, <1>5, <1>6, <1>8, <1>11, <2>1 DEF l, t
<1>12. QED
  BY <1>10, <1>11

-----------------------------------------------------------------------------
(***************************************************************************)
(* Steps                                                                   *)
(***************************************************************************)
\* What has ended stays as it ended: every step of the engine is like that.
Onward ==
    \A r \in NodeRuns :
        /\ node[r] \in NodeEnded => node'[r] = node[r]
        /\ approval[r] \in {"approved", "rejected", "expired"} => approval'[r] = approval[r]
        /\ agent[r].status \in AgentEnded => agent'[r].status = agent[r].status

\* Lists of routines that nothing has to be known for to call them.
Plain(rs) ==
    /\ rs \in Seq(Routines) /\ Ordered(rs)
    /\ rs /= <<>> => rs[1] \notin Fresh \ {"finalize"}

\* A list of at most five routines is plain if its members are.
LEMMA PlainLists ==
  /\ Plain(<<>>)
  /\ \A p \in Routines \ (Fresh \ {"finalize"}) : Plain(<<p>>)
  /\ \A p \in Routines \ (Fresh \ {"finalize"}), q \in Routines \ Fresh : Plain(<<p, q>>)
  /\ \A p \in Routines \ (Fresh \ {"finalize"}), q \in Routines \ Fresh, r \in Routines \ Fresh :
        Plain(<<p, q, r>>)
  /\ \A p \in Routines \ (Fresh \ {"finalize"}), q \in Routines \ Fresh, r \in Routines \ Fresh,
        s \in Routines \ Fresh : Plain(<<p, q, r, s>>)
  /\ \A p \in Routines \ (Fresh \ {"finalize"}), q \in Routines \ Fresh, r \in Routines \ Fresh,
        s \in Routines \ Fresh, t \in Routines \ Fresh : Plain(<<p, q, r, s, t>>)
<1> DEFINE P == Routines \ (Fresh \ {"finalize"})
           Q == Routines \ Fresh
<1> HIDE DEF P, Q
<1>0. P \subseteq Routines /\ Q \subseteq Routines /\ P \cap (Fresh \ {"finalize"}) = {} /\ Q \cap Fresh = {}
  BY DEF P, Q
<1>1. Plain(<<>>)
  BY DEF Plain, Ordered
<1>2. \A p \in P : Plain(<<p>>)
  BY <1>0 DEF Plain, Ordered
<1>3. \A p \in P, q \in Q : Plain(<<p, q>>)
  BY <1>0 DEF Plain, Ordered
<1>4. \A p \in P, q \in Q, r \in Q : Plain(<<p, q, r>>)
  BY <1>0 DEF Plain, Ordered
<1>5. \A p \in P, q \in Q, r \in Q, s \in Q : Plain(<<p, q, r, s>>)
  BY <1>0 DEF Plain, Ordered
<1>6. \A p \in P, q \in Q, r \in Q, s \in Q, t \in Q : Plain(<<p, q, r, s, t>>)
  BY <1>0 DEF Plain, Ordered
<1>7. QED
  BY <1>1, <1>2, <1>3, <1>4, <1>5, <1>6 DEF P, Q

\* A handler that calls plain routines relies on no more than it did.
LEMMA CallsRelies ==
  ASSUME NEW x \in Exec, x.todo /= <<>>, NEW rs, Plain(rs),
         NEW nd, NEW ag, Relies(x, nd, ag)
  PROVE  Calls(x, rs) \in Exec /\ Relies(Calls(x, rs), nd, ag)
<1> DEFINE y == Calls(x, rs)
<1>1. rs \in Seq(Routines) /\ Ordered(rs) /\ Ordered(x.todo)
  BY DEF Plain, Relies
<1>2. y \in Exec /\ Ordered(y.todo)
  BY <1>1, CallsList
<1>3. y.todo /= <<>> => Head(y.todo) \notin Fresh \ {"finalize"}
  BY <1>1, CallsList DEF Plain
<1>4. y = IdleExec \/ y = [x EXCEPT !.todo = y.todo]
  BY <1>1, CallsList
<1> HIDE DEF y
<1>5. CASE y = IdleExec
  BY <1>2, <1>5, IdleExecRelies DEF y
<1>6. CASE y = [x EXCEPT !.todo = y.todo]
  <2>1. y.plan = x.plan /\ y.ready = x.ready
    BY <1>6 DEF Exec
  <2>2. ~Begins(y, "setState") /\ ~Begins(y, "resync") /\ ~Begins(y, "record")
        /\ ~Begins(y, "replace") /\ ~Begins(y, "queueRetry")
    BY <1>3 DEF Begins, Fresh
  <2>3. Relies(y, nd, ag)
    BY <1>2, <2>1, <2>2 DEF Relies
  <2>4. QED
    BY <1>2, <2>3 DEF y
<1>7. QED
  BY <1>4, <1>5, <1>6

\* A new handler that starts with a plain routine relies on nothing.
LEMMA BeginsPlain ==
  ASSUME NEW rs, Plain(rs), NEW nd, NEW ag
  PROVE  /\ [IdleExec EXCEPT !.todo = rs] \in Exec
         /\ Relies([IdleExec EXCEPT !.todo = rs], nd, ag)
<1> DEFINE y == [IdleExec EXCEPT !.todo = rs]
<1>1. y \in Exec /\ y.todo = rs /\ y.plan = {} /\ y.ready = {}
  BY IdleExecTyped DEF Plain, Exec, IdleExec
<1> HIDE DEF y
<1>2. Ordered(y.todo)
  BY <1>1 DEF Plain
<1>3. ~Begins(y, "setState") /\ ~Begins(y, "resync") /\ ~Begins(y, "record")
      /\ ~Begins(y, "replace") /\ ~Begins(y, "queueRetry")
  BY <1>1 DEF Begins, Plain, Fresh
<1>4. Relies(y, nd, ag)
  BY <1>1, <1>2, <1>3 DEF Relies
<1>5. QED
  BY <1>1, <1>4 DEF y

\* What a handler relies on survives every step that leaves outcomes alone.
LEMMA RelianceLasts ==
  ASSUME EngineInv, Onward, NEW x \in Exec, Relies(x, node, agent)
  PROVE  Relies(x, node', agent')
<1>1. x.at \in NodeRuns /\ x.plan \subseteq NodeRuns /\ x.ready \subseteq Nodes
  BY DEF Exec
<1>2. Begins(x, "record") => agent'[x.at].status \in AgentEnded
  BY <1>1 DEF Relies, Onward
<1>3. Begins(x, "replace") \/ Begins(x, "queueRetry") => node'[x.at] = "failed" /\ HasRoom(x.at)
  BY <1>1 DEF Relies, Onward, NodeEnded
<1>4. \A r \in x.plan : node'[r] = "cancelled" /\ HasRoom(r)
  BY <1>1 DEF Relies, Onward, NodeEnded
<1>5. \A n \in x.ready : \A m \in Sources(n) : CompletedIn(node', m)
  <2> SUFFICES ASSUME NEW n \in x.ready, NEW m \in Sources(n) PROVE CompletedIn(node', m)
    OBVIOUS
  <2>1. PICK i \in Iterations : node[<<m, i>>] = "completed"
    BY DEF Relies, CompletedIn
  <2>2. <<m, i>> \in NodeRuns
    BY <2>1 DEF NodeRuns, Iterations, Sources
  <2>3. QED
    BY <2>1, <2>2 DEF Onward, NodeEnded, CompletedIn
<1>6. QED
  BY <1>2, <1>3, <1>4, <1>5 DEF Relies

\* A step of actor a, which has become y, keeps the invariant if the rows do.
LEMMA ActorKeeps ==
  ASSUME EngineInv, Onward, RowsOK', NEW a \in Actors, NEW y \in Exec,
         exec' = [exec EXCEPT ![a] = y], Relies(y, node', agent')
  PROVE  EngineInv'
<1>1. exec' \in [Actors -> Exec]
  BY DEF EngineInv
<1>2. ASSUME NEW b \in Actors PROVE Relies(exec'[b], node', agent')
  <2>1. CASE b = a
    BY <2>1 DEF EngineInv
  <2>2. CASE b /= a
    <3>1. exec'[b] = exec[b] /\ exec[b] \in Exec /\ Relies(exec[b], node, agent)
      BY <2>2 DEF EngineInv
    <3>2. QED
      BY <3>1, RelianceLasts
  <2>3. QED
    BY <2>1, <2>2
<1>3. QED
  BY <1>1, <1>2 DEF EngineInv

\* A step that changes no row, of an actor that has become y.
LEMMA ReadKeeps ==
  ASSUME EngineInv, UNCHANGED rows, NEW a \in Actors, NEW y \in Exec,
         exec' = [exec EXCEPT ![a] = y], Relies(y, node, agent)
  PROVE  EngineInv' /\ Onward
<1>1. RowsOK'
  BY DEF EngineInv, rows, RowsOK, RowsTyped, AttemptsInOrder, StartedInOrder, WorkIsTied, Sources
<1>2. Onward
  BY DEF Onward, rows
<1>3. Relies(y, node', agent')
  BY DEF rows
<1>4. QED
  BY <1>1, <1>2, <1>3, ActorKeeps

\* A step that changes only rows.
LEMMA RowsKeep ==
  ASSUME EngineInv, Onward, RowsOK', UNCHANGED exec
  PROVE  EngineInv'
<1>1. ASSUME NEW b \in Actors PROVE Relies(exec'[b], node', agent')
  <2>1. exec'[b] = exec[b] /\ exec[b] \in Exec /\ Relies(exec[b], node, agent)
    BY DEF EngineInv
  <2>2. QED
    BY <2>1, RelianceLasts
<1>2. QED
  BY <1>1 DEF EngineInv

-----------------------------------------------------------------------------
(***************************************************************************)
(* Handlers that only read                                                 *)
(***************************************************************************)
\* A handler at one of its routines.
LEMMA HandlerAt ==
  ASSUME EngineInv, NEW a \in Actors, NEW routine, At(a, routine)
  PROVE  /\ exec[a] \in Exec /\ exec[a].todo /= <<>> /\ Relies(exec[a], node, agent)
         /\ Head(exec[a].todo) = routine
BY DEF EngineInv, At

\* A handler calls plain routines and changes no row.
LEMMA CallKeeps ==
  ASSUME EngineInv, UNCHANGED rows, NEW a \in Actors, NEW routine, At(a, routine),
         NEW rs, Plain(rs), Call(a, rs)
  PROVE  EngineInv' /\ Onward
<1> DEFINE y == Calls(exec[a], rs)
<1>1. y \in Exec /\ Relies(y, node, agent)
  BY HandlerAt, CallsRelies
<1>2. exec' = [exec EXCEPT ![a] = y]
  BY DEF Call
<1>3. QED
  BY <1>1, <1>2, ReadKeeps

LEMMA ReturnKeeps ==
  ASSUME EngineInv, UNCHANGED rows, NEW a \in Actors, NEW routine, At(a, routine), Return(a)
  PROVE  EngineInv' /\ Onward
<1>1. Call(a, <<>>)
  BY DEF Return, Call
<1>2. QED
  BY <1>1, CallKeeps, PlainLists

\* A new handler begins.
LEMMA BeginKeeps ==
  ASSUME EngineInv, UNCHANGED rows, NEW a \in Actors, NEW rs, Plain(rs), Begin(a, rs)
  PROVE  EngineInv' /\ Onward
<1> DEFINE y == [IdleExec EXCEPT !.todo = rs]
<1>1. y \in Exec /\ Relies(y, node, agent)
  BY BeginsPlain
<1>2. exec' = [exec EXCEPT ![a] = y]
  BY DEF Begin
<1>3. QED
  BY <1>1, <1>2, ReadKeeps

\* Every source of a ready node has completed.
LEMMA ReadyNodes ==
  ASSUME RowsOK
  PROVE  /\ FindReadyNodes \in SUBSET Nodes
         /\ \A n \in FindReadyNodes : \A m \in Sources(n) : CompletedIn(node, m)
<1> SUFFICES ASSUME NEW n \in FindReadyNodes, NEW m \in Sources(n) PROVE CompletedIn(node, m)
  BY DEF FindReadyNodes
<1>1. m \in Nodes /\ node[Latest(m)] = "completed"
  BY DEF FindReadyNodes, Current, Sources
<1>2. Latest(m) \in NodeRuns /\ Latest(m)[1] = m
  BY <1>1, LatestExists DEF RowsOK, AttemptsInOrder
<1>3. PICK i \in Iterations : Latest(m) = <<m, i>>
  BY <1>2 DEF NodeRuns, Iterations
<1>4. QED
  BY <1>1, <1>3 DEF CompletedIn

LEMMA DispatchKeeps == ASSUME EngineInv, NEW a \in Actors, Dispatch(a) PROVE EngineInv' /\ Onward
<1>1. At(a, "dispatch") /\ UNCHANGED rows
  BY DEF Dispatch
<1>2. CASE AcceptsDispatch /\ FindReadyNodes /= {}
  <2> DEFINE z == Calls(exec[a], <<"claim", "dispatch">>)
             y == [z EXCEPT !.ready = FindReadyNodes]
  <2>1. Plain(<<"claim", "dispatch">>)
    BY PlainLists DEF Routines, Fresh
  <2>2. z \in Exec /\ Relies(z, node, agent)
    BY <1>1, <2>1, HandlerAt, CallsRelies
  <2>3. FindReadyNodes \in SUBSET Nodes
        /\ \A n \in FindReadyNodes : \A m \in Sources(n) : CompletedIn(node, m)
    BY ReadyNodes DEF EngineInv
  <2>4. exec' = [exec EXCEPT ![a] = y]
    BY <1>2 DEF Dispatch
  <2> HIDE DEF z
  <2>5. y \in Exec /\ y.ready = FindReadyNodes /\ y.todo = z.todo /\ y.plan = z.plan
        /\ y.at = z.at /\ y.tries = z.tries
    BY <2>2, <2>3 DEF Exec
  <2> HIDE DEF y
  <2>6. Relies(y, node, agent)
    BY <2>2, <2>3, <2>5 DEF Relies, Begins
  <2>7. QED
    BY <1>1, <2>4, <2>5, <2>6, ReadKeeps
<1>3. CASE ~(AcceptsDispatch /\ FindReadyNodes /= {})
  BY <1>1, <1>3, ReturnKeeps DEF Dispatch
<1>4. QED
  BY <1>2, <1>3

LEMMA OnAgentRunCompleteKeeps ==
  ASSUME EngineInv, NEW a \in Actors, OnAgentRunComplete(a) PROVE EngineInv' /\ Onward
<1>1. PICK r \in NodeRuns : agent[r].status \in AgentEnded /\ BeginAt(a, <<"record">>, r)
  BY DEF OnAgentRunComplete
<1> DEFINE y == [IdleExec EXCEPT !.todo = <<"record">>, !.at = r]
<1>2. <<"record">> \in Seq(Routines) /\ Ordered(<<"record">>)
  BY DEF Routines, Ordered
<1>3. y \in Exec /\ y.todo = <<"record">> /\ y.at = r /\ y.plan = {} /\ y.ready = {}
  BY <1>2, IdleExecTyped DEF Exec, IdleExec
<1>4. exec' = [exec EXCEPT ![a] = y]
  BY <1>1 DEF BeginAt
<1> HIDE DEF y
<1>5. Relies(y, node, agent)
  BY <1>1, <1>2, <1>3 DEF Relies, Begins
<1>6. QED
  BY <1>3, <1>4, <1>5, ReadKeeps DEF OnAgentRunComplete

\* The lists that the routines call are plain.
LEMMA RoutineLists ==
  /\ Plain(ScheduleReadyNodes) /\ Plain(PropagateFailure) /\ Plain(ReconcileCancelling)
  /\ Plain(PropagateFailure \o <<"claim">>) /\ PropagateFailure \o <<"claim">> /= <<>>
  /\ Plain(<<"check">>) /\ Plain(<<"advance">>) /\ Plain(<<"mark">>) /\ Plain(<<"reconcile">>)
  /\ Plain(<<"finalize">>) /\ Plain(<<"healNext">>) /\ Plain(<<"sync">>) /\ Plain(<<"resume">>)
  /\ Plain(<<"heal", "advance">>) /\ Plain(<<"enqueue", "claim">>) /\ Plain(<<"sync", "claim">>)
  /\ Plain(<<"enqueue", "advance">>) /\ Plain(<<"cancelPending", "gates", "signal", "check">>)
<1>2. /\ Plain(<<"check">>) /\ Plain(<<"advance">>) /\ Plain(<<"mark">>) /\ Plain(<<"reconcile">>)
      /\ Plain(<<"finalize">>) /\ Plain(<<"healNext">>) /\ Plain(<<"sync">>) /\ Plain(<<"resume">>)
  BY PlainLists DEF Routines, Fresh
<1>3. /\ Plain(<<"heal", "advance">>) /\ Plain(<<"enqueue", "claim">>) /\ Plain(<<"sync", "claim">>)
      /\ Plain(<<"enqueue", "advance">>)
  BY PlainLists DEF Routines, Fresh
<1>4. Plain(<<"cancelPending", "gates", "signal", "check">>)
  BY PlainLists DEF Routines, Fresh
<1>5. Plain(ScheduleReadyNodes) /\ Plain(PropagateFailure)
  BY PlainLists DEF Routines, Fresh, ScheduleReadyNodes, PropagateFailure
<1>6. Plain(ReconcileCancelling)
  BY PlainLists DEF Routines, Fresh, ReconcileCancelling
<1>7. Plain(PropagateFailure \o <<"claim">>) /\ PropagateFailure \o <<"claim">> /= <<>>
  <2> DEFINE p == PropagateFailure
             c == <<"claim">>
             l == p \o c
  <2>1. p \in Seq(Routines) /\ Ordered(p) /\ p[1] \notin Fresh \ {"finalize"} /\ Len(p) = 3
    BY <1>5 DEF Plain, PropagateFailure
  <2>2. c \in Seq(Routines) /\ Len(c) = 1 /\ c[1] = "claim"
    BY DEF Routines
  <2> HIDE DEF p, c
  <2>0. p \in Seq(Routines) /\ c \in Seq(Routines)
    BY <2>1, <2>2
  <2>3. /\ l \in Seq(Routines) /\ Len(l) = Len(p) + Len(c)
        /\ \A i \in 1 .. Len(l) : l[i] = IF i <= Len(p) THEN p[i] ELSE c[i - Len(p)]
    BY <2>0
  <2> HIDE DEF l
  <2>4. \A i \in 2 .. Len(l) : l[i] \notin Fresh
    <3>1. \A i \in 2 .. 3 : l[i] = p[i]
      BY <2>1, <2>2, <2>3
    <3>2. l[4] = c[4 - 3]
      BY <2>1, <2>2, <2>3
    <3>3. QED
      BY <2>1, <2>2, <2>3, <3>1, <3>2 DEF Ordered, Fresh
  <2>5. l[1] = p[1]
    BY <2>1, <2>2, <2>3
  <2>6. l /= <<>>
    BY <2>1, <2>2, <2>3
  <2>7. QED
    BY <2>1, <2>3, <2>4, <2>5, <2>6 DEF Plain, Ordered, l, p, c
<1>8. QED
  BY <1>2, <1>3, <1>4, <1>5, <1>6, <1>7

LEMMA AdvanceKeeps == ASSUME EngineInv, NEW a \in Actors, Advance(a) PROVE EngineInv' /\ Onward
<1> DEFINE rs == IF run \notin Dispatchable THEN <<"check">>
                 ELSE IF HasFailedNode THEN PropagateFailure ELSE ScheduleReadyNodes
<1>1. Plain(rs)
  BY RoutineLists
<1>2. At(a, "advance") /\ Call(a, rs) /\ UNCHANGED rows
  BY DEF Advance
<1> HIDE DEF rs
<1>3. QED
  BY <1>1, <1>2, CallKeeps

LEMMA ReconcileKeeps ==
  ASSUME EngineInv, NEW a \in Actors, ReconcileWorkflowRun(a) PROVE EngineInv' /\ Onward
<1> DEFINE rs == IF run = "cancelling" THEN ReconcileCancelling
                 ELSE IF run \in Dispatchable THEN <<"heal", "advance">> ELSE <<>>
<1>1. Plain(rs)
  BY RoutineLists, PlainLists
<1>2. At(a, "reconcile") /\ Call(a, rs) /\ UNCHANGED rows
  BY DEF ReconcileWorkflowRun
<1> HIDE DEF rs
<1>3. QED
  BY <1>1, <1>2, CallKeeps

\* A sweep or a cancellation begins; a crash ends whatever was going on.
LEMMA RequestsKeep ==
  ASSUME EngineInv, NEW a \in Actors, CancelWorkflowRun(a) \/ ReconcileActiveRuns(a) \/ Crash(a)
  PROVE  EngineInv' /\ Onward
<1>1. CASE CancelWorkflowRun(a)
  BY <1>1, BeginKeeps, RoutineLists DEF CancelWorkflowRun
<1>2. CASE ReconcileActiveRuns(a)
  BY <1>2, BeginKeeps, RoutineLists DEF ReconcileActiveRuns
<1>3. CASE Crash(a)
  <2>1. IdleExec \in Exec /\ Relies(IdleExec, node, agent)
    BY IdleExecTyped, IdleExecRelies
  <2>2. exec' = [exec EXCEPT ![a] = IdleExec] /\ UNCHANGED rows
    BY <1>3 DEF Crash, Abort
  <2>3. QED
    BY <2>1, <2>2, ReadKeeps
<1>4. QED
  BY <1>1, <1>2, <1>3

\* Handler y is z, but for a status to write, the node runs to heal and nodes that
\* it no longer has to claim.
SameTask(y, z) ==
    /\ y.todo = z.todo /\ y.plan = z.plan /\ y.ready \subseteq z.ready
    /\ Begins(z, "record") \/ Begins(z, "replace") \/ Begins(z, "queueRetry") => y.at = z.at
    /\ Begins(z, "setState") \/ Begins(z, "resync") => y.tries = z.tries

\* It relies on no more than without them.
LEMMA MemoryKept ==
  ASSUME NEW z, NEW nd, NEW ag, Relies(z, nd, ag), NEW y, SameTask(y, z)
  PROVE  Relies(y, nd, ag)
BY DEF Relies, Begins, SameTask

\* After plain routines a handler is at no fresh one but "finalize".
LEMMA PlainHead ==
  ASSUME NEW x \in Exec, x.todo /= <<>>, Ordered(x.todo), NEW rs, Plain(rs),
         NEW p \in Fresh \ {"finalize"}
  PROVE  ~Begins(Calls(x, rs), p)
<1> DEFINE y == Calls(x, rs)
<1>1. rs \in Seq(Routines) /\ Ordered(rs)
  BY DEF Plain
<1>2. y.todo /= <<>> => Head(y.todo) \notin Fresh \ {"finalize"}
  BY <1>1, CallsList DEF Plain
<1>3. QED
  BY <1>2 DEF Begins

LEMMA CheckKeeps ==
  ASSUME EngineInv, NEW a \in Actors, CheckWorkflowComplete(a) PROVE EngineInv' /\ Onward
<1>1. At(a, "check") /\ UNCHANGED rows
  BY DEF CheckWorkflowComplete
<1> DEFINE go == run \in RunActive /\ ~Undrained /\ Done
<1>2. CASE go
  <2> DEFINE z == Calls(exec[a], <<"finalize">>)
             y == [z EXCEPT !.seen = run, !.want = Verdict]
  <2>1. z \in Exec /\ Relies(z, node, agent)
    BY <1>1, RoutineLists, HandlerAt, CallsRelies
  <2>2. run \in Runs /\ Verdict \in Runs
    BY DEF EngineInv, RowsOK, RowsTyped, Verdict, Runs, RunEnded
  <2>3. exec' = [exec EXCEPT ![a] = y]
    BY <1>2 DEF CheckWorkflowComplete
  <2> HIDE DEF z
  <2>4. y \in Exec /\ y.todo = z.todo /\ y.plan = z.plan /\ y.ready \subseteq z.ready
        /\ y.at = z.at /\ y.tries = z.tries
    BY <2>1, <2>2 DEF Exec
  <2> HIDE DEF y
  <2>5. Relies(y, node, agent)
    <3>1. SameTask(y, z)
      BY <2>1, <2>4 DEF SameTask
    <3>2. QED
      BY <2>1, <2>4, <3>1, MemoryKept
  <2>6. QED
    BY <1>1, <2>3, <2>4, <2>5, ReadKeeps
<1>3. CASE ~go
  BY <1>1, <1>3, ReturnKeeps DEF CheckWorkflowComplete
<1>4. QED
  BY <1>2, <1>3

LEMMA HealAgentNodesKeeps ==
  ASSUME EngineInv, NEW a \in Actors, HealAgentNodes(a) PROVE EngineInv' /\ Onward
<1> DEFINE z == Calls(exec[a], <<"healNext">>)
           y == [z EXCEPT !.healing = {r \in NodeRuns : node[r] = "running"}]
<1>1. At(a, "heal") /\ UNCHANGED rows /\ exec' = [exec EXCEPT ![a] = y]
  BY DEF HealAgentNodes
<1>2. z \in Exec /\ Relies(z, node, agent)
  BY <1>1, RoutineLists, HandlerAt, CallsRelies
<1> HIDE DEF z
<1>3. y \in Exec /\ y.todo = z.todo /\ y.plan = z.plan /\ y.ready \subseteq z.ready
      /\ y.at = z.at /\ y.tries = z.tries
  BY <1>2 DEF Exec
<1> HIDE DEF y
<1>4. Relies(y, node, agent)
  <2>1. SameTask(y, z)
    BY <1>2, <1>3 DEF SameTask
  <2>2. QED
    BY <1>2, <1>3, <2>1, MemoryKept
<1>5. QED
  BY <1>1, <1>3, <1>4, ReadKeeps

\* Going on to write the summary, or not.
LEMMA DerivedRelies ==
  ASSUME NEW x \in Exec, x.todo /= <<>>, NEW nd, NEW ag, Relies(x, nd, ag),
         NEW observed \in Runs, NEW wanted \in Runs, NEW k \in 0 .. SyncTries,
         wanted /= observed => k < SyncTries
  PROVE  /\ [Derived(x, observed, wanted) EXCEPT !.tries = k] \in Exec
         /\ Relies([Derived(x, observed, wanted) EXCEPT !.tries = k], nd, ag)
<1> DEFINE y == [Derived(x, observed, wanted) EXCEPT !.tries = k]
<1>1. CASE wanted = observed
  <2> DEFINE z == Calls(x, <<>>)
  <2>1. z \in Exec /\ Relies(z, nd, ag)
    BY PlainLists, CallsRelies
  <2>2. ~Begins(z, "setState") /\ ~Begins(z, "resync")
    BY PlainLists, PlainHead DEF Relies, Fresh
  <2>3. y = [z EXCEPT !.tries = k]
    BY <1>1 DEF Derived
  <2> HIDE DEF z, y
  <2>4. y \in Exec /\ y.todo = z.todo /\ y.plan = z.plan /\ y.ready \subseteq z.ready /\ y.at = z.at
    BY <2>1, <2>3 DEF Exec
  <2>5. Relies(y, nd, ag)
    <3>1. SameTask(y, z)
      BY <2>1, <2>2, <2>4 DEF SameTask
    <3>2. QED
      BY <2>1, <2>2, <2>4, <3>1, MemoryKept
  <2>6. QED
    BY <2>4, <2>5 DEF y
<1>2. CASE wanted /= observed
  <2> DEFINE z == Calls(x, <<"setState">>)
  <2>1. <<"setState">> \in Seq(Routines) /\ Ordered(<<"setState">>) /\ <<"setState">> /= <<>>
        /\ <<"setState">>[1] = "setState"
    BY DEF Routines, Ordered
  <2>2. /\ z \in Exec /\ Ordered(z.todo) /\ z.todo /= <<>> /\ Head(z.todo) = "setState"
        /\ z = [x EXCEPT !.todo = <<"setState">> \o Tail(x.todo)]
    BY <2>1, CallsList DEF Relies
  <2>3. y = [[z EXCEPT !.seen = observed, !.want = wanted] EXCEPT !.tries = k]
    BY <1>2 DEF Derived
  <2>4. z.plan = x.plan /\ z.ready = x.ready
    BY <2>2 DEF Exec
  <2> HIDE DEF z, y
  <2>5. y \in Exec /\ y.todo = z.todo /\ y.plan = z.plan /\ y.ready = z.ready /\ y.tries = k
    BY <2>2, <2>3 DEF Exec
  <2>6. Relies(y, nd, ag)
    BY <1>2, <2>2, <2>4, <2>5 DEF Relies, Begins
  <2>7. QED
    BY <2>5, <2>6 DEF y
<1>3. QED
  BY <1>1, <1>2

\* The number of tries that a handler has had.
LEMMA TriesTyped == ASSUME NEW x \in Exec
                    PROVE  x.tries \in 0 .. SyncTries /\ 0 \in 0 .. SyncTries /\ 0 < SyncTries
BY WorkflowEngineAssumption DEF Exec, WorkflowEngineAssumption

LEMMA ResyncKeeps ==
  ASSUME EngineInv, NEW a \in Actors, OnlyHumansLeftToAct(a) PROVE EngineInv' /\ Onward
<1> DEFINE x == exec[a]
           w == IF FindReadyNodes = {} THEN "waiting" ELSE "running"
           k == IF run = w THEN 0 ELSE x.tries
           y == [Derived(x, run, w) EXCEPT !.tries = k]
<1>1. At(a, "resync") /\ UNCHANGED rows
  BY DEF OnlyHumansLeftToAct
<1>2. x \in Exec /\ x.todo /= <<>> /\ Relies(x, node, agent) /\ Head(x.todo) = "resync"
  BY <1>1, HandlerAt
<1>3. x.tries < SyncTries
  BY <1>2 DEF Relies, Begins
<1>4. run \in Runs /\ w \in Runs
  BY DEF EngineInv, RowsOK, RowsTyped, Runs, RunActive, Dispatchable
<1>5. Derived(x, run, w) \in Exec
  <2>1. CASE w = run
    BY <1>2, <2>1, PlainLists, CallsRelies DEF Derived
  <2>2. CASE w /= run
    <3> DEFINE z == Calls(x, <<"setState">>)
    <3>1. <<"setState">> \in Seq(Routines) /\ Ordered(<<"setState">>)
      BY DEF Routines, Ordered
    <3>2. z \in Exec
      BY <1>2, <3>1, CallsList DEF Relies
    <3>3. Derived(x, run, w) = [z EXCEPT !.seen = run, !.want = w]
      BY <2>2 DEF Derived
    <3> HIDE DEF z
    <3>4. QED
      BY <1>4, <3>2, <3>3 DEF Exec
  <2>3. QED
    BY <2>1, <2>2
<1>6. Derived(x, run, w).tries = x.tries \/ w = run
  <2>1. CASE w /= run
    <3> DEFINE z == Calls(x, <<"setState">>)
    <3>1. <<"setState">> \in Seq(Routines) /\ Ordered(<<"setState">>) /\ <<"setState">> /= <<>>
      BY DEF Routines, Ordered
    <3>2. z \in Exec /\ z = [x EXCEPT !.todo = <<"setState">> \o Tail(x.todo)]
      BY <1>2, <3>1, CallsList DEF Relies
    <3>3. Derived(x, run, w) = [z EXCEPT !.seen = run, !.want = w]
      BY <2>1 DEF Derived
    <3>4. z.tries = x.tries
      BY <1>2, <3>2 DEF Exec
    <3> HIDE DEF z
    <3>5. QED
      BY <3>2, <3>3, <3>4 DEF Exec
  <2>2. QED
    BY <2>1
<1>7. exec' = [exec EXCEPT ![a] = y]
  <2>1. exec' = [exec EXCEPT ![a] = [Derived(x, run, w) EXCEPT
                    !.tries = IF run = w THEN 0 ELSE Derived(x, run, w).tries]]
    BY Zenon DEF OnlyHumansLeftToAct
  <2>2. (IF run = w THEN 0 ELSE Derived(x, run, w).tries) = k
    BY <1>6
  <2>3. QED
    BY <2>1, <2>2
<1>8. k \in 0 .. SyncTries /\ (w /= run => k < SyncTries)
  BY <1>2, <1>3, TriesTyped
<1>9. y \in Exec /\ Relies(y, node, agent)
  <2> HIDE DEF x, w, k
  <2>1. QED
    BY <1>2, <1>4, <1>8, DerivedRelies
<1> HIDE DEF y
<1>10. QED
  BY <1>1, <1>7, <1>9, ReadKeeps

LEMMA SyncKeeps == ASSUME EngineInv, NEW a \in Actors, SyncRunState(a) PROVE EngineInv' /\ Onward
<1> DEFINE x == exec[a]
           over == run \notin Dispatchable \/ x.tries = SyncTries
           human == "waiting" \in CurrentStatuses /\ "running" \notin CurrentStatuses /\ ~HasFailedNode
<1>1. At(a, "sync") /\ UNCHANGED rows
  BY DEF SyncRunState
<1>2. x \in Exec /\ x.todo /= <<>> /\ Relies(x, node, agent)
  BY <1>1, HandlerAt
<1>3. run \in Runs /\ "running" \in Runs
  BY DEF EngineInv, RowsOK, RowsTyped, Runs, RunActive, Dispatchable
<1>4. CASE over
  <2> DEFINE y == [Calls(x, <<>>) EXCEPT !.tries = 0]
  <2>1. exec' = [exec EXCEPT ![a] = y]
    BY <1>4, Zenon DEF SyncRunState
  <2>2. Derived(x, run, run) = Calls(x, <<>>)
    BY DEF Derived
  <2>3. y \in Exec /\ Relies(y, node, agent)
    BY <1>2, <1>3, <2>2, TriesTyped, DerivedRelies
  <2> HIDE DEF y
  <2>4. QED
    BY <1>1, <2>1, <2>3, ReadKeeps
<1>5. CASE ~over /\ human
  <2> DEFINE y == Calls(x, <<"resync">>)
  <2>1. exec' = [exec EXCEPT ![a] = y]
    BY <1>5, Zenon DEF SyncRunState
  <2>2. <<"resync">> \in Seq(Routines) /\ Ordered(<<"resync">>) /\ <<"resync">> /= <<>>
        /\ <<"resync">>[1] = "resync"
    BY DEF Routines, Ordered
  <2>3. /\ y \in Exec /\ Ordered(y.todo) /\ Head(y.todo) = "resync"
        /\ y = [x EXCEPT !.todo = <<"resync">> \o Tail(x.todo)]
    BY <1>2, <2>2, CallsList DEF Relies
  <2>4. y.plan = x.plan /\ y.ready = x.ready /\ y.tries = x.tries
    BY <1>2, <2>3 DEF Exec
  <2>5. y.tries < SyncTries
    BY <1>2, <1>5, <2>4, TriesTyped, WorkflowEngineAssumption DEF WorkflowEngineAssumption
  <2> HIDE DEF y
  <2>6. Relies(y, node, agent)
    BY <1>2, <2>3, <2>4, <2>5 DEF Relies, Begins
  <2>7. QED
    BY <1>1, <2>1, <2>3, <2>6, ReadKeeps
<1>6. CASE ~over /\ ~human
  <2> DEFINE z == Derived(x, run, "running")
             y == [z EXCEPT !.tries = IF run = "running" THEN 0 ELSE z.tries]
             k == IF run = "running" THEN 0 ELSE x.tries
  <2>1. exec' = [exec EXCEPT ![a] = y]
    BY <1>6, Zenon DEF SyncRunState
  <2>2. z.tries = x.tries \/ run = "running"
    <3>1. CASE run /= "running"
      <4> DEFINE w == Calls(x, <<"setState">>)
      <4>1. <<"setState">> \in Seq(Routines) /\ Ordered(<<"setState">>) /\ <<"setState">> /= <<>>
        BY DEF Routines, Ordered
      <4>2. w \in Exec /\ w = [x EXCEPT !.todo = <<"setState">> \o Tail(x.todo)]
        BY <1>2, <4>1, CallsList DEF Relies
      <4>3. z = [w EXCEPT !.seen = run, !.want = "running"]
        BY <3>1 DEF Derived
      <4>4. w.tries = x.tries
        BY <1>2, <4>2 DEF Exec
      <4> HIDE DEF w
      <4>5. QED
        BY <4>2, <4>3, <4>4 DEF Exec
    <3>2. QED
      BY <3>1
  <2>3. y = [z EXCEPT !.tries = k]
    BY <2>2
  <2>4. k \in 0 .. SyncTries /\ ("running" /= run => k < SyncTries)
    BY <1>2, <1>6, TriesTyped, WorkflowEngineAssumption DEF WorkflowEngineAssumption
  <2>5. y \in Exec /\ Relies(y, node, agent)
    <3> HIDE DEF x, k
    <3>1. QED
      BY <1>2, <1>3, <2>3, <2>4, DerivedRelies
  <2> HIDE DEF y
  <2>6. QED
    BY <1>1, <2>1, <2>5, ReadKeeps
<1>7. QED
  BY <1>4, <1>5, <1>6

\* The nodes that are cancelled now, and those of them that can be tried again.
LEMMA RetryKeeps == ASSUME EngineInv, NEW a \in Actors, RetryFailedAgentNode(a) PROVE EngineInv' /\ Onward
<1>1. PICK r \in NodeRuns : /\ r = Latest(r[1]) /\ HasRoom(r)
                            /\ \E routine \in RetryModes(r) :
                                  exec' = [exec EXCEPT ![a] = [IdleExec EXCEPT
                                              !.todo = <<routine>>, !.at = r, !.plan = CancelledNow]]
  BY DEF RetryFailedAgentNode
<1>2. PICK routine \in RetryModes(r) :
          exec' = [exec EXCEPT ![a] = [IdleExec EXCEPT !.todo = <<routine>>, !.at = r, !.plan = CancelledNow]]
  BY <1>1
<1>3. routine \in {"replace", "queueRetry"} /\ node[r] = "failed"
  BY DEF RetryModes
<1> DEFINE y == [IdleExec EXCEPT !.todo = <<routine>>, !.at = r, !.plan = CancelledNow]
<1>4. <<routine>> \in Seq(Routines) /\ Ordered(<<routine>>)
  BY <1>3 DEF Routines, Ordered
<1>5. CancelledNow \in SUBSET NodeRuns /\ \A q \in CancelledNow : node[q] = "cancelled" /\ HasRoom(q)
  BY DEF CancelledNow, RetryFailedAgentNode
<1>6. y \in Exec /\ y.todo = <<routine>> /\ y.at = r /\ y.plan = CancelledNow /\ y.ready = {}
  BY <1>4, <1>5, IdleExecTyped DEF Exec, IdleExec
<1> HIDE DEF y
<1>7. Relies(y, node, agent)
  BY <1>1, <1>3, <1>4, <1>5, <1>6 DEF Relies, Begins
<1>8. exec' = [exec EXCEPT ![a] = y] /\ UNCHANGED rows
  BY <1>2 DEF y, RetryFailedAgentNode
<1>9. QED
  BY <1>6, <1>7, <1>8, ReadKeeps

-----------------------------------------------------------------------------
(***************************************************************************)
(* Steps that change the run and the agents                                *)
(***************************************************************************)
AgentRow == [status : {"none", "open"} \cup AgentEnded, job : {"none", "queued", "dead"},
             signalled : BOOLEAN]

\* An agent run only ends; nothing else changes the rows of nodes and approvals.
AgentsOnly ==
    /\ UNCHANGED <<node, approval>>
    /\ run' \in Runs /\ byHand' \in BOOLEAN
    /\ agent' \in [NodeRuns -> AgentRow]
    /\ \A r \in NodeRuns : \/ agent'[r].status = agent[r].status
                           \/ agent[r].status = "open" /\ agent'[r].status \in AgentEnded

LEMMA AgentsKeep == ASSUME EngineInv, AgentsOnly PROVE RowsOK' /\ Onward
<1>1. RowsOK
  BY DEF EngineInv
<1>2. RowsTyped'
  BY <1>1 DEF RowsOK, RowsTyped, AgentsOnly, AgentRow
<1>3. AttemptsInOrder' /\ StartedInOrder'
  BY <1>1 DEF RowsOK, AttemptsInOrder, StartedInOrder, AgentsOnly, Sources
<1>4. WorkIsTied'
  BY <1>1 DEF RowsOK, WorkIsTied, AgentsOnly, AgentEnded
<1>5. Onward
  BY DEF Onward, AgentsOnly, AgentEnded
<1>6. QED
  BY <1>2, <1>3, <1>4, <1>5 DEF RowsOK

\* Such a step, of a handler that goes on to plain routines.
LEMMA AgentCallKeeps ==
  ASSUME EngineInv, AgentsOnly, NEW a \in Actors, NEW routine, At(a, routine),
         NEW rs, Plain(rs), Call(a, rs)
  PROVE  EngineInv' /\ Onward
<1> DEFINE y == Calls(exec[a], rs)
<1>1. RowsOK' /\ Onward
  BY AgentsKeep
<1>2. exec[a] \in Exec /\ exec[a].todo /= <<>> /\ Relies(exec[a], node, agent)
  BY HandlerAt
<1>3. Relies(exec[a], node', agent')
  BY <1>1, <1>2, RelianceLasts
<1>4. y \in Exec /\ Relies(y, node', agent')
  BY <1>2, <1>3, CallsRelies
<1>5. exec' = [exec EXCEPT ![a] = y]
  BY DEF Call
<1> HIDE DEF y
<1>6. QED
  BY <1>1, <1>4, <1>5, ActorKeeps

LEMMA EnsureJobAgents ==
  ASSUME EngineInv, NEW r \in NodeRuns, EnsureJob(r), UNCHANGED <<run, byHand, node, approval>>
  PROVE  AgentsOnly
BY DEF EnsureJob, AgentsOnly, AgentRow, EngineInv, RowsOK, RowsTyped

LEMMA EnqueueKeeps == ASSUME EngineInv, NEW a \in Actors, Enqueue(a) PROVE EngineInv' /\ Onward
<1>1. At(a, "enqueue") /\ EnsureJob(exec[a].at) /\ UNCHANGED <<run, byHand, node, approval>>
      /\ Call(a, <<>>)
  BY DEF Enqueue, Return, Call
<1>2. exec[a].at \in NodeRuns
  BY <1>1, HandlerAt DEF Exec
<1>3. AgentsOnly
  BY <1>1, <1>2, EnsureJobAgents
<1>4. QED
  BY <1>1, <1>3, PlainLists, AgentCallKeeps

\* An agent ends, its job dies, or a person stops it.
LEMMA AgentStepsKeep ==
  ASSUME EngineInv, NEW r \in NodeRuns, AgentEnds(r) \/ JobDies(r) \/ PersonStops(r)
  PROVE  EngineInv' /\ Onward
<1>1. agent \in [NodeRuns -> AgentRow] /\ run \in Runs /\ byHand \in BOOLEAN
  BY DEF EngineInv, RowsOK, RowsTyped, AgentRow
<1>2. ASSUME AgentEnds(r) PROVE AgentsOnly
  <2>1. PICK s \in AgentEnded : agent' = [agent EXCEPT ![r].status = s]
    BY <1>2 DEF AgentEnds, AgentEnded
  <2>2. QED
    BY <1>1, <1>2, <2>1 DEF AgentEnds, AgentsOnly, AgentRow
<1>3. ASSUME JobDies(r) PROVE AgentsOnly
  BY <1>1, <1>3 DEF JobDies, AgentsOnly, AgentRow
<1>4. ASSUME PersonStops(r) PROVE AgentsOnly
  BY <1>1, <1>4 DEF PersonStops, AgentsOnly, AgentRow
<1>5. AgentsOnly /\ UNCHANGED exec
  BY <1>2, <1>3, <1>4 DEF AgentEnds, JobDies, PersonStops
<1>6. QED
  BY <1>5, AgentsKeep, RowsKeep

LEMMA SignalKeeps == ASSUME EngineInv, NEW a \in Actors, SignalActiveAgents(a) PROVE EngineInv' /\ Onward
<1>1. agent \in [NodeRuns -> AgentRow] /\ run \in Runs /\ byHand \in BOOLEAN
  BY DEF EngineInv, RowsOK, RowsTyped, AgentRow
<1>2. \A r \in NodeRuns : agent'[r] = IF node[r] = "running" THEN [agent[r] EXCEPT !.signalled = TRUE]
                                      ELSE agent[r]
  BY DEF SignalActiveAgents
<1>3. \A r \in NodeRuns : agent'[r] \in AgentRow /\ agent'[r].status = agent[r].status
  BY <1>1, <1>2 DEF AgentRow
<1>4. AgentsOnly
  BY <1>1, <1>3 DEF SignalActiveAgents, AgentsOnly
<1>5. At(a, "signal") /\ Call(a, <<>>)
  BY DEF SignalActiveAgents, Return, Call
<1>6. QED
  BY <1>4, <1>5, PlainLists, AgentCallKeeps

\* The run takes another status, or keeps its own.
LEMMA RunOnly ==
  ASSUME EngineInv, UNCHANGED <<node, agent, approval>>, run' \in Runs, byHand' \in BOOLEAN
  PROVE  AgentsOnly
BY DEF AgentsOnly, AgentRow, EngineInv, RowsOK, RowsTyped

LEMMA FinalizeKeeps == ASSUME EngineInv, NEW a \in Actors, Finalize(a) PROVE EngineInv' /\ Onward
<1>1. At(a, "finalize") /\ Call(a, <<>>)
  BY DEF Finalize, Return, Call
<1>2. exec[a].want \in Runs
  BY <1>1, HandlerAt DEF Exec
<1>3. run' \in Runs /\ byHand' \in BOOLEAN
  BY <1>2 DEF Finalize, EngineInv, RowsOK, RowsTyped
<1>4. AgentsOnly
  BY <1>3, RunOnly DEF Finalize
<1>5. QED
  BY <1>1, <1>4, PlainLists, AgentCallKeeps

LEMMA MarkCancellingKeeps ==
  ASSUME EngineInv, NEW a \in Actors, MarkCancelling(a) PROVE EngineInv' /\ Onward
<1>1. At(a, "mark")
  BY DEF MarkCancelling
<1>2. run' \in Runs /\ byHand' \in BOOLEAN
  BY DEF MarkCancelling, EngineInv, RowsOK, RowsTyped, Runs, RunActive
<1>3. AgentsOnly
  BY <1>2, RunOnly DEF MarkCancelling
<1>4. CASE run \in RunActive
  <2>1. Call(a, <<"cancelPending", "gates", "signal", "check">>)
    BY <1>4 DEF MarkCancelling
  <2>2. QED
    BY <1>1, <1>3, <2>1, RoutineLists, AgentCallKeeps
<1>5. CASE run \notin RunActive
  <2>1. Call(a, <<>>)
    BY <1>5 DEF MarkCancelling, Return, Call
  <2>2. QED
    BY <1>1, <1>3, <2>1, PlainLists, AgentCallKeeps
<1>6. QED
  BY <1>4, <1>5

LEMMA SetStateKeeps == ASSUME EngineInv, NEW a \in Actors, SetState(a) PROVE EngineInv' /\ Onward
<1> DEFINE x == exec[a]
           z == Calls(x, <<"sync">>)
           y == [z EXCEPT !.tries = z.tries + 1]
<1>1. At(a, "setState") /\ exec' = [exec EXCEPT ![a] = y]
  BY Zenon DEF SetState
<1>2. x \in Exec /\ x.todo /= <<>> /\ Relies(x, node, agent) /\ x.tries < SyncTries
  BY <1>1, HandlerAt DEF Relies, Begins
<1>3. run' \in Runs /\ byHand' \in BOOLEAN
  BY <1>2 DEF SetState, EngineInv, RowsOK, RowsTyped, Exec
<1>4. AgentsOnly
  BY <1>3, RunOnly DEF SetState
<1>5. RowsOK' /\ Onward
  BY <1>4, AgentsKeep
<1>6. Relies(x, node', agent')
  BY <1>2, <1>5, RelianceLasts
<1>7. z \in Exec /\ Relies(z, node', agent')
  BY <1>2, <1>6, RoutineLists, CallsRelies
<1>8. ~Begins(z, "setState") /\ ~Begins(z, "resync")
  BY <1>2, RoutineLists, PlainHead DEF Relies, Fresh
<1>9. z.tries = x.tries
  <2>1. <<"sync">> \in Seq(Routines) /\ Ordered(<<"sync">>) /\ <<"sync">> /= <<>>
    BY DEF Routines, Ordered
  <2>2. z = [x EXCEPT !.todo = <<"sync">> \o Tail(x.todo)]
    BY <1>2, <2>1, CallsList DEF Relies
  <2>3. QED
    BY <1>2, <2>2 DEF Exec
<1> HIDE DEF z
<1>10. z.tries + 1 \in 0 .. SyncTries
  BY <1>2, <1>9, TriesTyped, WorkflowEngineAssumption DEF WorkflowEngineAssumption
<1>11. y \in Exec /\ y.todo = z.todo /\ y.plan = z.plan /\ y.ready \subseteq z.ready /\ y.at = z.at
  BY <1>7, <1>10 DEF Exec
<1> HIDE DEF y
<1>12. SameTask(y, z)
  BY <1>8, <1>11 DEF SameTask
<1>13. Relies(y, node', agent')
  BY <1>7, <1>12, MemoryKept
<1>14. QED
  BY <1>1, <1>5, <1>11, <1>13, ActorKeeps

\* The handler that goes on to record node run r, whose agent has ended.
LEMMA RecordedRelies ==
  ASSUME NEW x \in Exec, x.todo /= <<>>, NEW nd, NEW ag, Relies(x, nd, ag),
         ag[x.at].status \in AgentEnded
  PROVE  /\ Calls(x, <<"record", "healNext">>) \in Exec
         /\ Relies(Calls(x, <<"record", "healNext">>), nd, ag)
<1> DEFINE rs == <<"record", "healNext">>
           y == Calls(x, rs)
<1>1. rs \in Seq(Routines) /\ Ordered(rs) /\ rs /= <<>> /\ rs[1] = "record"
  BY DEF Routines, Ordered, Fresh
<1>2. /\ y \in Exec /\ Ordered(y.todo) /\ Head(y.todo) = "record"
      /\ y = [x EXCEPT !.todo = rs \o Tail(x.todo)]
  BY <1>1, CallsList DEF Relies
<1>3. y.plan = x.plan /\ y.ready = x.ready /\ y.at = x.at
  BY <1>2 DEF Exec
<1> HIDE DEF y
<1>4. Relies(y, nd, ag)
  BY <1>2, <1>3 DEF Relies, Begins
<1>5. QED
  BY <1>2, <1>4 DEF y

LEMMA HealNextKeeps == ASSUME EngineInv, NEW a \in Actors, HealNext(a) PROVE EngineInv' /\ Onward
<1>1. At(a, "healNext") /\ UNCHANGED <<run, byHand, node, approval>>
  BY DEF HealNext
<1>2. exec[a] \in Exec /\ exec[a].todo /= <<>> /\ Relies(exec[a], node, agent)
      /\ Head(exec[a].todo) = "healNext"
  BY <1>1, HandlerAt
<1>3. agent \in [NodeRuns -> AgentRow] /\ run \in Runs /\ byHand \in BOOLEAN
  BY DEF EngineInv, RowsOK, RowsTyped, AgentRow
<1>4. CASE exec[a].healing = {}
  <2>1. Call(a, <<>>) /\ UNCHANGED rows
    BY <1>1, <1>4 DEF HealNext, Return, Call, rows
  <2>2. QED
    BY <1>1, <2>1, PlainLists, CallKeeps
<1>5. CASE exec[a].healing /= {}
  <2> DEFINE rest(r) == [exec[a] EXCEPT !.healing = @ \ {r}, !.at = r]
             recorded(r) == Calls(rest(r), <<"record", "healNext">>)
  <2>1. PICK r \in exec[a].healing :
            CASE agent[r].status \in AgentEnded ->
                    exec' = [exec EXCEPT ![a] = recorded(r)] /\ UNCHANGED agent
              [] agent[r].job = "none" ->
                    exec' = [exec EXCEPT ![a] = rest(r)] /\ EnsureJob(r)
              [] Orphaned(r) ->
                    /\ exec' = [exec EXCEPT ![a] = recorded(r)]
                    /\ agent' = [agent EXCEPT ![r].status = "interrupted"]
              [] OTHER -> exec' = [exec EXCEPT ![a] = rest(r)] /\ UNCHANGED agent
    BY <1>5, Zenon DEF HealNext
  <2>2. r \in NodeRuns
    BY <1>2 DEF Exec
  <2>3. \/ /\ agent[r].status \in AgentEnded
           /\ exec' = [exec EXCEPT ![a] = recorded(r)] /\ UNCHANGED agent
        \/ exec' = [exec EXCEPT ![a] = rest(r)] /\ EnsureJob(r)
        \/ /\ Orphaned(r) /\ exec' = [exec EXCEPT ![a] = recorded(r)]
           /\ agent' = [agent EXCEPT ![r].status = "interrupted"]
        \/ exec' = [exec EXCEPT ![a] = rest(r)] /\ UNCHANGED agent
    <3> HIDE DEF rest, recorded
    <3>1. QED
      BY <2>1
  <2>4. AgentsOnly
    <3>1. CASE UNCHANGED agent
      BY <1>1, <1>3, <3>1 DEF AgentsOnly
    <3>2. CASE EnsureJob(r)
      BY <1>1, <2>2, <3>2, EnsureJobAgents
    <3>3. CASE Orphaned(r) /\ agent' = [agent EXCEPT ![r].status = "interrupted"]
      BY <1>1, <1>3, <2>2, <3>3 DEF AgentsOnly, AgentRow, Orphaned, AgentEnded
    <3>4. QED
      BY <2>3, <3>1, <3>2, <3>3
  <2>5. RowsOK' /\ Onward
    BY <2>4, AgentsKeep
  <2>6. /\ rest(r) \in Exec /\ rest(r).todo = exec[a].todo /\ rest(r).at = r
        /\ rest(r).plan = exec[a].plan /\ rest(r).ready \subseteq exec[a].ready
        /\ rest(r).tries = exec[a].tries
    BY <1>2, <2>2 DEF Exec
  <2>7. Relies(rest(r), node', agent')
    <3> HIDE DEF rest
    <3>1. SameTask(rest(r), exec[a])
      BY <1>2, <2>6 DEF SameTask, Begins
    <3>2. Relies(exec[a], node', agent')
      BY <1>2, <2>5, RelianceLasts
    <3>3. QED
      BY <3>1, <3>2, MemoryKept
  <2>8. CASE exec' = [exec EXCEPT ![a] = rest(r)]
    <3> HIDE DEF rest
    <3>1. QED
      BY <2>5, <2>6, <2>7, <2>8, ActorKeeps
  <2>9. CASE exec' = [exec EXCEPT ![a] = recorded(r)] /\ agent'[r].status \in AgentEnded
    <3>1. recorded(r) \in Exec /\ Relies(recorded(r), node', agent')
      <4> HIDE DEF rest
      <4>1. QED
        BY <1>2, <2>6, <2>7, <2>9, RecordedRelies
    <3> HIDE DEF recorded
    <3>2. QED
      BY <2>5, <2>9, <3>1, ActorKeeps
  <2>10. agent' = [agent EXCEPT ![r].status = "interrupted"] => agent'[r].status \in AgentEnded
    BY <1>3, <2>2 DEF AgentRow, AgentEnded
  <2>11. QED
    <3> HIDE DEF rest, recorded
    <3>1. QED
      BY <2>3, <2>8, <2>9, <2>10
<1>6. QED
  BY <1>4, <1>5

-----------------------------------------------------------------------------
(***************************************************************************)
(* Steps that change node runs                                             *)
(***************************************************************************)
NodeStatus == {"absent", "pending"} \cup NodeActive \cup NodeEnded

\* Node runs that exist and have not ended go on; one that starts may.
NodesMove ==
    /\ node' \in [NodeRuns -> NodeStatus]
    /\ \A r \in NodeRuns :
          \/ node'[r] = node[r]
          \/ /\ node[r] \notin {"absent"} \cup NodeEnded /\ node'[r] /= "absent"
             /\ node'[r] \in Started => \A m \in Sources(r[1]) : CompletedIn(node, m)

\* New attempts of nodes that had failed or were cancelled.
NodesAdded ==
    /\ node' \in [NodeRuns -> NodeStatus]
    /\ \A r \in NodeRuns :
          \/ node'[r] = node[r]
          \/ /\ node[r] = "absent" /\ node'[r] \in {"pending", "running"}
             /\ \E i \in Iterations : r = <<r[1], i + 1>> /\ node[<<r[1], i>>] \in {"failed", "cancelled"}
             /\ node'[r] \in Started => \A m \in Sources(r[1]) : CompletedIn(node, m)

\* What has completed stays so.
LEMMA CompletedLasts ==
  ASSUME NodesMove \/ NodesAdded, NEW m \in Nodes, CompletedIn(node, m) PROVE CompletedIn(node', m)
<1>1. PICK i \in Iterations : node[<<m, i>>] = "completed"
  BY DEF CompletedIn
<1>2. <<m, i>> \in NodeRuns
  BY DEF NodeRuns, Iterations
<1>3. node'[<<m, i>>] = "completed"
  BY <1>1, <1>2 DEF NodesMove, NodesAdded, NodeEnded
<1>4. QED
  BY <1>3 DEF CompletedIn

LEMMA StartedLasts ==
  ASSUME RowsOK, NodesMove \/ NodesAdded PROVE StartedInOrder'
<1> SUFFICES ASSUME NEW r \in NodeRuns, node'[r] \in Started, NEW m \in Sources(r[1])
             PROVE  CompletedIn(node', m)
  BY DEF StartedInOrder, Sources
<1>1. CASE node'[r] = node[r]
  BY <1>1, CompletedLasts DEF RowsOK, StartedInOrder, Sources
<1>2. CASE node'[r] /= node[r]
  BY <1>2, CompletedLasts DEF NodesMove, NodesAdded, Sources
<1>3. QED
  BY <1>1, <1>2

LEMMA MovesInOrder == ASSUME RowsOK, NodesMove PROVE AttemptsInOrder'
<1>1. \A n \in Nodes, i \in Iterations : <<n, i>> \in NodeRuns
  BY DEF NodeRuns, Iterations
<1>2. 0 \in Iterations
  BY WorkflowEngineAssumption DEF WorkflowEngineAssumption, Iterations
<1>3. ASSUME NEW n \in Nodes PROVE node'[<<n, 0>>] /= "absent"
  BY <1>1, <1>2 DEF NodesMove, RowsOK, AttemptsInOrder
<1>4. ASSUME NEW n \in Nodes, NEW i \in Iterations, NEW j \in Iterations, i < j,
             node'[<<n, j>>] /= "absent"
      PROVE  node'[<<n, i>>] \in {"failed", "cancelled"}
  <2>1. node[<<n, j>>] /= "absent"
    BY <1>1, <1>4 DEF NodesMove
  <2>2. node[<<n, i>>] \in {"failed", "cancelled"}
    BY <1>4, <2>1 DEF RowsOK, AttemptsInOrder
  <2>3. QED
    BY <1>1, <2>2 DEF NodesMove, NodeEnded
<1>5. QED
  BY <1>3, <1>4 DEF AttemptsInOrder

LEMMA AddedInOrder == ASSUME RowsOK, NodesAdded PROVE AttemptsInOrder'
<1>1. \A n \in Nodes, i \in Iterations : <<n, i>> \in NodeRuns
  BY DEF NodeRuns, Iterations
<1>2. 0 \in Iterations /\ Iterations \subseteq Nat
  BY WorkflowEngineAssumption DEF WorkflowEngineAssumption, Iterations
<1>3. ASSUME NEW n \in Nodes PROVE node'[<<n, 0>>] /= "absent"
  BY <1>1, <1>2 DEF NodesAdded, RowsOK, AttemptsInOrder
<1>4. ASSUME NEW n \in Nodes, NEW i \in Iterations, NEW j \in Iterations, i < j,
             node'[<<n, j>>] /= "absent"
      PROVE  node'[<<n, i>>] \in {"failed", "cancelled"}
  <2>1. CASE node[<<n, j>>] /= "absent"
    <3>1. node[<<n, i>>] \in {"failed", "cancelled"}
      BY <1>4, <2>1 DEF RowsOK, AttemptsInOrder
    <3>2. QED
      BY <1>1, <3>1 DEF NodesAdded
  <2>2. CASE node[<<n, j>>] = "absent"
    <3>1. PICK k \in Iterations : <<n, j>> = <<n, k + 1>> /\ node[<<n, k>>] \in {"failed", "cancelled"}
      BY <1>1, <1>4, <2>2 DEF NodesAdded
    <3>2. j = k + 1 /\ i <= k
      BY <1>2, <1>4, <3>1
    <3>3. node[<<n, i>>] \in {"failed", "cancelled"}
      <4>1. CASE i = k
        BY <3>1, <4>1
      <4>2. CASE i < k
        BY <3>1, <4>2 DEF RowsOK, AttemptsInOrder
      <4>3. QED
        BY <1>2, <3>2, <4>1, <4>2
    <3>4. QED
      BY <1>1, <3>3 DEF NodesAdded
  <2>3. QED
    BY <2>1, <2>2
<1>5. QED
  BY <1>3, <1>4 DEF AttemptsInOrder

\* The rows as a whole, after a step that moves or adds node runs.
LEMMA NodesKeep ==
  ASSUME EngineInv, NodesMove \/ NodesAdded, RowsTyped', WorkIsTied' PROVE RowsOK'
<1>1. RowsOK
  BY DEF EngineInv
<1>2. AttemptsInOrder'
  BY <1>1, MovesInOrder, AddedInOrder
<1>3. StartedInOrder'
  BY <1>1, StartedLasts
<1>4. QED
  BY <1>2, <1>3 DEF RowsOK

\* The node of a run that is claimed: who claims it has read that it is ready.
LEMMA ClaimedMoves ==
  ASSUME EngineInv, NEW r \in NodeRuns, NEW s \in NodeActive \cup {"completed", "failed"},
         ClaimPendingNode(r, s), \A m \in Sources(r[1]) : CompletedIn(node, m)
  PROVE  /\ NodesMove /\ node[r] = "pending" /\ node'[r] = s
         /\ \A q \in NodeRuns \ {r} : node'[q] = node[q]
<1>1. node \in [NodeRuns -> NodeStatus]
  BY DEF EngineInv, RowsOK, RowsTyped, NodeStatus
<1>2. node[r] = "pending" /\ node' = [node EXCEPT ![r] = s]
  BY DEF ClaimPendingNode
<1>3. s \in NodeStatus /\ s /= "absent"
  BY DEF NodeStatus, NodeActive, NodeEnded
<1>4. node' \in [NodeRuns -> NodeStatus] /\ node'[r] = s /\ \A q \in NodeRuns \ {r} : node'[q] = node[q]
  BY <1>1, <1>2, <1>3
<1>5. "pending" \notin {"absent"} \cup NodeEnded
  BY DEF NodeEnded
<1>6. QED
  BY <1>2, <1>3, <1>4, <1>5 DEF NodesMove

\* A claim leaves handler a with the nodes rest, after it has called rs.
LEMMA ClaimCalls ==
  ASSUME NEW x \in Exec, x.todo /= <<>>, Head(x.todo) = "claim", NEW nd, NEW ag, Relies(x, nd, ag),
         NEW rest, rest \subseteq x.ready, NEW rs, Plain(rs), rs /= <<>>
  PROVE  /\ [Calls(x, rs) EXCEPT !.ready = rest] \in Exec
         /\ Relies([Calls(x, rs) EXCEPT !.ready = rest], nd, ag)
<1> DEFINE z == Calls(x, rs)
           y == [z EXCEPT !.ready = rest]
<1>1. z \in Exec /\ Relies(z, nd, ag)
  BY CallsRelies
<1>2. z = [x EXCEPT !.todo = rs \o Tail(x.todo)]
  BY CallsList DEF Plain, Relies
<1>3. z.ready = x.ready
  BY <1>2 DEF Exec
<1> HIDE DEF z
<1>4. /\ y \in Exec /\ y.todo = z.todo /\ y.plan = z.plan /\ y.ready \subseteq z.ready
      /\ y.at = z.at /\ y.tries = z.tries
  BY <1>1, <1>3 DEF Exec
<1>5. SameTask(y, z)
  BY <1>4 DEF SameTask
<1> HIDE DEF y
<1>6. QED
  BY <1>1, <1>4, <1>5, MemoryKept DEF y, z

\* Or with no call: it only passes a node.
LEMMA ClaimPasses ==
  ASSUME NEW x \in Exec, NEW nd, NEW ag, Relies(x, nd, ag), NEW rest, rest \subseteq x.ready
  PROVE  [x EXCEPT !.ready = rest] \in Exec /\ Relies([x EXCEPT !.ready = rest], nd, ag)
<1> DEFINE y == [x EXCEPT !.ready = rest]
<1>1. /\ y \in Exec /\ y.todo = x.todo /\ y.plan = x.plan /\ y.ready \subseteq x.ready
      /\ y.at = x.at /\ y.tries = x.tries
  BY DEF Exec
<1>2. SameTask(y, x)
  BY <1>1 DEF SameTask
<1> HIDE DEF y
<1>3. QED
  BY <1>1, <1>2, MemoryKept DEF y

\* The agent run is opened with the claim.
LEMMA DispatchAgentKeeps ==
  ASSUME EngineInv, NEW a \in Actors, At(a, "claim"), UNCHANGED <<run, byHand>>,
         NEW r \in NodeRuns, \A m \in Sources(r[1]) : CompletedIn(node, m),
         NEW rest, rest \subseteq exec[a].ready, DispatchAgent(a, r, rest)
  PROVE  EngineInv' /\ Onward
<1> DEFINE x == exec[a]
           rs == <<"enqueue", "claim">>
           z == [Calls(x, rs) EXCEPT !.ready = rest]
           y == [Calls(x, rs) EXCEPT !.ready = rest, !.at = r]
<1>1. /\ NodesMove /\ node[r] = "pending" /\ node'[r] = "running"
      /\ \A q \in NodeRuns \ {r} : node'[q] = node[q]
  BY ClaimedMoves DEF DispatchAgent, NodeActive
<1>2. agent \in [NodeRuns -> AgentRow] /\ WorkIsTied /\ RowsTyped
  BY DEF EngineInv, RowsOK, RowsTyped, AgentRow
<1>3. agent' = [agent EXCEPT ![r].status = "open"] /\ UNCHANGED approval
  BY DEF DispatchAgent
<1>4. agent' \in [NodeRuns -> AgentRow] /\ agent'[r].status = "open"
      /\ \A q \in NodeRuns \ {r} : agent'[q] = agent[q]
  BY <1>2, <1>3 DEF AgentRow
<1>5. agent[r].status = "none" /\ approval[r] = "none"
  BY <1>1, <1>2 DEF WorkIsTied
<1>6. RowsTyped'
  BY <1>1, <1>2, <1>3, <1>4 DEF RowsTyped, NodesMove, NodeStatus, AgentRow
<1>7. WorkIsTied'
  <2> SUFFICES ASSUME NEW q \in NodeRuns
               PROVE  /\ agent'[q].status = "open" => node'[q] = "running"
                      /\ approval'[q] = "pending" <=> node'[q] = "waiting"
                      /\ node'[q] \in {"absent", "pending"} => agent'[q].status = "none" /\ approval'[q] = "none"
    BY DEF WorkIsTied
  <2>1. CASE q = r
    BY <1>1, <1>3, <1>4, <1>5, <2>1
  <2>2. CASE q /= r
    BY <1>1, <1>2, <1>3, <1>4, <2>2 DEF WorkIsTied
  <2>3. QED
    BY <2>1, <2>2
<1>8. RowsOK'
  BY <1>1, <1>6, <1>7, NodesKeep
<1>9. Onward
  BY <1>1, <1>3, <1>4, <1>5 DEF Onward, NodesMove, NodeEnded, AgentEnded
<1>10. x \in Exec /\ x.todo /= <<>> /\ Head(x.todo) = "claim" /\ Relies(x, node', agent')
       /\ Ordered(x.todo)
  BY <1>9, HandlerAt, RelianceLasts DEF Relies
<1>11. Plain(rs) /\ rs /= <<>>
  BY RoutineLists
<1>12. z \in Exec /\ Relies(z, node', agent')
  BY <1>10, <1>11, ClaimCalls
<1>13. z.todo = Calls(x, rs).todo
  <2>1. Calls(x, rs) \in Exec
    BY <1>10, <1>11, CallsRelies
  <2>2. QED
    BY <2>1 DEF Exec
<1>14. \A p \in Fresh \ {"finalize"} : ~Begins(z, p)
  BY <1>10, <1>11, <1>13, PlainHead DEF Begins
<1>15. y = [z EXCEPT !.at = r]
  OBVIOUS
<1>16. exec' = [exec EXCEPT ![a] = y]
  BY DEF DispatchAgent
<1> HIDE DEF z
<1>17. /\ y \in Exec /\ y.todo = z.todo /\ y.plan = z.plan /\ y.ready \subseteq z.ready
       /\ y.tries = z.tries
  BY <1>12, <1>15 DEF Exec
<1> HIDE DEF y
<1>18. SameTask(y, z)
  BY <1>14, <1>17 DEF SameTask, Fresh
<1>19. Relies(y, node', agent')
  BY <1>12, <1>18, MemoryKept
<1>20. QED
  BY <1>8, <1>9, <1>16, <1>17, <1>19, ActorKeeps

\* The rows after a claim that opens no agent run: a gate asks for approval.
LEMMA ClaimedRows ==
  ASSUME EngineInv, UNCHANGED <<run, byHand, agent>>, NEW r \in NodeRuns,
         NEW s \in {"waiting", "completed", "failed"}, ClaimPendingNode(r, s),
         \A m \in Sources(r[1]) : CompletedIn(node, m),
         s = "waiting" => RequestApproval(r),
         s /= "waiting" => UNCHANGED approval
  PROVE  RowsOK' /\ Onward
<1>1. /\ NodesMove /\ node[r] = "pending" /\ node'[r] = s
      /\ \A q \in NodeRuns \ {r} : node'[q] = node[q]
  BY ClaimedMoves DEF NodeActive
<1>2. RowsTyped /\ WorkIsTied
  BY DEF EngineInv, RowsOK
<1>3. agent[r].status = "none" /\ approval[r] = "none"
  BY <1>1, <1>2 DEF WorkIsTied
<1>4. /\ approval' \in [NodeRuns -> {"none", "pending", "approved", "rejected", "expired"}]
      /\ approval'[r] = IF s = "waiting" THEN "pending" ELSE "none"
      /\ \A q \in NodeRuns \ {r} : approval'[q] = approval[q]
  BY <1>2, <1>3 DEF RowsTyped, RequestApproval
<1>5. RowsTyped'
  BY <1>1, <1>2, <1>4 DEF RowsTyped, NodesMove, NodeStatus
<1>6. WorkIsTied'
  <2> SUFFICES ASSUME NEW q \in NodeRuns
               PROVE  /\ agent'[q].status = "open" => node'[q] = "running"
                      /\ approval'[q] = "pending" <=> node'[q] = "waiting"
                      /\ node'[q] \in {"absent", "pending"} => agent'[q].status = "none" /\ approval'[q] = "none"
    BY DEF WorkIsTied
  <2>1. CASE q = r
    BY <1>1, <1>3, <1>4, <2>1
  <2>2. CASE q /= r
    BY <1>1, <1>2, <1>4, <2>2 DEF WorkIsTied
  <2>3. QED
    BY <2>1, <2>2
<1>7. RowsOK'
  BY <1>1, <1>5, <1>6, NodesKeep
<1>8. Onward
  BY <1>1, <1>3, <1>4 DEF Onward, NodesMove, NodeEnded
<1>9. QED
  BY <1>7, <1>8

LEMMA ClaimKeeps == ASSUME EngineInv, NEW a \in Actors, Claim(a) PROVE EngineInv' /\ Onward
<1> DEFINE x == exec[a]
           n == Min(x.ready)
           r == Latest(n)
           rest == x.ready \ {n}
<1>1. At(a, "claim") /\ UNCHANGED <<run, byHand>>
  BY DEF Claim
<1>2. x \in Exec /\ x.todo /= <<>> /\ Head(x.todo) = "claim" /\ Relies(x, node, agent)
  BY <1>1, HandlerAt
<1>3. CASE x.ready = {} \/ ~AcceptsDispatch
  <2>1. Return(a) /\ UNCHANGED rows
    BY <1>1, <1>3 DEF Claim, rows
  <2>2. QED
    BY <1>1, <2>1, ReturnKeeps
<1>4. CASE ~(x.ready = {} \/ ~AcceptsDispatch)
  <2>1. x.ready \in SUBSET Nat /\ x.ready \subseteq Nodes
    BY <1>2, WorkflowEngineAssumption DEF Exec, WorkflowEngineAssumption
  <2>2. n \in x.ready /\ n \in Nodes
    BY <1>4, <2>1, MinOfNaturals
  <2>3. r \in NodeRuns /\ r[1] = n
    BY <2>2, LatestExists DEF EngineInv, RowsOK, AttemptsInOrder
  <2>4. \A m \in Sources(r[1]) : CompletedIn(node, m)
    BY <1>2, <2>2, <2>3 DEF Relies
  <2>5. rest \subseteq x.ready
    OBVIOUS
  <2>6. (CASE node[r] /= "pending" ->
                exec' = [exec EXCEPT ![a].ready = rest] /\ UNCHANGED <<node, agent, approval>>
          [] node[r] = "pending" /\ Kind[n] = "agent" -> DispatchAgent(a, r, rest)
          [] node[r] = "pending" /\ Kind[n] = "gate" -> DispatchHumanApproval(a, r, rest)
          [] node[r] = "pending" /\ Kind[n] = "terminal" -> DispatchTerminal(a, r, rest)
          [] node[r] = "pending" /\ Kind[n] = "unsupported" -> FailNodeAtDispatch(a, r, rest))
    BY <1>4, Zenon DEF Claim
  <2>7. Kind[n] \in {"agent", "gate", "terminal", "unsupported"}
    BY <2>2, WorkflowEngineAssumption DEF WorkflowEngineAssumption
  <2> HIDE DEF n, r, rest
  <2>8. \/ exec' = [exec EXCEPT ![a].ready = rest] /\ UNCHANGED <<node, agent, approval>>
        \/ DispatchAgent(a, r, rest) \/ DispatchHumanApproval(a, r, rest)
        \/ DispatchTerminal(a, r, rest) \/ FailNodeAtDispatch(a, r, rest)
    BY <2>6, <2>7
  <2> DEFINE passed == [x EXCEPT !.ready = rest]
  <2>9. [exec EXCEPT ![a].ready = rest] = [exec EXCEPT ![a] = passed]
    OBVIOUS
  <2>10. CASE exec' = [exec EXCEPT ![a].ready = rest] /\ UNCHANGED <<node, agent, approval>>
    <3>1. passed \in Exec /\ Relies(passed, node, agent)
      BY <1>2, <2>5, ClaimPasses
    <3>2. exec' = [exec EXCEPT ![a] = passed] /\ UNCHANGED rows
      BY <1>1, <2>9, <2>10 DEF rows
    <3> HIDE DEF passed
    <3>3. QED
      BY <3>1, <3>2, ReadKeeps
  <2>11. CASE DispatchAgent(a, r, rest)
    BY <1>1, <2>3, <2>4, <2>5, <2>11, DispatchAgentKeeps
  <2>12. CASE DispatchHumanApproval(a, r, rest)
    <3> DEFINE y == [Calls(x, <<"sync", "claim">>) EXCEPT !.ready = rest]
    <3>1. RowsOK' /\ Onward
      BY <1>1, <2>3, <2>4, <2>12, ClaimedRows DEF DispatchHumanApproval
    <3>2. Relies(x, node', agent')
      BY <1>2, <3>1, RelianceLasts
    <3>3. y \in Exec /\ Relies(y, node', agent')
      BY <1>2, <2>5, <3>2, RoutineLists, ClaimCalls
    <3>4. exec' = [exec EXCEPT ![a] = y]
      BY <2>12 DEF DispatchHumanApproval
    <3> HIDE DEF y
    <3>5. QED
      BY <3>1, <3>3, <3>4, ActorKeeps
  <2>13. CASE DispatchTerminal(a, r, rest)
    <3>1. RowsOK' /\ Onward
      BY <1>1, <2>3, <2>4, <2>13, ClaimedRows DEF DispatchTerminal
    <3>2. Relies(x, node', agent')
      BY <1>2, <3>1, RelianceLasts
    <3>3. passed \in Exec /\ Relies(passed, node', agent')
      BY <1>2, <2>5, <3>2, ClaimPasses
    <3>4. exec' = [exec EXCEPT ![a] = passed]
      BY <2>9, <2>13 DEF DispatchTerminal
    <3> HIDE DEF passed
    <3>5. QED
      BY <3>1, <3>3, <3>4, ActorKeeps
  <2>14. CASE FailNodeAtDispatch(a, r, rest)
    <3> DEFINE rs == PropagateFailure \o <<"claim">>
               y == [Calls(x, rs) EXCEPT !.ready = rest]
    <3>1. RowsOK' /\ Onward
      BY <1>1, <2>3, <2>4, <2>14, ClaimedRows DEF FailNodeAtDispatch
    <3>2. Relies(x, node', agent')
      BY <1>2, <3>1, RelianceLasts
    <3>3. Plain(rs)
      BY RoutineLists
    <3>4. rs /= <<>>
      BY RoutineLists
    <3>5. exec' = [exec EXCEPT ![a] = y]
      BY <2>14 DEF FailNodeAtDispatch
    <3> HIDE DEF rs
    <3>6. y \in Exec /\ Relies(y, node', agent')
      BY <1>2, <2>5, <3>2, <3>3, <3>4, ClaimCalls
    <3> HIDE DEF y
    <3>7. QED
      BY <3>1, <3>5, <3>6, ActorKeeps
  <2>15. QED
    BY <2>8, <2>10, <2>11, <2>12, <2>13, <2>14
<1>5. QED
  BY <1>3, <1>4

\* One node run takes another status.
LEMMA NodeMoved ==
  ASSUME EngineInv, NEW r \in NodeRuns, node[r] \notin {"absent"} \cup NodeEnded,
         NEW s \in NodeStatus \ {"absent"}, node' = [node EXCEPT ![r] = s],
         s \in Started => \A m \in Sources(r[1]) : CompletedIn(node, m)
  PROVE  NodesMove /\ node'[r] = s /\ \A q \in NodeRuns \ {r} : node'[q] = node[q]
<1>1. node \in [NodeRuns -> NodeStatus]
  BY DEF EngineInv, RowsOK, RowsTyped, NodeStatus
<1>2. node' \in [NodeRuns -> NodeStatus] /\ node'[r] = s /\ \A q \in NodeRuns \ {r} : node'[q] = node[q]
  BY <1>1
<1>3. QED
  BY <1>2 DEF NodesMove

\* One node run ends, and with it the approval that it waited for.
EndsOne(r, s) ==
    /\ node' = [node EXCEPT ![r] = s]
    /\ approval' \in [NodeRuns -> {"none", "pending", "approved", "rejected", "expired"}]
    /\ approval'[r] /= "pending"
    /\ node[r] = "running" => approval'[r] = approval[r]
    /\ \A q \in NodeRuns \ {r} : approval'[q] = approval[q]
    /\ UNCHANGED agent

LEMMA EndsOneKeeps ==
  ASSUME EngineInv, NEW r \in NodeRuns, node[r] \in NodeActive, agent[r].status /= "open",
         NEW s \in NodeEnded, EndsOne(r, s), run' \in Runs, byHand' \in BOOLEAN
  PROVE  RowsOK' /\ Onward
<1>1. RowsTyped /\ WorkIsTied /\ StartedInOrder
  BY DEF EngineInv, RowsOK
<1>2. \A m \in Sources(r[1]) : CompletedIn(node, m)
  BY <1>1 DEF StartedInOrder, Started
<1>3. s \in NodeStatus \ {"absent"} /\ node[r] \notin {"absent"} \cup NodeEnded
  BY DEF NodeStatus, NodeEnded, NodeActive
<1>4. NodesMove /\ node'[r] = s /\ \A q \in NodeRuns \ {r} : node'[q] = node[q]
  BY <1>2, <1>3, NodeMoved DEF EndsOne
<1>5. RowsTyped'
  BY <1>1, <1>4 DEF RowsTyped, NodesMove, NodeStatus, EndsOne
<1>6. WorkIsTied'
  <2> SUFFICES ASSUME NEW q \in NodeRuns
               PROVE  /\ agent'[q].status = "open" => node'[q] = "running"
                      /\ approval'[q] = "pending" <=> node'[q] = "waiting"
                      /\ node'[q] \in {"absent", "pending"} => agent'[q].status = "none" /\ approval'[q] = "none"
    BY DEF WorkIsTied
  <2>1. CASE q = r
    BY <1>4, <2>1 DEF EndsOne, NodeEnded
  <2>2. CASE q /= r
    BY <1>1, <1>4, <2>2 DEF WorkIsTied, EndsOne
  <2>3. QED
    BY <2>1, <2>2
<1>7. RowsOK'
  BY <1>4, <1>5, <1>6, NodesKeep
<1>8. Onward
  <2> SUFFICES ASSUME NEW q \in NodeRuns
               PROVE  /\ node[q] \in NodeEnded => node'[q] = node[q]
                      /\ approval[q] \in {"approved", "rejected", "expired"} => approval'[q] = approval[q]
                      /\ agent[q].status \in AgentEnded => agent'[q].status = agent[q].status
    BY DEF Onward
  <2>1. CASE q = r
    <3>1. node[q] = "running" \/ approval[q] = "pending"
      BY <1>1, <2>1 DEF WorkIsTied, NodeActive
    <3>2. QED
      BY <1>3, <2>1, <3>1 DEF EndsOne
  <2>2. CASE q /= r
    BY <1>4, <2>2 DEF EndsOne
  <2>3. QED
    BY <2>1, <2>2
<1>9. QED
  BY <1>7, <1>8

LEMMA RecordKeeps == ASSUME EngineInv, NEW a \in Actors, Record(a) PROVE EngineInv' /\ Onward
<1> DEFINE x == exec[a]
           r == x.at
           y == Calls(x, <<"advance">>)
<1>1. At(a, "record") /\ exec' = [exec EXCEPT ![a] = y] /\ UNCHANGED <<byHand, agent, approval>>
  BY DEF Record, Call
<1>2. x \in Exec /\ x.todo /= <<>> /\ Head(x.todo) = "record" /\ Relies(x, node, agent)
  BY <1>1, HandlerAt
<1>3. r \in NodeRuns /\ agent[r].status \in AgentEnded
  BY <1>2 DEF Exec, Relies, Begins
<1>4. RowsTyped /\ WorkIsTied
  BY DEF EngineInv, RowsOK
<1>5. RowsOK' /\ Onward
  <2>1. CASE node[r] = "running"
    <3>1. node' = [node EXCEPT ![r] = OutcomeOf(agent[r].status)]
          /\ run' = IF StopsRun(r) /\ run \in Dispatchable THEN "cancelling" ELSE run
      BY <2>1 DEF Record, Recorded
    <3>2. OutcomeOf(agent[r].status) \in NodeEnded
      BY <1>3 DEF OutcomeOf, AgentEnded, NodeEnded
    <3>3. run' \in Runs /\ byHand' \in BOOLEAN
      BY <1>1, <1>4, <3>1 DEF RowsTyped, Runs, RunActive
    <3>4. approval[r] /= "pending"
      BY <1>3, <1>4, <2>1 DEF WorkIsTied
    <3>5. EndsOne(r, OutcomeOf(agent[r].status))
      BY <1>1, <1>4, <3>1, <3>4 DEF EndsOne, RowsTyped
    <3>6. node[r] \in NodeActive /\ agent[r].status /= "open"
      BY <1>3, <2>1 DEF NodeActive, AgentEnded
    <3> HIDE DEF r
    <3>7. QED
      BY <1>3, <3>2, <3>3, <3>5, <3>6, EndsOneKeeps
  <2>2. CASE node[r] /= "running"
    <3>1. UNCHANGED <<node, run>>
      BY <2>2 DEF Record, Recorded
    <3>2. run' \in Runs /\ byHand' \in BOOLEAN
      BY <1>1, <1>4, <3>1 DEF RowsTyped
    <3>3. AgentsOnly
      BY <1>1, <3>1, <3>2, RunOnly
    <3>4. QED
      BY <3>3, AgentsKeep
  <2>3. QED
    BY <2>1, <2>2
<1>6. Relies(x, node', agent')
  BY <1>2, <1>5, RelianceLasts
<1>7. y \in Exec /\ Relies(y, node', agent')
  BY <1>2, <1>6, RoutineLists, CallsRelies
<1> HIDE DEF y
<1>8. QED
  BY <1>1, <1>5, <1>7, ActorKeeps

LEMMA CloseGatesKeeps ==
  ASSUME EngineInv, NEW a \in Actors, CloseWaitingApprovalNodes(a) PROVE EngineInv' /\ Onward
<1>1. At(a, "gates") /\ UNCHANGED <<run, byHand, agent>>
  BY DEF CloseWaitingApprovalNodes
<1>2. CASE WaitingNodeRuns = {}
  <2>1. Return(a) /\ UNCHANGED rows
    BY <1>1, <1>2 DEF CloseWaitingApprovalNodes, rows
  <2>2. QED
    BY <1>1, <2>1, ReturnKeeps
<1>3. CASE WaitingNodeRuns /= {}
  <2>1. PICK r \in WaitingNodeRuns : CloseGate(r)
    BY <1>3 DEF CloseWaitingApprovalNodes
  <2>2. r \in NodeRuns /\ node[r] = "waiting"
    BY DEF WaitingNodeRuns
  <2>3. RowsTyped /\ WorkIsTied
    BY DEF EngineInv, RowsOK
  <2>4. approval[r] = "pending" /\ agent[r].status /= "open"
    BY <2>2, <2>3 DEF WorkIsTied
  <2>5. EndsOne(r, "cancelled")
    BY <1>1, <2>1, <2>2, <2>3, <2>4 DEF CloseGate, EndsOne, RowsTyped
  <2>6. run' \in Runs /\ byHand' \in BOOLEAN
    BY <1>1, <2>3 DEF RowsTyped
  <2>7. node[r] \in NodeActive /\ "cancelled" \in NodeEnded
    BY <2>2 DEF NodeActive, NodeEnded
  <2>8. RowsOK' /\ Onward
    BY <2>2, <2>4, <2>5, <2>6, <2>7, EndsOneKeeps
  <2>9. UNCHANGED exec
    BY <1>3 DEF CloseWaitingApprovalNodes
  <2>10. QED
    BY <2>8, <2>9, RowsKeep
<1>4. QED
  BY <1>2, <1>3

LEMMA ResolveKeeps == ASSUME EngineInv, NEW a \in Actors, Resolve(a) PROVE EngineInv' /\ Onward
<1>1. PICK r \in NodeRuns, decision \in {"approved", "rejected"} :
          /\ Decidable(r)
          /\ approval' = [approval EXCEPT ![r] = decision]
          /\ node' = [node EXCEPT ![r] = IF decision = "approved" THEN "completed" ELSE "failed"]
  BY DEF Resolve
<1> DEFINE s == IF decision = "approved" THEN "completed" ELSE "failed"
           y == [IdleExec EXCEPT !.todo = <<"reconcile">>]
<1>2. RowsTyped /\ WorkIsTied
  BY DEF EngineInv, RowsOK
<1>3. node[r] = "waiting" /\ agent[r].status /= "open"
  BY <1>1, <1>2 DEF Decidable, WorkIsTied
<1>4. EndsOne(r, s)
  BY <1>1, <1>2, <1>3 DEF EndsOne, RowsTyped, Resolve
<1>5. run' \in Runs /\ byHand' \in BOOLEAN
  BY <1>2 DEF Resolve, RowsTyped, Runs, RunActive, Dispatchable
<1>6. s \in NodeEnded /\ node[r] \in NodeActive
  BY <1>3 DEF NodeActive, NodeEnded
<1> HIDE DEF s
<1>7. RowsOK' /\ Onward
  BY <1>3, <1>4, <1>5, <1>6, EndsOneKeeps
<1>8. y \in Exec /\ Relies(y, node', agent')
  BY RoutineLists, BeginsPlain
<1>9. exec' = [exec EXCEPT ![a] = y]
  BY DEF Resolve, Begin
<1> HIDE DEF y
<1>10. QED
  BY <1>7, <1>8, <1>9, ActorKeeps

LEMMA CancelPendingKeeps ==
  ASSUME EngineInv, NEW a \in Actors, CancelPendingNodes(a) PROVE EngineInv' /\ Onward
<1>1. /\ At(a, "cancelPending") /\ UNCHANGED <<run, byHand, agent, approval>>
      /\ exec' = [exec EXCEPT ![a] = Calls(exec[a], <<>>)]
  BY DEF CancelPendingNodes, Return
<1>2. RowsTyped /\ WorkIsTied
  BY DEF EngineInv, RowsOK
<1>3. node' \in [NodeRuns -> NodeStatus]
      /\ \A r \in NodeRuns : node'[r] = IF node[r] = "pending" THEN "cancelled" ELSE node[r]
  BY <1>2 DEF CancelPendingNodes, RowsTyped, NodeStatus, NodeEnded
<1>4. NodesMove
  BY <1>3 DEF NodesMove, NodeEnded, Started, NodeActive
<1>5. RowsTyped'
  BY <1>1, <1>2, <1>3 DEF RowsTyped, NodeStatus
<1>6. WorkIsTied'
  BY <1>1, <1>2, <1>3 DEF WorkIsTied
<1>7. RowsOK'
  BY <1>4, <1>5, <1>6, NodesKeep
<1>8. Onward
  BY <1>1, <1>3 DEF Onward, NodeEnded
<1>9. exec[a] \in Exec /\ exec[a].todo /= <<>> /\ Relies(exec[a], node', agent')
  BY <1>1, <1>8, HandlerAt, RelianceLasts
<1>10. Calls(exec[a], <<>>) \in Exec /\ Relies(Calls(exec[a], <<>>), node', agent')
  BY <1>9, PlainLists, CallsRelies
<1>11. QED
  BY <1>1, <1>7, <1>8, <1>10, ActorKeeps

-----------------------------------------------------------------------------
(***************************************************************************)
(* Retries                                                                 *)
(***************************************************************************)
\* The attempt after one that has room for another.
LEMMA FollowingExists ==
  ASSUME NEW r \in NodeRuns, HasRoom(r)
  PROVE  /\ Following(r) \in NodeRuns /\ Following(r)[1] = r[1]
         /\ r[1] \in Nodes /\ r[2] \in Iterations
         /\ Following(r) = <<r[1], r[2] + 1>> /\ r = <<r[1], r[2]>>
<1>1. PICK n \in Nodes, i \in 0 .. MaxIteration : r = <<n, i>>
  BY DEF NodeRuns
<1>2. i + 1 \in 0 .. MaxIteration
  BY <1>1, WorkflowEngineAssumption DEF HasRoom, WorkflowEngineAssumption
<1>3. QED
  BY <1>1, <1>2 DEF Following, NodeRuns, Iterations

\* New attempts that are only pending open nothing.
LEMMA AddedPendingKeeps ==
  ASSUME EngineInv, UNCHANGED <<byHand, agent, approval>>, run' \in Runs, NodesAdded,
         \A r \in NodeRuns : node'[r] = node[r] \/ node'[r] = "pending"
  PROVE  RowsOK' /\ Onward
<1>1. RowsTyped /\ WorkIsTied
  BY DEF EngineInv, RowsOK
<1>2. RowsTyped'
  BY <1>1 DEF RowsTyped, NodesAdded, NodeStatus
<1>3. WorkIsTied'
  BY <1>1 DEF WorkIsTied, NodesAdded
<1>4. RowsOK'
  BY <1>2, <1>3, NodesKeep
<1>5. Onward
  BY DEF Onward, NodesAdded, NodeEnded
<1>6. QED
  BY <1>4, <1>5

LEMMA QueueRetryKeeps == ASSUME EngineInv, NEW a \in Actors, QueueRetry(a) PROVE EngineInv' /\ Onward
<1> DEFINE x == exec[a]
           retry == Following(x.at)
           y == Calls(x, <<"resume">>)
<1>1. At(a, "queueRetry") /\ UNCHANGED <<run, byHand, agent, approval>>
  BY DEF QueueRetry
<1>2. x \in Exec /\ x.todo /= <<>> /\ Head(x.todo) = "queueRetry" /\ Relies(x, node, agent)
  BY <1>1, HandlerAt
<1>3. x.at \in NodeRuns /\ node[x.at] = "failed" /\ HasRoom(x.at)
  BY <1>2 DEF Exec, Relies, Begins
<1>4. CASE node[retry] = "absent"
  <2>1. node' = [node EXCEPT ![retry] = "pending"] /\ exec' = [exec EXCEPT ![a] = y]
    BY <1>4 DEF QueueRetry, Call
  <2>2. /\ retry \in NodeRuns /\ retry = <<retry[1], x.at[2] + 1>> /\ x.at = <<retry[1], x.at[2]>>
        /\ x.at[2] \in Iterations
    BY <1>3, FollowingExists
  <2>3. node \in [NodeRuns -> NodeStatus] /\ run \in Runs
    BY DEF EngineInv, RowsOK, RowsTyped, NodeStatus
  <2> HIDE DEF retry
  <2>4. node' \in [NodeRuns -> NodeStatus] /\ node'[retry] = "pending"
        /\ \A q \in NodeRuns \ {retry} : node'[q] = node[q]
    BY <2>1, <2>2, <2>3 DEF NodeStatus
  <2>5. NodesAdded
    <3> SUFFICES ASSUME NEW q \in NodeRuns, node'[q] /= node[q]
                 PROVE  /\ node[q] = "absent" /\ node'[q] \in {"pending", "running"}
                        /\ \E i \in Iterations : q = <<q[1], i + 1>> /\ node[<<q[1], i>>] \in {"failed", "cancelled"}
                        /\ node'[q] \in Started => \A m \in Sources(q[1]) : CompletedIn(node, m)
      BY <2>4 DEF NodesAdded
    <3>1. q = retry
      BY <2>4
    <3>2. "pending" \notin Started
      BY DEF Started, NodeActive
    <3>3. node[<<retry[1], x.at[2]>>] = "failed"
      BY <1>3, <2>2
    <3>4. QED
      BY <1>4, <2>2, <2>4, <3>1, <3>2, <3>3 DEF retry
  <2>6. RowsOK' /\ Onward
    BY <1>1, <2>3, <2>4, <2>5, AddedPendingKeeps
  <2>7. Relies(x, node', agent')
    BY <1>2, <2>6, RelianceLasts
  <2>8. y \in Exec /\ Relies(y, node', agent')
    BY <1>2, <2>7, RoutineLists, CallsRelies
  <2> HIDE DEF y
  <2>9. QED
    BY <2>1, <2>6, <2>8, ActorKeeps
<1>5. CASE node[retry] /= "absent"
  <2>1. exec' = [exec EXCEPT ![a] = IdleExec] /\ UNCHANGED rows
    BY <1>1, <1>5 DEF QueueRetry, Abort, rows
  <2>2. QED
    BY <2>1, IdleExecTyped, IdleExecRelies, ReadKeeps
<1>6. QED
  BY <1>4, <1>5

LEMMA ResumeKeeps == ASSUME EngineInv, NEW a \in Actors, ResumeFailedRun(a) PROVE EngineInv' /\ Onward
<1> DEFINE x == exec[a]
           y == Calls(x, <<"advance">>)
           revived == Revive(CancelledNow)
           go == Repaired /\ \A r \in CancelledNow : HasRoom(r)
<1>1. At(a, "resume") /\ UNCHANGED <<byHand, agent, approval>>
  BY DEF ResumeFailedRun
<1>2. x \in Exec /\ x.todo /= <<>> /\ Relies(x, node, agent)
  BY <1>1, HandlerAt
<1>3. CASE go
  <2>1. /\ run' = "running" /\ exec' = [exec EXCEPT ![a] = y]
        /\ node' = [r \in NodeRuns |-> IF r \in revived THEN "pending" ELSE node[r]]
    BY <1>3 DEF ResumeFailedRun, Call
  <2>2. node \in [NodeRuns -> NodeStatus] /\ AttemptsInOrder
    BY DEF EngineInv, RowsOK, RowsTyped, NodeStatus
  <2>3. ASSUME NEW q \in revived
        PROVE  /\ q \in NodeRuns /\ node[q] = "absent"
               /\ \E i \in Iterations : q = <<q[1], i + 1>> /\ node[<<q[1], i>>] = "cancelled"
    <3>1. PICK r \in CancelledNow : q = Following(r)
      BY DEF Revive
    <3>2. r \in NodeRuns /\ HasRoom(r) /\ node[r] = "cancelled" /\ r = Latest(r[1])
      BY <1>3 DEF CancelledNow
    <3>3. /\ q \in NodeRuns /\ q[1] = r[1] /\ r[1] \in Nodes /\ r[2] \in Iterations
          /\ q = <<r[1], r[2] + 1>> /\ r = <<r[1], r[2]>>
      BY <3>1, <3>2, FollowingExists
    <3>4. r[2] + 1 \in Iterations /\ r[2] + 1 > r[2]
      BY <3>2, <3>3, WorkflowEngineAssumption DEF HasRoom, Iterations, WorkflowEngineAssumption
    <3>5. node[q] = "absent"
      <4>1. node[<<r[1], 0>>] /= "absent"
        BY <2>2, <3>3 DEF AttemptsInOrder
      <4>2. \A j \in Iterations : j > Latest(r[1])[2] => node[<<r[1], j>>] = "absent"
        BY <3>3, <4>1, LatestExists
      <4>3. node[<<r[1], r[2] + 1>>] = "absent"
        BY <3>2, <3>4, <4>2
      <4>4. QED
        BY <3>3, <4>3
    <3>6. QED
      BY <3>2, <3>3, <3>5
  <2> HIDE DEF revived
  <2>4. node' \in [NodeRuns -> NodeStatus]
        /\ \A q \in NodeRuns : node'[q] = IF q \in revived THEN "pending" ELSE node[q]
    BY <2>1, <2>2 DEF NodeStatus
  <2>5. NodesAdded
    <3> SUFFICES ASSUME NEW q \in NodeRuns, node'[q] /= node[q]
                 PROVE  /\ node[q] = "absent" /\ node'[q] \in {"pending", "running"}
                        /\ \E i \in Iterations : q = <<q[1], i + 1>> /\ node[<<q[1], i>>] \in {"failed", "cancelled"}
                        /\ node'[q] \in Started => \A m \in Sources(q[1]) : CompletedIn(node, m)
      BY <2>4 DEF NodesAdded
    <3>1. q \in revived /\ node'[q] = "pending"
      BY <2>4
    <3>2. "pending" \notin Started
      BY DEF Started, NodeActive
    <3>3. QED
      BY <2>3, <3>1, <3>2
  <2>6. run' \in Runs
    BY <2>1 DEF Runs, RunActive, Dispatchable
  <2>7. RowsOK' /\ Onward
    BY <1>1, <2>4, <2>5, <2>6, AddedPendingKeeps
  <2>8. Relies(x, node', agent')
    BY <1>2, <2>7, RelianceLasts
  <2>9. y \in Exec /\ Relies(y, node', agent')
    BY <1>2, <2>8, RoutineLists, CallsRelies
  <2> HIDE DEF y
  <2>10. QED
    BY <2>1, <2>7, <2>9, ActorKeeps
<1>4. CASE ~go
  <2>1. Return(a) /\ UNCHANGED rows
    BY <1>1, <1>4 DEF ResumeFailedRun, rows
  <2>2. QED
    BY <1>1, <2>1, ReturnKeeps
<1>5. QED
  BY <1>3, <1>4

LEMMA ReplaceKeeps == ASSUME EngineInv, NEW a \in Actors, Replace(a) PROVE EngineInv' /\ Onward
<1> DEFINE x == exec[a]
           retry == Following(x.at)
           revived == Revive(x.plan)
           rs == <<"enqueue", "advance">>
           z == Calls(x, rs)
           y == [z EXCEPT !.at = retry]
           allowed == /\ run = "failed"
                      /\ \A r \in revived \cup {retry} : node[r] = "absent"
                      /\ \A n \in Nodes \ {retry[1]} : Current(n) /= "failed"
<1>1. At(a, "replace") /\ UNCHANGED <<byHand, approval>>
  BY DEF Replace
<1>2. x \in Exec /\ x.todo /= <<>> /\ Head(x.todo) = "replace" /\ Relies(x, node, agent) /\ Ordered(x.todo)
  BY <1>1, HandlerAt DEF Relies
<1>3. /\ x.at \in NodeRuns /\ node[x.at] = "failed" /\ HasRoom(x.at)
      /\ \A r \in x.plan : r \in NodeRuns /\ node[r] = "cancelled" /\ HasRoom(r)
  BY <1>2 DEF Exec, Relies, Begins
<1>4. CASE allowed
  <2>1. /\ run' = "running"
        /\ node' = [r \in NodeRuns |-> IF r = retry THEN "running"
                                       ELSE IF r \in revived THEN "pending" ELSE node[r]]
        /\ agent' = [agent EXCEPT ![retry].status = "open"]
        /\ exec' = [exec EXCEPT ![a] = y]
    BY <1>4, Zenon DEF Replace
  <2>2. /\ node \in [NodeRuns -> NodeStatus] /\ RowsTyped /\ WorkIsTied /\ StartedInOrder
        /\ agent \in [NodeRuns -> AgentRow]
    BY DEF EngineInv, RowsOK, RowsTyped, NodeStatus, AgentRow
  <2>3. /\ retry \in NodeRuns /\ retry = <<retry[1], x.at[2] + 1>> /\ x.at = <<retry[1], x.at[2]>>
        /\ x.at[2] \in Iterations /\ retry[1] = x.at[1] /\ node[retry] = "absent"
    BY <1>3, <1>4, FollowingExists
  <2>4. ASSUME NEW q \in revived
        PROVE  /\ node[q] = "absent"
               /\ \E i \in Iterations : q = <<q[1], i + 1>> /\ node[<<q[1], i>>] = "cancelled"
    <3>1. PICK r \in x.plan : q = Following(r)
      BY DEF Revive
    <3>2. QED
      BY <1>3, <1>4, <3>1, FollowingExists
  <2>5. \A m \in Sources(retry[1]) : CompletedIn(node, m)
    BY <1>3, <2>2, <2>3 DEF StartedInOrder, Started
  <2> HIDE DEF retry, revived
  <2>6. node' \in [NodeRuns -> NodeStatus] /\ node'[retry] = "running"
        /\ \A q \in NodeRuns \ {retry} : node'[q] = IF q \in revived THEN "pending" ELSE node[q]
    BY <2>1, <2>2, <2>3 DEF NodeStatus, NodeActive
  <2>7. NodesAdded
    <3> SUFFICES ASSUME NEW q \in NodeRuns, node'[q] /= node[q]
                 PROVE  /\ node[q] = "absent" /\ node'[q] \in {"pending", "running"}
                        /\ \E i \in Iterations : q = <<q[1], i + 1>> /\ node[<<q[1], i>>] \in {"failed", "cancelled"}
                        /\ node'[q] \in Started => \A m \in Sources(q[1]) : CompletedIn(node, m)
      BY <2>6 DEF NodesAdded
    <3>1. CASE q = retry
      BY <1>3, <2>3, <2>5, <2>6, <3>1
    <3>2. CASE q /= retry
      <4>1. q \in revived /\ node'[q] = "pending"
        BY <2>6, <3>2
      <4>2. "pending" \notin Started
        BY DEF Started, NodeActive
      <4>3. QED
        BY <2>4, <4>1, <4>2
    <3>3. QED
      BY <3>1, <3>2
  <2>8. agent' \in [NodeRuns -> AgentRow] /\ agent'[retry].status = "open"
        /\ \A q \in NodeRuns \ {retry} : agent'[q] = agent[q]
    BY <2>1, <2>2, <2>3 DEF AgentRow
  <2>9. agent[retry].status = "none" /\ approval[retry] = "none"
    BY <2>2, <2>3 DEF WorkIsTied
  <2>10. RowsTyped'
    BY <1>1, <2>1, <2>2, <2>6, <2>8
    DEF RowsTyped, NodeStatus, AgentRow, Runs, RunActive, Dispatchable
  <2>11. WorkIsTied'
    <3> SUFFICES ASSUME NEW q \in NodeRuns
                 PROVE  /\ agent'[q].status = "open" => node'[q] = "running"
                        /\ approval'[q] = "pending" <=> node'[q] = "waiting"
                        /\ node'[q] \in {"absent", "pending"} => agent'[q].status = "none" /\ approval'[q] = "none"
      BY DEF WorkIsTied
    <3>1. CASE q = retry
      BY <1>1, <2>6, <2>8, <2>9, <3>1
    <3>2. CASE q /= retry /\ q \in revived
      <4>1. node'[q] = "pending" /\ node[q] = "absent"
        BY <2>4, <2>6, <3>2
      <4>2. QED
        BY <1>1, <2>2, <2>8, <3>2, <4>1 DEF WorkIsTied
    <3>3. CASE q /= retry /\ q \notin revived
      BY <1>1, <2>2, <2>6, <2>8, <3>3 DEF WorkIsTied
    <3>4. QED
      BY <3>1, <3>2, <3>3
  <2>12. RowsOK'
    BY <2>7, <2>10, <2>11, NodesKeep
  <2>13. Onward
    BY <1>1, <2>7, <2>8, <2>9 DEF Onward, NodesAdded, NodeEnded, AgentEnded
  <2>14. Relies(x, node', agent')
    BY <1>2, <2>13, RelianceLasts
  <2>15. z \in Exec /\ Relies(z, node', agent')
    BY <1>2, <2>14, RoutineLists, CallsRelies
  <2>16. \A p \in Fresh \ {"finalize"} : ~Begins(z, p)
    BY <1>2, RoutineLists, PlainHead
  <2> HIDE DEF z
  <2>17. /\ y \in Exec /\ y.todo = z.todo /\ y.plan = z.plan /\ y.ready \subseteq z.ready
         /\ y.tries = z.tries
    BY <2>3, <2>15 DEF Exec
  <2> HIDE DEF y
  <2>18. SameTask(y, z)
    BY <2>16, <2>17 DEF SameTask, Fresh
  <2>19. Relies(y, node', agent')
    BY <2>15, <2>18, MemoryKept
  <2>20. QED
    BY <2>1, <2>12, <2>13, <2>17, <2>19, ActorKeeps
<1>5. CASE ~allowed
  <2>1. exec' = [exec EXCEPT ![a] = IdleExec] /\ UNCHANGED rows
    BY <1>1, <1>5 DEF Replace, Abort, rows
  <2>2. QED
    BY <2>1, IdleExecTyped, IdleExecRelies, ReadKeeps
<1>6. QED
  BY <1>4, <1>5

-----------------------------------------------------------------------------
(***************************************************************************)
(* The theorems                                                            *)
(***************************************************************************)
LEMMA InitKeeps == Init => EngineInv
<1> SUFFICES ASSUME Init PROVE EngineInv
  OBVIOUS
<1>1. PICK a \in Actors : exec = [b \in Actors |-> IF b = a THEN [IdleExec EXCEPT !.todo = ScheduleReadyNodes]
                                                   ELSE IdleExec]
  BY DEF Init
<1>2. \A b \in Actors : exec[b] \in Exec /\ Relies(exec[b], node, agent)
  BY <1>1, IdleExecTyped, IdleExecRelies, BeginsPlain, RoutineLists
<1>3. exec \in [Actors -> Exec]
  BY <1>1, <1>2
<1>4. /\ run = "running" /\ byHand = FALSE
      /\ node = [r \in NodeRuns |-> IF r[2] = 0 THEN "pending" ELSE "absent"]
      /\ agent = [r \in NodeRuns |-> NoAgent] /\ approval = [r \in NodeRuns |-> "none"]
  BY DEF Init
<1>5. RowsTyped
  BY <1>4 DEF RowsTyped, NoAgent, Runs, RunActive, Dispatchable
<1>6. AttemptsInOrder
  <2>1. 0 \in Iterations /\ Iterations \subseteq Nat
    BY WorkflowEngineAssumption DEF WorkflowEngineAssumption, Iterations
  <2>2. \A n \in Nodes, i \in Iterations : node[<<n, i>>] = IF i = 0 THEN "pending" ELSE "absent"
    BY <1>4 DEF NodeRuns, Iterations
  <2>3. QED
    BY <2>1, <2>2 DEF AttemptsInOrder
<1>7. StartedInOrder
  BY <1>4 DEF StartedInOrder, Started, NodeActive
<1>8. WorkIsTied
  BY <1>4 DEF WorkIsTied, NoAgent
<1>9. QED
  BY <1>2, <1>3, <1>5, <1>6, <1>7, <1>8 DEF EngineInv, RowsOK

\* Every step keeps the invariant and every outcome.
LEMMA NextKeeps == ASSUME EngineInv, [Next]_vars PROVE EngineInv' /\ Onward
<1>1. CASE UNCHANGED vars
  <2>1. UNCHANGED rows /\ UNCHANGED exec
    BY <1>1 DEF vars, rows
  <2>2. Onward
    BY <2>1 DEF Onward, rows
  <2>3. RowsOK'
    BY <2>1 DEF EngineInv, rows, RowsOK, RowsTyped, AttemptsInOrder, StartedInOrder, WorkIsTied, Sources
  <2>4. QED
    BY <2>1, <2>2, <2>3, RowsKeep
<1>2. ASSUME NEW a \in Actors, Step(a) PROVE EngineInv' /\ Onward
  <2>1. CASE Dispatch(a) \/ Claim(a) \/ Enqueue(a)
    BY <2>1, DispatchKeeps, ClaimKeeps, EnqueueKeeps
  <2>2. CASE Record(a) \/ Advance(a)
    BY <2>2, RecordKeeps, AdvanceKeeps
  <2>3. CASE SignalActiveAgents(a) \/ CloseWaitingApprovalNodes(a)
    BY <2>3, SignalKeeps, CloseGatesKeeps
  <2>4. CASE CheckWorkflowComplete(a) \/ Finalize(a)
    BY <2>4, CheckKeeps, FinalizeKeeps
  <2>5. CASE SyncRunState(a) \/ OnlyHumansLeftToAct(a) \/ SetState(a)
    BY <2>5, SyncKeeps, ResyncKeeps, SetStateKeeps
  <2>6. CASE MarkCancelling(a) \/ CancelPendingNodes(a)
    BY <2>6, MarkCancellingKeeps, CancelPendingKeeps
  <2>7. CASE ReconcileWorkflowRun(a) \/ HealAgentNodes(a) \/ HealNext(a)
    BY <2>7, ReconcileKeeps, HealAgentNodesKeeps, HealNextKeeps
  <2>8. CASE Replace(a) \/ QueueRetry(a) \/ ResumeFailedRun(a)
    BY <2>8, ReplaceKeeps, QueueRetryKeeps, ResumeKeeps
  <2>9. QED
    BY <1>2, <2>1, <2>2, <2>3, <2>4, <2>5, <2>6, <2>7, <2>8 DEF Step
<1>3. ASSUME NEW a \in Actors, Request(a) \/ Crash(a) PROVE EngineInv' /\ Onward
  <2>1. CASE OnAgentRunComplete(a)
    BY <2>1, OnAgentRunCompleteKeeps
  <2>2. CASE ReconcileActiveRuns(a) \/ CancelWorkflowRun(a) \/ Crash(a)
    BY <2>2, RequestsKeep
  <2>3. CASE Resolve(a)
    BY <2>3, ResolveKeeps
  <2>4. CASE RetryFailedAgentNode(a)
    BY <2>4, RetryKeeps
  <2>5. QED
    BY <1>3, <2>1, <2>2, <2>3, <2>4 DEF Request
<1>4. ASSUME NEW r \in NodeRuns, AgentEnds(r) \/ JobDies(r) \/ PersonStops(r) PROVE EngineInv' /\ Onward
  BY <1>4, AgentStepsKeep
<1>5. QED
  BY <1>1, <1>2, <1>3, <1>4 DEF Next

\* Every step of every handler, a crash between any two of them included, keeps
\* the rows and what the other handlers have read in step.
THEOREM EngineInvariant == Spec => []EngineInv
<1>1. EngineInv /\ [Next]_vars => EngineInv'
  BY NextKeeps
<1>2. QED
  BY InitKeeps, <1>1, PTL DEF Spec

\* The current attempt of a node has completed if any has.
LEMMA CompletedIsCurrent ==
  ASSUME RowsOK, NEW m \in Nodes, CompletedIn(node, m) PROVE Current(m) = "completed"
<1>1. PICK i \in Iterations : node[<<m, i>>] = "completed"
  BY DEF CompletedIn
<1>2. /\ Latest(m) \in NodeRuns /\ Latest(m)[1] = m /\ node[Latest(m)] /= "absent"
      /\ \A j \in Iterations : j > Latest(m)[2] => node[<<m, j>>] = "absent"
  BY LatestExists DEF RowsOK, AttemptsInOrder
<1>3. PICK l \in Iterations : Latest(m) = <<m, l>>
  BY <1>2 DEF NodeRuns, Iterations
<1>4. node[<<m, l>>] /= "absent" /\ \A j \in Iterations : j > l => node[<<m, j>>] = "absent"
  BY <1>2, <1>3
<1>5. i <= l
  BY <1>1, <1>4, WorkflowEngineAssumption DEF Iterations, WorkflowEngineAssumption
<1>6. ~(i < l)
  BY <1>1, <1>4 DEF RowsOK, AttemptsInOrder
<1>7. i = l
  BY <1>5, <1>6, WorkflowEngineAssumption DEF Iterations, WorkflowEngineAssumption
<1>8. QED
  BY <1>1, <1>3, <1>7 DEF Current

\* The state has its types, whatever a handler has read.
THEOREM EngineTypes == Spec => []TypeOK
<1>1. EngineInv => TypeOK
  BY DEF EngineInv, RowsOK, RowsTyped, Exec, Runs, TypeOK
<1>2. QED
  BY <1>1, EngineInvariant, PTL

\* A node starts only after everything that it depends on has completed, though
\* readiness is read well before the claim and retries add attempts meanwhile.
THEOREM NodesStartInOrder == Spec => []DependenciesComplete
<1>1. EngineInv => DependenciesComplete
  <2> SUFFICES ASSUME EngineInv, NEW r \in NodeRuns, node[r] \in NodeActive \cup {"completed", "failed"},
                      NEW m \in Sources(r[1])
               PROVE  Current(m) = "completed"
    BY DEF DependenciesComplete
  <2>1. m \in Nodes /\ CompletedIn(node, m)
    BY DEF EngineInv, RowsOK, StartedInOrder, Started, Sources
  <2>2. QED
    BY <2>1, CompletedIsCurrent DEF EngineInv
<1>2. QED
  BY <1>1, EngineInvariant, PTL

\* Open work belongs to a node that waits for it: no agent is left behind by the
\* node it worked for, and no gate waits without an approval to give.
THEOREM NoOrphanedWork == Spec => []OpenWorkIsAwaited
<1>1. EngineInv => OpenWorkIsAwaited
  BY DEF EngineInv, RowsOK, WorkIsTied, OpenWorkIsAwaited
<1>2. QED
  BY <1>1, EngineInvariant, PTL

\* The outcome of a node run and the decision of an approval are written once,
\* however many lanes, requests and sweeps report at the same time.
THEOREM OutcomesWrittenOnce == Spec => OutcomesAreFinal
<1>1. EngineInv /\ [Next]_vars =>
        [\A r \in NodeRuns : /\ (node[r] \in NodeEnded) => node'[r] = node[r]
                             /\ (approval[r] \in {"approved", "rejected", "expired"}) => approval'[r] = approval[r]
        ]_vars
  BY NextKeeps DEF Onward
<1>2. QED
  BY <1>1, EngineInvariant, PTL DEF Spec, OutcomesAreFinal

-----------------------------------------------------------------------------
(***************************************************************************)
(* The invariant: a verdict on its way is still right when it is written   *)
(***************************************************************************)
\* Nobody retries, and nobody is asked: a retry is given a node run of its own,
\* and a gate makes the run wait for people, who may close it.
Plainly == MaxIteration = 0 /\ \A n \in Nodes : Kind[n] /= "gate"

\* Routines that only retries and gates call.
Never == {"resume", "replace", "queueRetry", "resync", "setState"}
Todo(x) == {x.todo[i] : i \in 1 .. Len(x.todo)}

SomeFailed(nd) == \E r \in NodeRuns : nd[r] = "failed"

\* The run can be given verdict w in this very instant.
Decides(w) ==
    /\ \A r \in NodeRuns : node[r] /= "running"
    /\ SomeFailed(node) \/ \A r \in NodeRuns : node[r] \in NodeEnded
    /\ w = IF SomeFailed(node) THEN "failed" ELSE IF run = "cancelling" THEN "cancelled" ELSE "completed"

\* A handler on its way to write a verdict: the verdict holds for as long as the
\* run has the status that was read, and the run never returns to that status.
WillDecide(x) ==
    Begins(x, "finalize") =>
        /\ x.seen \in {"running", "cancelling"}
        /\ x.seen = "cancelling" => run /= "running"
        /\ run = x.seen => Decides(x.want)

DrainInv ==
    /\ \A r \in NodeRuns : node[r] /= "waiting"
    /\ run \in {"running", "cancelling"} \cup RunEnded
    /\ run \in RunEnded => \A r \in NodeRuns : node[r] /= "running"
    /\ run \in {"completed", "cancelled"} => \A r \in NodeRuns : node[r] \in NodeEnded
    /\ \A a \in Actors :
          /\ Todo(exec[a]) \cap Never = {}
          /\ "cancelPending" \in Todo(exec[a]) => run /= "running"
          /\ WillDecide(exec[a])

-----------------------------------------------------------------------------
(***************************************************************************)
(* What a step does to the run and its nodes                               *)
(***************************************************************************)
Same == UNCHANGED <<run, node>>

Starts ==
    /\ run = "running" /\ ~SomeFailed(node) /\ UNCHANGED run
    /\ \E r \in NodeRuns, s \in {"running", "completed", "failed"} :
          /\ node[r] = "pending" /\ node' = [node EXCEPT ![r] = s]
          /\ \A m \in Sources(r[1]) : CompletedIn(node, m)

Ends ==
    \E r \in NodeRuns, s \in NodeEnded :
        /\ node[r] = "running" /\ node' = [node EXCEPT ![r] = s]
        /\ run' = IF s = "cancelled" /\ ~SomeFailed(node) THEN "cancelling" ELSE run

Cancels == run \in {"running", "cancelling"} /\ run' = "cancelling" /\ UNCHANGED node

Skips ==
    /\ run /= "running" /\ UNCHANGED run
    /\ node' = [r \in NodeRuns |-> IF node[r] = "pending" THEN "cancelled" ELSE node[r]]

Finals == run \in {"running", "cancelling"} /\ Decides(run') /\ UNCHANGED node

Effect == Same \/ Starts \/ Ends \/ Cancels \/ Skips \/ Finals

\* Handler a goes on; if to write a verdict, then to one that holds.
HandlerMoves(a) ==
    \E y : /\ exec' = [exec EXCEPT ![a] = y]
           /\ Todo(y) \cap Never = {}
           /\ "cancelPending" \in Todo(y) => run' /= "running"
           /\ Begins(y, "finalize") =>
                 /\ Same /\ y.seen = run /\ run \in {"running", "cancelling"}
                 /\ Decides(y.want)

-----------------------------------------------------------------------------
(***************************************************************************)
(* Without retries a node has one node run                                 *)
(***************************************************************************)
LEMMA OneAttempt ==
  ASSUME Plainly, RowsOK
  PROVE  /\ \A r \in NodeRuns : r[1] \in Nodes /\ r = <<r[1], 0>> /\ ~HasRoom(r)
         /\ \A n \in Nodes : <<n, 0>> \in NodeRuns /\ Latest(n) = <<n, 0>> /\ Current(n) = node[<<n, 0>>]
         /\ \A m \in Nodes : CompletedIn(node, m) => Current(m) = "completed"
         /\ HasFailedNode <=> SomeFailed(node)
         /\ CurrentStatuses = {node[r] : r \in NodeRuns}
<1>1. NodeRuns = Nodes \X (0 .. 0)
  BY DEF NodeRuns, Plainly
<1>2. 0 .. 0 = {0}
  OBVIOUS
<1>3. \A r \in NodeRuns : r[1] \in Nodes /\ r = <<r[1], 0>> /\ ~HasRoom(r)
  BY <1>1, <1>2 DEF HasRoom, Plainly
<1>4. \A n \in Nodes : <<n, 0>> \in NodeRuns
  BY <1>1, <1>2
<1>5. ASSUME NEW n \in Nodes PROVE Latest(n) = <<n, 0>> /\ Current(n) = node[<<n, 0>>]
  <2>1. Latest(n) \in NodeRuns /\ Latest(n)[1] = n
    BY LatestExists DEF RowsOK, AttemptsInOrder
  <2>2. QED
    BY <1>3, <2>1 DEF Current
<1>6. CurrentStatuses = {node[r] : r \in NodeRuns}
  <2>1. \A n \in Nodes : Current(n) \in {node[r] : r \in NodeRuns}
    BY <1>4, <1>5
  <2>2. \A r \in NodeRuns : \E n \in Nodes : node[r] = Current(n)
    <3> SUFFICES ASSUME NEW r \in NodeRuns PROVE node[r] = Current(r[1]) /\ r[1] \in Nodes
      OBVIOUS
    <3>1. r[1] \in Nodes /\ r = <<r[1], 0>>
      BY <1>3
    <3>2. Current(r[1]) = node[<<r[1], 0>>]
      BY <1>5, <3>1
    <3>3. QED
      BY <3>1, <3>2
  <2>3. QED
    BY <2>1, <2>2 DEF CurrentStatuses
<1>7. HasFailedNode <=> SomeFailed(node)
  BY <1>6 DEF HasFailedNode, SomeFailed
<1>8. QED
  BY <1>3, <1>4, <1>5, <1>6, <1>7, CompletedIsCurrent

-----------------------------------------------------------------------------
(***************************************************************************)
(* Every effect keeps the invariant                                        *)
(***************************************************************************)
\* A verdict on its way, of a handler that does not move, stays right.
LEMMA VerdictLasts ==
  ASSUME EngineInv, DrainInv, Effect, NEW x, WillDecide(x)
  PROVE  Begins(x, "finalize") =>
            /\ x.seen = "cancelling" => run' /= "running"
            /\ run' = x.seen => Decides(x.want)'
<1> SUFFICES ASSUME Begins(x, "finalize")
             PROVE  /\ x.seen = "cancelling" => run' /= "running"
                    /\ run' = x.seen => Decides(x.want)'
  OBVIOUS
<1>0. /\ x.seen \in {"running", "cancelling"} /\ (x.seen = "cancelling" => run /= "running")
      /\ (run = x.seen => Decides(x.want))
  BY DEF WillDecide
<1>n. node \in [NodeRuns -> NodeStatus]
  BY DEF EngineInv, RowsOK, RowsTyped, NodeStatus
<1>1. CASE Same
  BY <1>0, <1>1 DEF Same, Decides, SomeFailed
<1>2. CASE Starts
  BY <1>0, <1>2 DEF Starts, Decides, NodeEnded
<1>3. CASE Ends
  <2>1. PICK r \in NodeRuns, s \in NodeEnded :
            /\ node[r] = "running" /\ node' = [node EXCEPT ![r] = s]
            /\ run' = IF s = "cancelled" /\ ~SomeFailed(node) THEN "cancelling" ELSE run
    BY <1>3 DEF Ends
  <2>2. run /= x.seen
    BY <1>0, <2>1 DEF Decides
  <2>3. QED
    BY <1>0, <2>1, <2>2 DEF DrainInv
<1>4. CASE Cancels
  <2>1. CASE run = "cancelling"
    BY <1>0, <1>4, <2>1 DEF Cancels, Decides, SomeFailed
  <2>2. CASE run = "running"
    BY <1>0, <1>4, <2>2 DEF Cancels
  <2>3. QED
    BY <1>4, <2>1, <2>2 DEF Cancels
<1>5. CASE Skips
  <2> SUFFICES ASSUME run' = x.seen PROVE Decides(x.want)'
    BY <1>5 DEF Skips
  <2>1. Decides(x.want) /\ run' = run
    BY <1>0, <1>5 DEF Skips
  <2>2. \A r \in NodeRuns : node'[r] = IF node[r] = "pending" THEN "cancelled" ELSE node[r]
    BY <1>5 DEF Skips
  <2>3. SomeFailed(node') <=> SomeFailed(node)
    BY <2>2 DEF SomeFailed
  <2>4. \A r \in NodeRuns : node'[r] /= "running"
    BY <2>1, <2>2 DEF Decides
  <2>5. (\A r \in NodeRuns : node[r] \in NodeEnded) => \A r \in NodeRuns : node'[r] \in NodeEnded
    BY <2>2 DEF NodeEnded
  <2>6. QED
    BY <2>1, <2>3, <2>4, <2>5 DEF Decides
<1>6. CASE Finals
  BY <1>0, <1>6 DEF Finals, Decides
<1>7. QED
  BY <1>1, <1>2, <1>3, <1>4, <1>5, <1>6 DEF Effect

\* The run and its nodes.
RunDrained ==
    /\ \A r \in NodeRuns : node[r] /= "waiting"
    /\ run \in {"running", "cancelling"} \cup RunEnded
    /\ run \in RunEnded => \A r \in NodeRuns : node[r] /= "running"
    /\ run \in {"completed", "cancelled"} => \A r \in NodeRuns : node[r] \in NodeEnded

LEMMA RunDrainedLasts ==
  ASSUME EngineInv, DrainInv, Effect
  PROVE  RunDrained' /\ (run /= "running" => run' /= "running")
<1>0. RunDrained
  BY DEF DrainInv, RunDrained
<1>n. node \in [NodeRuns -> NodeStatus]
  BY DEF EngineInv, RowsOK, RowsTyped, NodeStatus
<1>1. CASE Same
  BY <1>0, <1>1 DEF Same, RunDrained
<1>2. CASE Starts
  BY <1>0, <1>n, <1>2 DEF Starts, RunDrained, RunEnded
<1>3. CASE Ends
  <2>1. PICK r \in NodeRuns, s \in NodeEnded :
            /\ node[r] = "running" /\ node' = [node EXCEPT ![r] = s]
            /\ run' = IF s = "cancelled" /\ ~SomeFailed(node) THEN "cancelling" ELSE run
    BY <1>3 DEF Ends
  <2>2. run \in {"running", "cancelling"} /\ run' \in {"running", "cancelling"}
    BY <1>0, <2>1 DEF RunDrained
  <2>3. \A q \in NodeRuns : node'[q] /= "waiting"
    BY <1>0, <1>n, <2>1 DEF RunDrained, NodeEnded
  <2>4. QED
    BY <2>1, <2>2, <2>3 DEF RunDrained, RunEnded
<1>4. CASE Cancels
  BY <1>0, <1>4 DEF Cancels, RunDrained, RunEnded
<1>5. CASE Skips
  <2>1. \A r \in NodeRuns : node'[r] = IF node[r] = "pending" THEN "cancelled" ELSE node[r]
    BY <1>5 DEF Skips
  <2>2. QED
    BY <1>0, <1>5, <2>1 DEF Skips, RunDrained, NodeEnded
<1>6. CASE Finals
  BY <1>0, <1>6 DEF Finals, Decides, RunDrained, RunEnded
<1>7. QED
  BY <1>1, <1>2, <1>3, <1>4, <1>5, <1>6 DEF Effect

LEMMA EffectKeeps ==
  ASSUME EngineInv, DrainInv, Effect, UNCHANGED exec \/ \E a \in Actors : HandlerMoves(a)
  PROVE  DrainInv'
<1>1. RunDrained' /\ (run /= "running" => run' /= "running")
  BY RunDrainedLasts
<1>2. ASSUME NEW b \in Actors, exec'[b] = exec[b]
      PROVE  /\ Todo(exec'[b]) \cap Never = {}
             /\ "cancelPending" \in Todo(exec'[b]) => run' /= "running"
             /\ WillDecide(exec[b])'
  <2>1. /\ Todo(exec[b]) \cap Never = {} /\ WillDecide(exec[b])
        /\ ("cancelPending" \in Todo(exec[b]) => run /= "running")
    BY DEF DrainInv
  <2> DEFINE x == exec[b]
  <2>2. Begins(x, "finalize") =>
            /\ x.seen \in {"running", "cancelling"}
            /\ x.seen = "cancelling" => run' /= "running"
            /\ run' = x.seen => (/\ \A r \in NodeRuns : node'[r] /= "running"
                                 /\ SomeFailed(node') \/ \A r \in NodeRuns : node'[r] \in NodeEnded
                                 /\ x.want = IF SomeFailed(node') THEN "failed"
                                             ELSE IF run' = "cancelling" THEN "cancelled" ELSE "completed")
    <3> HIDE DEF x
    <3>1. WillDecide(x)
      BY <2>1 DEF x
    <3>2. QED
      BY <3>1, VerdictLasts DEF WillDecide, Decides
  <2>3. WillDecide(exec[b])'
    BY <1>2, <2>2 DEF WillDecide, Decides, Begins
  <2>4. QED
    BY <1>1, <1>2, <2>1, <2>3
<1>3. CASE UNCHANGED exec
  BY <1>1, <1>2, <1>3 DEF DrainInv, RunDrained
<1>4. ASSUME NEW a \in Actors, HandlerMoves(a) PROVE DrainInv'
  <2>1. PICK y : /\ exec' = [exec EXCEPT ![a] = y]
                 /\ Todo(y) \cap Never = {}
                 /\ "cancelPending" \in Todo(y) => run' /= "running"
                 /\ Begins(y, "finalize") =>
                       /\ Same /\ y.seen = run /\ run \in {"running", "cancelling"}
                       /\ Decides(y.want)
    BY <1>4 DEF HandlerMoves
  <2>2. exec'[a] = y /\ \A b \in Actors \ {a} : exec'[b] = exec[b]
    BY <2>1 DEF EngineInv
  <2>3. WillDecide(exec[a])'
    BY <2>1, <2>2 DEF WillDecide, Begins, Same, Decides, SomeFailed
  <2>4. ASSUME NEW b \in Actors
        PROVE  /\ Todo(exec'[b]) \cap Never = {}
               /\ "cancelPending" \in Todo(exec'[b]) => run' /= "running"
               /\ WillDecide(exec[b])'
    <3>1. CASE b = a
      BY <2>1, <2>2, <2>3, <3>1
    <3>2. CASE b /= a
      BY <1>2, <2>2, <3>2
    <3>3. QED
      BY <3>1, <3>2
  <2>5. QED
    BY <1>1, <2>4 DEF DrainInv, RunDrained
<1>5. QED
  BY <1>3, <1>4

-----------------------------------------------------------------------------
(***************************************************************************)
(* The handlers                                                            *)
(***************************************************************************)
\* Lists of routines that no retry, no gate and no verdict is part of.
Settled(rs) ==
    /\ Plain(rs)
    /\ \A i \in 1 .. Len(rs) : rs[i] \notin Never \cup {"cancelPending"}
    /\ rs /= <<>> => rs[1] /= "finalize"

\* A list of at most four routines is settled if its members are.
LEMMA SettledLists ==
  /\ Settled(<<>>) /\ Settled(ScheduleReadyNodes) /\ Settled(PropagateFailure)
  /\ Settled(<<"check">>) /\ Settled(<<"advance">>) /\ Settled(<<"mark">>) /\ Settled(<<"reconcile">>)
  /\ Settled(<<"healNext">>) /\ Settled(<<"heal", "advance">>)
  /\ Settled(<<"claim", "dispatch">>) /\ Settled(<<"enqueue", "claim">>)
<1>1. Settled(<<>>) /\ Settled(<<"check">>) /\ Settled(<<"advance">>) /\ Settled(<<"mark">>)
  BY PlainLists, RoutineLists DEF Settled, Never
<1>2. Settled(<<"reconcile">>) /\ Settled(<<"healNext">>)
  BY RoutineLists DEF Settled, Never
<1>3. Plain(<<"claim", "dispatch">>)
  BY PlainLists DEF Routines, Fresh
<1>4. Settled(<<"heal", "advance">>) /\ Settled(<<"claim", "dispatch">>) /\ Settled(<<"enqueue", "claim">>)
  BY <1>3, RoutineLists DEF Settled, Never
<1>5. Settled(ScheduleReadyNodes) /\ Settled(PropagateFailure)
  BY RoutineLists DEF Settled, Never, ScheduleReadyNodes, PropagateFailure
<1>6. QED
  BY <1>1, <1>2, <1>4, <1>5

\* What is left to do after a call: what was called, and what was left before.
LEMMA CallsTodo ==
  ASSUME NEW x \in Exec, x.todo /= <<>>, Ordered(x.todo), NEW rs, Plain(rs)
  PROVE  /\ Todo(Calls(x, rs)) \subseteq {rs[i] : i \in 1 .. Len(rs)} \cup Todo(x)
         /\ Begins(Calls(x, rs), "finalize") => rs /= <<>> /\ rs[1] = "finalize"
<1> DEFINE t == Tail(x.todo)
           l == rs \o t
           y == Calls(x, rs)
<1>1. x.todo \in Seq(Routines) /\ rs \in Seq(Routines) /\ Ordered(rs)
  BY DEF Exec, Plain
<1>2. t \in Seq(Routines) /\ Len(t) = Len(x.todo) - 1 /\ \A i \in 1 .. Len(t) : t[i] = x.todo[i + 1]
  BY <1>1
<1> HIDE DEF t
<1>0. rs \in Seq(Routines) /\ t \in Seq(Routines)
  BY <1>1, <1>2
<1>3. /\ l \in Seq(Routines) /\ Len(l) = Len(rs) + Len(t)
      /\ \A i \in 1 .. Len(l) : l[i] = IF i <= Len(rs) THEN rs[i] ELSE t[i - Len(rs)]
  BY <1>0
<1>4. y = IF l = <<>> THEN IdleExec ELSE [x EXCEPT !.todo = l]
  BY DEF Calls, t
<1> HIDE DEF l
<1>5. y.todo = l
  BY <1>4 DEF IdleExec, Exec
<1>6. ASSUME NEW i \in 1 .. Len(l) PROVE l[i] \in {rs[j] : j \in 1 .. Len(rs)} \cup Todo(x)
  <2>0. Len(rs) \in Nat /\ Len(t) \in Nat /\ Len(x.todo) \in Nat /\ i \in Nat
    BY <1>1, <1>2
  <2>1. CASE i <= Len(rs)
    BY <1>3, <2>0, <2>1
  <2>2. CASE i > Len(rs)
    <3>1. i - Len(rs) \in 1 .. Len(t) /\ l[i] = t[i - Len(rs)]
      BY <1>3, <2>0, <2>2
    <3>2. l[i] = x.todo[(i - Len(rs)) + 1] /\ (i - Len(rs)) + 1 \in 1 .. Len(x.todo)
      BY <1>2, <2>0, <3>1
    <3>3. QED
      BY <3>2 DEF Todo
  <2>3. QED
    BY <2>0, <2>1, <2>2
<1>7. Todo(y) \subseteq {rs[i] : i \in 1 .. Len(rs)} \cup Todo(x)
  BY <1>5, <1>6 DEF Todo
<1>8. Begins(y, "finalize") => rs /= <<>> /\ rs[1] = "finalize"
  BY <1>1, CallsList DEF Begins, Fresh
<1>9. QED
  BY <1>7, <1>8

\* The routines that only retries and gates call are never reached.
LEMMA NeverReached ==
  ASSUME EngineInv, DrainInv, NEW a \in Actors, NEW routine \in Never PROVE ~At(a, routine)
<1> SUFFICES ASSUME At(a, routine) PROVE FALSE
  OBVIOUS
<1>1. exec[a].todo \in Seq(Routines) /\ exec[a].todo /= <<>> /\ exec[a].todo[1] = routine
  BY DEF EngineInv, Exec, At
<1>2. 1 \in 1 .. Len(exec[a].todo)
  BY <1>1
<1>3. routine \in Todo(exec[a])
  BY <1>1, <1>2 DEF Todo
<1>4. QED
  BY <1>3 DEF DrainInv

\* A handler that calls settled routines.
LEMMA SettledMoves ==
  ASSUME EngineInv, DrainInv, NEW a \in Actors, NEW routine, At(a, routine), Effect,
         NEW rs, Settled(rs), NEW y, y.todo = Calls(exec[a], rs).todo, exec' = [exec EXCEPT ![a] = y]
  PROVE  HandlerMoves(a)
<1> DEFINE z == Calls(exec[a], rs)
<1>1. exec[a] \in Exec /\ exec[a].todo /= <<>> /\ Ordered(exec[a].todo)
  BY HandlerAt DEF Relies
<1>2. /\ Todo(z) \subseteq {rs[i] : i \in 1 .. Len(rs)} \cup Todo(exec[a])
      /\ Begins(z, "finalize") => rs /= <<>> /\ rs[1] = "finalize"
  BY <1>1, CallsTodo DEF Settled
<1>3. Todo(y) = Todo(z) /\ (Begins(y, "finalize") => Begins(z, "finalize"))
  BY DEF Todo, Begins
<1> HIDE DEF z
<1>4. Todo(exec[a]) \cap Never = {} /\ ("cancelPending" \in Todo(exec[a]) => run' /= "running")
  BY RunDrainedLasts DEF DrainInv
<1>5. {rs[i] : i \in 1 .. Len(rs)} \cap (Never \cup {"cancelPending"}) = {}
  BY DEF Settled
<1>6. Todo(y) \cap Never = {} /\ ("cancelPending" \in Todo(y) => run' /= "running")
  BY <1>2, <1>3, <1>4, <1>5
<1>7. ~Begins(y, "finalize")
  BY <1>2, <1>3 DEF Settled
<1>8. QED
  BY <1>6, <1>7 DEF HandlerMoves

\* In the form in which most handlers do it.
LEMMA CallMoves ==
  ASSUME EngineInv, DrainInv, NEW a \in Actors, NEW routine, At(a, routine), Effect,
         NEW rs, Settled(rs), Call(a, rs)
  PROVE  HandlerMoves(a)
BY SettledMoves DEF Call

LEMMA ReturnMoves ==
  ASSUME EngineInv, DrainInv, NEW a \in Actors, NEW routine, At(a, routine), Effect, Return(a)
  PROVE  HandlerMoves(a)
BY CallMoves, SettledLists DEF Return, Call

\* A new handler, or none.
LEMMA BeginMoves ==
  ASSUME NEW a \in Actors, NEW rs, Settled(rs), NEW y, y.todo = rs, exec' = [exec EXCEPT ![a] = y]
  PROVE  HandlerMoves(a)
<1>1. rs \in Seq(Routines) /\ Todo(y) = {rs[i] : i \in 1 .. Len(rs)}
  BY DEF Settled, Plain, Todo
<1>2. Todo(y) \cap (Never \cup {"cancelPending"}) = {}
  BY <1>1 DEF Settled
<1>3. ~Begins(y, "finalize")
  BY <1>1 DEF Settled, Begins
<1>4. QED
  BY <1>2, <1>3 DEF HandlerMoves

-----------------------------------------------------------------------------
(***************************************************************************)
(* Every step has one of the effects                                       *)
(***************************************************************************)
\* A step as the run sees it, and the handler that took it.
Progress == Effect /\ (UNCHANGED exec \/ \E a \in Actors : HandlerMoves(a))

\* The steps that change neither the run nor a node.
LEMMA ReadersProgress ==
  ASSUME EngineInv, DrainInv, NEW a \in Actors,
         \/ Dispatch(a) \/ Enqueue(a) \/ Advance(a) \/ SignalActiveAgents(a)
         \/ ReconcileWorkflowRun(a) \/ HealAgentNodes(a)
  PROVE  Progress
<1>1. Same /\ Effect
  BY DEF Dispatch, Enqueue, Advance, SignalActiveAgents, ReconcileWorkflowRun, HealAgentNodes,
         rows, Same, Effect
<1>2. CASE Dispatch(a)
  <2>1. CASE AcceptsDispatch /\ FindReadyNodes /= {}
    <3> DEFINE z == Calls(exec[a], <<"claim", "dispatch">>)
               y == [z EXCEPT !.ready = FindReadyNodes]
    <3>1. At(a, "dispatch") /\ exec' = [exec EXCEPT ![a] = y]
      BY <1>2, <2>1 DEF Dispatch
    <3>2. z \in Exec
      BY <3>1, SettledLists, HandlerAt, CallsRelies DEF Settled
    <3>3. y.todo = z.todo
      <4> HIDE DEF z
      <4>1. QED
        BY <3>2 DEF Exec
    <3> HIDE DEF y
    <3>4. QED
      BY <1>1, <3>1, <3>3, SettledLists, SettledMoves DEF Progress
  <2>2. CASE ~(AcceptsDispatch /\ FindReadyNodes /= {})
    BY <1>1, <1>2, <2>2, ReturnMoves DEF Dispatch, Progress
  <2>3. QED
    BY <2>1, <2>2
<1>3. CASE Enqueue(a) \/ SignalActiveAgents(a)
  BY <1>1, <1>3, ReturnMoves DEF Enqueue, SignalActiveAgents, Progress
<1>4. CASE Advance(a)
  <2> DEFINE rs == IF run \notin Dispatchable THEN <<"check">>
                   ELSE IF HasFailedNode THEN PropagateFailure ELSE ScheduleReadyNodes
  <2>1. Settled(rs) /\ At(a, "advance") /\ Call(a, rs)
    BY <1>4, SettledLists DEF Advance
  <2> HIDE DEF rs
  <2>2. QED
    BY <1>1, <2>1, CallMoves DEF Progress
<1>5. CASE ReconcileWorkflowRun(a)
  <2>0. At(a, "reconcile")
    BY <1>5 DEF ReconcileWorkflowRun
  <2>1. CASE run = "cancelling"
    <3> DEFINE rs == ReconcileCancelling
               y == Calls(exec[a], rs)
    <3>1. exec' = [exec EXCEPT ![a] = y] /\ Plain(rs)
      BY <1>5, <2>1, RoutineLists DEF ReconcileWorkflowRun, Call
    <3>2. exec[a] \in Exec /\ exec[a].todo /= <<>> /\ Ordered(exec[a].todo)
      BY <2>0, HandlerAt DEF Relies
    <3>3. /\ Todo(y) \subseteq {rs[i] : i \in 1 .. Len(rs)} \cup Todo(exec[a])
          /\ Begins(y, "finalize") => rs[1] = "finalize"
      BY <3>1, <3>2, CallsTodo
    <3>4. rs[1] /= "finalize" /\ {rs[i] : i \in 1 .. Len(rs)} \cap Never = {}
      BY DEF ReconcileCancelling, Never
    <3> HIDE DEF rs, y
    <3>5. Todo(y) \cap Never = {}
      BY <3>3, <3>4 DEF DrainInv
    <3>6. run' /= "running"
      BY <1>1, <2>1 DEF Same
    <3>7. QED
      BY <1>1, <3>1, <3>3, <3>4, <3>5, <3>6 DEF Progress, HandlerMoves
  <2>2. CASE run /= "cancelling"
    <3> DEFINE rs == IF run \in Dispatchable THEN <<"heal", "advance">> ELSE <<>>
    <3>1. Settled(rs) /\ Call(a, rs)
      BY <1>5, <2>2, SettledLists DEF ReconcileWorkflowRun
    <3> HIDE DEF rs
    <3>2. QED
      BY <1>1, <2>0, <3>1, CallMoves DEF Progress
  <2>3. QED
    BY <2>1, <2>2
<1>6. CASE HealAgentNodes(a)
  <2> DEFINE z == Calls(exec[a], <<"healNext">>)
             y == [z EXCEPT !.healing = {r \in NodeRuns : node[r] = "running"}]
  <2>1. At(a, "heal") /\ exec' = [exec EXCEPT ![a] = y]
    BY <1>6 DEF HealAgentNodes
  <2>2. z \in Exec
    BY <2>1, RoutineLists, HandlerAt, CallsRelies
  <2>3. y.todo = z.todo
    <3> HIDE DEF z
    <3>1. QED
      BY <2>2 DEF Exec
  <2> HIDE DEF y
  <2>4. QED
    BY <1>1, <2>1, <2>3, SettledLists, SettledMoves DEF Progress
<1>7. QED
  BY <1>2, <1>3, <1>4, <1>5, <1>6

\* Nor does a request begin with a change, nor an agent that ends, nor a crash.
LEMMA RequestsProgress ==
  ASSUME Plainly, EngineInv, DrainInv, NEW a \in Actors, Request(a) \/ Crash(a)
  PROVE  Progress
<1>1. ~Resolve(a)
  BY DEF Resolve, Decidable, DrainInv
<1>2. ~RetryFailedAgentNode(a)
  BY OneAttempt DEF RetryFailedAgentNode, EngineInv
<1>3. CASE OnAgentRunComplete(a)
  <2>1. PICK r \in NodeRuns : exec' = [exec EXCEPT ![a] = [IdleExec EXCEPT !.todo = <<"record">>, !.at = r]]
    BY <1>3 DEF OnAgentRunComplete, BeginAt
  <2> DEFINE y == [IdleExec EXCEPT !.todo = <<"record">>, !.at = r]
  <2>2. y.todo = <<"record">>
    BY DEF IdleExec
  <2>3. exec' = [exec EXCEPT ![a] = y]
    BY <2>1
  <2> HIDE DEF y
  <2>4. Todo(y) = {"record"} /\ ~Begins(y, "finalize")
    BY <2>2 DEF Todo, Begins
  <2>5. HandlerMoves(a)
    BY <2>3, <2>4 DEF HandlerMoves, Never
  <2>6. QED
    BY <1>3, <2>5 DEF OnAgentRunComplete, rows, Same, Effect, Progress
<1>4. CASE ReconcileActiveRuns(a) \/ CancelWorkflowRun(a)
  <2>1. PICK p \in {"reconcile", "mark"} : Begin(a, <<p>>)
    BY <1>4 DEF ReconcileActiveRuns, CancelWorkflowRun
  <2> DEFINE y == [IdleExec EXCEPT !.todo = <<p>>]
  <2>2. y.todo = <<p>> /\ exec' = [exec EXCEPT ![a] = y] /\ Settled(<<p>>)
    BY <2>1, SettledLists DEF IdleExec, Begin
  <2> HIDE DEF y
  <2>3. HandlerMoves(a)
    BY <2>2, BeginMoves
  <2>4. QED
    BY <1>4, <2>3 DEF ReconcileActiveRuns, CancelWorkflowRun, rows, Same, Effect, Progress
<1>5. CASE Crash(a)
  <2>1. IdleExec.todo = <<>> /\ exec' = [exec EXCEPT ![a] = IdleExec]
    BY <1>5 DEF Crash, Abort, IdleExec
  <2>2. HandlerMoves(a)
    BY <2>1, BeginMoves, SettledLists
  <2>3. QED
    BY <1>5, <2>2 DEF Crash, rows, Same, Effect, Progress
<1>6. QED
  BY <1>1, <1>2, <1>3, <1>4, <1>5 DEF Request

LEMMA AgentsProgress ==
  ASSUME NEW r \in NodeRuns, AgentEnds(r) \/ JobDies(r) \/ PersonStops(r) PROVE Progress
BY DEF AgentEnds, JobDies, PersonStops, Progress, Effect, Same

LEMMA HealNextProgress ==
  ASSUME EngineInv, DrainInv, NEW a \in Actors, HealNext(a) PROVE Progress
<1>1. At(a, "healNext") /\ Same /\ Effect
  BY DEF HealNext, Same, Effect
<1>2. CASE exec[a].healing = {}
  BY <1>1, <1>2, ReturnMoves DEF HealNext, Progress
<1>3. CASE exec[a].healing /= {}
  <2> DEFINE rest(r) == [exec[a] EXCEPT !.healing = @ \ {r}, !.at = r]
             recorded(r) == Calls(rest(r), <<"record", "healNext">>)
  <2>1. PICK r \in exec[a].healing :
            CASE agent[r].status \in AgentEnded ->
                    exec' = [exec EXCEPT ![a] = recorded(r)] /\ UNCHANGED agent
              [] agent[r].job = "none" ->
                    exec' = [exec EXCEPT ![a] = rest(r)] /\ EnsureJob(r)
              [] Orphaned(r) ->
                    /\ exec' = [exec EXCEPT ![a] = recorded(r)]
                    /\ agent' = [agent EXCEPT ![r].status = "interrupted"]
              [] OTHER -> exec' = [exec EXCEPT ![a] = rest(r)] /\ UNCHANGED agent
    BY <1>3, Zenon DEF HealNext
  <2>2. exec' = [exec EXCEPT ![a] = recorded(r)] \/ exec' = [exec EXCEPT ![a] = rest(r)]
    <3> HIDE DEF rest, recorded
    <3>1. QED
      BY <2>1
  <2>3. exec[a] \in Exec /\ exec[a].todo /= <<>> /\ Ordered(exec[a].todo)
        /\ Head(exec[a].todo) = "healNext"
    BY <1>1, HandlerAt DEF Relies
  <2>4. r \in NodeRuns
    BY <2>3 DEF Exec
  <2>5. rest(r) \in Exec /\ rest(r).todo = exec[a].todo
    BY <2>3, <2>4 DEF Exec
  <2>6. Todo(exec[a]) \cap Never = {} /\ ("cancelPending" \in Todo(exec[a]) => run' /= "running")
    BY <1>1 DEF DrainInv, Same
  <2> HIDE DEF rest
  <2>7. CASE exec' = [exec EXCEPT ![a] = rest(r)]
    <3>1. Todo(rest(r)) = Todo(exec[a]) /\ ~Begins(rest(r), "finalize")
      BY <2>3, <2>5 DEF Todo, Begins
    <3>2. HandlerMoves(a)
      BY <2>6, <2>7, <3>1 DEF HandlerMoves
    <3>3. QED
      BY <1>1, <3>2 DEF Progress
  <2>8. CASE exec' = [exec EXCEPT ![a] = recorded(r)]
    <3> DEFINE rs == <<"record", "healNext">>
    <3>1. rs \in Seq(Routines) /\ Ordered(rs) /\ rs /= <<>> /\ rs[1] = "record"
          /\ {rs[i] : i \in 1 .. Len(rs)} \cap (Never \cup {"cancelPending"}) = {}
      BY DEF Routines, Ordered, Fresh, Never
    <3>2. /\ recorded(r) = [rest(r) EXCEPT !.todo = rs \o Tail(rest(r).todo)]
          /\ Head(recorded(r).todo) = "record"
      BY <2>3, <2>5, <3>1, CallsList
    <3>3. recorded(r).todo = rs \o Tail(exec[a].todo)
      BY <2>5, <3>2 DEF Exec
    <3> DEFINE t == Tail(exec[a].todo)
               l == rs \o t
    <3>4. exec[a].todo \in Seq(Routines)
      BY <2>3 DEF Exec
    <3>5. t \in Seq(Routines) /\ Len(t) = Len(exec[a].todo) - 1
          /\ \A i \in 1 .. Len(t) : t[i] = exec[a].todo[i + 1]
      BY <2>3, <3>4
    <3> HIDE DEF t, rs
    <3>6. rs \in Seq(Routines) /\ t \in Seq(Routines)
      BY <3>1, <3>5
    <3>7. /\ Len(l) = Len(rs) + Len(t)
          /\ \A i \in 1 .. Len(l) : l[i] = IF i <= Len(rs) THEN rs[i] ELSE t[i - Len(rs)]
      BY <3>6
    <3> HIDE DEF l
    <3>8. ASSUME NEW i \in 1 .. Len(l) PROVE l[i] \in {rs[j] : j \in 1 .. Len(rs)} \cup Todo(exec[a])
      <4>0. Len(rs) \in Nat /\ Len(t) \in Nat /\ Len(exec[a].todo) \in Nat /\ i \in Nat
        BY <3>4, <3>6, <3>7
      <4>1. CASE i <= Len(rs)
        BY <3>7, <4>0, <4>1
      <4>2. CASE i > Len(rs)
        <5>1. i - Len(rs) \in 1 .. Len(t) /\ l[i] = t[i - Len(rs)]
          BY <3>7, <4>0, <4>2
        <5>2. l[i] = exec[a].todo[(i - Len(rs)) + 1] /\ (i - Len(rs)) + 1 \in 1 .. Len(exec[a].todo)
          BY <3>5, <4>0, <5>1, SMTT(40)
        <5>3. QED
          BY <5>2 DEF Todo
      <4>3. QED
        BY <4>0, <4>1, <4>2
    <3>9. recorded(r).todo = l
      BY <3>3 DEF l, t
    <3> HIDE DEF recorded
    <3>10. Todo(recorded(r)) \subseteq {rs[j] : j \in 1 .. Len(rs)} \cup Todo(exec[a])
      BY <3>8, <3>9 DEF Todo
    <3>11. Todo(recorded(r)) \cap Never = {} /\ ("cancelPending" \in Todo(recorded(r)) => run' /= "running")
      BY <2>6, <3>1, <3>10
    <3>12. ~Begins(recorded(r), "finalize")
      BY <3>2 DEF Begins
    <3>13. HandlerMoves(a)
      BY <2>8, <3>11, <3>12 DEF HandlerMoves
    <3>14. QED
      BY <1>1, <3>13 DEF Progress
  <2>9. QED
    BY <2>2, <2>7, <2>8
<1>4. QED
  BY <1>2, <1>3

\* Without gates the summary status is always right.
LEMMA SyncProgress ==
  ASSUME Plainly, EngineInv, DrainInv, NEW a \in Actors, SyncRunState(a) PROVE Progress
<1> DEFINE x == exec[a]
           z == Calls(x, <<>>)
<1>1. At(a, "sync") /\ Same /\ Effect
  BY DEF SyncRunState, rows, Same, Effect
<1>2. x \in Exec /\ x.todo /= <<>> /\ Relies(x, node, agent)
  BY <1>1, HandlerAt
<1>3. z \in Exec
  BY <1>2, PlainLists, CallsRelies
<1>4. "waiting" \notin CurrentStatuses
  BY OneAttempt DEF DrainInv, EngineInv
<1>5. run \in Dispatchable => run = "running"
  BY DEF DrainInv, Dispatchable, RunEnded
<1>6. CASE run \notin Dispatchable \/ x.tries = SyncTries
  <2>1. exec' = [exec EXCEPT ![a] = [z EXCEPT !.tries = 0]]
    BY <1>6, Zenon DEF SyncRunState
  <2> HIDE DEF z
  <2>2. [z EXCEPT !.tries = 0].todo = z.todo
    BY <1>3 DEF Exec
  <2>3. HandlerMoves(a)
    BY <1>1, <2>1, <2>2, SettledLists, SettledMoves DEF z
  <2>4. QED
    BY <1>1, <2>3 DEF Progress
<1>7. CASE ~(run \notin Dispatchable \/ x.tries = SyncTries)
  <2> DEFINE w == Derived(x, run, "running")
             y == [w EXCEPT !.tries = IF run = "running" THEN 0 ELSE w.tries]
  <2>0. ~("waiting" \in CurrentStatuses /\ "running" \notin CurrentStatuses /\ ~HasFailedNode)
    BY <1>4
  <2>1. exec' = [exec EXCEPT ![a] = y]
    BY <1>7, <2>0, Zenon DEF SyncRunState
  <2>2. w = z
    BY <1>5, <1>7 DEF Derived
  <2> HIDE DEF w, z
  <2>3. y.todo = z.todo
    BY <1>3, <2>2 DEF Exec
  <2>4. HandlerMoves(a)
    BY <1>1, <2>1, <2>3, SettledLists, SettledMoves DEF z
  <2>5. QED
    BY <1>1, <2>4 DEF Progress
<1>8. QED
  BY <1>6, <1>7

LEMMA CheckProgress ==
  ASSUME Plainly, EngineInv, DrainInv, NEW a \in Actors, CheckWorkflowComplete(a) PROVE Progress
<1>1. At(a, "check") /\ Same /\ Effect
  BY DEF CheckWorkflowComplete, rows, Same, Effect
<1>2. CASE ~(run \in RunActive /\ ~Undrained /\ Done)
  BY <1>1, <1>2, ReturnMoves DEF CheckWorkflowComplete, Progress
<1>3. CASE run \in RunActive /\ ~Undrained /\ Done
  <2> DEFINE z == Calls(exec[a], <<"finalize">>)
             y == [z EXCEPT !.seen = run, !.want = Verdict]
  <2>1. exec' = [exec EXCEPT ![a] = y]
    BY <1>3 DEF CheckWorkflowComplete
  <2>2. exec[a] \in Exec /\ exec[a].todo /= <<>> /\ Ordered(exec[a].todo) /\ Relies(exec[a], node, agent)
    BY <1>1, HandlerAt DEF Relies
  <2>3. z \in Exec /\ Todo(z) \subseteq {"finalize"} \cup Todo(exec[a])
    <3>1. Plain(<<"finalize">>) /\ {<<"finalize">>[i] : i \in 1 .. Len(<<"finalize">>)} = {"finalize"}
      BY RoutineLists
    <3>2. QED
      BY <2>2, <3>1, CallsTodo, CallsRelies
  <2> HIDE DEF z
  <2>4. y.todo = z.todo /\ y.seen = run /\ y.want = Verdict
    BY <2>3 DEF Exec
  <2>5. run \in {"running", "cancelling"} /\ run' = run
    BY <1>1, <1>3 DEF DrainInv, Same, RunActive, Dispatchable, RunEnded
  <2>6. Decides(Verdict)
    <3>1. \A r \in NodeRuns : node[r] /= "running"
      BY <1>3, OneAttempt DEF Undrained, NodeActive, EngineInv
    <3>2. SomeFailed(node) \/ \A r \in NodeRuns : node[r] \in NodeEnded
      BY <1>3, OneAttempt DEF Done, EngineInv
    <3>3. HasFailedNode <=> SomeFailed(node)
      BY OneAttempt DEF EngineInv
    <3>4. QED
      BY <3>1, <3>2, <3>3 DEF Decides, Verdict
  <2> HIDE DEF y
  <2>7. Todo(y) \cap Never = {} /\ ("cancelPending" \in Todo(y) => run' /= "running")
    BY <2>3, <2>4, <2>5 DEF DrainInv, Todo, Never
  <2>8. HandlerMoves(a)
    BY <1>1, <2>1, <2>4, <2>5, <2>6, <2>7 DEF HandlerMoves
  <2>9. QED
    BY <1>1, <2>8 DEF Progress
<1>4. QED
  BY <1>2, <1>3

\* The verdict that is written is the one that holds.
LEMMA FinalizeProgress ==
  ASSUME EngineInv, DrainInv, NEW a \in Actors, Finalize(a) PROVE Progress
<1>1. At(a, "finalize") /\ UNCHANGED node
  BY DEF Finalize
<1>2. WillDecide(exec[a]) /\ Begins(exec[a], "finalize")
  BY <1>1 DEF DrainInv, At, Begins
<1>3. Effect
  <2>1. CASE run = exec[a].seen
    <3>1. run \in {"running", "cancelling"} /\ run' = exec[a].want /\ Decides(exec[a].want)
      BY <1>2, <2>1 DEF WillDecide, Finalize
    <3>2. QED
      BY <1>1, <3>1 DEF Effect, Finals
  <2>2. CASE run /= exec[a].seen
    BY <1>1, <2>2 DEF Finalize, Effect, Same
  <2>3. QED
    BY <2>1, <2>2
<1>4. QED
  BY <1>1, <1>3, ReturnMoves DEF Finalize, Progress

LEMMA MarkProgress ==
  ASSUME EngineInv, DrainInv, NEW a \in Actors, MarkCancelling(a) PROVE Progress
<1>1. At(a, "mark") /\ UNCHANGED node
  BY DEF MarkCancelling
<1>2. CASE run \notin RunActive
  <2>1. Same /\ Effect /\ Return(a)
    BY <1>1, <1>2 DEF MarkCancelling, Same, Effect
  <2>2. QED
    BY <1>1, <2>1, ReturnMoves DEF Progress
<1>3. CASE run \in RunActive
  <2> DEFINE rs == <<"cancelPending", "gates", "signal", "check">>
             y == Calls(exec[a], rs)
  <2>1. run' = "cancelling" /\ exec' = [exec EXCEPT ![a] = y]
    BY <1>3 DEF MarkCancelling, Call
  <2>2. Effect
    BY <1>1, <1>3, <2>1 DEF Effect, Cancels, DrainInv, RunActive, Dispatchable, RunEnded
  <2>3. exec[a] \in Exec /\ exec[a].todo /= <<>> /\ Ordered(exec[a].todo)
    BY <1>1, HandlerAt DEF Relies
  <2>4. Plain(rs)
    BY RoutineLists
  <2>5. rs[1] /= "finalize" /\ {rs[i] : i \in 1 .. Len(rs)} \cap Never = {}
    BY DEF Never
  <2> HIDE DEF rs
  <2>6. /\ Todo(y) \subseteq {rs[i] : i \in 1 .. Len(rs)} \cup Todo(exec[a])
        /\ Begins(y, "finalize") => rs[1] = "finalize"
    BY <2>3, <2>4, CallsTodo
  <2> HIDE DEF y
  <2>7. Todo(y) \cap Never = {} /\ ~Begins(y, "finalize")
    BY <2>5, <2>6 DEF DrainInv
  <2>8. HandlerMoves(a)
    BY <2>1, <2>7 DEF HandlerMoves
  <2>9. QED
    BY <2>2, <2>8 DEF Progress
<1>4. QED
  BY <1>2, <1>3

\* An agent that was stopped cancels the run, unless a failure stopped it.
LEMMA RecordProgress ==
  ASSUME Plainly, EngineInv, DrainInv, NEW a \in Actors, Record(a) PROVE Progress
<1> DEFINE r == exec[a].at
           s == OutcomeOf(agent[r].status)
<1>1. At(a, "record") /\ Call(a, <<"advance">>)
  BY DEF Record
<1>2. exec[a] \in Exec /\ exec[a].todo /= <<>> /\ Head(exec[a].todo) = "record" /\ Relies(exec[a], node, agent)
  BY <1>1, HandlerAt
<1>3. r \in NodeRuns /\ agent[r].status \in AgentEnded
  BY <1>2 DEF Exec, Relies, Begins
<1>4. Effect
  <2>1. CASE node[r] = "running"
    <3>1. node' = [node EXCEPT ![r] = s]
          /\ run' = IF StopsRun(r) /\ run \in Dispatchable THEN "cancelling" ELSE run
      BY <2>1 DEF Record, Recorded
    <3>2. s \in NodeEnded /\ (s = "cancelled" <=> agent[r].status = "stopped")
      BY <1>3 DEF OutcomeOf, AgentEnded, NodeEnded
    <3>3. run \in {"running", "cancelling"}
      BY <1>3, <2>1 DEF DrainInv
    <3>4. HasFailedNode <=> SomeFailed(node)
      BY OneAttempt DEF EngineInv
    <3> HIDE DEF r, s
    <3>5. run' = IF s = "cancelled" /\ ~SomeFailed(node) THEN "cancelling" ELSE run
      BY <3>1, <3>2, <3>3, <3>4 DEF StopsRun, Dispatchable
    <3>6. Ends
      BY <1>3, <2>1, <3>1, <3>2, <3>5 DEF Ends
    <3>7. QED
      BY <3>6 DEF Effect
  <2>2. CASE node[r] /= "running"
    BY <2>2 DEF Record, Recorded, Effect, Same
  <2>3. QED
    BY <2>1, <2>2
<1>5. QED
  BY <1>1, <1>4, CallMoves, SettledLists DEF Progress

\* There is no gate to close.
LEMMA CloseGatesProgress ==
  ASSUME EngineInv, DrainInv, NEW a \in Actors, CloseWaitingApprovalNodes(a) PROVE Progress
<1>1. WaitingNodeRuns = {}
  BY DEF WaitingNodeRuns, DrainInv
<1>2. At(a, "gates") /\ Return(a) /\ Same /\ Effect
  BY <1>1 DEF CloseWaitingApprovalNodes, Same, Effect
<1>3. QED
  BY <1>2, ReturnMoves DEF Progress

LEMMA CancelPendingProgress ==
  ASSUME EngineInv, DrainInv, NEW a \in Actors, CancelPendingNodes(a) PROVE Progress
<1>1. At(a, "cancelPending") /\ Return(a)
  BY DEF CancelPendingNodes
<1>2. run /= "running"
  <2>1. exec[a].todo \in Seq(Routines) /\ exec[a].todo /= <<>> /\ exec[a].todo[1] = "cancelPending"
    BY <1>1 DEF EngineInv, Exec, At
  <2>2. 1 \in 1 .. Len(exec[a].todo)
    BY <2>1
  <2>3. QED
    BY <2>1, <2>2 DEF DrainInv, Todo
<1>3. Effect
  BY <1>2 DEF CancelPendingNodes, Effect, Skips
<1>4. QED
  BY <1>1, <1>3, ReturnMoves DEF Progress

\* A node that is claimed starts while the run is active and nothing has failed.
LEMMA ClaimStarts ==
  ASSUME Plainly, EngineInv, NEW r \in NodeRuns, NEW s \in {"running", "completed", "failed"},
         ClaimPendingNode(r, s), UNCHANGED run, run /= "waiting",
         \A m \in Sources(r[1]) : CompletedIn(node, m)
  PROVE  Effect
<1>1. node[r] = "pending" /\ node' = [node EXCEPT ![r] = s] /\ run = "running" /\ ~HasFailedNode
  BY DEF ClaimPendingNode, AcceptsDispatch, Dispatchable
<1>2. ~SomeFailed(node)
  BY <1>1, OneAttempt DEF EngineInv
<1>3. QED
  BY <1>1, <1>2 DEF Effect, Starts

LEMMA ClaimProgress ==
  ASSUME Plainly, EngineInv, DrainInv, NEW a \in Actors, Claim(a) PROVE Progress
<1> DEFINE x == exec[a]
           n == Min(x.ready)
           r == Latest(n)
           rest == x.ready \ {n}
<1>1. At(a, "claim") /\ UNCHANGED <<run, byHand>> /\ run /= "waiting"
  BY DEF Claim, DrainInv, RunEnded
<1>2. x \in Exec /\ x.todo /= <<>> /\ Head(x.todo) = "claim" /\ Ordered(x.todo) /\ Relies(x, node, agent)
  BY <1>1, HandlerAt DEF Relies
<1>3. CASE x.ready = {} \/ ~AcceptsDispatch
  <2>1. Return(a) /\ Same /\ Effect
    BY <1>1, <1>3 DEF Claim, Same, Effect
  <2>2. QED
    BY <1>1, <2>1, ReturnMoves DEF Progress
<1>4. CASE ~(x.ready = {} \/ ~AcceptsDispatch)
  <2>1. x.ready \in SUBSET Nat /\ x.ready \subseteq Nodes
    BY <1>2, WorkflowEngineAssumption DEF Exec, WorkflowEngineAssumption
  <2>2. n \in x.ready /\ n \in Nodes
    BY <1>4, <2>1, MinOfNaturals
  <2>3. r \in NodeRuns /\ r[1] = n
    BY <2>2, LatestExists DEF EngineInv, RowsOK, AttemptsInOrder
  <2>4. \A m \in Sources(r[1]) : CompletedIn(node, m)
    BY <1>2, <2>2, <2>3 DEF Relies
  <2>6. (CASE node[r] /= "pending" ->
                exec' = [exec EXCEPT ![a].ready = rest] /\ UNCHANGED <<node, agent, approval>>
          [] node[r] = "pending" /\ Kind[n] = "agent" -> DispatchAgent(a, r, rest)
          [] node[r] = "pending" /\ Kind[n] = "gate" -> DispatchHumanApproval(a, r, rest)
          [] node[r] = "pending" /\ Kind[n] = "terminal" -> DispatchTerminal(a, r, rest)
          [] node[r] = "pending" /\ Kind[n] = "unsupported" -> FailNodeAtDispatch(a, r, rest))
    BY <1>4, Zenon DEF Claim
  <2>7. Kind[n] \in {"agent", "terminal", "unsupported"}
    BY <2>2, WorkflowEngineAssumption DEF WorkflowEngineAssumption, Plainly
  <2> HIDE DEF n, r, rest
  <2>8. \/ exec' = [exec EXCEPT ![a].ready = rest] /\ UNCHANGED <<node, agent, approval>>
        \/ DispatchAgent(a, r, rest) \/ DispatchTerminal(a, r, rest) \/ FailNodeAtDispatch(a, r, rest)
    BY <2>6, <2>7
  <2> DEFINE passed == [x EXCEPT !.ready = rest]
  <2>9. [exec EXCEPT ![a].ready = rest] = [exec EXCEPT ![a] = passed]
    OBVIOUS
  <2>10. ASSUME exec' = [exec EXCEPT ![a] = passed] PROVE HandlerMoves(a)
    <3>1. passed.todo = x.todo
      BY <1>2 DEF Exec
    <3>2. Todo(passed) = Todo(x) /\ ~Begins(passed, "finalize")
      BY <1>2, <3>1 DEF Todo, Begins
    <3>3. Todo(x) \cap Never = {} /\ ("cancelPending" \in Todo(x) => run' /= "running")
      BY <1>1 DEF DrainInv
    <3> HIDE DEF passed
    <3>4. QED
      BY <2>10, <3>2, <3>3 DEF HandlerMoves
  <2>11. CASE exec' = [exec EXCEPT ![a].ready = rest] /\ UNCHANGED <<node, agent, approval>>
    BY <1>1, <2>9, <2>10, <2>11 DEF Progress, Effect, Same
  <2>12. CASE DispatchTerminal(a, r, rest)
    <3>1. Effect
      BY <1>1, <2>3, <2>4, <2>12, ClaimStarts DEF DispatchTerminal
    <3>2. exec' = [exec EXCEPT ![a] = passed]
      BY <2>9, <2>12 DEF DispatchTerminal
    <3>3. QED
      BY <2>10, <3>1, <3>2 DEF Progress
  <2>13. CASE DispatchAgent(a, r, rest)
    <3> DEFINE z == Calls(x, <<"enqueue", "claim">>)
               w == [z EXCEPT !.ready = rest]
               y == [w EXCEPT !.at = r]
    <3>1. Effect
      BY <1>1, <2>3, <2>4, <2>13, ClaimStarts DEF DispatchAgent
    <3>2. exec' = [exec EXCEPT ![a] = y]
      BY <2>13, Zenon DEF DispatchAgent
    <3>3. z \in Exec
      BY <1>2, SettledLists, CallsRelies DEF Settled
    <3>4. y.todo = z.todo
      <4> HIDE DEF z
      <4>1. QED
        BY <3>3 DEF Exec
    <3> HIDE DEF y
    <3>5. QED
      BY <1>1, <3>1, <3>2, <3>4, SettledLists, SettledMoves DEF Progress
  <2>14. CASE FailNodeAtDispatch(a, r, rest)
    <3> DEFINE rs == PropagateFailure \o <<"claim">>
               z == Calls(x, rs)
               y == [z EXCEPT !.ready = rest]
    <3>1. Effect
      BY <1>1, <2>3, <2>4, <2>14, ClaimStarts DEF FailNodeAtDispatch
    <3>2. exec' = [exec EXCEPT ![a] = y]
      BY <2>14 DEF FailNodeAtDispatch
    <3>3. Settled(rs)
      <4>1. Plain(rs)
        BY RoutineLists
      <4> DEFINE p == PropagateFailure
                 c == <<"claim">>
      <4>2. /\ p \in Seq(Routines) /\ Len(p) = 3 /\ p[1] = "signal"
            /\ \A i \in 1 .. 3 : p[i] \in {"signal", "gates", "check"}
        BY DEF PropagateFailure, Routines
      <4>3. c \in Seq(Routines) /\ Len(c) = 1 /\ c[1] = "claim"
        BY DEF Routines
      <4> HIDE DEF p, c
      <4>4. p \in Seq(Routines) /\ c \in Seq(Routines)
        BY <4>2, <4>3
      <4> DEFINE l == p \o c
      <4>5. /\ Len(l) = Len(p) + Len(c)
            /\ \A i \in 1 .. Len(l) : l[i] = IF i <= Len(p) THEN p[i] ELSE c[i - Len(p)]
        BY <4>4
      <4> HIDE DEF l
      <4>6. Len(l) = 4 /\ l[1] = "signal" /\ l[4] = c[4 - 3] /\ \A i \in 1 .. 3 : l[i] = p[i]
        BY <4>2, <4>3, <4>5
      <4>7. \A i \in 1 .. Len(l) : l[i] \in {"signal", "gates", "check", "claim"}
        BY <4>2, <4>3, <4>6
      <4>8. rs = l
        BY DEF l, p, c
      <4> HIDE DEF rs
      <4>9. QED
        BY <4>1, <4>6, <4>7, <4>8 DEF Settled, Never
    <3> HIDE DEF rs
    <3>4. z \in Exec
      BY <1>2, <3>3, CallsRelies DEF Settled
    <3>5. y.todo = z.todo
      <4> HIDE DEF z
      <4>1. QED
        BY <3>4 DEF Exec
    <3> HIDE DEF y
    <3>6. QED
      BY <1>1, <3>1, <3>2, <3>3, <3>5, SettledMoves DEF Progress
  <2>15. QED
    BY <2>8, <2>11, <2>12, <2>13, <2>14
<1>5. QED
  BY <1>3, <1>4

-----------------------------------------------------------------------------
(***************************************************************************)
(* The invariant holds                                                     *)
(***************************************************************************)
LEMMA DrainInit == ASSUME Plainly, Init PROVE DrainInv
<1>1. PICK a \in Actors : exec = [b \in Actors |-> IF b = a THEN [IdleExec EXCEPT !.todo = ScheduleReadyNodes]
                                                   ELSE IdleExec]
  BY DEF Init
<1>2. run = "running" /\ \A r \in NodeRuns : node[r] \in {"pending", "absent"}
  BY DEF Init
<1>3. IdleExec.todo = <<>> /\ [IdleExec EXCEPT !.todo = ScheduleReadyNodes].todo = ScheduleReadyNodes
  BY DEF IdleExec
<1>4. \A b \in Actors : exec[b].todo = <<>> \/ exec[b].todo = ScheduleReadyNodes
  BY <1>1, <1>3
<1>5. ASSUME NEW b \in Actors
      PROVE  /\ Todo(exec[b]) \cap (Never \cup {"cancelPending"}) = {}
             /\ ~Begins(exec[b], "finalize")
  <2>1. CASE exec[b].todo = <<>>
    BY <2>1 DEF Todo, Begins
  <2>2. CASE exec[b].todo = ScheduleReadyNodes
    BY <2>2 DEF Todo, Begins, ScheduleReadyNodes, Never
  <2>3. QED
    BY <1>4, <2>1, <2>2
<1>6. QED
  BY <1>2, <1>5 DEF DrainInv, WillDecide, RunEnded

LEMMA NextProgress ==
  ASSUME Plainly, EngineInv, DrainInv, Next PROVE Progress
<1>1. ASSUME NEW a \in Actors, Step(a) PROVE Progress
  <2>1. CASE Dispatch(a) \/ Enqueue(a) \/ Advance(a) \/ SignalActiveAgents(a)
             \/ ReconcileWorkflowRun(a) \/ HealAgentNodes(a)
    BY <2>1, ReadersProgress
  <2>2. CASE Claim(a) \/ Record(a) \/ CloseWaitingApprovalNodes(a)
    BY <2>2, ClaimProgress, RecordProgress, CloseGatesProgress
  <2>3. CASE CheckWorkflowComplete(a) \/ Finalize(a) \/ SyncRunState(a)
    BY <2>3, CheckProgress, FinalizeProgress, SyncProgress
  <2>4. CASE MarkCancelling(a) \/ CancelPendingNodes(a) \/ HealNext(a)
    BY <2>4, MarkProgress, CancelPendingProgress, HealNextProgress
  <2>5. CASE OnlyHumansLeftToAct(a) \/ SetState(a) \/ Replace(a) \/ QueueRetry(a) \/ ResumeFailedRun(a)
    <3>1. \E routine \in Never : At(a, routine)
      BY <2>5 DEF OnlyHumansLeftToAct, SetState, Replace, QueueRetry, ResumeFailedRun, Never
    <3>2. QED
      BY <3>1, NeverReached
  <2>6. QED
    BY <1>1, <2>1, <2>2, <2>3, <2>4, <2>5 DEF Step
<1>2. ASSUME NEW a \in Actors, Request(a) \/ Crash(a) PROVE Progress
  BY <1>2, RequestsProgress
<1>3. QED
  BY <1>1, <1>2, AgentsProgress DEF Next

LEMMA DrainStep ==
  ASSUME Plainly, EngineInv, DrainInv, [Next]_vars PROVE Effect /\ DrainInv'
<1>1. CASE UNCHANGED vars
  <2>1. Effect /\ UNCHANGED exec
    BY <1>1 DEF vars, Effect, Same
  <2>2. QED
    BY <2>1, EffectKeeps
<1>2. CASE Next
  BY <1>2, NextProgress, EffectKeeps DEF Progress
<1>3. QED
  BY <1>1, <1>2

-----------------------------------------------------------------------------
(***************************************************************************)
(* The refinement                                                          *)
(***************************************************************************)
Seen(s) == IF s = "pending" THEN "idle" ELSE IF s = "running" THEN "active" ELSE s

\* The abstract state, row by row.
View ==
    /\ run \in {"running", "cancelling"} \cup RunEnded
    /\ LifecycleRun = IF run = "running" THEN "active" ELSE run
    /\ \A n \in Nodes : node[<<n, 0>>] \in {"pending", "running"} \cup NodeEnded
    /\ LifecycleNode = [n \in Nodes |-> Seen(node[<<n, 0>>])]

LEMMA ViewHolds == ASSUME Plainly PROVE EngineInv /\ DrainInv => View
<1> SUFFICES ASSUME EngineInv, DrainInv PROVE View
  OBVIOUS
<1>1. \A n \in Nodes : <<n, 0>> \in NodeRuns /\ Current(n) = node[<<n, 0>>]
  BY OneAttempt DEF EngineInv
<1>2. \A n \in Nodes : node[<<n, 0>>] \in {"pending", "running"} \cup NodeEnded
  BY <1>1 DEF EngineInv, RowsOK, RowsTyped, AttemptsInOrder, DrainInv, NodeActive
<1>3. LifecycleNode = [n \in Nodes |-> Seen(node[<<n, 0>>])]
  BY <1>1, <1>2 DEF LifecycleNode, Shown, Seen, NodeActive, NodeEnded
<1>4. run \in {"running", "cancelling"} \cup RunEnded
  BY DEF DrainInv
<1>5. QED
  BY <1>2, <1>3, <1>4 DEF View, LifecycleRun, Dispatchable, RunEnded

LEMMA ViewNext == ASSUME Plainly PROVE (EngineInv /\ DrainInv => View)'
BY ViewHolds, PTL

LEMMA InitIsDrained == ASSUME Plainly, Init PROVE Lifecycle!Init
<1>1. View
  BY DrainInit, InitKeeps, ViewHolds
<1>2. run = "running" /\ \A n \in Nodes : <<n, 0>> \in NodeRuns
  BY OneAttempt, InitKeeps DEF Init, EngineInv
<1>3. \A n \in Nodes : node[<<n, 0>>] = "pending"
  BY <1>2 DEF Init
<1>4. QED
  BY <1>1, <1>2, <1>3 DEF View, Seen, Lifecycle!Init

\* What the abstract run sees of a failure and of a node run.
LEMMA Sights ==
  ASSUME Plainly, EngineInv, View
  PROVE  /\ \A n \in Nodes : LifecycleNode[n] = Seen(node[<<n, 0>>]) /\ <<n, 0>> \in NodeRuns
         /\ \A r \in NodeRuns : r[1] \in Nodes /\ r = <<r[1], 0>>
         /\ Lifecycle!SomeFailed <=> SomeFailed(node)
         /\ \A m \in Nodes : CompletedIn(node, m) => LifecycleNode[m] = "completed"
<1>1. /\ \A r \in NodeRuns : r[1] \in Nodes /\ r = <<r[1], 0>>
      /\ \A n \in Nodes : <<n, 0>> \in NodeRuns /\ Current(n) = node[<<n, 0>>]
      /\ \A m \in Nodes : CompletedIn(node, m) => Current(m) = "completed"
  BY OneAttempt DEF EngineInv
<1>2. \A n \in Nodes : LifecycleNode[n] = Seen(node[<<n, 0>>])
  BY DEF View
<1>3. Lifecycle!SomeFailed <=> SomeFailed(node)
  <2>1. ASSUME NEW n \in Nodes, LifecycleNode[n] = "failed" PROVE SomeFailed(node)
    BY <1>1, <1>2, <2>1 DEF SomeFailed, Seen
  <2>2. ASSUME NEW r \in NodeRuns, node[r] = "failed" PROVE LifecycleNode[r[1]] = "failed" /\ r[1] \in Nodes
    <3>1. r[1] \in Nodes /\ node[<<r[1], 0>>] = "failed"
      BY <1>1, <2>2
    <3>2. QED
      BY <1>2, <3>1 DEF Seen
  <2>3. QED
    BY <2>1, <2>2 DEF SomeFailed, Lifecycle!SomeFailed
<1>4. QED
  BY <1>1, <1>2, <1>3 DEF Seen

\* One node run changes: one abstract node does.
LEMMA OneMoves ==
  ASSUME Plainly, EngineInv, View, View', NEW r \in NodeRuns, NEW s, node' = [node EXCEPT ![r] = s]
  PROVE  LifecycleNode'[r[1]] = Seen(s) /\ LifecycleNode' = [LifecycleNode EXCEPT ![r[1]] = Seen(s)]
<1>1. \A n \in Nodes : <<n, 0>> \in NodeRuns
  BY Sights
<1>2. r[1] \in Nodes /\ r = <<r[1], 0>>
  BY Sights
<1>3. node \in [NodeRuns -> NodeStatus]
  BY DEF EngineInv, RowsOK, RowsTyped, NodeStatus
<1>4. ASSUME NEW n \in Nodes PROVE node'[<<n, 0>>] = IF n = r[1] THEN s ELSE node[<<n, 0>>]
  <2>1. <<n, 0>> \in NodeRuns /\ (r = <<n, 0>> <=> n = r[1])
    BY <1>1, <1>2
  <2>2. \A q \in NodeRuns : node'[q] = IF q = r THEN s ELSE node[q]
    BY <1>3
  <2>3. QED
    BY <2>1, <2>2
<1> DEFINE k == r[1]
<1>5. /\ LifecycleNode = [n \in Nodes |-> Seen(node[<<n, 0>>])]
      /\ LifecycleNode' = [n \in Nodes |-> Seen(node'[<<n, 0>>])]
  BY DEF View
<1>6. k \in Nodes /\ \A n \in Nodes : node'[<<n, 0>>] = IF n = k THEN s ELSE node[<<n, 0>>]
  BY <1>2, <1>4
<1> HIDE DEF k
<1>7. /\ \A n \in Nodes : LifecycleNode'[n] = IF n = k THEN Seen(s) ELSE LifecycleNode[n]
      /\ DOMAIN LifecycleNode' = Nodes
  BY <1>5, <1>6
<1>8. LifecycleNode' = [LifecycleNode EXCEPT ![k] = Seen(s)]
  BY <1>5, <1>7
<1>9. QED
  BY <1>6, <1>7, <1>8 DEF k

LEMMA StartsRefines ==
  ASSUME Plainly, EngineInv, View, View', Starts PROVE Lifecycle!Step
<1>1. PICK r \in NodeRuns, s \in {"running", "completed", "failed"} :
          /\ node[r] = "pending" /\ node' = [node EXCEPT ![r] = s]
          /\ \A m \in Sources(r[1]) : CompletedIn(node, m)
  BY DEF Starts
<1> DEFINE n == r[1]
<1>2. n \in Nodes /\ r = <<n, 0>>
  BY Sights
<1>3. LifecycleNode[n] = "idle"
  <2>1. LifecycleNode[n] = Seen(node[<<n, 0>>])
    BY <1>2, Sights
  <2>2. QED
    BY <1>1, <1>2, <2>1 DEF Seen
<1>4. \A m \in Nodes : <<m, n>> \in Edges => LifecycleNode[m] = "completed"
  BY <1>1, Sights DEF Sources
<1>5. Seen(s) \in {"active", "completed", "failed"}
  BY DEF Seen
<1>6. LifecycleNode'[n] = Seen(s) /\ LifecycleNode' = [LifecycleNode EXCEPT ![n] = Seen(s)]
  BY <1>1, OneMoves
<1>7. LifecycleRun = "active" /\ LifecycleRun' = LifecycleRun /\ ~Lifecycle!SomeFailed
  BY Sights DEF Starts, View
<1> HIDE DEF n
<1>8. Lifecycle!Start(n)
  BY <1>3, <1>4, <1>5, <1>6, <1>7 DEF Lifecycle!Start, Lifecycle!Ready, Lifecycle!Moves
<1>9. QED
  BY <1>2, <1>8 DEF Lifecycle!Step

LEMMA EndsRefines ==
  ASSUME Plainly, EngineInv, DrainInv, View, View', Ends PROVE Lifecycle!Step
<1>1. PICK r \in NodeRuns, s \in NodeEnded :
          /\ node[r] = "running" /\ node' = [node EXCEPT ![r] = s]
          /\ run' = IF s = "cancelled" /\ ~SomeFailed(node) THEN "cancelling" ELSE run
  BY DEF Ends
<1> DEFINE n == r[1]
<1>2. n \in Nodes /\ r = <<n, 0>>
  BY Sights
<1>3. LifecycleNode[n] = "active"
  <2>1. LifecycleNode[n] = Seen(node[<<n, 0>>])
    BY <1>2, Sights
  <2>2. QED
    BY <1>1, <1>2, <2>1 DEF Seen
<1>4. Seen(s) = s /\ s \in Lifecycle!NodeEnded
  BY DEF Seen, NodeEnded, Lifecycle!NodeEnded
<1>5. LifecycleNode'[n] = s /\ LifecycleNode' = [LifecycleNode EXCEPT ![n] = s]
  BY <1>1, <1>4, OneMoves
<1>6. run \in {"running", "cancelling"}
  BY <1>1 DEF DrainInv
<1>7. /\ LifecycleRun \in {"active", "cancelling"}
      /\ LifecycleRun' = IF s = "cancelled" /\ ~Lifecycle!SomeFailed THEN "cancelling" ELSE LifecycleRun
  BY <1>1, <1>6, Sights DEF View
<1> HIDE DEF n
<1>8. Lifecycle!End(n)
  BY <1>3, <1>4, <1>5, <1>7 DEF Lifecycle!End, Lifecycle!Moves
<1>9. QED
  BY <1>2, <1>8 DEF Lifecycle!Step

\* The nodes as they are seen stay as they are if their rows do.
LEMMA SameView ==
  ASSUME View, View', UNCHANGED node PROVE LifecycleNode' = LifecycleNode
BY DEF View

LEMMA CancelsRefines ==
  ASSUME View, View', Cancels PROVE Lifecycle!Step \/ UNCHANGED Lifecycle!vars
<1>1. LifecycleNode' = LifecycleNode /\ LifecycleRun' = "cancelling"
  BY SameView DEF Cancels, View
<1>2. LifecycleRun \in {"active", "cancelling"}
  BY DEF Cancels, View
<1>3. CASE LifecycleRun = "active"
  BY <1>1, <1>3 DEF Lifecycle!Step, Lifecycle!Cancel
<1>4. CASE LifecycleRun = "cancelling"
  BY <1>1, <1>4 DEF Lifecycle!vars
<1>5. QED
  BY <1>2, <1>3, <1>4

\* The steps that never started are given up; a run that is over has none.
LEMMA SkipsRefines ==
  ASSUME Plainly, EngineInv, DrainInv, View, View', Skips
  PROVE  Lifecycle!Step \/ UNCHANGED Lifecycle!vars
<1>1. /\ \A n \in Nodes : LifecycleNode[n] = Seen(node[<<n, 0>>]) /\ <<n, 0>> \in NodeRuns
      /\ LifecycleNode' = [n \in Nodes |-> Seen(node'[<<n, 0>>])]
  BY Sights DEF View
<1>2. \A r \in NodeRuns : node'[r] = IF node[r] = "pending" THEN "cancelled" ELSE node[r]
  BY DEF Skips
<1>3. \A n \in Nodes : /\ node[<<n, 0>>] \in {"pending", "running"} \cup NodeEnded
                       /\ node'[<<n, 0>>] = IF node[<<n, 0>>] = "pending" THEN "cancelled" ELSE node[<<n, 0>>]
  BY <1>1, <1>2 DEF View
<1> DEFINE S == {n \in Nodes : LifecycleNode[n] = "idle"}
<1>4. LifecycleNode' = [n \in Nodes |-> IF n \in S THEN "cancelled" ELSE LifecycleNode[n]]
  <2>1. \A n \in Nodes : Seen(node'[<<n, 0>>]) = IF n \in S THEN "cancelled" ELSE LifecycleNode[n]
    BY <1>1, <1>3 DEF Seen, NodeEnded
  <2> HIDE DEF S
  <2>2. QED
    BY <1>1, <2>1
<1>5. LifecycleRun' = LifecycleRun
  BY DEF Skips, View
<1>6. CASE run \in {"cancelling", "failed"}
  <2>1. LifecycleRun \in {"cancelling", "failed"}
    BY <1>6 DEF View
  <2>2. Lifecycle!Skip
    BY <1>4, <1>5, <2>1 DEF Lifecycle!Skip
  <2>3. QED
    BY <2>2 DEF Lifecycle!Step
<1>7. CASE run \in {"completed", "cancelled"}
  <2>1. \A n \in Nodes : node[<<n, 0>>] \in NodeEnded
    BY <1>1, <1>7 DEF DrainInv
  <2>2. \A n \in Nodes : node'[<<n, 0>>] = node[<<n, 0>>]
    BY <1>3, <2>1 DEF NodeEnded
  <2>3. LifecycleNode' = LifecycleNode
    BY <1>1, <2>2 DEF View
  <2>4. QED
    BY <1>5, <2>3 DEF Lifecycle!vars
<1>8. QED
  BY <1>6, <1>7 DEF View, Skips, RunEnded

LEMMA FinalsRefines ==
  ASSUME Plainly, EngineInv, DrainInv, View, View', Finals PROVE Lifecycle!Step
<1>1. /\ \A n \in Nodes : LifecycleNode[n] = Seen(node[<<n, 0>>]) /\ <<n, 0>> \in NodeRuns
      /\ Lifecycle!SomeFailed <=> SomeFailed(node)
  BY Sights
<1>2. /\ \A r \in NodeRuns : node[r] /= "running"
      /\ SomeFailed(node) \/ \A r \in NodeRuns : node[r] \in NodeEnded
      /\ run' = IF SomeFailed(node) THEN "failed" ELSE IF run = "cancelling" THEN "cancelled" ELSE "completed"
      /\ run \in {"running", "cancelling"}
  BY DEF Finals, Decides
<1>3. Lifecycle!Drained
  BY <1>1, <1>2 DEF Lifecycle!Drained, Seen, View, NodeEnded
<1>4. Lifecycle!SomeFailed \/ \A n \in Nodes : LifecycleNode[n] \in Lifecycle!NodeEnded
  BY <1>1, <1>2 DEF Seen, NodeEnded, Lifecycle!NodeEnded
<1>5. LifecycleRun \in {"active", "cancelling"} /\ (LifecycleRun = "cancelling" <=> run = "cancelling")
  BY <1>2 DEF View
<1>6. LifecycleRun' = IF Lifecycle!SomeFailed THEN "failed"
                      ELSE IF LifecycleRun = "cancelling" THEN "cancelled" ELSE "completed"
  BY <1>1, <1>2, <1>5 DEF View
<1>7. LifecycleNode' = LifecycleNode
  BY SameView DEF Finals
<1>8. Lifecycle!Finalize
  BY <1>3, <1>4, <1>5, <1>6, <1>7 DEF Lifecycle!Finalize
<1>9. QED
  BY <1>8 DEF Lifecycle!Step

\* Every step of the engine is a step of the drained run, or none.
LEMMA StepIsDrained ==
  ASSUME Plainly, EngineInv, DrainInv, [Next]_vars, View, View'
  PROVE  [Lifecycle!Next]_(Lifecycle!vars)
<1>1. CASE Same
  <2>1. LifecycleRun' = LifecycleRun /\ LifecycleNode' = LifecycleNode
    BY <1>1, SameView DEF Same, View
  <2>2. QED
    BY <2>1 DEF Lifecycle!vars
<1>2. CASE ~Same
  <2>1. Lifecycle!Step \/ UNCHANGED Lifecycle!vars
    BY <1>2, DrainStep, StartsRefines, EndsRefines, CancelsRefines, SkipsRefines, FinalsRefines DEF Effect
  <2>2. QED
    BY <2>1 DEF Lifecycle!Next
<1>3. QED
  BY <1>1, <1>2

\* However the handlers of lanes, requests and sweeps interleave and crash, a run
\* whose nodes nobody retries or approves starts them in order, starts none after
\* a failure or a cancellation, ends each once, and takes its verdict at one
\* instant, from outcomes that hold at that instant.
THEOREM EngineIsDrainedRun == ASSUME Plainly PROVE Spec => IsDrainedRun
<1>1. Init => DrainInv /\ Lifecycle!Init
  BY DrainInit, InitIsDrained
<1>2. EngineInv /\ DrainInv /\ [Next]_vars => DrainInv'
  BY DrainStep
<1>3. EngineInv /\ DrainInv => View
  BY ViewHolds
<1>4. EngineInv /\ DrainInv /\ [Next]_vars /\ View /\ View' => [Lifecycle!Next]_(Lifecycle!vars)
  BY StepIsDrained
<1>5. QED
  BY <1>1, <1>2, <1>3, <1>4, EngineInvariant, PTL DEF Spec, IsDrainedRun, Lifecycle!Spec

-----------------------------------------------------------------------------
(***************************************************************************)
(* The verdict                                                             *)
(***************************************************************************)
\* Only a failure explains a cancelled node of a run that nobody cancelled.
VerdictInv ==
    /\ run = "running" /\ ~SomeFailed(node) => \A r \in NodeRuns : node[r] /= "cancelled"
    /\ run = "completed" => \A r \in NodeRuns : node[r] = "completed"
    /\ run = "cancelled" => ~SomeFailed(node)

LEMMA VerdictKept == ASSUME EngineInv, DrainInv, VerdictInv, Effect PROVE VerdictInv'
<1>n. node \in [NodeRuns -> NodeStatus]
  BY DEF EngineInv, RowsOK, RowsTyped, NodeStatus
<1>1. CASE Same
  BY <1>1 DEF Same, VerdictInv, SomeFailed
<1>2. CASE Starts
  <2>1. run' = "running" /\ \A r \in NodeRuns : node'[r] /= "cancelled"
    BY <1>n, <1>2 DEF Starts, VerdictInv
  <2>2. QED
    BY <2>1 DEF VerdictInv
<1>3. CASE Ends
  <2>1. PICK r \in NodeRuns, s \in NodeEnded :
            /\ node[r] = "running" /\ node' = [node EXCEPT ![r] = s]
            /\ run' = IF s = "cancelled" /\ ~SomeFailed(node) THEN "cancelling" ELSE run
    BY <1>3 DEF Ends
  <2>2. run' \in {"running", "cancelling"}
    BY <2>1 DEF DrainInv
  <2>3. SomeFailed(node) => SomeFailed(node')
    BY <1>n, <2>1 DEF SomeFailed
  <2>4. ASSUME run' = "running", ~SomeFailed(node') PROVE \A q \in NodeRuns : node'[q] /= "cancelled"
    <3>1. run = "running" /\ ~SomeFailed(node) /\ s /= "cancelled"
      BY <2>1, <2>2, <2>3, <2>4
    <3>2. QED
      BY <1>n, <2>1, <3>1 DEF VerdictInv
  <2>5. QED
    BY <2>2, <2>4 DEF VerdictInv
<1>4. CASE Cancels
  BY <1>4 DEF Cancels, VerdictInv
<1>5. CASE Skips
  <2>1. run' = run /\ run /= "running"
        /\ \A r \in NodeRuns : node'[r] = IF node[r] = "pending" THEN "cancelled" ELSE node[r]
    BY <1>5 DEF Skips
  <2>2. SomeFailed(node') => SomeFailed(node)
    BY <2>1 DEF SomeFailed
  <2>3. QED
    BY <2>1, <2>2 DEF VerdictInv
<1>6. CASE Finals
  <2>1. /\ node' = node /\ run \in {"running", "cancelling"}
        /\ SomeFailed(node) \/ \A r \in NodeRuns : node[r] \in NodeEnded
        /\ run' = IF SomeFailed(node) THEN "failed" ELSE IF run = "cancelling" THEN "cancelled" ELSE "completed"
    BY <1>6 DEF Finals, Decides
  <2>2. ASSUME run' = "completed" PROVE \A r \in NodeRuns : node[r] = "completed"
    <3>1. ~SomeFailed(node) /\ run = "running" /\ \A r \in NodeRuns : node[r] \in NodeEnded
      BY <2>1, <2>2
    <3>2. QED
      BY <3>1 DEF VerdictInv, SomeFailed, NodeEnded
  <2>3. run' /= "running" /\ (run' = "cancelled" => ~SomeFailed(node))
    BY <2>1
  <2>4. QED
    BY <2>1, <2>2, <2>3 DEF VerdictInv
<1>7. QED
  BY <1>1, <1>2, <1>3, <1>4, <1>5, <1>6 DEF Effect

\* A verdict is about the nodes as they are, although it was derived from rows
\* read before it was written and a cancellation may have come between: nothing
\* is still at work, a completed run completed every node, a cancelled one failed
\* at none.  With a gate the second part is false.
THEOREM VerdictsAreTrue == ASSUME Plainly PROVE Spec => [](EndedRunIsDrained /\ VerdictMatchesNodes)
<1>1. Init => DrainInv /\ VerdictInv
  <2> SUFFICES ASSUME Init PROVE VerdictInv
    BY DrainInit
  <2>1. run = "running" /\ \A r \in NodeRuns : node[r] \in {"pending", "absent"}
    BY DEF Init
  <2>2. QED
    BY <2>1 DEF VerdictInv
<1>2. EngineInv /\ DrainInv /\ VerdictInv /\ [Next]_vars => DrainInv' /\ VerdictInv'
  BY DrainStep, VerdictKept
<1>3. EngineInv /\ DrainInv /\ VerdictInv => EndedRunIsDrained /\ VerdictMatchesNodes
  <2> SUFFICES ASSUME EngineInv, DrainInv, VerdictInv PROVE EndedRunIsDrained /\ VerdictMatchesNodes
    OBVIOUS
  <2>1. CurrentStatuses = {node[r] : r \in NodeRuns} /\ (HasFailedNode <=> SomeFailed(node))
        /\ \A n \in Nodes : <<n, 0>> \in NodeRuns
    BY OneAttempt DEF EngineInv
  <2>2. NodeRuns /= {}
    BY <2>1, WorkflowEngineAssumption DEF WorkflowEngineAssumption
  <2>3. EndedRunIsDrained
    BY <2>1 DEF EndedRunIsDrained, DrainInv, NodeActive
  <2>4. run = "completed" => CurrentStatuses = {"completed"}
    BY <2>1, <2>2 DEF VerdictInv
  <2>5. QED
    BY <2>1, <2>3, <2>4 DEF VerdictMatchesNodes, VerdictInv
<1>4. QED
  BY <1>1, <1>2, <1>3, EngineInvariant, PTL DEF Spec

-----------------------------------------------------------------------------
(***************************************************************************)
(* Retries, gates and any number of handlers: the two windows, and the     *)
(* invariant                                                               *)
(***************************************************************************)
\* Routines that stop siblings, and routines that write down what was decided.
Stops == {"signal", "gates"}
Decisive == {"finalize", "setState", "resync", "replace", "queueRetry"}
Decided == Stops \cup {"cancelPending"} \cup Decisive
Retries == {"replace", "queueRetry"}
Redo == Retries \cup {"resume"}

\* Handler a is between reading the failed run and resuming it.
Retrying(a) == Todo(exec[a]) \cap Redo /= {}

\* No decision is carried out across a retry: while a handler retries, no other
\* one still has to stop siblings or to write down what it has decided.
RetriesUndisturbed ==
    \A a \in Actors, b \in Actors : a /= b /\ Retrying(a) => Todo(exec[b]) \cap Decided = {}

\* The run neither ends nor is cancelled between the two reads of one summary.
SummariesUndisturbed == \A a \in Actors : Begins(exec[a], "resync") => run \in Dispatchable

\* Lanes, requests and sweeps otherwise interleave and crash as they like.
Undisturbed == RetriesUndisturbed /\ SummariesUndisturbed

NoGates == \A n \in Nodes : Kind[n] /= "gate"

\* r is the last attempt of its node, in the rows nd.
Newest(nd, r) == \A j \in Iterations : j > r[2] => nd[<<r[1], j>>] = "absent"

\* Some node stands at status s; the node runs that stand cancelled.
StandsAt(nd, s) == \E r \in NodeRuns : nd[r] = s /\ Newest(nd, r)
StoppedNow(nd) == {r \in NodeRuns : nd[r] = "cancelled" /\ Newest(nd, r)}
AtRest(nd) == \A r \in NodeRuns : nd[r] \notin NodeActive

\* Nothing is at work, and nothing will ever start again.
Over(nd) == AtRest(nd) /\ (StandsAt(nd, "failed") \/ \A r \in NodeRuns : nd[r] /= "pending")

\* Why anything is stopped at all: a person asked for it, or a failure stands.
Failing(nd, byhand) == byhand \/ StandsAt(nd, "failed")

\* Whatever was told to stop, or has stopped, was so by a person or for a failure
\* that stands; a run that is over has nothing at work.
FailFastRows ==
    /\ \A r \in NodeRuns :
          /\ agent[r].status = "stopped" => agent[r].signalled
          /\ node[r] \in {"absent", "pending"} => ~agent[r].signalled
          /\ node[r] = "running" /\ agent[r].signalled => Failing(node, byHand)
    /\ run \in {"cancelling", "cancelled"} => byHand
    /\ run \in RunEnded => AtRest(node)
    /\ run \in Dispatchable /\ StandsAt(node, "cancelled") => Failing(node, byHand)

\* A handler that retries does nothing else.
RetriesAlone(x) == \A p \in Redo : p \in Todo(x) => x.todo = <<p>>

\* A handler that is about to write down what it has decided read it from the
\* rows as they are.
WritesTruth(x, rn, bh, nd) ==
    /\ Begins(x, "finalize") =>
          /\ x.seen \in RunActive /\ x.want \in RunEnded /\ Over(nd)
          /\ x.want = "cancelled" => bh
    /\ Begins(x, "setState") => x.seen \in Dispatchable /\ x.want \in Dispatchable
    /\ Begins(x, "replace") \/ Begins(x, "queueRetry") =>
          rn = "failed" /\ x.plan = StoppedNow(nd) /\ Todo(x) \subseteq Retries

\* And it goes on to stop siblings only for what still stands.
HasReason(x, bh, nd) ==
    /\ Todo(x) \cap Stops /= {} => Failing(nd, bh)
    /\ "cancelPending" \in Todo(x) => bh

FailFastInv ==
    /\ FailFastRows
    /\ \A a \in Actors : WritesTruth(exec[a], run, byHand, node) /\ HasReason(exec[a], byHand, node)

-----------------------------------------------------------------------------
(***************************************************************************)
(* The attempt at which a node stands                                      *)
(***************************************************************************)
LEMMA NodeRunParts ==
  ASSUME NEW r \in NodeRuns
  PROVE  r[1] \in Nodes /\ r[2] \in Iterations /\ r = <<r[1], r[2]>>
BY DEF NodeRuns, Iterations

LEMMA NewestIsLatest ==
  ASSUME RowsOK, NEW r \in NodeRuns, node[r] /= "absent"
  PROVE  Newest(node, r) <=> r = Latest(r[1])
<1> DEFINE n == r[1]
           k == Latest(n)[2]
<1>1. n \in Nodes /\ r[2] \in Iterations /\ r = <<n, r[2]>>
  BY NodeRunParts
<1>2. /\ Latest(n) \in NodeRuns /\ Latest(n)[1] = n /\ node[Latest(n)] /= "absent"
      /\ \A j \in Iterations : j > k => node[<<n, j>>] = "absent"
  BY <1>1, LatestExists DEF RowsOK, AttemptsInOrder
<1>3. k \in Iterations /\ Latest(n) = <<n, k>>
  BY <1>2, NodeRunParts
<1> HIDE DEF k
<1>4. r = Latest(n) => Newest(node, r)
  BY <1>1, <1>2, <1>3 DEF Newest
<1>5. ASSUME Newest(node, r) PROVE r[2] = k
  <2>1. ~(k > r[2])
    BY <1>2, <1>3, <1>5 DEF Newest
  <2>2. ~(r[2] > k)
    BY <1>1, <1>2
  <2>3. r[2] \in Int /\ k \in Int
    BY <1>1, <1>3 DEF Iterations
  <2>4. QED
    BY <2>1, <2>2, <2>3
<1>6. QED
  BY <1>1, <1>3, <1>4, <1>5

\* What the summary of the run says of its nodes, row by row.
LEMMA StatusesStand ==
  ASSUME RowsOK, NEW s, s /= "absent"
  PROVE  s \in CurrentStatuses <=> StandsAt(node, s)
<1>1. ASSUME s \in CurrentStatuses PROVE StandsAt(node, s)
  <2>1. PICK n \in Nodes : node[Latest(n)] = s
    BY <1>1 DEF CurrentStatuses, Current
  <2>2. Latest(n) \in NodeRuns /\ Latest(n)[1] = n
    BY LatestExists DEF RowsOK, AttemptsInOrder
  <2>3. Newest(node, Latest(n))
    BY <2>1, <2>2, NewestIsLatest
  <2>4. QED
    BY <2>1, <2>2, <2>3 DEF StandsAt
<1>2. ASSUME StandsAt(node, s) PROVE s \in CurrentStatuses
  <2>1. PICK r \in NodeRuns : node[r] = s /\ Newest(node, r)
    BY <1>2 DEF StandsAt
  <2>2. r = Latest(r[1]) /\ r[1] \in Nodes
    BY <2>1, NewestIsLatest, NodeRunParts
  <2>3. Current(r[1]) = s
    BY <2>1, <2>2 DEF Current
  <2>4. QED
    BY <2>2, <2>3 DEF CurrentStatuses
<1>3. QED
  BY <1>1, <1>2

LEMMA StandingNow ==
  ASSUME RowsOK
  PROVE  /\ HasFailedNode <=> StandsAt(node, "failed")
         /\ CancelledNow = StoppedNow(node)
         /\ ~Undrained => AtRest(node)
         /\ \A r \in NodeRuns : node[r] \in {"pending", "completed"} \cup NodeActive => Newest(node, r)
<1>1. HasFailedNode <=> StandsAt(node, "failed")
  BY StatusesStand DEF HasFailedNode
<1>2. CancelledNow = StoppedNow(node)
  BY NewestIsLatest DEF CancelledNow, StoppedNow
<1>3. ASSUME NEW r \in NodeRuns, node[r] \in {"pending", "completed"} \cup NodeActive
      PROVE  Newest(node, r)
  <2>1. node[r] \notin {"failed", "cancelled"}
    BY <1>3 DEF NodeActive
  <2>2. r[1] \in Nodes /\ r[2] \in Iterations /\ node[<<r[1], r[2]>>] \notin {"failed", "cancelled"}
    BY <2>1, NodeRunParts
  <2>3. QED
    BY <2>2 DEF Newest, RowsOK, AttemptsInOrder
<1>4. ASSUME ~Undrained, NEW r \in NodeRuns, node[r] \in NodeActive PROVE FALSE
  <2>1. StandsAt(node, node[r])
    BY <1>3, <1>4 DEF StandsAt
  <2>2. node[r] \in CurrentStatuses
    BY <1>4, <2>1, StatusesStand DEF NodeActive
  <2>3. QED
    BY <1>4, <2>2 DEF Undrained
<1>5. QED
  BY <1>1, <1>2, <1>3, <1>4 DEF AtRest

LEMMA FailedStand == RowsOK => ("failed" \in CurrentStatuses <=> StandsAt(node, "failed"))
BY StatusesStand

LEMMA FailedStandNext == (RowsOK => ("failed" \in CurrentStatuses <=> StandsAt(node, "failed")))'
BY FailedStand, PTL

\* A handler decides that the run is over only when it is.
LEMMA DoneIsOver ==
  ASSUME RowsOK, AtRest(node), Done PROVE Over(node)
<1>1. CASE HasFailedNode
  BY <1>1, FailedStand DEF Over, HasFailedNode
<1>2. ASSUME ~HasFailedNode, NEW r \in NodeRuns, node[r] = "pending" PROVE FALSE
  <2>1. StandsAt(node, "pending")
    BY <1>2, StandingNow DEF StandsAt
  <2>2. "pending" \in CurrentStatuses
    BY <2>1, StatusesStand
  <2>3. QED
    BY <1>2, <2>2 DEF Done, NodeEnded
<1>3. QED
  BY <1>1, <1>2 DEF Over

\* No attempt is added: the last ones stay the last ones.
LEMMA NewestLasts ==
  ASSUME \A q \in NodeRuns : node'[q] = "absent" <=> node[q] = "absent"
  PROVE  \A q \in NodeRuns : Newest(node', q) <=> Newest(node, q)
<1>1. ASSUME NEW q \in NodeRuns, NEW j \in Iterations
      PROVE  node'[<<q[1], j>>] = "absent" <=> node[<<q[1], j>>] = "absent"
  <2>1. <<q[1], j>> \in NodeRuns
    BY NodeRunParts DEF NodeRuns, Iterations
  <2>2. QED
    BY <2>1
<1>2. QED
  BY <1>1 DEF Newest

-----------------------------------------------------------------------------
(***************************************************************************)
(* The rows, retries included                                              *)
(***************************************************************************)
\* The run keeps its status, or takes one that does not reopen it: a verdict only
\* when nothing is at work.
RunGoesOn ==
    \/ run' = run
    \/ run \in Dispatchable /\ run' \in Dispatchable
    \/ run \in RunActive /\ run' = "cancelling" /\ byHand'
    \/ /\ run \in RunActive /\ run' \in RunEnded /\ AtRest(node)
       /\ run' = "cancelled" => byHand

LEMMA RunStatuses ==
  /\ Dispatchable \cap RunEnded = {} /\ Dispatchable \cap {"cancelling", "cancelled"} = {}
  /\ "cancelling" \notin RunEnded /\ "cancelled" \in RunEnded /\ RunActive \cap RunEnded = {}
  /\ Dispatchable \subseteq RunActive
BY DEF Dispatchable, RunEnded, RunActive

\* Steps that change no node run.
LEMMA StillRows ==
  ASSUME FailFastRows, UNCHANGED node, byHand => byHand', RunGoesOn,
         \A r \in NodeRuns :
            /\ agent'[r].status = "stopped" => agent'[r].signalled
            /\ \/ agent'[r].signalled = agent[r].signalled
               \/ node[r] \notin {"absent", "pending"} /\ Failing(node, byHand')
  PROVE  FailFastRows'
<1>1. Failing(node, byHand) => Failing(node, byHand')
  BY DEF Failing
<1>2. ASSUME NEW r \in NodeRuns
      PROVE  /\ agent'[r].status = "stopped" => agent'[r].signalled
             /\ node'[r] \in {"absent", "pending"} => ~agent'[r].signalled
             /\ node'[r] = "running" /\ agent'[r].signalled => Failing(node, byHand')
  BY <1>1 DEF FailFastRows
<1>3. run' \in {"cancelling", "cancelled"} => byHand'
  BY RunStatuses DEF FailFastRows, RunGoesOn
<1>4. run' \in RunEnded => AtRest(node)
  BY RunStatuses DEF FailFastRows, RunGoesOn
<1>5. run' \in Dispatchable => run \in Dispatchable
  BY RunStatuses DEF RunGoesOn
<1>6. run' \in Dispatchable /\ StandsAt(node, "cancelled") => Failing(node, byHand')
  BY <1>1, <1>5 DEF FailFastRows
<1>7. QED
  BY <1>2, <1>3, <1>4, <1>6 DEF FailFastRows

\* One node run that exists and has not ended goes on.
Turns(r, s) ==
    /\ node[r] \in {"pending"} \cup NodeActive /\ s \in NodeActive \cup NodeEnded
    /\ node' = [node EXCEPT ![r] = s]

LEMMA TurnsStand ==
  ASSUME EngineInv, NEW r \in NodeRuns, NEW s, Turns(r, s)
  PROVE  /\ node'[r] = s /\ \A q \in NodeRuns \ {r} : node'[q] = node[q]
         /\ \A q \in NodeRuns : Newest(node', q) <=> Newest(node, q)
         /\ StandsAt(node, "failed") => StandsAt(node', "failed")
         /\ s = "failed" => StandsAt(node', "failed")
         /\ StandsAt(node', "cancelled") => s = "cancelled" \/ StandsAt(node, "cancelled")
<1>1. node \in [NodeRuns -> NodeStatus] /\ RowsOK
  BY DEF EngineInv, RowsOK, RowsTyped, NodeStatus
<1>2. node'[r] = s /\ \A q \in NodeRuns \ {r} : node'[q] = node[q]
  BY <1>1 DEF Turns
<1>3. node[r] \notin {"absent", "failed", "cancelled"} /\ s /= "absent"
  BY DEF Turns, NodeActive, NodeEnded
<1>4. \A q \in NodeRuns : node'[q] = "absent" <=> node[q] = "absent"
  BY <1>2, <1>3
<1>5. \A q \in NodeRuns : Newest(node', q) <=> Newest(node, q)
  BY <1>4, NewestLasts
<1>6. Newest(node, r)
  BY <1>1, StandingNow DEF Turns
<1>7. StandsAt(node, "failed") => StandsAt(node', "failed")
  BY <1>2, <1>3, <1>5 DEF StandsAt
<1>8. s = "failed" => StandsAt(node', "failed")
  BY <1>2, <1>5, <1>6 DEF StandsAt
<1>9. StandsAt(node', "cancelled") => s = "cancelled" \/ StandsAt(node, "cancelled")
  BY <1>2, <1>5 DEF StandsAt
<1>10. QED
  BY <1>2, <1>5, <1>7, <1>8, <1>9

LEMMA TurnedRows ==
  ASSUME EngineInv, FailFastRows, UNCHANGED byHand, NEW r \in NodeRuns, NEW s, Turns(r, s),
         s \in NodeActive => node[r] = "pending" /\ run \in Dispatchable,
         s = "cancelled" => Failing(node, byHand),
         run' = run \/ (run \in Dispatchable /\ run' \in Dispatchable) \/ (run' = "cancelling" /\ byHand),
         \A q \in NodeRuns : /\ agent'[q].signalled = agent[q].signalled
                             /\ agent'[q].status = "stopped" => agent[q].status = "stopped"
  PROVE  FailFastRows'
<1>1. /\ node'[r] = s /\ \A q \in NodeRuns \ {r} : node'[q] = node[q]
      /\ StandsAt(node, "failed") => StandsAt(node', "failed")
      /\ StandsAt(node', "cancelled") => s = "cancelled" \/ StandsAt(node, "cancelled")
  BY TurnsStand
<1>2. Failing(node, byHand) => Failing(node', byHand')
  BY <1>1 DEF Failing
<1>3. s \notin {"absent", "pending"} /\ (s = "running" => node[r] = "pending")
  BY DEF Turns, NodeActive, NodeEnded
<1>4. ASSUME NEW q \in NodeRuns
      PROVE  /\ agent'[q].status = "stopped" => agent'[q].signalled
             /\ node'[q] \in {"absent", "pending"} => ~agent'[q].signalled
             /\ node'[q] = "running" /\ agent'[q].signalled => Failing(node', byHand')
  <2>1. agent'[q].status = "stopped" => agent'[q].signalled
    BY DEF FailFastRows
  <2>2. CASE q = r
    BY <1>1, <1>3, <2>1, <2>2 DEF FailFastRows
  <2>3. CASE q /= r
    BY <1>1, <1>2, <2>1, <2>3 DEF FailFastRows
  <2>4. QED
    BY <2>2, <2>3
<1>5. run' \in {"cancelling", "cancelled"} => byHand'
  BY RunStatuses DEF FailFastRows
<1>6. run' \in RunEnded => AtRest(node')
  <2> SUFFICES ASSUME run' \in RunEnded PROVE AtRest(node')
    OBVIOUS
  <2>1. run = run' /\ run \notin Dispatchable
    BY RunStatuses
  <2>2. AtRest(node) /\ s \notin NodeActive
    BY <2>1 DEF FailFastRows
  <2>3. QED
    BY <1>1, <2>2 DEF AtRest
<1>7. run' \in Dispatchable => run \in Dispatchable
  BY RunStatuses
<1>8. run' \in Dispatchable /\ StandsAt(node', "cancelled") => Failing(node', byHand')
  BY <1>1, <1>2, <1>7 DEF FailFastRows
<1>9. QED
  BY <1>4, <1>5, <1>6, <1>8 DEF FailFastRows

-----------------------------------------------------------------------------
(***************************************************************************)
(* What a handler goes on with                                             *)
(***************************************************************************)
\* Handler x becomes y: if to write down a decision, then one it has just read.
NewTask(x, y) ==
    /\ Begins(y, "finalize") =>
          /\ UNCHANGED rows /\ y.seen = run /\ run \in RunActive /\ AtRest(node) /\ Done
          /\ y.want = Verdict /\ y.want \in RunEnded /\ (y.want = "cancelled" => run = "cancelling")
    /\ Begins(y, "setState") =>
          /\ UNCHANGED rows /\ y.seen = run /\ y.want \in Dispatchable
          /\ run \in Dispatchable \/ Begins(x, "resync")
    /\ Begins(y, "resync") => UNCHANGED rows /\ run \in Dispatchable /\ StandsAt(node, "waiting")
    /\ Begins(y, "replace") \/ Begins(y, "queueRetry") =>
          UNCHANGED rows /\ run = "failed" /\ y.plan = StoppedNow(node) /\ Todo(y) \subseteq Retries

\* If to stop siblings, then for a cancellation or a failure; if to retry, then
\* nothing else.
NewStops(x, y) ==
    /\ Todo(y) \cap Stops /= {} =>
          Todo(x) \cap Stops /= {} \/ StandsAt(node', "failed") \/ run' = "cancelling"
    /\ "cancelPending" \in Todo(y) => "cancelPending" \in Todo(x) \/ run' = "cancelling"
    /\ RetriesAlone(x) => RetriesAlone(y)

Proceeds(a) ==
    \E y : exec' = [exec EXCEPT ![a] = y] /\ NewTask(exec[a], y) /\ NewStops(exec[a], y)

Members(rs) == {rs[i] : i \in 1 .. Len(rs)}

\* Lists that only go on, and lists that stop others.
Callable(rs) ==
    /\ rs \in Seq(Routines) /\ Ordered(rs) /\ (rs /= <<>> => rs[1] \notin Decisive)
    /\ Members(rs) \cap Redo = {}
Mild(rs) == Callable(rs) /\ Members(rs) \cap Stops = {} /\ "cancelPending" \notin Members(rs)

LEMMA MildLists ==
  /\ Mild(<<>>) /\ Mild(ScheduleReadyNodes) /\ Mild(<<"check">>) /\ Mild(<<"advance">>)
  /\ Mild(<<"mark">>) /\ Mild(<<"reconcile">>) /\ Mild(<<"healNext">>) /\ Mild(<<"sync">>)
  /\ Mild(<<"record">>) /\ Mild(<<"heal", "advance">>)
  /\ Mild(<<"claim", "dispatch">>) /\ Mild(<<"enqueue", "claim">>) /\ Mild(<<"sync", "claim">>)
  /\ Mild(<<"enqueue", "advance">>) /\ Mild(<<"record", "healNext">>)
<1>1. Mild(<<>>)
  BY DEF Mild, Callable, Ordered, Members
<1>2. \A p \in Routines \ (Decisive \cup Redo \cup Stops \cup {"cancelPending"}) : Mild(<<p>>)
  BY DEF Mild, Callable, Ordered, Members
<1>3. \A p \in Routines \ (Decisive \cup Redo \cup Stops \cup {"cancelPending"}),
         q \in Routines \ (Fresh \cup Redo \cup Stops \cup {"cancelPending"}) : Mild(<<p, q>>)
  BY DEF Mild, Callable, Ordered, Members
<1>4. Mild(ScheduleReadyNodes)
  BY DEF Mild, Callable, Ordered, Members, ScheduleReadyNodes, Routines, Fresh, Decisive, Stops,
         Redo, Retries
<1>5. /\ {"check", "advance", "mark", "reconcile", "healNext", "sync", "record", "heal",
          "claim", "enqueue"} \subseteq Routines \ (Decisive \cup Redo \cup Stops \cup {"cancelPending"})
      /\ {"advance", "dispatch", "claim", "healNext"} \subseteq Routines \ (Fresh \cup Redo \cup Stops \cup {"cancelPending"})
  BY DEF Routines, Decisive, Stops, Fresh, Redo, Retries
<1>6. QED
  BY <1>1, <1>2, <1>3, <1>4, <1>5

LEMMA StoppingLists ==
  /\ Callable(PropagateFailure) /\ "cancelPending" \notin Members(PropagateFailure)
  /\ Callable(PropagateFailure \o <<"claim">>) /\ "cancelPending" \notin Members(PropagateFailure \o <<"claim">>)
  /\ Callable(ReconcileCancelling) /\ Callable(<<"cancelPending", "gates", "signal", "check">>)
<1>1. Callable(PropagateFailure) /\ "cancelPending" \notin Members(PropagateFailure)
  BY RoutineLists DEF Plain, Callable, Members, PropagateFailure, Decisive, Redo, Retries
<1>2. Callable(ReconcileCancelling)
  BY RoutineLists DEF Plain, Callable, Members, ReconcileCancelling, Decisive, Redo, Retries
<1>3. Callable(<<"cancelPending", "gates", "signal", "check">>)
  BY RoutineLists DEF Plain, Callable, Members, Decisive, Redo, Retries
<1>4. Callable(PropagateFailure \o <<"claim">>) /\ "cancelPending" \notin Members(PropagateFailure \o <<"claim">>)
  <2> DEFINE p == PropagateFailure
             c == <<"claim">>
             l == p \o c
  <2>1. /\ p \in Seq(Routines) /\ Len(p) = 3 /\ p[1] = "signal"
        /\ \A i \in 1 .. 3 : p[i] \in {"signal", "gates", "check"}
    BY DEF PropagateFailure, Routines
  <2>2. c \in Seq(Routines) /\ Len(c) = 1 /\ c[1] = "claim"
    BY DEF Routines
  <2>3. Plain(l)
    BY RoutineLists
  <2> HIDE DEF p, c
  <2>4. p \in Seq(Routines) /\ c \in Seq(Routines)
    BY <2>1, <2>2
  <2>5. /\ Len(l) = Len(p) + Len(c)
        /\ \A i \in 1 .. Len(l) : l[i] = IF i <= Len(p) THEN p[i] ELSE c[i - Len(p)]
    BY <2>4
  <2> HIDE DEF l
  <2>6. Len(l) = 4 /\ l[1] = "signal" /\ l[4] = c[4 - 3] /\ \A i \in 1 .. 3 : l[i] = p[i]
    BY <2>1, <2>2, <2>5
  <2>7. \A i \in 1 .. Len(l) : l[i] \in {"signal", "gates", "check", "claim"}
    BY <2>1, <2>2, <2>6
  <2>8. Callable(l) /\ "cancelPending" \notin Members(l)
    BY <2>3, <2>6, <2>7 DEF Callable, Members, Plain, Decisive, Redo, Retries
  <2>9. QED
    BY <2>8 DEF l, p, c
<1>5. QED
  BY <1>1, <1>2, <1>3, <1>4

\* What is left to do after a call, whatever is called.
LEMMA CallsReach ==
  ASSUME NEW x \in Exec, x.todo /= <<>>, Ordered(x.todo), NEW rs \in Seq(Routines), Ordered(rs)
  PROVE  /\ Todo(Calls(x, rs)) \subseteq Members(rs) \cup Todo(x)
         /\ \A p \in Fresh : Begins(Calls(x, rs), p) => rs /= <<>> /\ rs[1] = p
<1> DEFINE t == Tail(x.todo)
           l == rs \o t
           y == Calls(x, rs)
<1>1. x.todo \in Seq(Routines)
  BY DEF Exec
<1>2. t \in Seq(Routines) /\ Len(t) = Len(x.todo) - 1 /\ \A i \in 1 .. Len(t) : t[i] = x.todo[i + 1]
  BY <1>1
<1> HIDE DEF t
<1>0. rs \in Seq(Routines) /\ t \in Seq(Routines)
  BY <1>2
<1>3. /\ l \in Seq(Routines) /\ Len(l) = Len(rs) + Len(t)
      /\ \A i \in 1 .. Len(l) : l[i] = IF i <= Len(rs) THEN rs[i] ELSE t[i - Len(rs)]
  BY <1>0
<1>4. y = IF l = <<>> THEN IdleExec ELSE [x EXCEPT !.todo = l]
  BY DEF Calls, t
<1> HIDE DEF l
<1>5. y.todo = l
  BY <1>4 DEF IdleExec, Exec
<1>6. ASSUME NEW i \in 1 .. Len(l) PROVE l[i] \in Members(rs) \cup Todo(x)
  <2>0. Len(rs) \in Nat /\ Len(t) \in Nat /\ Len(x.todo) \in Nat /\ i \in Nat
    BY <1>1, <1>2
  <2>1. CASE i <= Len(rs)
    BY <1>3, <2>0, <2>1 DEF Members
  <2>2. CASE i > Len(rs)
    <3>1. i - Len(rs) \in 1 .. Len(t) /\ l[i] = t[i - Len(rs)]
      BY <1>3, <2>0, <2>2
    <3> DEFINE k == i - Len(rs)
    <3>2. l[i] = x.todo[k + 1] /\ k + 1 \in 1 .. Len(x.todo)
      <4>1. k \in 1 .. Len(t) /\ l[i] = t[k]
        BY <3>1
      <4> HIDE DEF k
      <4>2. QED
        BY <1>2, <2>0, <4>1
    <3> HIDE DEF k
    <3>3. QED
      BY <3>2 DEF Todo
  <2>3. QED
    BY <2>0, <2>1, <2>2
<1>7. Todo(y) \subseteq Members(rs) \cup Todo(x)
  BY <1>5, <1>6 DEF Todo
<1>8. \A p \in Fresh : Begins(y, p) => rs /= <<>> /\ rs[1] = p
  BY <1>1, CallsList DEF Begins
<1>9. QED
  BY <1>7, <1>8

\* What a retry calls does not come back to a retry.
LEMMA CallsAlone ==
  ASSUME NEW x \in Exec, x.todo /= <<>>, RetriesAlone(x),
         NEW rs \in Seq(Routines), Members(rs) \cap Redo = {}
  PROVE  RetriesAlone(Calls(x, rs))
<1> DEFINE t == Tail(x.todo)
           l == rs \o t
           y == Calls(x, rs)
<1>1. x.todo \in Seq(Routines)
  BY DEF Exec
<1>2. t \in Seq(Routines) /\ Len(t) = Len(x.todo) - 1 /\ \A i \in 1 .. Len(t) : t[i] = x.todo[i + 1]
  BY <1>1
<1> HIDE DEF t
<1>3. rs \in Seq(Routines) /\ t \in Seq(Routines)
  BY <1>2
<1>4. /\ l \in Seq(Routines) /\ Len(l) = Len(rs) + Len(t)
      /\ \A i \in 1 .. Len(l) : l[i] = IF i <= Len(rs) THEN rs[i] ELSE t[i - Len(rs)]
  BY <1>3
<1>5. y = IF l = <<>> THEN IdleExec ELSE [x EXCEPT !.todo = l]
  BY DEF Calls, t
<1> HIDE DEF l
<1>6. y.todo = l
  BY <1>5 DEF IdleExec, Exec
<1>7. ASSUME NEW p \in Redo, NEW i \in 1 .. Len(l), l[i] = p PROVE FALSE
  <2>1. Len(rs) \in Nat /\ Len(t) \in Nat /\ Len(x.todo) \in Nat /\ i \in Nat
    BY <1>1, <1>2
  <2>2. ~(i <= Len(rs))
    BY <1>4, <1>7, <2>1 DEF Members
  <2> DEFINE k == i - Len(rs)
  <2>3. k \in 1 .. Len(t) /\ t[k] = p
    BY <1>4, <1>7, <2>1, <2>2
  <2> HIDE DEF k
  <2>4. x.todo[k + 1] = p /\ k + 1 \in 1 .. Len(x.todo) /\ k + 1 >= 2
    BY <1>2, <2>1, <2>3
  <2>5. p \in Todo(x)
    BY <2>4 DEF Todo
  <2>6. x.todo = <<p>>
    BY <2>5 DEF RetriesAlone
  <2>7. Len(x.todo) = 1
    BY <2>6
  <2>8. QED
    BY <2>4, <2>7
<1> HIDE DEF y
<1>8. RetriesAlone(y)
  BY <1>6, <1>7 DEF RetriesAlone, Todo
<1>9. QED
  BY <1>8 DEF y

LEMMA CallProceeds ==
  ASSUME EngineInv, NEW a \in Actors, NEW routine, At(a, routine), NEW rs, Callable(rs),
         NEW y, y.todo = Calls(exec[a], rs).todo, exec' = [exec EXCEPT ![a] = y],
         Members(rs) \cap Stops /= {} => StandsAt(node', "failed") \/ run' = "cancelling",
         "cancelPending" \in Members(rs) => run' = "cancelling"
  PROVE  Proceeds(a)
<1> DEFINE x == exec[a]
           z == Calls(x, rs)
<1>1. x \in Exec /\ x.todo /= <<>> /\ Ordered(x.todo)
  BY HandlerAt DEF Relies
<1>2. /\ Todo(z) \subseteq Members(rs) \cup Todo(x)
      /\ \A p \in Fresh : Begins(z, p) => rs /= <<>> /\ rs[1] = p
  BY <1>1, CallsReach DEF Callable
<1>3. Todo(y) = Todo(z) /\ \A p : Begins(y, p) <=> Begins(z, p)
  BY DEF Todo, Begins
<1> HIDE DEF z
<1>4. \A p \in Decisive : ~Begins(y, p)
  BY <1>2, <1>3 DEF Callable, Decisive, Fresh
<1>5. NewTask(x, y)
  BY <1>4 DEF NewTask, Decisive
<1>6. NewStops(x, y)
  <2>1. RetriesAlone(x) => RetriesAlone(z)
    BY <1>1, CallsAlone DEF Callable, z
  <2>2. y.todo = z.todo
    BY DEF z
  <2>3. QED
    BY <1>2, <1>3, <2>1, <2>2 DEF NewStops, RetriesAlone
<1>7. QED
  BY <1>5, <1>6 DEF Proceeds

\* The forms in which most handlers go on.
LEMMA MildProceeds ==
  ASSUME EngineInv, NEW a \in Actors, NEW routine, At(a, routine), NEW rs, Mild(rs),
         NEW y, y.todo = Calls(exec[a], rs).todo, exec' = [exec EXCEPT ![a] = y]
  PROVE  Proceeds(a)
BY CallProceeds DEF Mild

LEMMA MildCallProceeds ==
  ASSUME EngineInv, NEW a \in Actors, NEW routine, At(a, routine), NEW rs, Mild(rs), Call(a, rs)
  PROVE  Proceeds(a)
BY MildProceeds DEF Call

LEMMA ReturnProceeds ==
  ASSUME EngineInv, NEW a \in Actors, NEW routine, At(a, routine), Return(a)
  PROVE  Proceeds(a)
BY MildCallProceeds, MildLists DEF Return, Call

\* A new handler, or none.
LEMMA BeginProceeds ==
  ASSUME NEW a \in Actors, NEW rs, Mild(rs), NEW y, y.todo = rs, exec' = [exec EXCEPT ![a] = y]
  PROVE  Proceeds(a)
<1>1. Todo(y) = Members(rs) /\ \A p : Begins(y, p) => rs /= <<>> /\ rs[1] = p
  BY DEF Todo, Members, Begins, Mild, Callable
<1>2. NewTask(exec[a], y)
  BY <1>1 DEF NewTask, Mild, Callable, Decisive
<1>3. NewStops(exec[a], y)
  BY <1>1 DEF NewStops, Mild, Callable, RetriesAlone
<1>4. QED
  BY <1>2, <1>3 DEF Proceeds

\* A handler that stays at its routine.
LEMMA StayProceeds ==
  ASSUME EngineInv, NEW a \in Actors, NEW routine, At(a, routine), routine \notin Decisive,
         NEW y, y.todo = exec[a].todo, exec' = [exec EXCEPT ![a] = y]
  PROVE  Proceeds(a)
<1>1. Todo(y) = Todo(exec[a]) /\ \A p : Begins(y, p) => p = routine
  BY DEF Todo, Begins, At
<1>2. NewTask(exec[a], y)
  BY <1>1 DEF NewTask, Decisive
<1>3. NewStops(exec[a], y)
  BY <1>1 DEF NewStops, RetriesAlone
<1>4. QED
  BY <1>2, <1>3 DEF Proceeds

\* What a handler remembers is not what it has to do.
LEMMA TodoKept ==
  ASSUME NEW z \in Exec, NEW v
  PROVE  /\ [z EXCEPT !.ready = v].todo = z.todo /\ [z EXCEPT !.healing = v].todo = z.todo
         /\ [z EXCEPT !.tries = v].todo = z.todo /\ [z EXCEPT !.at = v].todo = z.todo
BY DEF Exec

\* A handler that calls the writing of something it has just read.
LEMMA TaskProceeds ==
  ASSUME EngineInv, NEW a \in Actors, NEW routine, At(a, routine), UNCHANGED rows,
         NEW p \in {"finalize", "setState", "resync"},
         NEW y, y.todo = Calls(exec[a], <<p>>).todo, exec' = [exec EXCEPT ![a] = y],
         p = "finalize" => /\ y.seen = run /\ run \in RunActive /\ AtRest(node) /\ Done
                           /\ y.want = Verdict /\ y.want \in RunEnded /\ (y.want = "cancelled" => run = "cancelling"),
         p = "setState" => /\ y.seen = run /\ y.want \in Dispatchable
                           /\ run \in Dispatchable \/ Begins(exec[a], "resync"),
         p = "resync" => run \in Dispatchable /\ StandsAt(node, "waiting")
  PROVE  Proceeds(a)
<1> DEFINE x == exec[a]
           z == Calls(x, <<p>>)
<1>1. x \in Exec /\ x.todo /= <<>> /\ Ordered(x.todo)
  BY HandlerAt DEF Relies
<1>2. <<p>> \in Seq(Routines) /\ Ordered(<<p>>) /\ Members(<<p>>) = {p}
  BY DEF Routines, Ordered, Members
<1>3. /\ Todo(z) \subseteq {p} \cup Todo(x)
      /\ \A q \in Fresh : Begins(z, q) => q = p
  BY <1>1, <1>2, CallsReach
<1>4. Todo(y) = Todo(z) /\ \A q : Begins(y, q) <=> Begins(z, q)
  BY DEF Todo, Begins
<1> HIDE DEF z
<1>5. \A q \in Decisive : Begins(y, q) => q = p
  BY <1>3, <1>4 DEF Decisive, Fresh
<1>6. NewTask(x, y)
  BY <1>5 DEF NewTask, Decisive
<1>7. NewStops(x, y)
  <2>1. RetriesAlone(x) => RetriesAlone(z)
    BY <1>1, <1>2, CallsAlone DEF Redo, Retries, z
  <2>2. y.todo = z.todo
    BY DEF z
  <2>3. QED
    BY <1>3, <1>4, <2>1, <2>2 DEF NewStops, Stops, RetriesAlone
<1>8. QED
  BY <1>6, <1>7 DEF Proceeds

-----------------------------------------------------------------------------
(***************************************************************************)
(* What every step goes on with                                            *)
(***************************************************************************)
LEMMA DispatchProceeds == ASSUME EngineInv, NEW a \in Actors, Dispatch(a) PROVE Proceeds(a)
<1>1. At(a, "dispatch")
  BY DEF Dispatch
<1>2. CASE AcceptsDispatch /\ FindReadyNodes /= {}
  <2> DEFINE z == Calls(exec[a], <<"claim", "dispatch">>)
             y == [z EXCEPT !.ready = FindReadyNodes]
  <2>1. exec' = [exec EXCEPT ![a] = y]
    BY <1>2 DEF Dispatch
  <2>2. z \in Exec
    BY <1>1, SettledLists, HandlerAt, CallsRelies DEF Settled
  <2>3. y.todo = z.todo
    <3> HIDE DEF z
    <3>1. QED
      BY <2>2, TodoKept
  <2> HIDE DEF y
  <2>4. QED
    BY <1>1, <2>1, <2>3, MildLists, MildProceeds
<1>3. CASE ~(AcceptsDispatch /\ FindReadyNodes /= {})
  BY <1>1, <1>3, ReturnProceeds DEF Dispatch
<1>4. QED
  BY <1>2, <1>3

LEMMA AdvanceProceeds == ASSUME EngineInv, NEW a \in Actors, Advance(a) PROVE Proceeds(a)
<1> DEFINE y == Calls(exec[a], PropagateFailure)
<1>1. At(a, "advance") /\ UNCHANGED rows
  BY DEF Advance
<1>2. CASE run \notin Dispatchable
  BY <1>1, <1>2, MildLists, MildCallProceeds DEF Advance
<1>3. CASE run \in Dispatchable /\ HasFailedNode
  <2>1. exec' = [exec EXCEPT ![a] = y]
    BY <1>3 DEF Advance, Call
  <2>2. StandsAt(node', "failed")
    BY <1>1, <1>3, StandingNow DEF EngineInv, rows
  <2> HIDE DEF y
  <2>3. y.todo = Calls(exec[a], PropagateFailure).todo
    BY DEF y
  <2>4. QED
    BY <1>1, <2>1, <2>2, <2>3, StoppingLists, CallProceeds
<1>4. CASE run \in Dispatchable /\ ~HasFailedNode
  BY <1>1, <1>4, MildLists, MildCallProceeds DEF Advance
<1>5. QED
  BY <1>2, <1>3, <1>4

LEMMA ReconcileProceeds ==
  ASSUME EngineInv, NEW a \in Actors, ReconcileWorkflowRun(a) PROVE Proceeds(a)
<1> DEFINE y == Calls(exec[a], ReconcileCancelling)
<1>1. At(a, "reconcile") /\ UNCHANGED rows
  BY DEF ReconcileWorkflowRun
<1>2. CASE run = "cancelling"
  <2>1. exec' = [exec EXCEPT ![a] = y]
    BY <1>2 DEF ReconcileWorkflowRun, Call
  <2> HIDE DEF y
  <2>2. y.todo = Calls(exec[a], ReconcileCancelling).todo
    BY DEF y
  <2>3. run' = "cancelling"
    BY <1>1, <1>2 DEF rows
  <2>4. QED
    BY <1>1, <2>1, <2>2, <2>3, StoppingLists, CallProceeds
<1>3. CASE run /= "cancelling" /\ run \in Dispatchable
  BY <1>1, <1>3, MildLists, MildCallProceeds DEF ReconcileWorkflowRun
<1>4. CASE run /= "cancelling" /\ run \notin Dispatchable
  BY <1>1, <1>4, MildLists, MildCallProceeds DEF ReconcileWorkflowRun
<1>5. QED
  BY <1>2, <1>3, <1>4

LEMMA HealAgentNodesProceeds ==
  ASSUME EngineInv, NEW a \in Actors, HealAgentNodes(a) PROVE Proceeds(a)
<1> DEFINE z == Calls(exec[a], <<"healNext">>)
           y == [z EXCEPT !.healing = {r \in NodeRuns : node[r] = "running"}]
<1>1. At(a, "heal") /\ exec' = [exec EXCEPT ![a] = y]
  BY DEF HealAgentNodes
<1>2. z \in Exec
  BY <1>1, RoutineLists, HandlerAt, CallsRelies
<1>3. y.todo = z.todo
  <2> HIDE DEF z
  <2>1. QED
    BY <1>2, TodoKept
<1> HIDE DEF y
<1>4. QED
  BY <1>1, <1>3, MildLists, MildProceeds

\* The steps that only return, and the closing of one gate.
LEMMA ReturningProceeds ==
  ASSUME EngineInv, NEW a \in Actors,
         \/ Enqueue(a) \/ SignalActiveAgents(a) \/ CloseWaitingApprovalNodes(a)
         \/ Finalize(a) \/ CancelPendingNodes(a)
  PROVE  Proceeds(a)
<1>1. PICK routine \in Routines : At(a, routine) /\ (Return(a) \/ (routine = "gates" /\ UNCHANGED exec))
  BY DEF Enqueue, SignalActiveAgents, CloseWaitingApprovalNodes, Finalize, CancelPendingNodes, Routines
<1>2. CASE Return(a)
  BY <1>1, <1>2, ReturnProceeds
<1>3. CASE routine = "gates" /\ UNCHANGED exec
  <2> DEFINE y == exec[a]
  <2>1. exec' = [exec EXCEPT ![a] = y]
    BY <1>3 DEF EngineInv
  <2>2. "gates" \notin Decisive
    BY DEF Decisive
  <2>3. QED
    BY <1>1, <1>3, <2>1, <2>2, StayProceeds
<1>4. QED
  BY <1>1, <1>2, <1>3

LEMMA CheckProceeds ==
  ASSUME EngineInv, NEW a \in Actors, CheckWorkflowComplete(a) PROVE Proceeds(a)
<1>1. At(a, "check") /\ UNCHANGED rows
  BY DEF CheckWorkflowComplete
<1>2. CASE ~(run \in RunActive /\ ~Undrained /\ Done)
  BY <1>1, <1>2, ReturnProceeds DEF CheckWorkflowComplete
<1>3. CASE run \in RunActive /\ ~Undrained /\ Done
  <2> DEFINE z == Calls(exec[a], <<"finalize">>)
             y == [z EXCEPT !.seen = run, !.want = Verdict]
  <2>1. exec' = [exec EXCEPT ![a] = y]
    BY <1>3 DEF CheckWorkflowComplete
  <2>2. z \in Exec
    BY <1>1, RoutineLists, HandlerAt, CallsRelies
  <2>3. y.todo = z.todo /\ y.seen = run /\ y.want = Verdict
    <3> HIDE DEF z
    <3>1. QED
      BY <2>2 DEF Exec
  <2>4. AtRest(node)
    BY <1>3, StandingNow DEF EngineInv
  <2>5. Verdict \in RunEnded /\ (Verdict = "cancelled" => run = "cancelling")
    BY DEF Verdict, RunEnded
  <2> HIDE DEF y
  <2>6. QED
    BY <1>1, <1>3, <2>1, <2>3, <2>4, <2>5, TaskProceeds
<1>4. QED
  BY <1>2, <1>3

\* Going on to write the summary that was derived, or not.
LEMMA DerivedProceeds ==
  ASSUME EngineInv, UNCHANGED rows, NEW a \in Actors, NEW routine, At(a, routine),
         run \in Dispatchable \/ Begins(exec[a], "resync"),
         NEW wanted \in Dispatchable, NEW k \in 0 .. SyncTries,
         exec' = [exec EXCEPT ![a] = [Derived(exec[a], run, wanted) EXCEPT !.tries = k]]
  PROVE  Proceeds(a)
<1> DEFINE x == exec[a]
           y == [Derived(x, run, wanted) EXCEPT !.tries = k]
<1>1. x \in Exec /\ x.todo /= <<>> /\ Relies(x, node, agent) /\ Ordered(x.todo)
  BY HandlerAt DEF Relies
<1>2. CASE wanted = run
  <2> DEFINE z == Calls(x, <<>>)
  <2>1. y = [z EXCEPT !.tries = k]
    BY <1>2 DEF Derived
  <2>2. z \in Exec
    BY <1>1, PlainLists, CallsRelies
  <2>3. exec' = [exec EXCEPT ![a] = y]
    OBVIOUS
  <2> HIDE DEF z, y
  <2>4. y.todo = z.todo
    BY <2>1, <2>2, TodoKept
  <2>5. QED
    BY <2>3, <2>4, MildLists, MildProceeds DEF z
<1>3. CASE wanted /= run
  <2> DEFINE z == Calls(x, <<"setState">>)
  <2>1. y = [[z EXCEPT !.seen = run, !.want = wanted] EXCEPT !.tries = k]
    BY <1>3 DEF Derived
  <2>2. <<"setState">> \in Seq(Routines) /\ Ordered(<<"setState">>)
    BY DEF Routines, Ordered
  <2>3. z \in Exec
    BY <1>1, <2>2, CallsList
  <2>4. exec' = [exec EXCEPT ![a] = y]
    OBVIOUS
  <2> HIDE DEF z, y
  <2>5. y.todo = z.todo /\ y.seen = run /\ y.want = wanted
    BY <2>1, <2>3 DEF Exec
  <2>6. QED
    BY <2>4, <2>5, TaskProceeds DEF z
<1>4. QED
  BY <1>2, <1>3

\* The tries that are counted when the summary is derived.
LEMMA DerivedTries ==
  ASSUME NEW x \in Exec, x.todo /= <<>>, Ordered(x.todo), NEW wanted, run /= wanted
  PROVE  Derived(x, run, wanted).tries = x.tries
<1> DEFINE z == Calls(x, <<"setState">>)
<1>1. <<"setState">> \in Seq(Routines) /\ Ordered(<<"setState">>) /\ <<"setState">> /= <<>>
  BY DEF Routines, Ordered
<1>2. z \in Exec /\ z = [x EXCEPT !.todo = <<"setState">> \o Tail(x.todo)]
  BY <1>1, CallsList
<1>3. Derived(x, run, wanted) = [z EXCEPT !.seen = run, !.want = wanted]
  BY DEF Derived
<1>4. z.tries = x.tries
  BY <1>2 DEF Exec
<1> HIDE DEF z
<1>5. QED
  BY <1>2, <1>3, <1>4 DEF Exec

LEMMA ResyncProceeds ==
  ASSUME EngineInv, NEW a \in Actors, OnlyHumansLeftToAct(a) PROVE Proceeds(a)
<1> DEFINE x == exec[a]
           w == IF FindReadyNodes = {} THEN "waiting" ELSE "running"
           k == IF run = w THEN 0 ELSE x.tries
<1>1. At(a, "resync") /\ UNCHANGED rows
  BY DEF OnlyHumansLeftToAct
<1>2. x \in Exec /\ x.todo /= <<>> /\ Ordered(x.todo) /\ Begins(x, "resync")
  BY <1>1, HandlerAt DEF Relies, Begins
<1>3. exec' = [exec EXCEPT ![a] = [Derived(x, run, w) EXCEPT
                  !.tries = IF run = w THEN 0 ELSE Derived(x, run, w).tries]]
  BY Zenon DEF OnlyHumansLeftToAct
<1>4. (IF run = w THEN 0 ELSE Derived(x, run, w).tries) = k
  BY <1>2, DerivedTries
<1>5. w \in Dispatchable /\ k \in 0 .. SyncTries
  BY <1>2, TriesTyped DEF Dispatchable
<1>6. exec' = [exec EXCEPT ![a] = [Derived(x, run, w) EXCEPT !.tries = k]]
  BY <1>3, <1>4
<1> HIDE DEF w, k
<1>7. QED
  BY <1>1, <1>2, <1>5, <1>6, DerivedProceeds

LEMMA SyncProceeds == ASSUME EngineInv, NEW a \in Actors, SyncRunState(a) PROVE Proceeds(a)
<1> DEFINE x == exec[a]
           over == run \notin Dispatchable \/ x.tries = SyncTries
           human == "waiting" \in CurrentStatuses /\ "running" \notin CurrentStatuses /\ ~HasFailedNode
<1>1. At(a, "sync") /\ UNCHANGED rows
  BY DEF SyncRunState
<1>2. x \in Exec /\ x.todo /= <<>> /\ Relies(x, node, agent) /\ Ordered(x.todo)
  BY <1>1, HandlerAt DEF Relies
<1>3. CASE over
  <2> DEFINE z == Calls(x, <<>>)
             y == [z EXCEPT !.tries = 0]
  <2>1. exec' = [exec EXCEPT ![a] = y]
    BY <1>3, Zenon DEF SyncRunState
  <2>2. z \in Exec
    BY <1>2, PlainLists, CallsRelies
  <2> HIDE DEF z
  <2>3. y.todo = z.todo
    BY <2>2, TodoKept
  <2> HIDE DEF y
  <2>4. QED
    BY <1>1, <2>1, <2>3, MildLists, MildProceeds DEF z
<1>4. CASE ~over /\ human
  <2> DEFINE y == Calls(x, <<"resync">>)
  <2>1. exec' = [exec EXCEPT ![a] = y]
    BY <1>4, Zenon DEF SyncRunState
  <2>2. run \in Dispatchable /\ StandsAt(node, "waiting")
    BY <1>4, StatusesStand DEF EngineInv
  <2> HIDE DEF y
  <2>3. y.todo = Calls(exec[a], <<"resync">>).todo
    BY DEF y
  <2>4. QED
    BY <1>1, <2>1, <2>2, <2>3, TaskProceeds
<1>5. CASE ~over /\ ~human
  <2> DEFINE z == Derived(x, run, "running")
             k == IF run = "running" THEN 0 ELSE x.tries
  <2>1. exec' = [exec EXCEPT ![a] = [z EXCEPT !.tries = IF run = "running" THEN 0 ELSE z.tries]]
    BY <1>5, Zenon DEF SyncRunState
  <2>2. (IF run = "running" THEN 0 ELSE z.tries) = k
    BY <1>2, DerivedTries
  <2>3. "running" \in Dispatchable /\ k \in 0 .. SyncTries
    BY <1>2, TriesTyped DEF Dispatchable
  <2>4. exec' = [exec EXCEPT ![a] = [z EXCEPT !.tries = k]]
    BY <2>1, <2>2
  <2> HIDE DEF k
  <2>5. QED
    BY <1>1, <1>5, <2>3, <2>4, DerivedProceeds
<1>6. QED
  BY <1>3, <1>4, <1>5

LEMMA SetStateProceeds == ASSUME EngineInv, NEW a \in Actors, SetState(a) PROVE Proceeds(a)
<1> DEFINE z == Calls(exec[a], <<"sync">>)
           y == [z EXCEPT !.tries = z.tries + 1]
<1>1. At(a, "setState") /\ exec' = [exec EXCEPT ![a] = y]
  BY DEF SetState
<1>2. z \in Exec
  BY <1>1, RoutineLists, HandlerAt, CallsRelies
<1>3. y.todo = z.todo
  <2> HIDE DEF z
  <2>1. QED
    BY <1>2, TodoKept
<1> HIDE DEF y
<1>4. QED
  BY <1>1, <1>3, MildLists, MildProceeds

LEMMA MarkProceeds == ASSUME EngineInv, NEW a \in Actors, MarkCancelling(a) PROVE Proceeds(a)
<1> DEFINE rs == <<"cancelPending", "gates", "signal", "check">>
           y == Calls(exec[a], rs)
<1>1. At(a, "mark")
  BY DEF MarkCancelling
<1>2. CASE run \in RunActive
  <2>1. exec' = [exec EXCEPT ![a] = y] /\ run' = "cancelling"
    BY <1>2 DEF MarkCancelling, Call
  <2>2. Callable(rs)
    BY StoppingLists
  <2> HIDE DEF rs
  <2>3. y.todo = Calls(exec[a], rs).todo
    OBVIOUS
  <2> HIDE DEF y
  <2>4. QED
    BY <1>1, <2>1, <2>2, <2>3, CallProceeds
<1>3. CASE run \notin RunActive
  BY <1>1, <1>3, ReturnProceeds DEF MarkCancelling
<1>4. QED
  BY <1>2, <1>3

LEMMA RecordProceeds == ASSUME EngineInv, NEW a \in Actors, Record(a) PROVE Proceeds(a)
<1>1. At(a, "record") /\ Call(a, <<"advance">>)
  BY DEF Record
<1>2. QED
  BY <1>1, MildLists, MildCallProceeds

LEMMA HealNextProceeds == ASSUME EngineInv, NEW a \in Actors, HealNext(a) PROVE Proceeds(a)
<1>1. At(a, "healNext")
  BY DEF HealNext
<1>2. CASE exec[a].healing = {}
  BY <1>1, <1>2, ReturnProceeds DEF HealNext
<1>3. CASE exec[a].healing /= {}
  <2> DEFINE rest(r) == [exec[a] EXCEPT !.healing = @ \ {r}, !.at = r]
             recorded(r) == Calls(rest(r), <<"record", "healNext">>)
  <2>1. PICK r \in exec[a].healing :
            CASE agent[r].status \in AgentEnded ->
                    exec' = [exec EXCEPT ![a] = recorded(r)] /\ UNCHANGED agent
              [] agent[r].job = "none" ->
                    exec' = [exec EXCEPT ![a] = rest(r)] /\ EnsureJob(r)
              [] Orphaned(r) ->
                    /\ exec' = [exec EXCEPT ![a] = recorded(r)]
                    /\ agent' = [agent EXCEPT ![r].status = "interrupted"]
              [] OTHER -> exec' = [exec EXCEPT ![a] = rest(r)] /\ UNCHANGED agent
    BY <1>3, Zenon DEF HealNext
  <2>2. exec' = [exec EXCEPT ![a] = recorded(r)] \/ exec' = [exec EXCEPT ![a] = rest(r)]
    <3> HIDE DEF rest, recorded
    <3>1. QED
      BY <2>1
  <2>3. exec[a] \in Exec /\ exec[a].todo /= <<>> /\ Ordered(exec[a].todo)
    BY <1>1, HandlerAt DEF Relies
  <2>4. r \in NodeRuns
    BY <2>3 DEF Exec
  <2>5. rest(r) \in Exec /\ rest(r).todo = exec[a].todo
    BY <2>3, <2>4 DEF Exec
  <2> HIDE DEF rest
  <2>6. CASE exec' = [exec EXCEPT ![a] = rest(r)]
    <3>1. "healNext" \notin Decisive
      BY DEF Decisive
    <3>2. QED
      BY <1>1, <2>5, <2>6, <3>1, StayProceeds
  <2>7. CASE exec' = [exec EXCEPT ![a] = recorded(r)]
    <3> DEFINE rs == <<"record", "healNext">>
    <3>1. rs \in Seq(Routines) /\ Ordered(rs) /\ rs /= <<>> /\ Mild(rs)
      BY MildLists DEF Mild, Callable
    <3> HIDE DEF rs
    <3>2. /\ Calls(rest(r), rs) = [rest(r) EXCEPT !.todo = rs \o Tail(rest(r).todo)]
          /\ Calls(exec[a], rs) = [exec[a] EXCEPT !.todo = rs \o Tail(exec[a].todo)]
          /\ Calls(rest(r), rs) \in Exec
      BY <2>3, <2>5, <3>1, CallsList
    <3>3. Calls(rest(r), rs).todo = Calls(exec[a], rs).todo
      BY <2>3, <2>5, <3>2 DEF Exec
    <3>4. recorded(r).todo = Calls(exec[a], rs).todo
      BY <3>3 DEF rs
    <3> HIDE DEF recorded
    <3>5. QED
      BY <1>1, <2>7, <3>1, <3>4, MildProceeds
  <2>8. QED
    BY <2>2, <2>6, <2>7
<1>4. QED
  BY <1>2, <1>3

LEMMA ClaimProceeds == ASSUME EngineInv, NEW a \in Actors, Claim(a) PROVE Proceeds(a)
<1> DEFINE x == exec[a]
           n == Min(x.ready)
           r == Latest(n)
           rest == x.ready \ {n}
<1>1. At(a, "claim") /\ byHand' = byHand
  BY DEF Claim
<1>2. x \in Exec /\ x.todo /= <<>> /\ Relies(x, node, agent)
  BY <1>1, HandlerAt
<1>3. CASE x.ready = {} \/ ~AcceptsDispatch
  BY <1>1, <1>3, ReturnProceeds DEF Claim
<1>4. CASE ~(x.ready = {} \/ ~AcceptsDispatch)
  <2>1. (CASE node[r] /= "pending" ->
                exec' = [exec EXCEPT ![a].ready = rest] /\ UNCHANGED <<node, agent, approval>>
          [] node[r] = "pending" /\ Kind[n] = "agent" -> DispatchAgent(a, r, rest)
          [] node[r] = "pending" /\ Kind[n] = "gate" -> DispatchHumanApproval(a, r, rest)
          [] node[r] = "pending" /\ Kind[n] = "terminal" -> DispatchTerminal(a, r, rest)
          [] node[r] = "pending" /\ Kind[n] = "unsupported" -> FailNodeAtDispatch(a, r, rest))
    BY <1>4, Zenon DEF Claim
  <2>2. x.ready \in SUBSET Nat /\ x.ready \subseteq Nodes
    BY <1>2, WorkflowEngineAssumption DEF Exec, WorkflowEngineAssumption
  <2>3. n \in Nodes
    BY <1>4, <2>2, MinOfNaturals
  <2>4. r \in NodeRuns
    BY <2>3, LatestExists DEF EngineInv, RowsOK, AttemptsInOrder
  <2>5. Kind[n] \in {"agent", "gate", "terminal", "unsupported"}
    BY <2>3, WorkflowEngineAssumption DEF WorkflowEngineAssumption
  <2> HIDE DEF n, r, rest
  <2>6. \/ exec' = [exec EXCEPT ![a].ready = rest]
        \/ DispatchAgent(a, r, rest) \/ DispatchHumanApproval(a, r, rest)
        \/ DispatchTerminal(a, r, rest) \/ FailNodeAtDispatch(a, r, rest)
    BY <2>1, <2>5
  <2> DEFINE passed == [x EXCEPT !.ready = rest]
  <2>7. [exec EXCEPT ![a].ready = rest] = [exec EXCEPT ![a] = passed]
    OBVIOUS
  <2>8. CASE exec' = [exec EXCEPT ![a].ready = rest] \/ DispatchTerminal(a, r, rest)
    <3>1. exec' = [exec EXCEPT ![a] = passed]
      BY <2>7, <2>8 DEF DispatchTerminal
    <3>2. passed.todo = x.todo /\ "claim" \notin Decisive
      BY <1>2, TodoKept DEF Decisive
    <3> HIDE DEF passed
    <3>3. QED
      BY <1>1, <3>1, <3>2, StayProceeds
  <2>9. CASE DispatchAgent(a, r, rest)
    <3> DEFINE z == Calls(x, <<"enqueue", "claim">>)
               w == [z EXCEPT !.ready = rest]
               y == [w EXCEPT !.at = r]
    <3>1. exec' = [exec EXCEPT ![a] = y]
      BY <2>9, Zenon DEF DispatchAgent
    <3>2. z \in Exec
      BY <1>2, RoutineLists, CallsRelies
    <3>3. y.todo = z.todo
      <4> HIDE DEF z
      <4>1. QED
        BY <3>2 DEF Exec
    <3> HIDE DEF y
    <3>4. QED
      BY <1>1, <3>1, <3>3, MildLists, MildProceeds
  <2>10. CASE DispatchHumanApproval(a, r, rest)
    <3> DEFINE z == Calls(x, <<"sync", "claim">>)
               y == [z EXCEPT !.ready = rest]
    <3>1. exec' = [exec EXCEPT ![a] = y]
      BY <2>10, Zenon DEF DispatchHumanApproval
    <3>2. z \in Exec
      BY <1>2, RoutineLists, CallsRelies
    <3>3. y.todo = z.todo
      <4> HIDE DEF z
      <4>1. QED
        BY <3>2, TodoKept
    <3> HIDE DEF y
    <3>4. QED
      BY <1>1, <3>1, <3>3, MildLists, MildProceeds
  <2>11. CASE FailNodeAtDispatch(a, r, rest)
    <3> DEFINE rs == PropagateFailure \o <<"claim">>
               z == Calls(x, rs)
               y == [z EXCEPT !.ready = rest]
    <3>1. exec' = [exec EXCEPT ![a] = y] /\ node' = [node EXCEPT ![r] = "failed"] /\ node[r] = "pending"
      BY <2>11, Zenon DEF FailNodeAtDispatch, ClaimPendingNode
    <3>2. Callable(rs) /\ "cancelPending" \notin Members(rs) /\ Plain(rs)
      BY StoppingLists, RoutineLists
    <3> HIDE DEF rs
    <3>3. z \in Exec
      BY <1>2, <3>2, CallsRelies
    <3>4. y.todo = z.todo
      <4> HIDE DEF z
      <4>1. QED
        BY <3>3, TodoKept
    <3>5. StandsAt(node', "failed")
      <4>1. Turns(r, "failed")
        BY <3>1 DEF Turns, NodeEnded
      <4>2. QED
        BY <2>4, <4>1, TurnsStand
    <3> HIDE DEF y
    <3>6. QED
      BY <1>1, <3>1, <3>2, <3>4, <3>5, CallProceeds
  <2>12. QED
    BY <2>6, <2>8, <2>9, <2>10, <2>11
<1>5. QED
  BY <1>3, <1>4

LEMMA ReplaceProceeds == ASSUME EngineInv, NEW a \in Actors, Replace(a) PROVE Proceeds(a)
<1> DEFINE retry == Following(exec[a].at)
           z == Calls(exec[a], <<"enqueue", "advance">>)
           y == [z EXCEPT !.at = retry]
<1>1. At(a, "replace") /\ (exec' = [exec EXCEPT ![a] = y] \/ exec' = [exec EXCEPT ![a] = IdleExec])
  BY Zenon DEF Replace, Abort
<1>2. z \in Exec
  BY <1>1, RoutineLists, HandlerAt, CallsRelies
<1>3. y.todo = z.todo
  <2> HIDE DEF z
  <2>1. QED
    BY <1>2, TodoKept
<1>4. CASE exec' = [exec EXCEPT ![a] = y]
  <2> HIDE DEF y
  <2>1. QED
    BY <1>1, <1>3, <1>4, MildLists, MildProceeds
<1>5. CASE exec' = [exec EXCEPT ![a] = IdleExec]
  <2>1. IdleExec.todo = <<>>
    BY DEF IdleExec
  <2>2. QED
    BY <1>5, <2>1, MildLists, BeginProceeds
<1>6. QED
  BY <1>1, <1>4, <1>5

LEMMA QueueRetryProceeds == ASSUME EngineInv, NEW a \in Actors, QueueRetry(a) PROVE Proceeds(a)
<1> DEFINE x == exec[a]
           y == Calls(x, <<"resume">>)
<1>1. At(a, "queueRetry") /\ (exec' = [exec EXCEPT ![a] = y] \/ exec' = [exec EXCEPT ![a] = IdleExec])
  BY Zenon DEF QueueRetry, Abort, Call
<1>2. IdleExec.todo = <<>>
  BY DEF IdleExec
<1>3. CASE exec' = [exec EXCEPT ![a] = y]
  <2>1. x \in Exec /\ x.todo /= <<>> /\ Ordered(x.todo) /\ x.todo \in Seq(Routines)
    BY <1>1, HandlerAt DEF Relies, Exec
  <2>2. <<"resume">> \in Seq(Routines) /\ Ordered(<<"resume">>) /\ Members(<<"resume">>) = {"resume"}
    BY DEF Routines, Ordered, Members
  <2>3. /\ Todo(y) \subseteq {"resume"} \cup Todo(x)
        /\ \A p \in Fresh : Begins(y, p) => p = "resume"
    BY <2>1, <2>2, CallsReach
  <2>4. \A p \in Decisive : ~Begins(y, p)
    BY <2>3 DEF Decisive, Fresh
  <2>5. ASSUME RetriesAlone(x) PROVE RetriesAlone(y)
    <3>1. x.todo[1] = "queueRetry" /\ 1 \in 1 .. Len(x.todo)
      BY <1>1, <2>1 DEF At
    <3>2. x.todo = <<"queueRetry">>
      BY <2>5, <3>1 DEF RetriesAlone, Todo, Redo, Retries
    <3>3. <<"resume">> \o Tail(x.todo) = <<"resume">>
      BY <3>2
    <3>4. y.todo = <<"resume">>
      BY <2>1, <3>3 DEF Calls, Exec
    <3> HIDE DEF y
    <3>5. QED
      BY <3>4 DEF RetriesAlone, Todo
  <2> HIDE DEF y
  <2>6. NewTask(x, y)
    BY <2>4 DEF NewTask, Decisive
  <2>7. NewStops(x, y)
    BY <2>3, <2>5 DEF NewStops, Stops
  <2>8. QED
    BY <1>3, <2>6, <2>7 DEF Proceeds
<1>4. CASE exec' = [exec EXCEPT ![a] = IdleExec]
  BY <1>2, <1>4, MildLists, BeginProceeds
<1>5. QED
  BY <1>1, <1>3, <1>4

LEMMA ResumeProceeds == ASSUME EngineInv, NEW a \in Actors, ResumeFailedRun(a) PROVE Proceeds(a)
<1>1. At(a, "resume") /\ (Call(a, <<"advance">>) \/ Return(a))
  BY Zenon DEF ResumeFailedRun
<1>2. QED
  BY <1>1, MildLists, MildCallProceeds, ReturnProceeds

LEMMA RequestsProceed ==
  ASSUME EngineInv, NEW a \in Actors, Request(a) \/ Crash(a) PROVE Proceeds(a)
<1>1. CASE OnAgentRunComplete(a)
  <2>1. PICK r \in NodeRuns : exec' = [exec EXCEPT ![a] = [IdleExec EXCEPT !.todo = <<"record">>, !.at = r]]
    BY <1>1 DEF OnAgentRunComplete, BeginAt
  <2> DEFINE y == [IdleExec EXCEPT !.todo = <<"record">>, !.at = r]
  <2>2. y.todo = <<"record">>
    BY DEF IdleExec
  <2>3. exec' = [exec EXCEPT ![a] = y]
    BY <2>1
  <2> HIDE DEF y
  <2>4. QED
    BY <2>2, <2>3, MildLists, BeginProceeds
<1>2. CASE ReconcileActiveRuns(a) \/ CancelWorkflowRun(a) \/ Resolve(a)
  <2>1. PICK p \in {"reconcile", "mark"} : Begin(a, <<p>>)
    BY <1>2 DEF ReconcileActiveRuns, CancelWorkflowRun, Resolve
  <2> DEFINE y == [IdleExec EXCEPT !.todo = <<p>>]
  <2>2. y.todo = <<p>> /\ exec' = [exec EXCEPT ![a] = y]
    BY <2>1 DEF IdleExec, Begin
  <2>3. Mild(<<p>>)
    BY MildLists
  <2> HIDE DEF y
  <2>4. QED
    BY <2>2, <2>3, BeginProceeds
<1>3. CASE RetryFailedAgentNode(a)
  <2>1. run = "failed" /\ UNCHANGED rows
    BY <1>3 DEF RetryFailedAgentNode
  <2>2. PICK r \in NodeRuns, routine \in Retries :
            exec' = [exec EXCEPT ![a] = [IdleExec EXCEPT !.todo = <<routine>>, !.at = r, !.plan = CancelledNow]]
    BY <1>3 DEF RetryFailedAgentNode, RetryModes, Retries
  <2> DEFINE y == [IdleExec EXCEPT !.todo = <<routine>>, !.at = r, !.plan = CancelledNow]
  <2>3. y.todo = <<routine>> /\ y.plan = CancelledNow /\ exec' = [exec EXCEPT ![a] = y]
    BY <2>2 DEF IdleExec
  <2>4. CancelledNow = StoppedNow(node)
    BY StandingNow DEF EngineInv
  <2> HIDE DEF y
  <2>5. Todo(y) = {routine} /\ \A p : Begins(y, p) => p = routine
    BY <2>3 DEF Todo, Begins
  <2>6. NewTask(exec[a], y)
    BY <2>1, <2>3, <2>4, <2>5 DEF NewTask, Retries
  <2>7. NewStops(exec[a], y)
    BY <2>3, <2>5 DEF NewStops, Retries, Stops, RetriesAlone
  <2>8. QED
    BY <2>3, <2>6, <2>7 DEF Proceeds
<1>4. CASE Crash(a)
  <2>1. IdleExec.todo = <<>> /\ exec' = [exec EXCEPT ![a] = IdleExec]
    BY <1>4 DEF Crash, Abort, IdleExec
  <2>2. QED
    BY <2>1, BeginProceeds, MildLists
<1>5. QED
  BY <1>1, <1>2, <1>3, <1>4 DEF Request

LEMMA StepProceeds == ASSUME EngineInv, NEW a \in Actors, Step(a) \/ Request(a) \/ Crash(a) PROVE Proceeds(a)
<1>1. CASE Dispatch(a) \/ Claim(a) \/ Record(a) \/ Advance(a) \/ CheckWorkflowComplete(a)
  BY <1>1, DispatchProceeds, ClaimProceeds, RecordProceeds, AdvanceProceeds, CheckProceeds
<1>2. CASE \/ Enqueue(a) \/ SignalActiveAgents(a) \/ CloseWaitingApprovalNodes(a)
           \/ Finalize(a) \/ CancelPendingNodes(a)
  BY <1>2, ReturningProceeds
<1>3. CASE SyncRunState(a) \/ OnlyHumansLeftToAct(a) \/ SetState(a) \/ MarkCancelling(a)
  BY <1>3, SyncProceeds, ResyncProceeds, SetStateProceeds, MarkProceeds
<1>4. CASE ReconcileWorkflowRun(a) \/ HealAgentNodes(a) \/ HealNext(a)
  BY <1>4, ReconcileProceeds, HealAgentNodesProceeds, HealNextProceeds
<1>5. CASE Replace(a) \/ QueueRetry(a) \/ ResumeFailedRun(a)
  BY <1>5, ReplaceProceeds, QueueRetryProceeds, ResumeProceeds
<1>6. CASE Request(a) \/ Crash(a)
  BY <1>6, RequestsProceed
<1>7. QED
  BY <1>1, <1>2, <1>3, <1>4, <1>5, <1>6 DEF Step

-----------------------------------------------------------------------------
(***************************************************************************)
(* What every step does to the rows                                        *)
(***************************************************************************)
\* The rows stay sound, and a failure stands unless handler a retries it.
RowsGoOn(a) ==
    /\ FailFastRows'
    /\ byHand => byHand'
    /\ Failing(node, byHand) => Failing(node', byHand') \/ Retrying(a)

LEMMA AtReason ==
  ASSUME EngineInv, FailFastInv, NEW a \in Actors, NEW routine, At(a, routine)
  PROVE  /\ routine \in Todo(exec[a]) /\ Begins(exec[a], routine) /\ FailFastRows
         /\ WritesTruth(exec[a], run, byHand, node) /\ HasReason(exec[a], byHand, node)
<1>1. exec[a].todo \in Seq(Routines) /\ exec[a].todo /= <<>> /\ exec[a].todo[1] = routine
  BY DEF EngineInv, Exec, At
<1>2. 1 \in 1 .. Len(exec[a].todo)
  BY <1>1
<1>3. routine \in Todo(exec[a]) /\ Begins(exec[a], routine)
  BY <1>1, <1>2 DEF Todo, Begins
<1>4. QED
  BY <1>3 DEF FailFastInv

LEMMA RetryStarts ==
  ASSUME EngineInv, NEW a \in Actors, NEW routine \in Redo, At(a, routine)
  PROVE  Retrying(a)
<1>1. exec[a].todo \in Seq(Routines) /\ exec[a].todo /= <<>> /\ exec[a].todo[1] = routine
  BY DEF EngineInv, Exec, At
<1>2. routine \in Todo(exec[a])
  BY <1>1 DEF Todo
<1>3. QED
  BY <1>2 DEF Retrying

LEMMA StillGoesOn ==
  ASSUME FailFastRows, UNCHANGED node, byHand => byHand', RunGoesOn, NEW a \in Actors,
         \A r \in NodeRuns :
            /\ agent'[r].status = "stopped" => agent'[r].signalled
            /\ \/ agent'[r].signalled = agent[r].signalled
               \/ node[r] \notin {"absent", "pending"} /\ Failing(node, byHand')
  PROVE  RowsGoOn(a)
<1>1. FailFastRows'
  BY StillRows
<1>2. QED
  BY <1>1 DEF RowsGoOn, Failing

LEMMA UnchangedGoesOn ==
  ASSUME FailFastRows, UNCHANGED rows, NEW a \in Actors PROVE RowsGoOn(a)
<1>1. UNCHANGED <<node, byHand, run, agent>>
  BY DEF rows
<1>2. RunGoesOn
  BY <1>1 DEF RunGoesOn
<1>3. \A r \in NodeRuns : agent'[r].status = "stopped" => agent'[r].signalled
  BY <1>1 DEF FailFastRows
<1>4. QED
  BY <1>1, <1>2, <1>3, StillGoesOn

LEMMA TurnedGoesOn ==
  ASSUME EngineInv, FailFastRows, UNCHANGED byHand, NEW a \in Actors,
         NEW r \in NodeRuns, NEW s, Turns(r, s), FailFastRows'
  PROVE  RowsGoOn(a)
BY TurnsStand DEF RowsGoOn, Failing

\* Agents that change, but for what they were told.
LEMMA EnsureJobRows ==
  ASSUME EngineInv, NEW r \in NodeRuns, EnsureJob(r)
  PROVE  \A q \in NodeRuns : agent'[q].signalled = agent[q].signalled /\ agent'[q].status = agent[q].status
BY DEF EnsureJob, EngineInv, RowsOK, RowsTyped

LEMMA ReadersGoOn ==
  ASSUME FailFastRows, NEW a \in Actors,
         \/ Dispatch(a) \/ Advance(a) \/ CheckWorkflowComplete(a) \/ SyncRunState(a)
         \/ OnlyHumansLeftToAct(a) \/ ReconcileWorkflowRun(a) \/ HealAgentNodes(a)
         \/ OnAgentRunComplete(a) \/ ReconcileActiveRuns(a) \/ CancelWorkflowRun(a)
         \/ RetryFailedAgentNode(a) \/ Crash(a)
  PROVE  RowsGoOn(a)
<1>1. UNCHANGED rows
  BY DEF Dispatch, Advance, CheckWorkflowComplete, SyncRunState, OnlyHumansLeftToAct,
         ReconcileWorkflowRun, HealAgentNodes, OnAgentRunComplete, ReconcileActiveRuns,
         CancelWorkflowRun, RetryFailedAgentNode, Crash
<1>2. QED
  BY <1>1, UnchangedGoesOn

\* Steps about agents: what they were told changes only when they are signalled.
LEMMA EnqueueGoesOn ==
  ASSUME EngineInv, FailFastRows, NEW a \in Actors, Enqueue(a) PROVE RowsGoOn(a)
<1>1. At(a, "enqueue") /\ EnsureJob(exec[a].at) /\ UNCHANGED <<run, byHand, node>>
  BY DEF Enqueue
<1>2. exec[a].at \in NodeRuns
  BY <1>1, HandlerAt DEF Exec
<1>3. \A q \in NodeRuns : agent'[q].signalled = agent[q].signalled /\ agent'[q].status = agent[q].status
  BY <1>1, <1>2, EnsureJobRows
<1>4. RunGoesOn /\ \A q \in NodeRuns : agent'[q].status = "stopped" => agent'[q].signalled
  BY <1>1, <1>3 DEF RunGoesOn, FailFastRows
<1>5. QED
  BY <1>1, <1>3, <1>4, StillGoesOn

LEMMA HealNextGoesOn ==
  ASSUME EngineInv, FailFastRows, NEW a \in Actors, HealNext(a) PROVE RowsGoOn(a)
<1>1. At(a, "healNext") /\ UNCHANGED <<run, byHand, node>>
  BY DEF HealNext
<1>2. exec[a].healing \subseteq NodeRuns
  BY <1>1, HandlerAt DEF Exec
<1>3. UNCHANGED agent \/ \E r \in exec[a].healing :
          EnsureJob(r) \/ agent' = [agent EXCEPT ![r].status = "interrupted"]
  BY Zenon DEF HealNext
<1>4. agent \in [NodeRuns -> AgentRow]
  BY DEF EngineInv, RowsOK, RowsTyped, AgentRow
<1>5. \A q \in NodeRuns : /\ agent'[q].signalled = agent[q].signalled
                          /\ agent'[q].status \in {agent[q].status, "interrupted"}
  <2>1. CASE UNCHANGED agent
    BY <2>1
  <2>2. ASSUME NEW r \in exec[a].healing, EnsureJob(r)
        PROVE  \A q \in NodeRuns : agent'[q].signalled = agent[q].signalled /\ agent'[q].status = agent[q].status
    BY <1>2, <2>2, EnsureJobRows
  <2>3. ASSUME NEW r \in exec[a].healing, agent' = [agent EXCEPT ![r].status = "interrupted"]
        PROVE  \A q \in NodeRuns : /\ agent'[q].signalled = agent[q].signalled
                                   /\ agent'[q].status \in {agent[q].status, "interrupted"}
    BY <1>2, <1>4, <2>3 DEF AgentRow
  <2>4. QED
    BY <1>3, <2>1, <2>2, <2>3
<1>6. RunGoesOn /\ \A q \in NodeRuns : agent'[q].status = "stopped" => agent'[q].signalled
  BY <1>1, <1>5 DEF RunGoesOn, FailFastRows
<1>7. QED
  BY <1>1, <1>5, <1>6, StillGoesOn

\* Siblings are told to stop while what stops them still stands.
LEMMA SignalGoesOn ==
  ASSUME EngineInv, FailFastInv, NEW a \in Actors, SignalActiveAgents(a) PROVE RowsGoOn(a)
<1>1. At(a, "signal") /\ UNCHANGED <<run, byHand, node>>
  BY DEF SignalActiveAgents
<1>2. Failing(node, byHand) /\ FailFastRows
  BY <1>1, AtReason DEF HasReason, Stops
<1>3. agent \in [NodeRuns -> AgentRow]
  BY DEF EngineInv, RowsOK, RowsTyped, AgentRow
<1>4. \A r \in NodeRuns : agent'[r] = IF node[r] = "running" THEN [agent[r] EXCEPT !.signalled = TRUE]
                                      ELSE agent[r]
  BY DEF SignalActiveAgents
<1>5. \A r \in NodeRuns : /\ agent'[r].status = agent[r].status
                          /\ agent[r].signalled => agent'[r].signalled
                          /\ agent'[r].signalled = agent[r].signalled \/ node[r] = "running"
  BY <1>3, <1>4 DEF AgentRow
<1>6. \A r \in NodeRuns :
            /\ agent'[r].status = "stopped" => agent'[r].signalled
            /\ \/ agent'[r].signalled = agent[r].signalled
               \/ node[r] \notin {"absent", "pending"} /\ Failing(node, byHand')
  BY <1>1, <1>2, <1>5 DEF FailFastRows
<1>7. RunGoesOn
  BY <1>1 DEF RunGoesOn
<1>8. QED
  BY <1>1, <1>2, <1>6, <1>7, StillGoesOn

\* Steps that write only the status of the run.
LEMMA StatusGoesOn ==
  ASSUME EngineInv, FailFastInv, NEW a \in Actors, Finalize(a) \/ SetState(a) \/ MarkCancelling(a)
  PROVE  RowsGoOn(a)
<1>1. UNCHANGED <<node, agent>> /\ FailFastRows
  BY DEF Finalize, SetState, MarkCancelling, FailFastInv
<1>2. CASE Finalize(a)
  <2>1. At(a, "finalize") /\ UNCHANGED byHand /\ run' = IF run = exec[a].seen THEN exec[a].want ELSE run
    BY <1>2 DEF Finalize
  <2>2. /\ exec[a].seen \in RunActive /\ exec[a].want \in RunEnded /\ AtRest(node)
        /\ exec[a].want = "cancelled" => byHand
    BY <2>1, AtReason DEF WritesTruth, Over
  <2>3. RunGoesOn
    BY <2>1, <2>2 DEF RunGoesOn
  <2>4. QED
    BY <1>1, <2>1, <2>3, StillGoesOn DEF FailFastRows
<1>3. CASE SetState(a)
  <2>1. At(a, "setState") /\ UNCHANGED byHand /\ run' = IF run = exec[a].seen THEN exec[a].want ELSE run
    BY <1>3 DEF SetState
  <2>2. exec[a].seen \in Dispatchable /\ exec[a].want \in Dispatchable
    BY <2>1, AtReason DEF WritesTruth
  <2>3. RunGoesOn
    BY <2>1, <2>2 DEF RunGoesOn
  <2>4. QED
    BY <1>1, <2>1, <2>3, StillGoesOn DEF FailFastRows
<1>4. CASE MarkCancelling(a)
  <2>1. byHand' /\ (run' = run \/ (run \in RunActive /\ run' = "cancelling"))
    BY <1>4 DEF MarkCancelling
  <2>2. RunGoesOn
    BY <2>1 DEF RunGoesOn
  <2>3. QED
    BY <1>1, <2>1, <2>2, StillGoesOn DEF FailFastRows
<1>5. QED
  BY <1>2, <1>3, <1>4

\* One node run goes on, and whatever is stopped had a reason.
LEMMA ClaimGoesOn ==
  ASSUME EngineInv, FailFastRows, NEW a \in Actors, Claim(a) PROVE RowsGoOn(a)
<1> DEFINE x == exec[a]
           n == Min(x.ready)
           r == Latest(n)
           rest == x.ready \ {n}
<1>1. At(a, "claim") /\ UNCHANGED <<run, byHand>>
  BY DEF Claim
<1>2. x \in Exec
  BY <1>1, HandlerAt
<1>3. agent \in [NodeRuns -> AgentRow]
  BY DEF EngineInv, RowsOK, RowsTyped, AgentRow
<1>4. ASSUME UNCHANGED <<node, agent, approval>> PROVE RowsGoOn(a)
  <2>1. UNCHANGED rows
    BY <1>1, <1>4 DEF rows
  <2>2. QED
    BY <2>1, UnchangedGoesOn
<1>5. CASE x.ready = {} \/ ~AcceptsDispatch
  BY <1>4, <1>5 DEF Claim
<1>6. CASE ~(x.ready = {} \/ ~AcceptsDispatch)
  <2>1. (CASE node[r] /= "pending" ->
                exec' = [exec EXCEPT ![a].ready = rest] /\ UNCHANGED <<node, agent, approval>>
          [] node[r] = "pending" /\ Kind[n] = "agent" -> DispatchAgent(a, r, rest)
          [] node[r] = "pending" /\ Kind[n] = "gate" -> DispatchHumanApproval(a, r, rest)
          [] node[r] = "pending" /\ Kind[n] = "terminal" -> DispatchTerminal(a, r, rest)
          [] node[r] = "pending" /\ Kind[n] = "unsupported" -> FailNodeAtDispatch(a, r, rest))
    BY <1>6, Zenon DEF Claim
  <2>2. x.ready \in SUBSET Nat /\ x.ready \subseteq Nodes
    BY <1>2, WorkflowEngineAssumption DEF Exec, WorkflowEngineAssumption
  <2>3. n \in Nodes
    BY <1>6, <2>2, MinOfNaturals
  <2>4. r \in NodeRuns
    BY <2>3, LatestExists DEF EngineInv, RowsOK, AttemptsInOrder
  <2>5. Kind[n] \in {"agent", "gate", "terminal", "unsupported"}
    BY <2>3, WorkflowEngineAssumption DEF WorkflowEngineAssumption
  <2> HIDE DEF n, r, rest
  <2>6. \/ UNCHANGED <<node, agent, approval>>
        \/ DispatchAgent(a, r, rest) \/ DispatchHumanApproval(a, r, rest)
        \/ DispatchTerminal(a, r, rest) \/ FailNodeAtDispatch(a, r, rest)
    BY <2>1, <2>5
  <2>7. \/ UNCHANGED <<node, agent, approval>>
        \/ \E s \in {"running", "waiting", "completed", "failed"} :
              /\ ClaimPendingNode(r, s)
              /\ UNCHANGED agent \/ agent' = [agent EXCEPT ![r].status = "open"]
    BY <2>6, Zenon DEF DispatchAgent, DispatchHumanApproval, DispatchTerminal, FailNodeAtDispatch
  <2>8. ASSUME NEW s \in {"running", "waiting", "completed", "failed"}, ClaimPendingNode(r, s),
               UNCHANGED agent \/ agent' = [agent EXCEPT ![r].status = "open"]
        PROVE  RowsGoOn(a)
    <3>1. node[r] = "pending" /\ run \in Dispatchable /\ node' = [node EXCEPT ![r] = s]
      BY <2>8 DEF ClaimPendingNode, AcceptsDispatch
    <3>2. Turns(r, s) /\ s /= "cancelled"
      BY <3>1 DEF Turns, NodeActive, NodeEnded
    <3>3. \A q \in NodeRuns : /\ agent'[q].signalled = agent[q].signalled
                              /\ agent'[q].status = "stopped" => agent[q].status = "stopped"
      BY <1>3, <2>4, <2>8 DEF AgentRow
    <3>4. FailFastRows'
      BY <1>1, <2>4, <3>1, <3>2, <3>3, TurnedRows
    <3>5. QED
      BY <1>1, <2>4, <3>2, <3>4, TurnedGoesOn
  <2>9. QED
    BY <1>4, <2>7, <2>8
<1>7. QED
  BY <1>5, <1>6

LEMMA RecordGoesOn ==
  ASSUME EngineInv, FailFastRows, NEW a \in Actors, Record(a) PROVE RowsGoOn(a)
<1> DEFINE r == exec[a].at
           s == OutcomeOf(agent[r].status)
<1>1. At(a, "record") /\ UNCHANGED <<byHand, agent, approval>>
  BY DEF Record
<1>2. exec[a] \in Exec /\ Relies(exec[a], node, agent) /\ Begins(exec[a], "record")
  BY <1>1, HandlerAt DEF Begins
<1>3. r \in NodeRuns /\ agent[r].status \in AgentEnded
  BY <1>2 DEF Exec, Relies
<1>4. CASE node[r] = "running"
  <2>1. /\ node' = [node EXCEPT ![r] = s]
        /\ run' = IF StopsRun(r) /\ run \in Dispatchable THEN "cancelling" ELSE run
    BY <1>4 DEF Record, Recorded
  <2>2. s \in NodeEnded /\ (s = "cancelled" <=> agent[r].status = "stopped")
    BY <1>3 DEF OutcomeOf, AgentEnded, NodeEnded
  <2>3. s = "cancelled" => Failing(node, byHand)
    BY <1>3, <1>4, <2>2 DEF FailFastRows
  <2>4. StopsRun(r) => byHand
    <3>1. HasFailedNode <=> StandsAt(node, "failed")
      BY StandingNow DEF EngineInv
    <3>2. QED
      BY <2>2, <2>3, <3>1 DEF StopsRun, Failing
  <2>5. run' = run \/ (run' = "cancelling" /\ byHand)
    BY <2>1, <2>4
  <2> HIDE DEF r, s
  <2>6. Turns(r, s)
    BY <1>4, <2>1, <2>2 DEF Turns, NodeActive
  <2>7. s \notin NodeActive
    BY <2>2 DEF NodeActive, NodeEnded
  <2>8. FailFastRows'
    BY <1>1, <1>3, <2>3, <2>5, <2>6, <2>7, TurnedRows
  <2>9. QED
    BY <1>1, <1>3, <2>6, <2>8, TurnedGoesOn
<1>5. CASE node[r] /= "running"
  <2>1. UNCHANGED rows
    BY <1>1, <1>5 DEF Record, Recorded, rows
  <2>2. QED
    BY <2>1, UnchangedGoesOn
<1>6. QED
  BY <1>4, <1>5

LEMMA CloseGatesGoesOn ==
  ASSUME EngineInv, FailFastInv, NEW a \in Actors, CloseWaitingApprovalNodes(a) PROVE RowsGoOn(a)
<1>1. At(a, "gates") /\ UNCHANGED <<run, byHand, agent>>
  BY DEF CloseWaitingApprovalNodes
<1>2. Failing(node, byHand) /\ FailFastRows
  BY <1>1, AtReason DEF HasReason, Stops
<1>3. CASE WaitingNodeRuns = {}
  <2>1. UNCHANGED rows
    BY <1>1, <1>3 DEF CloseWaitingApprovalNodes, rows
  <2>2. QED
    BY <1>2, <2>1, UnchangedGoesOn
<1>4. CASE WaitingNodeRuns /= {}
  <2>1. PICK r \in NodeRuns : node[r] = "waiting" /\ node' = [node EXCEPT ![r] = "cancelled"]
    BY <1>4 DEF CloseWaitingApprovalNodes, WaitingNodeRuns, CloseGate
  <2>2. Turns(r, "cancelled") /\ "cancelled" \notin NodeActive
    BY <2>1 DEF Turns, NodeActive, NodeEnded
  <2>3. FailFastRows'
    BY <1>1, <1>2, <2>2, TurnedRows
  <2>4. QED
    BY <1>1, <1>2, <2>2, <2>3, TurnedGoesOn
<1>5. QED
  BY <1>3, <1>4

LEMMA ResolveGoesOn ==
  ASSUME EngineInv, FailFastRows, NEW a \in Actors, Resolve(a) PROVE RowsGoOn(a)
<1>1. PICK r \in NodeRuns, s \in {"completed", "failed"} :
          Decidable(r) /\ node' = [node EXCEPT ![r] = s]
  BY DEF Resolve
<1>2. UNCHANGED <<byHand, agent>> /\ run' = IF run = "waiting" THEN "running" ELSE run
  BY DEF Resolve
<1>3. node[r] = "waiting" /\ run \in Dispatchable
  BY <1>1 DEF Decidable, AcceptsDispatch
<1>4. Turns(r, s) /\ s \notin NodeActive /\ s /= "cancelled"
  BY <1>1, <1>3 DEF Turns, NodeActive, NodeEnded
<1>5. run' = run \/ (run \in Dispatchable /\ run' \in Dispatchable)
  BY <1>2, <1>3 DEF Dispatchable
<1>6. FailFastRows'
  BY <1>2, <1>4, <1>5, TurnedRows
<1>7. QED
  BY <1>2, <1>4, <1>6, TurnedGoesOn

\* Nodes that never started are cancelled because a person cancels the run.
LEMMA CancelPendingGoesOn ==
  ASSUME EngineInv, FailFastInv, NEW a \in Actors, CancelPendingNodes(a) PROVE RowsGoOn(a)
<1>1. /\ At(a, "cancelPending") /\ UNCHANGED <<run, byHand, agent>>
      /\ \A r \in NodeRuns : node'[r] = IF node[r] = "pending" THEN "cancelled" ELSE node[r]
  BY DEF CancelPendingNodes
<1>2. byHand /\ byHand' /\ FailFastRows
  BY <1>1, AtReason DEF HasReason
<1>3. ASSUME NEW r \in NodeRuns
      PROVE  /\ agent'[r].status = "stopped" => agent'[r].signalled
             /\ node'[r] \in {"absent", "pending"} => ~agent'[r].signalled
  BY <1>1, <1>2 DEF FailFastRows
<1>4. run' \in RunEnded => AtRest(node')
  BY <1>1, <1>2 DEF FailFastRows, AtRest, NodeActive
<1>5. FailFastRows'
  BY <1>2, <1>3, <1>4 DEF FailFastRows, Failing
<1>6. QED
  BY <1>2, <1>5 DEF RowsGoOn, Failing

\* The attempts that a retry adds were not there before.
Adds(q) == node[q] = "absent" /\ node'[q] \in {"pending", "running"}

LEMMA AddedStand ==
  ASSUME \A q \in NodeRuns : node'[q] = node[q] \/ Adds(q)
  PROVE  /\ \A q \in NodeRuns : Newest(node', q) => Newest(node, q)
         /\ \A s \in {"failed", "cancelled"} : StandsAt(node', s) => StandsAt(node, s)
<1>1. ASSUME NEW q \in NodeRuns, Newest(node', q) PROVE Newest(node, q)
  <2> SUFFICES ASSUME NEW j \in Iterations, j > q[2] PROVE node[<<q[1], j>>] = "absent"
    BY DEF Newest
  <2>1. <<q[1], j>> \in NodeRuns
    BY NodeRunParts DEF NodeRuns, Iterations
  <2>2. node'[<<q[1], j>>] = "absent"
    BY <1>1 DEF Newest
  <2>3. QED
    BY <2>1, <2>2 DEF Adds
<1>2. ASSUME NEW s \in {"failed", "cancelled"}, StandsAt(node', s) PROVE StandsAt(node, s)
  <2>1. PICK r \in NodeRuns : node'[r] = s /\ Newest(node', r)
    BY <1>2 DEF StandsAt
  <2>2. node[r] = s /\ Newest(node, r)
    BY <1>1, <2>1 DEF Adds
  <2>3. QED
    BY <2>2 DEF StandsAt
<1>3. QED
  BY <1>1, <1>2

\* An attempt is not the last one of its node once another follows it.
LEMMA FollowedIsOld ==
  ASSUME NEW r \in NodeRuns, HasRoom(r), NEW nd, nd[Following(r)] /= "absent"
  PROVE  ~Newest(nd, r)
<1>1. Following(r) = <<r[1], r[2] + 1>> /\ r[2] \in Iterations
  BY FollowingExists
<1>2. r[2] + 1 \in Iterations /\ r[2] + 1 > r[2]
  BY <1>1, WorkflowEngineAssumption DEF HasRoom, Iterations, WorkflowEngineAssumption
<1>3. QED
  BY <1>1, <1>2 DEF Newest

\* Retries add attempts to a run that is over; if it is resumed, nothing stands
\* cancelled any more.
LEMMA RevivedRows ==
  ASSUME FailFastRows, run = "failed", UNCHANGED byHand,
         \A q \in NodeRuns : node'[q] = node[q] \/ Adds(q),
         \A q \in NodeRuns : /\ agent'[q].signalled = agent[q].signalled
                             /\ agent'[q].status = "stopped" => agent[q].status = "stopped",
         \/ run' = "running" /\ ~StandsAt(node', "cancelled")
         \/ run' = run /\ \A q \in NodeRuns : node'[q] /= "running" \/ node[q] = "running"
  PROVE  FailFastRows'
<1>1. AtRest(node)
  BY DEF FailFastRows, RunEnded
<1>2. ASSUME NEW q \in NodeRuns
      PROVE  /\ agent'[q].status = "stopped" => agent'[q].signalled
             /\ node'[q] \in {"absent", "pending"} => ~agent'[q].signalled
             /\ ~(node'[q] = "running" /\ agent'[q].signalled)
  <2>1. node[q] /= "running"
    BY <1>1 DEF AtRest, NodeActive
  <2>2. QED
    BY <2>1 DEF FailFastRows, Adds
<1>3. CASE run' = "running" /\ ~StandsAt(node', "cancelled")
  BY <1>2, <1>3, RunStatuses DEF FailFastRows, Dispatchable, RunEnded
<1>4. CASE run' = run /\ \A q \in NodeRuns : node'[q] /= "running" \/ node[q] = "running"
  <2>1. AtRest(node')
    BY <1>1, <1>4 DEF AtRest, NodeActive, Adds
  <2>2. run' \notin Dispatchable /\ run' \notin {"cancelling", "cancelled"}
    BY <1>4 DEF Dispatchable
  <2>3. QED
    BY <1>2, <2>1, <2>2 DEF FailFastRows
<1>5. QED
  BY <1>3, <1>4

\* The retry and the siblings it brings back follow all that stood cancelled.
LEMMA ReplaceGoesOn ==
  ASSUME EngineInv, FailFastInv, NEW a \in Actors, Replace(a) PROVE RowsGoOn(a)
<1> DEFINE x == exec[a]
           retry == Following(x.at)
           revived == Revive(x.plan)
           allowed == /\ run = "failed"
                      /\ \A r \in revived \cup {retry} : node[r] = "absent"
                      /\ \A n \in Nodes \ {retry[1]} : Current(n) /= "failed"
<1>1. At(a, "replace") /\ UNCHANGED <<byHand, approval>>
  BY DEF Replace
<1>2. /\ FailFastRows /\ run = "failed" /\ x.plan = StoppedNow(node) /\ Todo(x) \subseteq Retries
  BY <1>1, AtReason DEF WritesTruth
<1>3. /\ x.at \in NodeRuns /\ node[x.at] = "failed" /\ HasRoom(x.at)
      /\ \A r \in x.plan : r \in NodeRuns /\ node[r] = "cancelled" /\ HasRoom(r)
  BY <1>1, HandlerAt DEF Exec, Relies, Begins
<1>4. CASE allowed
  <2>1. /\ run' = "running"
        /\ node' = [r \in NodeRuns |-> IF r = retry THEN "running"
                                       ELSE IF r \in revived THEN "pending" ELSE node[r]]
        /\ agent' = [agent EXCEPT ![retry].status = "open"]
    BY <1>4, Zenon DEF Replace
  <2>2. agent \in [NodeRuns -> AgentRow]
    BY DEF EngineInv, RowsOK, RowsTyped, AgentRow
  <2>3. retry \in NodeRuns
    BY <1>3, FollowingExists
  <2>4. \A r \in revived \cup {retry} : node[r] = "absent"
    BY <1>4
  <2>5. \A r \in x.plan : Following(r) \in revived /\ Following(r) \in NodeRuns
    BY <1>3, FollowingExists DEF Revive
  <2> HIDE DEF retry, revived
  <2>6. \A q \in NodeRuns : node'[q] = node[q] \/ Adds(q)
    BY <2>1, <2>4 DEF Adds
  <2>7. \A q \in NodeRuns : /\ agent'[q].signalled = agent[q].signalled
                            /\ agent'[q].status = "stopped" => agent[q].status = "stopped"
    BY <2>1, <2>2, <2>3 DEF AgentRow
  <2>8. ~StandsAt(node', "cancelled")
    <3> SUFFICES ASSUME NEW r \in NodeRuns, node'[r] = "cancelled", Newest(node', r) PROVE FALSE
      BY DEF StandsAt
    <3>1. node[r] = "cancelled" /\ Newest(node, r)
      BY <2>6, AddedStand DEF Adds
    <3>2. r \in x.plan
      BY <1>2, <3>1 DEF StoppedNow
    <3>3. Following(r) \in NodeRuns /\ node'[Following(r)] \in {"running", "pending"} /\ HasRoom(r)
      BY <1>3, <2>1, <2>5, <3>2
    <3>4. QED
      BY <3>3, FollowedIsOld
  <2>9. FailFastRows'
    BY <1>1, <1>2, <2>1, <2>6, <2>7, <2>8, RevivedRows
  <2>10. Retrying(a)
    BY <1>1, RetryStarts DEF Redo, Retries
  <2>11. QED
    BY <1>1, <1>2, <2>9, <2>10 DEF RowsGoOn
<1>5. CASE ~allowed
  <2>1. UNCHANGED rows
    BY <1>1, <1>5 DEF Replace, rows
  <2>2. QED
    BY <1>2, <2>1, UnchangedGoesOn
<1>6. QED
  BY <1>4, <1>5

LEMMA QueueRetryGoesOn ==
  ASSUME EngineInv, FailFastInv, NEW a \in Actors, QueueRetry(a) PROVE RowsGoOn(a)
<1> DEFINE retry == Following(exec[a].at)
<1>1. At(a, "queueRetry") /\ UNCHANGED <<run, byHand, agent, approval>>
  BY DEF QueueRetry
<1>2. FailFastRows /\ run = "failed" /\ Retrying(a)
  BY <1>1, AtReason, RetryStarts DEF WritesTruth, Redo, Retries
<1>3. node \in [NodeRuns -> NodeStatus]
  BY DEF EngineInv, RowsOK, RowsTyped, NodeStatus
<1>4. node' = node \/ (node[retry] = "absent" /\ node' = [node EXCEPT ![retry] = "pending"])
  BY DEF QueueRetry
<1> HIDE DEF retry
<1>5. /\ \A q \in NodeRuns : node'[q] = node[q] \/ Adds(q)
      /\ \A q \in NodeRuns : node'[q] /= "running" \/ node[q] = "running"
  BY <1>3, <1>4 DEF Adds
<1>6. FailFastRows'
  BY <1>1, <1>2, <1>5, RevivedRows
<1>7. QED
  BY <1>1, <1>2, <1>6 DEF RowsGoOn

LEMMA ResumeGoesOn ==
  ASSUME EngineInv, FailFastRows, NEW a \in Actors, ResumeFailedRun(a) PROVE RowsGoOn(a)
<1> DEFINE revived == Revive(CancelledNow)
           go == Repaired /\ \A r \in CancelledNow : HasRoom(r)
<1>1. At(a, "resume") /\ UNCHANGED <<byHand, agent, approval>>
  BY DEF ResumeFailedRun
<1>2. RowsOK
  BY DEF EngineInv
<1>3. CASE go
  <2>1. /\ run' = "running"
        /\ node' = [r \in NodeRuns |-> IF r \in revived THEN "pending" ELSE node[r]]
    BY <1>3 DEF ResumeFailedRun
  <2>2. CancelledNow = StoppedNow(node) /\ ~StandsAt(node, "failed")
    BY <1>2, <1>3, StandingNow DEF Repaired
  <2>3. ASSUME NEW r \in NodeRuns, node[r] = "cancelled", Newest(node, r)
        PROVE  HasRoom(r) /\ Following(r) \in revived /\ Following(r) \in NodeRuns
    <3>1. r \in CancelledNow
      BY <2>2, <2>3 DEF StoppedNow
    <3>2. HasRoom(r) /\ Following(r) \in revived
      BY <1>3, <3>1 DEF Revive
    <3>3. QED
      BY <3>2, FollowingExists
  <2>4. ASSUME NEW q \in revived PROVE node[q] = "absent"
    <3>1. PICK r \in CancelledNow : q = Following(r)
      BY DEF Revive
    <3>2. r \in NodeRuns /\ HasRoom(r) /\ node[r] = "cancelled" /\ Newest(node, r)
      BY <1>3, <2>2 DEF CancelledNow, StoppedNow
    <3>3. q = <<r[1], r[2] + 1>> /\ r[2] \in Iterations
      BY <3>1, <3>2, FollowingExists
    <3>4. r[2] + 1 \in Iterations /\ r[2] + 1 > r[2]
      BY <3>2, <3>3, WorkflowEngineAssumption DEF HasRoom, Iterations, WorkflowEngineAssumption
    <3>5. QED
      BY <3>2, <3>3, <3>4 DEF Newest
  <2> HIDE DEF revived
  <2>5. \A q \in NodeRuns : node'[q] = node[q] \/ Adds(q)
    BY <2>1, <2>4 DEF Adds
  <2>6. ~StandsAt(node', "cancelled")
    <3> SUFFICES ASSUME NEW r \in NodeRuns, node'[r] = "cancelled", Newest(node', r) PROVE FALSE
      BY DEF StandsAt
    <3>1. node[r] = "cancelled" /\ Newest(node, r)
      BY <2>5, AddedStand DEF Adds
    <3>2. HasRoom(r) /\ Following(r) \in NodeRuns /\ node'[Following(r)] = "pending"
      BY <2>1, <2>3, <3>1
    <3>3. QED
      BY <3>2, FollowedIsOld
  <2>7. FailFastRows'
    BY <1>1, <1>3, <2>1, <2>5, <2>6, RevivedRows DEF Repaired
  <2>8. QED
    BY <1>1, <2>2, <2>7 DEF RowsGoOn, Failing
<1>4. CASE ~go
  <2>1. UNCHANGED rows
    BY <1>1, <1>4 DEF ResumeFailedRun, rows
  <2>2. QED
    BY <2>1, UnchangedGoesOn
<1>5. QED
  BY <1>3, <1>4

LEMMA StepGoesOn ==
  ASSUME EngineInv, FailFastInv, NEW a \in Actors, Step(a) \/ Request(a) \/ Crash(a)
  PROVE  RowsGoOn(a)
<1>0. FailFastRows
  BY DEF FailFastInv
<1>1. CASE \/ Dispatch(a) \/ Advance(a) \/ CheckWorkflowComplete(a) \/ SyncRunState(a)
           \/ OnlyHumansLeftToAct(a) \/ ReconcileWorkflowRun(a) \/ HealAgentNodes(a)
           \/ OnAgentRunComplete(a) \/ ReconcileActiveRuns(a) \/ CancelWorkflowRun(a)
           \/ RetryFailedAgentNode(a) \/ Crash(a)
  BY <1>0, <1>1, ReadersGoOn
<1>2. CASE Claim(a) \/ Record(a) \/ Enqueue(a) \/ HealNext(a) \/ Resolve(a) \/ ResumeFailedRun(a)
  BY <1>0, <1>2, ClaimGoesOn, RecordGoesOn, EnqueueGoesOn, HealNextGoesOn, ResolveGoesOn, ResumeGoesOn
<1>3. CASE Finalize(a) \/ SetState(a) \/ MarkCancelling(a)
  BY <1>3, StatusGoesOn
<1>4. CASE \/ SignalActiveAgents(a) \/ CloseWaitingApprovalNodes(a) \/ CancelPendingNodes(a)
           \/ Replace(a) \/ QueueRetry(a)
  BY <1>4, SignalGoesOn, CloseGatesGoesOn, CancelPendingGoesOn, ReplaceGoesOn, QueueRetryGoesOn
<1>5. QED
  BY <1>1, <1>2, <1>3, <1>4 DEF Step, Request

-----------------------------------------------------------------------------
(***************************************************************************)
(* Only a retry takes a run out of its verdict                             *)
(***************************************************************************)
NoWaits == \A r \in NodeRuns : node[r] /= "waiting"

\* A handler that is about to write a status has seen the run active.
Steady(x) ==
    /\ Begins(x, "finalize") => x.seen \in RunActive
    /\ Begins(x, "setState") => x.seen \in Dispatchable /\ x.want \in Dispatchable

SteadyInv == \A a \in Actors : Steady(exec[a])

\* Without gates no summary is ever read twice.
GateFreeInv == NoWaits /\ \A a \in Actors : ~Begins(exec[a], "resync")

\* A run that is over stays over, or is running again with no failed node left.
Reopens == run \in RunEnded /\ run' /= run =>
               run = "failed" /\ run' = "running" /\ ~StandsAt(node', "failed")

LEMMA SteadyInit == Init => SteadyInv /\ GateFreeInv
<1> SUFFICES ASSUME Init PROVE SteadyInv /\ GateFreeInv
  OBVIOUS
<1>1. PICK a \in Actors : exec = [b \in Actors |-> IF b = a THEN [IdleExec EXCEPT !.todo = ScheduleReadyNodes]
                                                   ELSE IdleExec]
  BY DEF Init
<1>2. IdleExec.todo = <<>> /\ [IdleExec EXCEPT !.todo = ScheduleReadyNodes].todo = ScheduleReadyNodes
  BY DEF IdleExec
<1>3. \A b \in Actors : exec[b].todo = <<>> \/ exec[b].todo = ScheduleReadyNodes
  BY <1>1, <1>2
<1>4. \A b \in Actors : Steady(exec[b]) /\ ~Begins(exec[b], "resync")
  BY <1>3 DEF Steady, Begins, ScheduleReadyNodes
<1>5. NoWaits
  BY DEF Init, NoWaits
<1>6. QED
  BY <1>4, <1>5 DEF SteadyInv, GateFreeInv

\* Without gates no node ever waits.
LEMMA ClaimNeverWaits ==
  ASSUME NoGates, EngineInv, NoWaits, NEW a \in Actors, Claim(a) PROVE NoWaits'
<1> DEFINE x == exec[a]
           n == Min(x.ready)
           r == Latest(n)
           rest == x.ready \ {n}
<1>1. At(a, "claim")
  BY DEF Claim
<1>2. x \in Exec
  BY <1>1, HandlerAt
<1>3. CASE x.ready = {} \/ ~AcceptsDispatch
  BY <1>3 DEF Claim, NoWaits
<1>4. CASE ~(x.ready = {} \/ ~AcceptsDispatch)
  <2>1. (CASE node[r] /= "pending" ->
                exec' = [exec EXCEPT ![a].ready = rest] /\ UNCHANGED <<node, agent, approval>>
          [] node[r] = "pending" /\ Kind[n] = "agent" -> DispatchAgent(a, r, rest)
          [] node[r] = "pending" /\ Kind[n] = "gate" -> DispatchHumanApproval(a, r, rest)
          [] node[r] = "pending" /\ Kind[n] = "terminal" -> DispatchTerminal(a, r, rest)
          [] node[r] = "pending" /\ Kind[n] = "unsupported" -> FailNodeAtDispatch(a, r, rest))
    BY <1>4, Zenon DEF Claim
  <2>2. x.ready \in SUBSET Nat /\ x.ready \subseteq Nodes
    BY <1>2, WorkflowEngineAssumption DEF Exec, WorkflowEngineAssumption
  <2>3. n \in Nodes
    BY <1>4, <2>2, MinOfNaturals
  <2>4. Kind[n] \in {"agent", "terminal", "unsupported"}
    BY <2>3, WorkflowEngineAssumption DEF WorkflowEngineAssumption, NoGates
  <2>5. node \in [NodeRuns -> NodeStatus]
    BY DEF EngineInv, RowsOK, RowsTyped, NodeStatus
  <2> HIDE DEF n, r, rest
  <2>6. \/ UNCHANGED <<node, agent, approval>>
        \/ DispatchAgent(a, r, rest) \/ DispatchTerminal(a, r, rest) \/ FailNodeAtDispatch(a, r, rest)
    BY <2>1, <2>4
  <2>7. UNCHANGED node \/ \E s \in {"running", "completed", "failed"} : node' = [node EXCEPT ![r] = s]
    BY <2>6, Zenon DEF DispatchAgent, DispatchTerminal, FailNodeAtDispatch, ClaimPendingNode
  <2>8. QED
    BY <2>5, <2>7 DEF NoWaits
<1>5. QED
  BY <1>3, <1>4

LEMMA NeverWaits ==
  ASSUME NoGates, EngineInv, NoWaits, [Next]_vars PROVE NoWaits'
<1>0. node \in [NodeRuns -> NodeStatus]
  BY DEF EngineInv, RowsOK, RowsTyped, NodeStatus
<1>1. CASE UNCHANGED node
  BY <1>1 DEF NoWaits
<1>2. ASSUME NEW a \in Actors, Record(a) PROVE NoWaits'
  <2>1. At(a, "record")
    BY <1>2 DEF Record
  <2>2. exec[a] \in Exec /\ Relies(exec[a], node, agent) /\ Begins(exec[a], "record")
    BY <2>1, HandlerAt DEF Begins
  <2>3. agent[exec[a].at].status \in AgentEnded
    BY <2>2 DEF Relies
  <2>4. OutcomeOf(agent[exec[a].at].status) \in NodeEnded
    BY <2>3 DEF OutcomeOf, AgentEnded, NodeEnded
  <2>5. UNCHANGED node \/ node' = [node EXCEPT ![exec[a].at] = OutcomeOf(agent[exec[a].at].status)]
    BY <1>2 DEF Record, Recorded
  <2>6. QED
    BY <1>0, <2>4, <2>5 DEF NoWaits, NodeEnded
<1>3. ASSUME NEW a \in Actors, CloseWaitingApprovalNodes(a) PROVE NoWaits'
  BY <1>0, <1>3 DEF CloseWaitingApprovalNodes, CloseGate, WaitingNodeRuns, NoWaits
<1>4. ASSUME NEW a \in Actors, CancelPendingNodes(a) PROVE NoWaits'
  BY <1>4 DEF CancelPendingNodes, NoWaits
<1>5. ASSUME NEW a \in Actors, Resolve(a) PROVE NoWaits'
  BY <1>5 DEF Resolve, Decidable, NoWaits
<1>6. ASSUME NEW a \in Actors, Replace(a) PROVE NoWaits'
  BY <1>6, Zenon DEF Replace, NoWaits
<1>7. ASSUME NEW a \in Actors, QueueRetry(a) PROVE NoWaits'
  <2>1. node' = node \/ node' = [node EXCEPT ![Following(exec[a].at)] = "pending"]
    BY <1>7 DEF QueueRetry
  <2>2. QED
    BY <1>0, <2>1 DEF NoWaits
<1>8. ASSUME NEW a \in Actors, ResumeFailedRun(a) PROVE NoWaits'
  BY <1>8, Zenon DEF ResumeFailedRun, NoWaits
<1>9. ASSUME NEW a \in Actors, Step(a) \/ Request(a) \/ Crash(a) PROVE NoWaits'
  <2>1. CASE \/ Dispatch(a) \/ Enqueue(a) \/ Advance(a) \/ SignalActiveAgents(a)
             \/ CheckWorkflowComplete(a) \/ Finalize(a) \/ SyncRunState(a)
             \/ OnlyHumansLeftToAct(a) \/ SetState(a) \/ MarkCancelling(a)
             \/ ReconcileWorkflowRun(a) \/ HealAgentNodes(a) \/ HealNext(a)
    BY <1>1, <2>1 DEF Dispatch, Enqueue, Advance, SignalActiveAgents, CheckWorkflowComplete,
       Finalize, SyncRunState, OnlyHumansLeftToAct, SetState, MarkCancelling,
       ReconcileWorkflowRun, HealAgentNodes, HealNext, rows
  <2>2. CASE OnAgentRunComplete(a) \/ ReconcileActiveRuns(a) \/ CancelWorkflowRun(a)
             \/ RetryFailedAgentNode(a) \/ Crash(a)
    BY <1>1, <2>2 DEF OnAgentRunComplete, ReconcileActiveRuns, CancelWorkflowRun,
       RetryFailedAgentNode, Crash, rows
  <2>3. QED
    BY <1>2, <1>3, <1>4, <1>5, <1>6, <1>7, <1>8, <1>9, <2>1, <2>2, ClaimNeverWaits DEF Step, Request
<1>10. ASSUME NEW r \in NodeRuns, AgentEnds(r) \/ JobDies(r) \/ PersonStops(r) PROVE NoWaits'
  BY <1>1, <1>10 DEF AgentEnds, JobDies, PersonStops
<1>11. QED
  BY <1>1, <1>9, <1>10 DEF Next, vars

LEMMA GateFreeNext ==
  ASSUME NoGates, EngineInv, GateFreeInv, [Next]_vars PROVE GateFreeInv'
<1>1. NoWaits'
  BY NeverWaits DEF GateFreeInv
<1>2. ASSUME NEW a \in Actors, Step(a) \/ Request(a) \/ Crash(a)
      PROVE  \A b \in Actors : ~Begins(exec'[b], "resync")
  <2>1. PICK y : exec' = [exec EXCEPT ![a] = y] /\ NewTask(exec[a], y)
    BY <1>2, StepProceeds DEF Proceeds
  <2>2. exec'[a] = y /\ \A b \in Actors \ {a} : exec'[b] = exec[b]
    BY <2>1 DEF EngineInv
  <2>3. ~StandsAt(node, "waiting")
    BY DEF StandsAt, GateFreeInv, NoWaits
  <2>4. ~Begins(y, "resync")
    BY <2>1, <2>3 DEF NewTask
  <2>5. QED
    BY <2>2, <2>4 DEF GateFreeInv
<1>3. ASSUME UNCHANGED exec PROVE \A b \in Actors : ~Begins(exec'[b], "resync")
  BY <1>3 DEF GateFreeInv
<1>4. ASSUME NEW r \in NodeRuns, AgentEnds(r) \/ JobDies(r) \/ PersonStops(r) PROVE UNCHANGED exec
  BY <1>4 DEF AgentEnds, JobDies, PersonStops
<1>5. \A b \in Actors : ~Begins(exec'[b], "resync")
  BY <1>2, <1>3, <1>4 DEF Next, vars
<1>6. QED
  BY <1>1, <1>5 DEF GateFreeInv

LEMMA SteadyNext ==
  ASSUME EngineInv, SteadyInv, SummariesUndisturbed, [Next]_vars PROVE SteadyInv'
<1>1. ASSUME UNCHANGED exec PROVE SteadyInv'
  BY <1>1 DEF SteadyInv
<1>2. ASSUME NEW a \in Actors, Step(a) \/ Request(a) \/ Crash(a) PROVE SteadyInv'
  <2>1. PICK y : exec' = [exec EXCEPT ![a] = y] /\ NewTask(exec[a], y)
    BY <1>2, StepProceeds DEF Proceeds
  <2>2. exec'[a] = y /\ \A b \in Actors \ {a} : exec'[b] = exec[b]
    BY <2>1 DEF EngineInv
  <2>3. Begins(exec[a], "resync") => run \in Dispatchable
    BY DEF SummariesUndisturbed
  <2>4. Steady(y)
    BY <2>1, <2>3 DEF NewTask, Steady
  <2>5. QED
    BY <2>2, <2>4 DEF SteadyInv
<1>3. ASSUME NEW r \in NodeRuns, AgentEnds(r) \/ JobDies(r) \/ PersonStops(r) PROVE SteadyInv'
  BY <1>1, <1>3 DEF AgentEnds, JobDies, PersonStops
<1>4. QED
  BY <1>1, <1>2, <1>3 DEF Next, vars

\* With another model: the claim refuses while a sibling is failed, and the failed
\* attempt itself is followed by the retry.
LEMMA ReplaceReopens ==
  ASSUME EngineInv, NEW a \in Actors, Replace(a) PROVE Reopens
<1> DEFINE x == exec[a]
           retry == Following(x.at)
           revived == Revive(x.plan)
           allowed == /\ run = "failed"
                      /\ \A r \in revived \cup {retry} : node[r] = "absent"
                      /\ \A n \in Nodes \ {retry[1]} : Current(n) /= "failed"
<1>1. At(a, "replace")
  BY DEF Replace
<1>2. x.at \in NodeRuns /\ HasRoom(x.at)
  BY <1>1, HandlerAt DEF Exec, Relies, Begins
<1>3. CASE allowed
  <2>1. /\ run' = "running"
        /\ node' = [r \in NodeRuns |-> IF r = retry THEN "running"
                                       ELSE IF r \in revived THEN "pending" ELSE node[r]]
    BY <1>3, Zenon DEF Replace
  <2>2. /\ retry \in NodeRuns /\ retry[1] \in Nodes /\ retry[2] \in Iterations
        /\ retry = <<retry[1], retry[2]>>
    BY <1>2, FollowingExists, NodeRunParts
  <2>3. node[retry] = "absent" /\ \A q \in revived : node[q] = "absent"
    BY <1>3
  <2>4. \A n \in Nodes \ {retry[1]} : Current(n) /= "failed"
    BY <1>3
  <2> HIDE DEF retry, revived
  <2>5. \A q \in NodeRuns : node'[q] = node[q] \/ Adds(q)
    BY <2>1, <2>3 DEF Adds
  <2>6. ~StandsAt(node', "failed")
    <3> SUFFICES ASSUME NEW r \in NodeRuns, node'[r] = "failed", Newest(node', r) PROVE FALSE
      BY DEF StandsAt
    <3>1. node[r] = "failed" /\ Newest(node, r)
      BY <2>5, AddedStand DEF Adds
    <3>2. r = Latest(r[1]) /\ r[1] \in Nodes /\ r[2] \in Iterations /\ r = <<r[1], r[2]>>
      BY <3>1, NewestIsLatest, NodeRunParts DEF EngineInv
    <3>3. r[1] = retry[1]
      BY <2>4, <3>1, <3>2 DEF Current
    <3>4. node'[retry] = "running"
      BY <2>1, <2>2
    <3>5. ~(retry[2] > r[2])
      BY <2>2, <3>3, <3>4 DEF Newest
    <3>6. r[2] /= retry[2]
      BY <2>2, <2>3, <3>1, <3>2, <3>3
    <3>7. retry[2] < r[2]
      <4>1. r[2] \in Int /\ retry[2] \in Int
        BY <2>2, <3>2 DEF Iterations
      <4>2. QED
        BY <3>5, <3>6, <4>1
    <3>8. node[<<retry[1], retry[2]>>] \in {"failed", "cancelled"}
      <4>1. node[<<retry[1], r[2]>>] /= "absent"
        BY <3>1, <3>2, <3>3
      <4>2. QED
        BY <2>2, <3>2, <3>7, <4>1 DEF EngineInv, RowsOK, AttemptsInOrder
    <3>9. QED
      BY <2>2, <2>3, <3>8
  <2>7. QED
    BY <1>3, <2>1, <2>6 DEF Reopens
<1>4. CASE ~allowed
  BY <1>4, Zenon DEF Replace, Reopens
<1>5. QED
  BY <1>3, <1>4

LEMMA ResumeReopens ==
  ASSUME EngineInv, NEW a \in Actors, ResumeFailedRun(a) PROVE Reopens
<1> DEFINE revived == Revive(CancelledNow)
           go == Repaired /\ \A r \in CancelledNow : HasRoom(r)
<1>1. CASE go
  <2>1. /\ run' = "running"
        /\ node' = [r \in NodeRuns |-> IF r \in revived THEN "pending" ELSE node[r]]
    BY <1>1 DEF ResumeFailedRun
  <2>2. CancelledNow = StoppedNow(node) /\ ~StandsAt(node, "failed")
    BY <1>1, StandingNow DEF EngineInv, Repaired
  <2>3. ASSUME NEW q \in revived PROVE node[q] = "absent"
    <3>1. PICK r \in CancelledNow : q = Following(r)
      BY DEF Revive
    <3>2. r \in NodeRuns /\ HasRoom(r) /\ node[r] = "cancelled" /\ Newest(node, r)
      BY <1>1, <2>2 DEF CancelledNow, StoppedNow
    <3>3. q = <<r[1], r[2] + 1>> /\ r[2] \in Iterations
      BY <3>1, <3>2, FollowingExists
    <3>4. r[2] + 1 \in Iterations /\ r[2] + 1 > r[2]
      BY <3>2, <3>3, WorkflowEngineAssumption DEF HasRoom, Iterations, WorkflowEngineAssumption
    <3>5. QED
      BY <3>2, <3>3, <3>4 DEF Newest
  <2> HIDE DEF revived
  <2>4. \A q \in NodeRuns : node'[q] = node[q] \/ Adds(q)
    BY <2>1, <2>3 DEF Adds
  <2>5. QED
    BY <1>1, <2>1, <2>2, <2>4, AddedStand DEF Reopens, Repaired
<1>2. CASE ~go
  BY <1>2, Zenon DEF ResumeFailedRun, Reopens
<1>3. QED
  BY <1>1, <1>2

\* Every other step that writes the status has seen the run active.
LEMMA StepReopens ==
  ASSUME EngineInv, SteadyInv, [Next]_vars PROVE Reopens
<1>1. CASE UNCHANGED run
  BY <1>1 DEF Reopens
<1>2. ASSUME NEW a \in Actors, Finalize(a) \/ SetState(a) PROVE Reopens
  <2>1. run' = run \/ (run = exec[a].seen /\ run' = exec[a].want)
    BY <1>2 DEF Finalize, SetState
  <2>2. exec[a].seen \in RunActive
    <3>1. Begins(exec[a], "finalize") \/ Begins(exec[a], "setState")
      BY <1>2 DEF Finalize, SetState, At, Begins
    <3>2. QED
      BY <3>1, RunStatuses DEF SteadyInv, Steady
  <2>3. QED
    BY <2>1, <2>2, RunStatuses DEF Reopens
<1>3. ASSUME NEW a \in Actors, MarkCancelling(a) \/ Record(a) \/ Resolve(a) PROVE Reopens
  <2>1. run' = run \/ run \in RunActive
    BY <1>3 DEF MarkCancelling, Record, Resolve, RunActive, Dispatchable
  <2>2. QED
    BY <2>1, RunStatuses DEF Reopens
<1>4. ASSUME NEW a \in Actors, Step(a) \/ Request(a) \/ Crash(a) PROVE Reopens
  <2>1. CASE \/ Dispatch(a) \/ Claim(a) \/ Enqueue(a) \/ Advance(a) \/ SignalActiveAgents(a)
             \/ CloseWaitingApprovalNodes(a) \/ CheckWorkflowComplete(a) \/ SyncRunState(a)
             \/ OnlyHumansLeftToAct(a) \/ CancelPendingNodes(a) \/ QueueRetry(a)
             \/ ReconcileWorkflowRun(a) \/ HealAgentNodes(a) \/ HealNext(a)
    <3>1. UNCHANGED run
      BY <2>1, Zenon DEF Dispatch, Claim, Enqueue, Advance, SignalActiveAgents, CloseWaitingApprovalNodes,
         CheckWorkflowComplete, SyncRunState, OnlyHumansLeftToAct, CancelPendingNodes, QueueRetry,
         ReconcileWorkflowRun, HealAgentNodes, HealNext, rows
    <3>2. QED
      BY <1>1, <3>1
  <2>2. CASE OnAgentRunComplete(a) \/ ReconcileActiveRuns(a) \/ CancelWorkflowRun(a)
             \/ RetryFailedAgentNode(a) \/ Crash(a)
    BY <1>1, <2>2 DEF OnAgentRunComplete, ReconcileActiveRuns, CancelWorkflowRun,
       RetryFailedAgentNode, Crash, rows
  <2>3. CASE Replace(a) \/ ResumeFailedRun(a)
    BY <2>3, ReplaceReopens, ResumeReopens
  <2>4. QED
    BY <1>2, <1>3, <1>4, <2>1, <2>2, <2>3 DEF Step, Request
<1>5. ASSUME NEW r \in NodeRuns, AgentEnds(r) \/ JobDies(r) \/ PersonStops(r) PROVE Reopens
  BY <1>1, <1>5 DEF AgentEnds, JobDies, PersonStops
<1>6. QED
  BY <1>1, <1>4, <1>5 DEF Next, vars

\* A verdict is final but for the retry of the last failed node, and then no node
\* is left failed, whatever handlers run at once: only a summary status
\* (_sync_run_state) that read the run twice, and found it over the second time,
\* could write over a verdict.
THEOREM VerdictsStayWritten == Spec /\ []SummariesUndisturbed => OnlyRetryReopens
<1>1. Init => EngineInv /\ SteadyInv
  BY InitKeeps, SteadyInit
<1>2. EngineInv /\ SteadyInv /\ SummariesUndisturbed /\ [Next]_vars => (EngineInv /\ SteadyInv)'
  BY NextKeeps, SteadyNext
<1>3. EngineInv /\ SteadyInv /\ [Next]_vars =>
          [(run \in RunEnded /\ run' /= run) =>
              (run = "failed" /\ run' = "running" /\ "failed" \notin CurrentStatuses')]_vars
  <2>1. ASSUME EngineInv, SteadyInv, [Next]_vars
        PROVE  Reopens /\ ("failed" \in CurrentStatuses' <=> StandsAt(node', "failed"))
    <3>1. RowsOK'
      BY <2>1, NextKeeps DEF EngineInv
    <3>2. QED
      BY <2>1, <3>1, StepReopens, FailedStandNext
  <2>2. QED
    BY <2>1 DEF Reopens
<1>4. QED
  BY <1>1, <1>2, <1>3, PTL DEF Spec, OnlyRetryReopens

\* No summary is read twice where no node is a gate: there a verdict is final but
\* for the retry of the last failed node, whatever handlers run at once.
THEOREM OnlyRetriesReopen == ASSUME NoGates PROVE Spec => OnlyRetryReopens
<1>1. Init => EngineInv /\ GateFreeInv
  BY InitKeeps, SteadyInit
<1>2. EngineInv /\ GateFreeInv /\ [Next]_vars => (EngineInv /\ GateFreeInv)'
  BY NextKeeps, GateFreeNext
<1>3. GateFreeInv => SummariesUndisturbed
  BY DEF GateFreeInv, SummariesUndisturbed
<1>4. QED
  BY <1>1, <1>2, <1>3, VerdictsStayWritten, PTL DEF Spec

LEMMA RestIsDrained == ASSUME RowsOK, AtRest(node) PROVE CurrentStatuses \cap NodeActive = {}
<1> SUFFICES ASSUME NEW s \in NodeActive, s \in CurrentStatuses PROVE FALSE
  OBVIOUS
<1>1. StandsAt(node, s)
  BY StatusesStand DEF NodeActive
<1>2. QED
  BY <1>1 DEF StandsAt, AtRest

-----------------------------------------------------------------------------
(***************************************************************************)
(* Any number of handlers and gates, but no retries: a run that is over    *)
(* has drained                                                             *)
(***************************************************************************)
NoRetries == MaxIteration = 0

\* Whatever status the run has meanwhile, a handler that is about to end it has
\* found it over.
OverInv ==
    /\ run \in RunEnded => Over(node)
    /\ \A a \in Actors : /\ Begins(exec[a], "finalize") => Over(node)
                         /\ Begins(exec[a], "setState") => exec[a].want \in Dispatchable

LEMMA NoRoom ==
  ASSUME NoRetries, NEW r \in NodeRuns
  PROVE  ~HasRoom(r) /\ Following(r) \notin NodeRuns
<1>1. r[2] = 0
  BY DEF NodeRuns, NoRetries
<1>2. QED
  BY <1>1 DEF HasRoom, Following, NodeRuns, NoRetries

\* Nothing is claimed once a failure stands or nothing is pending.
LEMMA ClaimOver ==
  ASSUME EngineInv, Over(node), NEW a \in Actors, Claim(a) PROVE UNCHANGED node
<1> DEFINE x == exec[a]
           n == Min(x.ready)
           r == Latest(n)
           rest == x.ready \ {n}
<1>1. x \in Exec
  BY HandlerAt DEF Claim
<1>2. CASE x.ready = {} \/ ~AcceptsDispatch
  BY <1>2 DEF Claim
<1>3. CASE ~(x.ready = {} \/ ~AcceptsDispatch)
  <2>1. (CASE node[r] /= "pending" ->
                exec' = [exec EXCEPT ![a].ready = rest] /\ UNCHANGED <<node, agent, approval>>
          [] node[r] = "pending" /\ Kind[n] = "agent" -> DispatchAgent(a, r, rest)
          [] node[r] = "pending" /\ Kind[n] = "gate" -> DispatchHumanApproval(a, r, rest)
          [] node[r] = "pending" /\ Kind[n] = "terminal" -> DispatchTerminal(a, r, rest)
          [] node[r] = "pending" /\ Kind[n] = "unsupported" -> FailNodeAtDispatch(a, r, rest))
    BY <1>3, Zenon DEF Claim
  <2>2. x.ready \in SUBSET Nat /\ x.ready \subseteq Nodes
    BY <1>1, WorkflowEngineAssumption DEF Exec, WorkflowEngineAssumption
  <2>3. n \in Nodes
    BY <1>3, <2>2, MinOfNaturals
  <2>4. r \in NodeRuns
    BY <2>3, LatestExists DEF EngineInv, RowsOK, AttemptsInOrder
  <2>5. ~StandsAt(node, "failed")
    BY <1>3, FailedStand DEF EngineInv, AcceptsDispatch, HasFailedNode
  <2>6. node[r] /= "pending"
    BY <2>4, <2>5 DEF Over
  <2> HIDE DEF n, r, rest
  <2>7. QED
    BY <2>1, <2>6
<1>4. QED
  BY <1>2, <1>3

LEMMA RecordOver ==
  ASSUME EngineInv, Over(node), NEW a \in Actors, Record(a) PROVE UNCHANGED node
<1>1. exec[a].at \in NodeRuns
  BY HandlerAt DEF Record, Exec
<1>2. node[exec[a].at] /= "running"
  BY <1>1 DEF Over, AtRest, NodeActive
<1>3. QED
  BY <1>2 DEF Record, Recorded

LEMMA CancelPendingOver ==
  ASSUME EngineInv, Over(node), NEW a \in Actors, CancelPendingNodes(a) PROVE Over(node')
<1>1. \A r \in NodeRuns : node'[r] = IF node[r] = "pending" THEN "cancelled" ELSE node[r]
  BY DEF CancelPendingNodes
<1>2. AtRest(node')
  BY <1>1 DEF Over, AtRest, NodeActive
<1>3. \A r \in NodeRuns : node'[r] /= "pending"
  BY <1>1
<1>4. QED
  BY <1>2, <1>3 DEF Over

\* There is no room to retry anything.
LEMMA RetriesOver ==
  ASSUME NoRetries, EngineInv, NEW a \in Actors,
         Replace(a) \/ QueueRetry(a) \/ ResumeFailedRun(a)
  PROVE  UNCHANGED node
<1>1. CASE Replace(a) \/ QueueRetry(a)
  <2>1. PICK routine \in {"replace", "queueRetry"} : At(a, routine)
    BY <1>1 DEF Replace, QueueRetry
  <2>2. HasRoom(exec[a].at) /\ exec[a].at \in NodeRuns
    BY <2>1, HandlerAt DEF Relies, Begins, Exec
  <2>3. QED
    BY <2>2, NoRoom
<1>2. CASE ResumeFailedRun(a)
  <2>1. Revive(CancelledNow) \cap NodeRuns = {}
    BY NoRoom DEF Revive, CancelledNow
  <2>2. node \in [NodeRuns -> NodeStatus]
    BY DEF EngineInv, RowsOK, RowsTyped, NodeStatus
  <2>3. \/ UNCHANGED node
        \/ node' = [r \in NodeRuns |-> IF r \in Revive(CancelledNow) THEN "pending" ELSE node[r]]
    BY <1>2, Zenon DEF ResumeFailedRun
  <2>4. QED
    BY <2>1, <2>2, <2>3
<1>3. QED
  BY <1>1, <1>2

\* What is over stays over: without retries no step starts or revives anything.
LEMMA OverStays ==
  ASSUME NoRetries, EngineInv, Over(node), [Next]_vars PROVE Over(node')
<1>1. CASE UNCHANGED node
  BY <1>1
<1>2. ASSUME NEW a \in Actors, Claim(a) \/ Record(a) PROVE UNCHANGED node
  BY <1>2, ClaimOver, RecordOver
<1>3. ASSUME NEW a \in Actors, CloseWaitingApprovalNodes(a) \/ Resolve(a) PROVE UNCHANGED node
  <2>1. \A r \in NodeRuns : node[r] /= "waiting"
    BY DEF Over, AtRest, NodeActive
  <2>2. QED
    BY <1>3, <2>1 DEF CloseWaitingApprovalNodes, WaitingNodeRuns, Resolve, Decidable
<1>4. ASSUME NEW a \in Actors, Step(a) \/ Request(a) \/ Crash(a) PROVE Over(node')
  <2>1. CASE \/ Dispatch(a) \/ Enqueue(a) \/ Advance(a) \/ SignalActiveAgents(a)
             \/ CheckWorkflowComplete(a) \/ Finalize(a) \/ SyncRunState(a)
             \/ OnlyHumansLeftToAct(a) \/ SetState(a) \/ MarkCancelling(a)
             \/ ReconcileWorkflowRun(a) \/ HealAgentNodes(a) \/ HealNext(a)
    BY <1>1, <2>1 DEF Dispatch, Enqueue, Advance, SignalActiveAgents, CheckWorkflowComplete,
       Finalize, SyncRunState, OnlyHumansLeftToAct, SetState, MarkCancelling,
       ReconcileWorkflowRun, HealAgentNodes, HealNext, rows
  <2>2. CASE OnAgentRunComplete(a) \/ ReconcileActiveRuns(a) \/ CancelWorkflowRun(a)
             \/ RetryFailedAgentNode(a) \/ Crash(a)
    BY <1>1, <2>2 DEF OnAgentRunComplete, ReconcileActiveRuns, CancelWorkflowRun,
       RetryFailedAgentNode, Crash, rows
  <2>3. CASE CancelPendingNodes(a)
    BY <2>3, CancelPendingOver
  <2>4. CASE Replace(a) \/ QueueRetry(a) \/ ResumeFailedRun(a)
    BY <1>1, <2>4, RetriesOver
  <2>5. QED
    BY <1>1, <1>2, <1>3, <1>4, <2>1, <2>2, <2>3, <2>4 DEF Step, Request
<1>5. ASSUME NEW r \in NodeRuns, AgentEnds(r) \/ JobDies(r) \/ PersonStops(r) PROVE Over(node')
  BY <1>1, <1>5 DEF AgentEnds, JobDies, PersonStops
<1>6. QED
  BY <1>1, <1>4, <1>5 DEF Next, vars

\* A run ends only by a handler that has found it over.
LEMMA EndsWhenOver ==
  ASSUME EngineInv, OverInv, [Next]_vars, run' \in RunEnded PROVE Over(node)
<1>1. CASE UNCHANGED run
  BY <1>1 DEF OverInv
<1>2. ASSUME NEW a \in Actors, Finalize(a) PROVE Over(node)
  <2>1. Begins(exec[a], "finalize")
    BY <1>2 DEF Finalize, At, Begins
  <2>2. QED
    BY <2>1 DEF OverInv
<1>3. ASSUME NEW a \in Actors, SetState(a) PROVE UNCHANGED run
  <2>1. Begins(exec[a], "setState")
    BY <1>3 DEF SetState, At, Begins
  <2>2. exec[a].want \notin RunEnded
    BY <2>1, RunStatuses DEF OverInv
  <2>3. QED
    BY <1>3, <2>2 DEF SetState
<1>4. ASSUME NEW a \in Actors, \/ MarkCancelling(a) \/ Record(a) \/ Resolve(a)
                               \/ Replace(a) \/ ResumeFailedRun(a)
      PROVE  UNCHANGED run
  <2>1. run' \in {run, "running", "cancelling"}
    BY <1>4, Zenon DEF MarkCancelling, Record, Resolve, Replace, ResumeFailedRun
  <2>2. QED
    BY <2>1 DEF RunEnded
<1>5. ASSUME NEW a \in Actors, Step(a) \/ Request(a) \/ Crash(a) PROVE Over(node)
  <2>1. CASE \/ Dispatch(a) \/ Claim(a) \/ Enqueue(a) \/ Advance(a) \/ SignalActiveAgents(a)
             \/ CloseWaitingApprovalNodes(a) \/ CheckWorkflowComplete(a) \/ SyncRunState(a)
             \/ OnlyHumansLeftToAct(a) \/ CancelPendingNodes(a) \/ QueueRetry(a)
             \/ ReconcileWorkflowRun(a) \/ HealAgentNodes(a) \/ HealNext(a)
    <3>1. UNCHANGED run
      BY <2>1, Zenon DEF Dispatch, Claim, Enqueue, Advance, SignalActiveAgents, CloseWaitingApprovalNodes,
         CheckWorkflowComplete, SyncRunState, OnlyHumansLeftToAct, CancelPendingNodes, QueueRetry,
         ReconcileWorkflowRun, HealAgentNodes, HealNext, rows
    <3>2. QED
      BY <1>1, <3>1
  <2>2. CASE OnAgentRunComplete(a) \/ ReconcileActiveRuns(a) \/ CancelWorkflowRun(a)
             \/ RetryFailedAgentNode(a) \/ Crash(a)
    BY <1>1, <2>2 DEF OnAgentRunComplete, ReconcileActiveRuns, CancelWorkflowRun,
       RetryFailedAgentNode, Crash, rows
  <2>3. QED
    BY <1>1, <1>2, <1>3, <1>4, <1>5, <2>1, <2>2 DEF Step, Request
<1>6. ASSUME NEW r \in NodeRuns, AgentEnds(r) \/ JobDies(r) \/ PersonStops(r) PROVE Over(node)
  BY <1>1, <1>6 DEF AgentEnds, JobDies, PersonStops
<1>7. QED
  BY <1>1, <1>5, <1>6 DEF Next, vars

LEMMA OverNext ==
  ASSUME NoRetries, EngineInv, OverInv, [Next]_vars PROVE OverInv'
<1> DEFINE Sound(x, nd) == /\ Begins(x, "finalize") => Over(nd)
                           /\ Begins(x, "setState") => x.want \in Dispatchable
<1>1. run' \in RunEnded => Over(node')
  BY EndsWhenOver, OverStays
<1>2. \A b \in Actors : Sound(exec[b], node')
  BY OverStays DEF OverInv
<1>3. CASE UNCHANGED exec
  BY <1>1, <1>2, <1>3 DEF OverInv
<1>4. ASSUME NEW a \in Actors, Step(a) \/ Request(a) \/ Crash(a) PROVE OverInv'
  <2>1. PICK y : exec' = [exec EXCEPT ![a] = y] /\ NewTask(exec[a], y)
    BY <1>4, StepProceeds DEF Proceeds
  <2>2. exec'[a] = y /\ \A b \in Actors \ {a} : exec'[b] = exec[b]
    BY <2>1 DEF EngineInv
  <2>3. Begins(y, "finalize") => Over(node')
    BY <2>1, DoneIsOver DEF NewTask, EngineInv, rows
  <2>4. Sound(y, node')
    BY <2>1, <2>3 DEF NewTask
  <2>5. \A b \in Actors : Sound(exec'[b], node')
    BY <1>2, <2>2, <2>4
  <2>6. QED
    BY <1>1, <2>5 DEF OverInv
<1>5. ASSUME NEW r \in NodeRuns, AgentEnds(r) \/ JobDies(r) \/ PersonStops(r) PROVE OverInv'
  BY <1>3, <1>5 DEF AgentEnds, JobDies, PersonStops
<1>6. QED
  BY <1>3, <1>4, <1>5 DEF Next, vars

LEMMA OverInit == Init => OverInv
<1> SUFFICES ASSUME Init PROVE OverInv
  OBVIOUS
<1>1. PICK a \in Actors : exec = [b \in Actors |-> IF b = a THEN [IdleExec EXCEPT !.todo = ScheduleReadyNodes]
                                                   ELSE IdleExec]
  BY DEF Init
<1>2. IdleExec.todo = <<>> /\ [IdleExec EXCEPT !.todo = ScheduleReadyNodes].todo = ScheduleReadyNodes
  BY DEF IdleExec
<1>3. \A b \in Actors : exec[b].todo = <<>> \/ exec[b].todo = ScheduleReadyNodes
  BY <1>1, <1>2
<1>4. \A b \in Actors : ~Begins(exec[b], "finalize") /\ ~Begins(exec[b], "setState")
  BY <1>3 DEF Begins, ScheduleReadyNodes
<1>5. run \notin RunEnded
  BY DEF Init, RunEnded
<1>6. QED
  BY <1>4, <1>5 DEF OverInv

\* Without retries, and with gates and any number of handlers, what the handlers
\* decide from rows they have read before holds of the rows as they are, although
\* the status that a verdict is compared with may have come and gone meanwhile.
THEOREM SchedulingHolds == ASSUME NoRetries PROVE Spec => []SchedulingInv
<1>1. Init => EngineInv /\ OverInv
  BY InitKeeps, OverInit
<1>2. EngineInv /\ OverInv /\ [Next]_vars => (EngineInv /\ OverInv)'
  BY NextKeeps, OverNext
<1>3. EngineInv /\ OverInv => EndedRunIsDrained
  BY RestIsDrained DEF EngineInv, OverInv, Over, EndedRunIsDrained
<1>4. TypeOK /\ DependenciesComplete /\ EndedRunIsDrained => SchedulingInv
  BY DEF SchedulingInv
<1>5. QED
  BY <1>1, <1>2, <1>3, <1>4, EngineTypes, NodesStartInOrder, PTL DEF Spec

-----------------------------------------------------------------------------
(***************************************************************************)
(* What a step does to the run, retries included                           *)
(***************************************************************************)
\* From here the run can only end, unless its failure is retried.
Ending == {"cancelling"} \cup RunEnded

\* Nothing is left to start, or nothing will be; and the verdict that follows.
DoneIn(nd) == StandsAt(nd, "failed") \/ ~StandsAt(nd, "pending")
VerdictIn(nd, rn) ==
    IF StandsAt(nd, "failed") THEN "failed" ELSE IF rn = "cancelling" THEN "cancelled" ELSE "completed"

\* A cancelled node of an active run comes with a failed one; a run that ended
\* without a failure has no node left that failed or never started.
OutcomeRows ==
    /\ run \in Dispatchable /\ StandsAt(node, "cancelled") => StandsAt(node, "failed")
    /\ run \in {"completed", "cancelled"} => ~StandsAt(node, "pending") /\ ~StandsAt(node, "failed")
    /\ run = "completed" => ~StandsAt(node, "cancelled")

\* A handler is to write the verdict that the rows still give on the status it
\* saw, stops nodes only of a run that is failing or ending, and retries only
\* when it does nothing else.
ActsSoundly(x, rn, nd) ==
    /\ Begins(x, "finalize") => x.want = VerdictIn(nd, x.seen)
    /\ Todo(x) \cap Stops /= {} => StandsAt(nd, "failed") \/ rn \in Ending
    /\ "cancelPending" \in Todo(x) => rn \in Ending
    /\ RetriesAlone(x)

OutcomeInv == OutcomeRows /\ \A a \in Actors : ActsSoundly(exec[a], run, node)

SameRun == run' = run \/ (run \in Dispatchable /\ run' \in Dispatchable)

Quiet == UNCHANGED node /\ SameRun

TakesUp ==
    \E r \in NodeRuns, s \in {"running", "waiting", "completed", "failed"} :
        /\ node[r] = "pending" /\ Turns(r, s) /\ \A m \in Sources(r[1]) : CompletedIn(node, m)
        /\ run \in Dispatchable /\ run' = run /\ ~StandsAt(node, "failed")

GetsDone ==
    \E r \in NodeRuns, s \in NodeEnded :
        /\ node[r] \in NodeActive /\ Turns(r, s) /\ run \in RunActive
        /\ IF s = "cancelled" /\ ~StandsAt(node, "failed") THEN run' = "cancelling" ELSE SameRun

CallsOff == UNCHANGED node /\ run \in RunActive /\ run' = "cancelling"

GivesUp ==
    /\ run \in Ending /\ run' = run
    /\ \A r \in NodeRuns : node'[r] = IF node[r] = "pending" THEN "cancelled" ELSE node[r]

Concludes ==
    /\ UNCHANGED node /\ run \in RunActive /\ AtRest(node) /\ DoneIn(node)
    /\ run' = VerdictIn(node, run)

FailedNow(nd) == {r \in NodeRuns : nd[r] = "failed" /\ Newest(nd, r)}

\* Every attempt of P, the last one of its node, is followed by another.
Follows(P) ==
    /\ \A p \in P : p \in NodeRuns /\ Newest(node, p) /\ HasRoom(p) /\ node[p] \in {"failed", "cancelled"}
    /\ \A q \in NodeRuns : IF \E p \in P : q = Following(p) THEN Adds(q) ELSE node'[q] = node[q]

Requeues ==
    \E r \in FailedNow(node) :
        run = "failed" /\ run' = run /\ Follows({r}) /\ node'[Following(r)] = "pending"

Resumes ==
    /\ run = "failed" /\ run' = "running"
    /\ \A p, q \in FailedNow(node) : p = q
    /\ Follows(FailedNow(node) \cup StoppedNow(node))
    /\ \A p \in FailedNow(node) : node'[Following(p)] = "running"
    /\ \A p \in StoppedNow(node) : node'[Following(p)] = "pending"

\* What a step of handler a does to the run unless it retries.
Alters(a) ==
    \/ Quiet \/ TakesUp \/ GetsDone \/ CallsOff \/ Concludes
    \/ GivesUp /\ "cancelPending" \in Todo(exec[a])

LEMMA VerdictNow ==
  ASSUME RowsOK
  PROVE  /\ Verdict = VerdictIn(node, run)
         /\ Done => DoneIn(node)
<1>1. HasFailedNode <=> StandsAt(node, "failed")
  BY StandingNow
<1>2. "pending" \in CurrentStatuses <=> StandsAt(node, "pending")
  BY StatusesStand
<1>3. QED
  BY <1>1, <1>2 DEF Verdict, VerdictIn, Done, DoneIn, NodeEnded

\* Steps of handlers that read, or change agents only.
LEMMA QuietSteps ==
  ASSUME NEW a \in Actors,
         \/ Dispatch(a) \/ Enqueue(a) \/ Advance(a) \/ SignalActiveAgents(a)
         \/ CheckWorkflowComplete(a) \/ SyncRunState(a) \/ OnlyHumansLeftToAct(a)
         \/ ReconcileWorkflowRun(a) \/ HealAgentNodes(a) \/ HealNext(a)
         \/ OnAgentRunComplete(a) \/ ReconcileActiveRuns(a) \/ CancelWorkflowRun(a)
         \/ RetryFailedAgentNode(a) \/ Crash(a)
  PROVE  Alters(a)
<1>1. UNCHANGED <<run, node>>
  <2>1. CASE Enqueue(a) \/ SignalActiveAgents(a) \/ HealNext(a)
    BY <2>1 DEF Enqueue, SignalActiveAgents, HealNext
  <2>2. CASE ~(Enqueue(a) \/ SignalActiveAgents(a) \/ HealNext(a))
    BY <2>2 DEF Dispatch, Advance, CheckWorkflowComplete, SyncRunState, OnlyHumansLeftToAct,
       ReconcileWorkflowRun, HealAgentNodes, OnAgentRunComplete, ReconcileActiveRuns,
       CancelWorkflowRun, RetryFailedAgentNode, Crash, rows
  <2>3. QED
    BY <2>1, <2>2
<1>2. QED
  BY <1>1 DEF Alters, Quiet, SameRun

LEMMA ClaimAlters == ASSUME EngineInv, NEW a \in Actors, Claim(a) PROVE Alters(a)
<1> DEFINE x == exec[a]
           n == Min(x.ready)
           r == Latest(n)
           rest == x.ready \ {n}
<1>1. At(a, "claim") /\ UNCHANGED <<run, byHand>>
  BY DEF Claim
<1>2. x \in Exec /\ Relies(x, node, agent)
  BY <1>1, HandlerAt
<1>3. CASE x.ready = {} \/ ~AcceptsDispatch
  BY <1>1, <1>3 DEF Claim, Alters, Quiet, SameRun
<1>4. CASE ~(x.ready = {} \/ ~AcceptsDispatch)
  <2>1. (CASE node[r] /= "pending" ->
                exec' = [exec EXCEPT ![a].ready = rest] /\ UNCHANGED <<node, agent, approval>>
          [] node[r] = "pending" /\ Kind[n] = "agent" -> DispatchAgent(a, r, rest)
          [] node[r] = "pending" /\ Kind[n] = "gate" -> DispatchHumanApproval(a, r, rest)
          [] node[r] = "pending" /\ Kind[n] = "terminal" -> DispatchTerminal(a, r, rest)
          [] node[r] = "pending" /\ Kind[n] = "unsupported" -> FailNodeAtDispatch(a, r, rest))
    BY <1>4, Zenon DEF Claim
  <2>2. x.ready \in SUBSET Nat /\ x.ready \subseteq Nodes
    BY <1>2, WorkflowEngineAssumption DEF Exec, WorkflowEngineAssumption
  <2>3. n \in Nodes /\ n \in x.ready
    BY <1>4, <2>2, MinOfNaturals
  <2>4. r \in NodeRuns /\ r[1] = n
    BY <2>3, LatestExists DEF EngineInv, RowsOK, AttemptsInOrder
  <2>5. Kind[n] \in {"agent", "gate", "terminal", "unsupported"}
    BY <2>3, WorkflowEngineAssumption DEF WorkflowEngineAssumption
  <2>6. \A m \in Sources(n) : CompletedIn(node, m)
    BY <1>2, <2>3 DEF Relies
  <2>7. run \in Dispatchable /\ ~StandsAt(node, "failed")
    BY <1>4, StandingNow DEF AcceptsDispatch, EngineInv
  <2> HIDE DEF n, r, rest
  <2>8. \/ UNCHANGED node
        \/ DispatchAgent(a, r, rest) \/ DispatchHumanApproval(a, r, rest)
        \/ DispatchTerminal(a, r, rest) \/ FailNodeAtDispatch(a, r, rest)
    BY <2>1, <2>5
  <2>9. \/ UNCHANGED node
        \/ \E s \in {"running", "waiting", "completed", "failed"} : ClaimPendingNode(r, s)
    BY <2>8, Zenon DEF DispatchAgent, DispatchHumanApproval, DispatchTerminal, FailNodeAtDispatch
  <2>10. CASE UNCHANGED node
    BY <1>1, <2>10 DEF Alters, Quiet, SameRun
  <2>11. ASSUME NEW s \in {"running", "waiting", "completed", "failed"}, ClaimPendingNode(r, s)
         PROVE  TakesUp
    <3>1. node[r] = "pending" /\ Turns(r, s)
      BY <2>11 DEF ClaimPendingNode, Turns, NodeActive, NodeEnded
    <3>2. QED
      BY <1>1, <2>4, <2>6, <2>7, <3>1 DEF TakesUp
  <2>12. QED
    BY <2>9, <2>10, <2>11 DEF Alters
<1>5. QED
  BY <1>3, <1>4

\* A run that is over has nothing at work, so that nothing gets done.
LEMMA ActiveRunActive ==
  ASSUME EngineInv, FailFastRows, NEW r \in NodeRuns, node[r] \in NodeActive PROVE run \in RunActive
BY DEF FailFastRows, AtRest, EngineInv, RowsOK, RowsTyped, Runs

LEMMA RecordAlters == ASSUME EngineInv, FailFastRows, NEW a \in Actors, Record(a) PROVE Alters(a)
<1> DEFINE r == exec[a].at
           s == OutcomeOf(agent[r].status)
<1>1. At(a, "record")
  BY DEF Record
<1>2. exec[a] \in Exec /\ Relies(exec[a], node, agent) /\ Begins(exec[a], "record")
  BY <1>1, HandlerAt DEF Begins
<1>3. r \in NodeRuns /\ agent[r].status \in AgentEnded
  BY <1>2 DEF Exec, Relies
<1>4. CASE node[r] = "running"
  <2>1. /\ node' = [node EXCEPT ![r] = s]
        /\ run' = IF StopsRun(r) /\ run \in Dispatchable THEN "cancelling" ELSE run
    BY <1>4 DEF Record, Recorded
  <2>2. s \in NodeEnded /\ (s = "cancelled" <=> agent[r].status = "stopped")
    BY <1>3 DEF OutcomeOf, AgentEnded, NodeEnded
  <2>3. StopsRun(r) <=> s = "cancelled" /\ ~StandsAt(node, "failed")
    BY <2>2, StandingNow DEF StopsRun, EngineInv
  <2> HIDE DEF r, s
  <2>4. Turns(r, s) /\ node[r] \in NodeActive
    BY <1>4, <2>1, <2>2 DEF Turns, NodeActive
  <2>5. run \in RunActive
    BY <1>3, <2>4, ActiveRunActive
  <2>6. IF s = "cancelled" /\ ~StandsAt(node, "failed") THEN run' = "cancelling" ELSE SameRun
    BY <2>1, <2>3, <2>5 DEF SameRun, RunActive
  <2>7. QED
    BY <1>3, <2>2, <2>4, <2>5, <2>6 DEF Alters, GetsDone
<1>5. CASE node[r] /= "running"
  BY <1>5 DEF Record, Recorded, Alters, Quiet, SameRun
<1>6. QED
  BY <1>4, <1>5

LEMMA CloseGatesAlters ==
  ASSUME EngineInv, FailFastRows, OutcomeInv, NEW a \in Actors, CloseWaitingApprovalNodes(a) PROVE Alters(a)
<1>1. At(a, "gates") /\ UNCHANGED <<run, byHand, agent>>
  BY DEF CloseWaitingApprovalNodes
<1>2. StandsAt(node, "failed") \/ run \in Ending
  <2>1. exec[a].todo \in Seq(Routines) /\ exec[a].todo /= <<>> /\ exec[a].todo[1] = "gates"
    BY <1>1 DEF EngineInv, Exec, At
  <2>2. "gates" \in Todo(exec[a])
    BY <2>1 DEF Todo
  <2>3. QED
    BY <2>2 DEF OutcomeInv, ActsSoundly, Stops
<1>3. CASE WaitingNodeRuns = {}
  BY <1>1, <1>3 DEF CloseWaitingApprovalNodes, Alters, Quiet, SameRun
<1>4. CASE WaitingNodeRuns /= {}
  <2>1. PICK r \in NodeRuns : node[r] = "waiting" /\ node' = [node EXCEPT ![r] = "cancelled"]
    BY <1>4 DEF CloseWaitingApprovalNodes, WaitingNodeRuns, CloseGate
  <2>2. Turns(r, "cancelled") /\ node[r] \in NodeActive
    BY <2>1 DEF Turns, NodeActive, NodeEnded
  <2>3. run \in RunActive
    BY <2>2, ActiveRunActive
  <2>4. StandsAt(node, "failed") \/ run = "cancelling"
    BY <1>2, <2>3, RunStatuses DEF Ending
  <2>5. QED
    BY <1>1, <2>2, <2>3, <2>4 DEF Alters, GetsDone, NodeEnded, SameRun
<1>5. QED
  BY <1>3, <1>4

LEMMA ResolveAlters == ASSUME NEW a \in Actors, Resolve(a) PROVE Alters(a)
<1>1. PICK r \in NodeRuns, s \in {"completed", "failed"} :
          Decidable(r) /\ node' = [node EXCEPT ![r] = s]
  BY DEF Resolve
<1>2. run' = IF run = "waiting" THEN "running" ELSE run
  BY DEF Resolve
<1>3. node[r] = "waiting" /\ run \in Dispatchable
  BY <1>1 DEF Decidable, AcceptsDispatch
<1>4. Turns(r, s) /\ node[r] \in NodeActive /\ s \in NodeEnded /\ s /= "cancelled"
  BY <1>1, <1>3 DEF Turns, NodeActive, NodeEnded
<1>5. SameRun /\ run \in RunActive
  BY <1>2, <1>3 DEF SameRun, Dispatchable, RunActive
<1>6. QED
  BY <1>4, <1>5 DEF Alters, GetsDone

LEMMA CancelPendingAlters ==
  ASSUME EngineInv, OutcomeInv, NEW a \in Actors, CancelPendingNodes(a) PROVE Alters(a)
<1>1. /\ At(a, "cancelPending") /\ UNCHANGED run
      /\ \A r \in NodeRuns : node'[r] = IF node[r] = "pending" THEN "cancelled" ELSE node[r]
  BY DEF CancelPendingNodes
<1>2. exec[a].todo \in Seq(Routines) /\ exec[a].todo /= <<>> /\ exec[a].todo[1] = "cancelPending"
  BY <1>1 DEF EngineInv, Exec, At
<1>3. "cancelPending" \in Todo(exec[a])
  BY <1>2 DEF Todo
<1>4. run \in Ending
  BY <1>3 DEF OutcomeInv, ActsSoundly
<1>5. QED
  BY <1>1, <1>3, <1>4 DEF Alters, GivesUp

\* Steps that write only the status of the run.
LEMMA StatusAlters ==
  ASSUME EngineInv, FailFastInv, OutcomeInv, NEW a \in Actors,
         Finalize(a) \/ SetState(a) \/ MarkCancelling(a)
  PROVE  Alters(a)
<1>1. UNCHANGED node
  BY DEF Finalize, SetState, MarkCancelling
<1>2. CASE Finalize(a)
  <2>1. At(a, "finalize") /\ run' = IF run = exec[a].seen THEN exec[a].want ELSE run
    BY <1>2 DEF Finalize
  <2>2. Begins(exec[a], "finalize") /\ exec[a].seen \in RunActive /\ Over(node)
    BY <2>1, AtReason DEF WritesTruth
  <2>3. AtRest(node) /\ DoneIn(node)
    BY <2>2 DEF Over, DoneIn, StandsAt
  <2>4. exec[a].want = VerdictIn(node, exec[a].seen)
    BY <2>2 DEF OutcomeInv, ActsSoundly
  <2>5. CASE run = exec[a].seen
    BY <1>1, <2>1, <2>2, <2>3, <2>4, <2>5 DEF Alters, Concludes
  <2>6. CASE run /= exec[a].seen
    BY <1>1, <2>1, <2>6 DEF Alters, Quiet, SameRun
  <2>7. QED
    BY <2>5, <2>6
<1>3. CASE SetState(a)
  <2>1. At(a, "setState") /\ run' = IF run = exec[a].seen THEN exec[a].want ELSE run
    BY <1>3 DEF SetState
  <2>2. exec[a].seen \in Dispatchable /\ exec[a].want \in Dispatchable
    BY <2>1, AtReason DEF WritesTruth
  <2>3. QED
    BY <1>1, <2>1, <2>2 DEF Alters, Quiet, SameRun
<1>4. CASE MarkCancelling(a)
  BY <1>1, <1>4 DEF MarkCancelling, Alters, Quiet, SameRun, CallsOff
<1>5. QED
  BY <1>2, <1>3, <1>4

\* An attempt that has none after it is the last one of its node.
LEMMA NotFollowed ==
  ASSUME RowsOK, NEW r \in NodeRuns, HasRoom(r), node[Following(r)] = "absent"
  PROVE  Newest(node, r)
<1>1. /\ Following(r) = <<r[1], r[2] + 1>> /\ r[1] \in Nodes /\ r[2] \in Iterations
      /\ r[2] + 1 \in Iterations
  BY FollowingExists, WorkflowEngineAssumption DEF HasRoom, Iterations, WorkflowEngineAssumption
<1> SUFFICES ASSUME NEW j \in Iterations, j > r[2], node[<<r[1], j>>] /= "absent" PROVE FALSE
  BY DEF Newest
<1>2. j /= r[2] + 1
  BY <1>1
<1>3. r[2] + 1 < j
  BY <1>1, <1>2 DEF Iterations
<1>4. node[<<r[1], r[2] + 1>>] \in {"failed", "cancelled"}
  BY <1>1, <1>3 DEF RowsOK, AttemptsInOrder
<1>5. QED
  BY <1>1, <1>4

\* An attempt that is the last one of its node has none after it.
LEMMA NewestEnds ==
  ASSUME NEW r \in NodeRuns, HasRoom(r), Newest(node, r) PROVE node[Following(r)] = "absent"
<1>1. /\ Following(r) = <<r[1], r[2] + 1>> /\ r[2] \in Iterations /\ r[2] + 1 \in Iterations
      /\ r[2] + 1 > r[2]
  BY FollowingExists, WorkflowEngineAssumption DEF HasRoom, Iterations, WorkflowEngineAssumption
<1>2. QED
  BY <1>1 DEF Newest

LEMMA QueueRetryAlters ==
  ASSUME EngineInv, FailFastInv, NEW a \in Actors, QueueRetry(a)
  PROVE  Alters(a) \/ (Retrying(a) /\ Requeues)
<1> DEFINE r == exec[a].at
           retry == Following(r)
<1>1. At(a, "queueRetry") /\ run' = run
  BY DEF QueueRetry
<1>2. run = "failed" /\ Retrying(a)
  BY <1>1, AtReason, RetryStarts DEF WritesTruth, Redo, Retries
<1>3. r \in NodeRuns /\ node[r] = "failed" /\ HasRoom(r)
  BY <1>1, HandlerAt DEF Exec, Relies, Begins
<1>4. CASE node[retry] = "absent"
  <2>1. node' = [node EXCEPT ![retry] = "pending"]
    BY <1>4 DEF QueueRetry
  <2>2. Newest(node, r)
    BY <1>3, <1>4, NotFollowed DEF EngineInv
  <2>3. retry \in NodeRuns /\ node \in [NodeRuns -> NodeStatus]
    BY <1>3, FollowingExists DEF EngineInv, RowsOK, RowsTyped, NodeStatus
  <2> HIDE DEF r
  <2>4. \A q \in NodeRuns : IF q = retry THEN Adds(q) ELSE node'[q] = node[q]
    BY <1>4, <2>1, <2>3 DEF Adds
  <2>5. Follows({r})
    BY <1>3, <2>2, <2>4 DEF Follows
  <2>6. node'[retry] = "pending"
    BY <2>1, <2>3
  <2>7. r \in FailedNow(node)
    BY <1>3, <2>2 DEF FailedNow
  <2>8. QED
    BY <1>1, <1>2, <2>5, <2>6, <2>7 DEF Requeues
<1>5. CASE node[retry] /= "absent"
  BY <1>1, <1>5 DEF QueueRetry, Alters, Quiet, SameRun
<1>6. QED
  BY <1>4, <1>5

LEMMA ResumeAlters ==
  ASSUME EngineInv, NEW a \in Actors, ResumeFailedRun(a)
  PROVE  Alters(a) \/ (Retrying(a) /\ Resumes)
<1> DEFINE revived == Revive(CancelledNow)
           go == Repaired /\ \A r \in CancelledNow : HasRoom(r)
<1>1. At(a, "resume")
  BY DEF ResumeFailedRun
<1>2. Retrying(a)
  BY <1>1, RetryStarts DEF Redo
<1>3. CASE go
  <2>1. /\ run' = "running"
        /\ node' = [r \in NodeRuns |-> IF r \in revived THEN "pending" ELSE node[r]]
    BY <1>3 DEF ResumeFailedRun
  <2>2. CancelledNow = StoppedNow(node) /\ ~StandsAt(node, "failed")
    BY <1>3, StandingNow DEF EngineInv, Repaired
  <2>3. FailedNow(node) = {}
    BY <2>2 DEF FailedNow, StandsAt
  <2>4. \A p \in StoppedNow(node) :
            /\ p \in NodeRuns /\ Newest(node, p) /\ HasRoom(p) /\ node[p] = "cancelled"
            /\ Following(p) \in NodeRuns /\ node[Following(p)] = "absent"
    <3> SUFFICES ASSUME NEW p \in StoppedNow(node)
                 PROVE  /\ p \in NodeRuns /\ Newest(node, p) /\ HasRoom(p) /\ node[p] = "cancelled"
                        /\ Following(p) \in NodeRuns /\ node[Following(p)] = "absent"
      OBVIOUS
    <3>1. p \in NodeRuns /\ Newest(node, p) /\ HasRoom(p) /\ node[p] = "cancelled"
      BY <1>3, <2>2 DEF StoppedNow
    <3>2. QED
      BY <3>1, FollowingExists, NewestEnds
  <2>5. \A q : q \in revived <=> \E p \in StoppedNow(node) : q = Following(p)
    BY <2>2 DEF Revive
  <2> HIDE DEF revived
  <2>6. \A q \in NodeRuns : IF \E p \in StoppedNow(node) : q = Following(p) THEN Adds(q)
                            ELSE node'[q] = node[q]
    BY <2>1, <2>4, <2>5 DEF Adds
  <2>7. \A p \in StoppedNow(node) : node'[Following(p)] = "pending"
    BY <2>1, <2>4, <2>5
  <2>8. FailedNow(node) \cup StoppedNow(node) = StoppedNow(node)
    BY <2>3
  <2>9. Follows(StoppedNow(node))
    BY <2>4, <2>6 DEF Follows
  <2>10. Resumes
    BY <1>3, <2>1, <2>3, <2>7, <2>8, <2>9 DEF Resumes, Repaired
  <2>11. QED
    BY <1>2, <2>10
<1>4. CASE ~go
  BY <1>4 DEF ResumeFailedRun, Alters, Quiet, SameRun
<1>5. QED
  BY <1>3, <1>4

LEMMA ReplaceAlters ==
  ASSUME EngineInv, FailFastInv, NEW a \in Actors, Replace(a)
  PROVE  Alters(a) \/ (Retrying(a) /\ Resumes)
<1> DEFINE x == exec[a]
           at == x.at
           retry == Following(at)
           revived == Revive(x.plan)
           allowed == /\ run = "failed"
                      /\ \A r \in revived \cup {retry} : node[r] = "absent"
                      /\ \A n \in Nodes \ {retry[1]} : Current(n) /= "failed"
<1>1. At(a, "replace")
  BY DEF Replace
<1>2. x.plan = StoppedNow(node) /\ Retrying(a)
  BY <1>1, AtReason, RetryStarts DEF WritesTruth, Redo, Retries
<1>3. /\ at \in NodeRuns /\ node[at] = "failed" /\ HasRoom(at)
      /\ \A r \in x.plan : r \in NodeRuns /\ node[r] = "cancelled" /\ HasRoom(r)
  BY <1>1, HandlerAt DEF Exec, Relies, Begins
<1>4. CASE allowed
  <2>1. /\ run' = "running"
        /\ node' = [r \in NodeRuns |-> IF r = retry THEN "running"
                                       ELSE IF r \in revived THEN "pending" ELSE node[r]]
    BY <1>4, Zenon DEF Replace
  <2>2. retry \in NodeRuns /\ retry[1] = at[1] /\ node[retry] = "absent"
    BY <1>3, <1>4, FollowingExists
  <2>3. Newest(node, at)
    BY <1>3, <2>2, NotFollowed DEF EngineInv
  <2>4. FailedNow(node) = {at}
    <3>1. at \in FailedNow(node)
      BY <1>3, <2>3 DEF FailedNow
    <3>2. ASSUME NEW r \in FailedNow(node) PROVE r = at
      <4>1. r \in NodeRuns /\ node[r] = "failed" /\ Newest(node, r)
        BY DEF FailedNow
      <4>2. r = Latest(r[1]) /\ r[1] \in Nodes /\ at = Latest(at[1])
        BY <1>3, <2>3, <4>1, NewestIsLatest, NodeRunParts DEF EngineInv
      <4>3. Current(r[1]) = "failed"
        BY <4>1, <4>2 DEF Current
      <4>4. r[1] = at[1]
        BY <1>4, <2>2, <4>2, <4>3
      <4>5. QED
        BY <4>2, <4>4
    <3>3. QED
      BY <3>1, <3>2
  <2>5. \A p \in StoppedNow(node) :
            /\ p \in NodeRuns /\ Newest(node, p) /\ HasRoom(p) /\ node[p] = "cancelled"
            /\ Following(p) \in NodeRuns /\ node[Following(p)] = "absent"
    <3> SUFFICES ASSUME NEW p \in StoppedNow(node)
                 PROVE  /\ p \in NodeRuns /\ Newest(node, p) /\ HasRoom(p) /\ node[p] = "cancelled"
                        /\ Following(p) \in NodeRuns /\ node[Following(p)] = "absent"
      OBVIOUS
    <3>1. p \in NodeRuns /\ Newest(node, p) /\ HasRoom(p) /\ node[p] = "cancelled"
      BY <1>2, <1>3 DEF StoppedNow
    <3>2. QED
      BY <3>1, FollowingExists, NewestEnds
  <2>6. \A q : q \in revived <=> \E p \in StoppedNow(node) : q = Following(p)
    BY <1>2 DEF Revive
  <2>7. retry \notin revived
    <3> SUFFICES ASSUME NEW p \in StoppedNow(node), retry = Following(p) PROVE FALSE
      BY <2>6
    <3>1. /\ retry = <<p[1], p[2] + 1>> /\ p = <<p[1], p[2]>> /\ p[2] \in Iterations
          /\ retry = <<at[1], at[2] + 1>> /\ at = <<at[1], at[2]>> /\ at[2] \in Iterations
      BY <1>3, <2>5, FollowingExists
    <3>2. p[1] = at[1] /\ p[2] + 1 = at[2] + 1
      BY <3>1
    <3>3. p[2] = at[2]
      BY <3>1, <3>2 DEF Iterations
    <3>4. p = at
      BY <3>1, <3>2, <3>3
    <3>5. QED
      BY <1>3, <2>5, <3>4
  <2> DEFINE f == Following(at)
  <2>8. f = retry
    OBVIOUS
  <2> HIDE DEF retry, revived, at
  <2>9. \A q \in NodeRuns : IF q = f \/ \E p \in StoppedNow(node) : q = Following(p) THEN Adds(q)
                            ELSE node'[q] = node[q]
    BY <2>1, <2>2, <2>5, <2>6, <2>8 DEF Adds
  <2>10. node'[f] = "running" /\ \A p \in StoppedNow(node) : node'[Following(p)] = "pending"
    BY <2>1, <2>2, <2>5, <2>6, <2>7, <2>8
  <2>11. Follows({at} \cup StoppedNow(node))
    <3>1. \A p \in {at} \cup StoppedNow(node) :
              p \in NodeRuns /\ Newest(node, p) /\ HasRoom(p) /\ node[p] \in {"failed", "cancelled"}
      BY <1>3, <2>3, <2>5
    <3>2. \A q : (\E p \in {at} \cup StoppedNow(node) : q = Following(p))
                    <=> q = f \/ \E p \in StoppedNow(node) : q = Following(p)
      OBVIOUS
    <3>3. QED
      BY <2>9, <3>1, <3>2 DEF Follows
  <2>12. Resumes
    BY <1>4, <2>1, <2>4, <2>10, <2>11 DEF Resumes
  <2>13. QED
    BY <1>2, <2>12
<1>5. CASE ~allowed
  BY <1>5, Zenon DEF Replace, Alters, Quiet, SameRun
<1>6. QED
  BY <1>4, <1>5

\* Every step of a handler, and of the agents.
LEMMA StepAlters ==
  ASSUME EngineInv, FailFastInv, OutcomeInv, NEW a \in Actors, Step(a) \/ Request(a) \/ Crash(a)
  PROVE  Alters(a) \/ (Retrying(a) /\ (Requeues \/ Resumes))
<1>0. FailFastRows
  BY DEF FailFastInv
<1>1. CASE \/ Dispatch(a) \/ Enqueue(a) \/ Advance(a) \/ SignalActiveAgents(a)
           \/ CheckWorkflowComplete(a) \/ SyncRunState(a) \/ OnlyHumansLeftToAct(a)
           \/ ReconcileWorkflowRun(a) \/ HealAgentNodes(a) \/ HealNext(a)
           \/ OnAgentRunComplete(a) \/ ReconcileActiveRuns(a) \/ CancelWorkflowRun(a)
           \/ RetryFailedAgentNode(a) \/ Crash(a)
  BY <1>1, QuietSteps
<1>2. CASE Claim(a) \/ Record(a) \/ CloseWaitingApprovalNodes(a) \/ Resolve(a) \/ CancelPendingNodes(a)
  BY <1>0, <1>2, ClaimAlters, RecordAlters, CloseGatesAlters, ResolveAlters, CancelPendingAlters
<1>3. CASE Finalize(a) \/ SetState(a) \/ MarkCancelling(a)
  BY <1>3, StatusAlters
<1>4. CASE Replace(a) \/ QueueRetry(a) \/ ResumeFailedRun(a)
  BY <1>4, ReplaceAlters, QueueRetryAlters, ResumeAlters
<1>5. QED
  BY <1>1, <1>2, <1>3, <1>4 DEF Step, Request

-----------------------------------------------------------------------------
(***************************************************************************)
(* The invariant holds, retries included                                   *)
(***************************************************************************)
\* What was stopping the run stops it still.
StopsStand ==
    /\ StandsAt(node, "failed") => StandsAt(node', "failed")
    /\ run \in Ending => run' \in Ending

\* Nodes that never started are given up: the others stand where they stood.
LEMMA GivenUpStand ==
  ASSUME EngineInv, GivesUp
  PROVE  /\ \A q \in NodeRuns : Newest(node', q) <=> Newest(node, q)
         /\ \A s \in {"failed", "running", "waiting", "completed"} : StandsAt(node', s) <=> StandsAt(node, s)
         /\ ~StandsAt(node', "pending")
         /\ ~StandsAt(node, "pending") => \A r \in NodeRuns : node'[r] = node[r]
<1>1. \A r \in NodeRuns : node'[r] = IF node[r] = "pending" THEN "cancelled" ELSE node[r]
  BY DEF GivesUp
<1>2. \A q \in NodeRuns : node'[q] = "absent" <=> node[q] = "absent"
  BY <1>1
<1>3. \A q \in NodeRuns : Newest(node', q) <=> Newest(node, q)
  BY <1>2, NewestLasts
<1>4. \A r \in NodeRuns : node[r] = "pending" => Newest(node, r)
  BY StandingNow DEF EngineInv
<1>5. QED
  BY <1>1, <1>3, <1>4 DEF StandsAt

LEMMA AltersKeeps ==
  ASSUME EngineInv, FailFastRows, OutcomeRows, NEW a \in Actors, Alters(a) PROVE OutcomeRows' /\ StopsStand
<1>1. CASE Quiet
  <2>1. run' = run \/ (run \in Dispatchable /\ run' \in Dispatchable)
    BY <1>1 DEF Quiet, SameRun
  <2>2. UNCHANGED node
    BY <1>1 DEF Quiet
  <2>3. StopsStand
    BY <2>1, <2>2, RunStatuses DEF StopsStand, Ending
  <2>4. OutcomeRows'
    BY <2>1, <2>2, RunStatuses DEF OutcomeRows, Dispatchable
  <2>5. QED
    BY <2>3, <2>4
<1>2. CASE TakesUp
  <2>1. PICK r \in NodeRuns, s \in {"running", "waiting", "completed", "failed"} : Turns(r, s)
    BY <1>2 DEF TakesUp
  <2>2. run \in Dispatchable /\ run' = run
    BY <1>2 DEF TakesUp
  <2>3. /\ StandsAt(node, "failed") => StandsAt(node', "failed")
        /\ StandsAt(node', "cancelled") => StandsAt(node, "cancelled")
    BY <2>1, TurnsStand
  <2>4. QED
    BY <2>2, <2>3, RunStatuses DEF OutcomeRows, StopsStand, Ending, Dispatchable
<1>3. CASE GetsDone
  <2>1. PICK r \in NodeRuns, s \in NodeEnded :
            /\ Turns(r, s) /\ run \in RunActive
            /\ IF s = "cancelled" /\ ~StandsAt(node, "failed") THEN run' = "cancelling" ELSE SameRun
    BY <1>3 DEF GetsDone
  <2>2. /\ StandsAt(node, "failed") => StandsAt(node', "failed")
        /\ StandsAt(node', "cancelled") => s = "cancelled" \/ StandsAt(node, "cancelled")
    BY <2>1, TurnsStand
  <2>3. CASE s = "cancelled" /\ ~StandsAt(node, "failed")
    BY <2>1, <2>2, <2>3, RunStatuses DEF OutcomeRows, StopsStand, Ending
  <2>4. CASE ~(s = "cancelled" /\ ~StandsAt(node, "failed"))
    <3>1. run' = run \/ (run \in Dispatchable /\ run' \in Dispatchable)
      BY <2>1, <2>4 DEF SameRun
    <3>2. run' \in RunActive /\ (run \in Ending => run' \in Ending)
      BY <2>1, <3>1, RunStatuses DEF Ending
    <3>3. run' \in Dispatchable => run \in Dispatchable
      BY <3>1
    <3>4. run' \notin {"completed", "cancelled"}
      BY <3>2, RunStatuses DEF RunEnded
    <3>5. QED
      BY <2>2, <2>4, <3>2, <3>3, <3>4 DEF OutcomeRows, StopsStand
  <2>5. QED
    BY <2>3, <2>4
<1>4. CASE CallsOff
  BY <1>4, RunStatuses DEF CallsOff, OutcomeRows, StopsStand, Ending
<1>5. CASE GivesUp
  <2>1. run \in Ending /\ run' = run /\ run \notin Dispatchable
    BY <1>5, RunStatuses DEF GivesUp, Ending
  <2>2. StandsAt(node', "failed") <=> StandsAt(node, "failed")
    BY <1>5, GivenUpStand
  <2>3. StopsStand
    BY <2>1, <2>2 DEF StopsStand
  <2>4. run' = "completed" => ~StandsAt(node', "cancelled")
    <3> SUFFICES ASSUME run = "completed" PROVE ~StandsAt(node', "cancelled")
      BY <2>1
    <3>1. ~StandsAt(node, "pending") /\ ~StandsAt(node, "cancelled")
      BY DEF OutcomeRows
    <3>2. /\ \A r \in NodeRuns : node'[r] = node[r]
          /\ \A q \in NodeRuns : Newest(node', q) <=> Newest(node, q)
      BY <1>5, <3>1, GivenUpStand
    <3>3. QED
      BY <3>1, <3>2 DEF StandsAt
  <2>5. OutcomeRows'
    BY <1>5, <2>1, <2>2, <2>4, GivenUpStand DEF OutcomeRows
  <2>6. QED
    BY <2>3, <2>5
<1>6. CASE Concludes
  <2>1. UNCHANGED node /\ run \in RunActive /\ DoneIn(node) /\ run' = VerdictIn(node, run)
    BY <1>6 DEF Concludes
  <2>2. run' \in RunEnded /\ run' \notin Dispatchable
    BY <2>1, RunStatuses DEF VerdictIn, RunEnded, Dispatchable
  <2>3. run' \in {"completed", "cancelled"} => ~StandsAt(node, "failed") /\ ~StandsAt(node, "pending")
    BY <2>1 DEF VerdictIn, DoneIn
  <2>4. run' = "completed" => ~StandsAt(node, "cancelled")
    <3> SUFFICES ASSUME run' = "completed" PROVE ~StandsAt(node, "cancelled")
      OBVIOUS
    <3>1. ~StandsAt(node, "failed") /\ run /= "cancelling"
      BY <2>1 DEF VerdictIn
    <3>2. run \in Dispatchable
      BY <2>1, <3>1 DEF RunActive
    <3>3. QED
      BY <3>1, <3>2 DEF OutcomeRows
  <2>5. QED
    BY <2>1, <2>2, <2>3, <2>4 DEF OutcomeRows, StopsStand, Ending
<1>7. QED
  BY <1>1, <1>2, <1>3, <1>4, <1>5, <1>6 DEF Alters

\* Where an attempt follows another, that one is not the last of its node.
LEMMA FollowsStand ==
  ASSUME NEW P, Follows(P)
  PROVE  /\ \A q \in NodeRuns : node'[q] = node[q] \/ Adds(q)
         /\ \A p \in P : Following(p) \in NodeRuns /\ Adds(Following(p)) /\ ~Newest(node', p)
<1>1. \A q \in NodeRuns : node'[q] = node[q] \/ Adds(q)
  BY DEF Follows
<1>2. ASSUME NEW p \in P
      PROVE  Following(p) \in NodeRuns /\ Adds(Following(p)) /\ ~Newest(node', p)
  <2>1. p \in NodeRuns /\ HasRoom(p)
    BY DEF Follows
  <2>2. Following(p) \in NodeRuns
    BY <2>1, FollowingExists
  <2>3. Adds(Following(p))
    BY <2>2 DEF Follows
  <2>4. node'[Following(p)] /= "absent"
    BY <2>3 DEF Adds
  <2>5. QED
    BY <2>1, <2>2, <2>3, <2>4, FollowedIsOld
<1>3. QED
  BY <1>1, <1>2

LEMMA RetriesKeep ==
  ASSUME Requeues \/ Resumes PROVE OutcomeRows'
<1>1. CASE Requeues
  BY <1>1 DEF Requeues, OutcomeRows, Dispatchable
<1>2. CASE Resumes
  <2> DEFINE P == FailedNow(node) \cup StoppedNow(node)
  <2>1. run' = "running" /\ Follows(P)
    BY <1>2 DEF Resumes
  <2> HIDE DEF P
  <2>2. ~StandsAt(node', "cancelled")
    <3> SUFFICES ASSUME NEW r \in NodeRuns, node'[r] = "cancelled", Newest(node', r) PROVE FALSE
      BY DEF StandsAt
    <3>1. node[r] = "cancelled" /\ Newest(node, r)
      BY <2>1, FollowsStand, AddedStand DEF Adds
    <3>2. r \in P
      BY <3>1 DEF P, StoppedNow
    <3>3. QED
      BY <2>1, <3>2, FollowsStand
  <2>3. QED
    BY <2>1, <2>2 DEF OutcomeRows
<1>3. QED
  BY <1>1, <1>2

LEMMA FailFastInit == Init => FailFastInv
<1> SUFFICES ASSUME Init PROVE FailFastInv
  OBVIOUS
<1>1. PICK a \in Actors : exec = [b \in Actors |-> IF b = a THEN [IdleExec EXCEPT !.todo = ScheduleReadyNodes]
                                                   ELSE IdleExec]
  BY DEF Init
<1>2. /\ run = "running"
      /\ \A r \in NodeRuns : node[r] \in {"pending", "absent"}
      /\ \A r \in NodeRuns : agent[r] = NoAgent
  BY DEF Init
<1>3. IdleExec.todo = <<>> /\ [IdleExec EXCEPT !.todo = ScheduleReadyNodes].todo = ScheduleReadyNodes
  BY DEF IdleExec
<1>4. \A b \in Actors : exec[b].todo = <<>> \/ exec[b].todo = ScheduleReadyNodes
  BY <1>1, <1>3
<1>5. ASSUME NEW b \in Actors
      PROVE  /\ Todo(exec[b]) \cap (Stops \cup {"cancelPending"}) = {}
             /\ \A p \in Decisive : ~Begins(exec[b], p)
  <2>1. CASE exec[b].todo = <<>>
    BY <2>1 DEF Todo, Begins
  <2>2. CASE exec[b].todo = ScheduleReadyNodes
    BY <2>2 DEF Todo, Begins, ScheduleReadyNodes, Stops, Decisive
  <2>3. QED
    BY <1>4, <2>1, <2>2
<1>6. \A b \in Actors : WritesTruth(exec[b], run, byHand, node) /\ HasReason(exec[b], byHand, node)
  BY <1>5 DEF WritesTruth, HasReason, Decisive
<1>7. ~StandsAt(node, "cancelled")
  BY <1>2 DEF StandsAt
<1>8. FailFastRows
  BY <1>2, <1>7 DEF FailFastRows, NoAgent, RunEnded
<1>9. QED
  BY <1>6, <1>8 DEF FailFastInv

LEMMA OutcomeInit == Init => OutcomeInv
<1> SUFFICES ASSUME Init PROVE OutcomeInv
  OBVIOUS
<1>1. PICK a \in Actors : exec = [b \in Actors |-> IF b = a THEN [IdleExec EXCEPT !.todo = ScheduleReadyNodes]
                                                   ELSE IdleExec]
  BY DEF Init
<1>2. run = "running" /\ \A r \in NodeRuns : node[r] \in {"pending", "absent"}
  BY DEF Init
<1>3. IdleExec.todo = <<>> /\ [IdleExec EXCEPT !.todo = ScheduleReadyNodes].todo = ScheduleReadyNodes
  BY DEF IdleExec
<1>4. \A b \in Actors : exec[b].todo = <<>> \/ exec[b].todo = ScheduleReadyNodes
  BY <1>1, <1>3
<1>5. ASSUME NEW b \in Actors
      PROVE  /\ Todo(exec[b]) \cap (Stops \cup Redo \cup {"cancelPending"}) = {}
             /\ ~Begins(exec[b], "finalize")
  <2>1. CASE exec[b].todo = <<>>
    BY <2>1 DEF Todo, Begins
  <2>2. CASE exec[b].todo = ScheduleReadyNodes
    BY <2>2 DEF Todo, Begins, ScheduleReadyNodes, Stops, Redo, Retries
  <2>3. QED
    BY <1>4, <2>1, <2>2
<1>6. \A b \in Actors : ActsSoundly(exec[b], run, node)
  BY <1>5 DEF ActsSoundly, RetriesAlone
<1>7. OutcomeRows
  BY <1>2 DEF OutcomeRows, StandsAt
<1>8. QED
  BY <1>6, <1>7 DEF OutcomeInv

\* What handler x is about to write is true, and so is its reason, after a step
\* of another kind than its own: agents end, and people stop them.
LEMMA AgentsGoOn ==
  ASSUME EngineInv, FailFastInv, NEW r \in NodeRuns, AgentEnds(r) \/ JobDies(r) \/ PersonStops(r)
  PROVE  FailFastInv'
<1>1. UNCHANGED <<run, node, exec>> /\ FailFastRows /\ (byHand => byHand')
  BY DEF AgentEnds, JobDies, PersonStops, FailFastInv
<1>2. agent \in [NodeRuns -> AgentRow] /\ WorkIsTied
  BY DEF EngineInv, RowsOK, RowsTyped, AgentRow
<1>3. \A q \in NodeRuns :
          /\ agent'[q].status = "stopped" => agent'[q].signalled
          /\ \/ agent'[q].signalled = agent[q].signalled
             \/ node[q] \notin {"absent", "pending"} /\ Failing(node, byHand')
  <2>1. CASE AgentEnds(r)
    <3>1. PICK s \in AgentEnded : agent' = [agent EXCEPT ![r].status = s] /\ (s = "stopped" => agent[r].signalled)
      BY <2>1 DEF AgentEnds, AgentEnded
    <3>2. QED
      BY <1>1, <1>2, <3>1 DEF AgentRow, FailFastRows
  <2>2. CASE JobDies(r)
    BY <1>1, <1>2, <2>2 DEF JobDies, AgentRow, FailFastRows
  <2>3. CASE PersonStops(r)
    <3>1. agent' = [agent EXCEPT ![r].signalled = TRUE] /\ byHand' /\ node[r] = "running"
      BY <1>2, <2>3 DEF PersonStops, WorkIsTied
    <3>2. QED
      BY <1>1, <1>2, <3>1 DEF AgentRow, FailFastRows, Failing
  <2>4. QED
    BY <2>1, <2>2, <2>3
<1>4. RunGoesOn
  BY <1>1 DEF RunGoesOn
<1>5. FailFastRows'
  BY <1>1, <1>3, <1>4, StillRows
<1>6. ASSUME NEW a \in Actors
      PROVE  WritesTruth(exec'[a], run', byHand', node') /\ HasReason(exec'[a], byHand', node')
  <2>1. WritesTruth(exec[a], run, byHand, node) /\ HasReason(exec[a], byHand, node)
    BY DEF FailFastInv
  <2>2. QED
    BY <1>1, <2>1 DEF WritesTruth, HasReason, Failing
<1>7. QED
  BY <1>5, <1>6 DEF FailFastInv

\* A handler that is to retry has nothing else to do, and so nobody to stop.
LEMMA OnlyRetries ==
  ASSUME NEW a \in Actors, RetriesAlone(exec[a]), Retrying(a)
  PROVE  Todo(exec[a]) \cap Stops = {} /\ "cancelPending" \notin Todo(exec[a])
<1>1. PICK p \in Redo : p \in Todo(exec[a])
  BY DEF Retrying
<1>2. exec[a].todo = <<p>>
  BY <1>1 DEF RetriesAlone
<1>3. Todo(exec[a]) = {p}
  BY <1>2 DEF Todo
<1>4. QED
  BY <1>1, <1>3 DEF Redo, Retries, Stops

\* Only a retry starts anything again in a run that is over.
LEMMA OverLasts ==
  ASSUME EngineInv, NEW a \in Actors, Alters(a), Over(node)
  PROVE  Over(node') /\ (StandsAt(node', "failed") <=> StandsAt(node, "failed"))
<1>1. AtRest(node) /\ (StandsAt(node, "failed") \/ \A r \in NodeRuns : node[r] /= "pending")
  BY DEF Over
<1>2. ASSUME UNCHANGED node PROVE Over(node') /\ (StandsAt(node', "failed") <=> StandsAt(node, "failed"))
  BY <1>2
<1>3. ~TakesUp
  BY <1>1 DEF TakesUp
<1>4. ~GetsDone
  BY <1>1 DEF GetsDone, AtRest
<1>5. CASE GivesUp
  <2>1. \A r \in NodeRuns : node'[r] = IF node[r] = "pending" THEN "cancelled" ELSE node[r]
    BY <1>5 DEF GivesUp
  <2>2. AtRest(node') /\ \A r \in NodeRuns : node'[r] /= "pending"
    BY <1>1, <2>1 DEF AtRest, NodeActive
  <2>3. StandsAt(node', "failed") <=> StandsAt(node, "failed")
    BY <1>5, GivenUpStand
  <2>4. QED
    BY <2>2, <2>3 DEF Over
<1>6. QED
  BY <1>2, <1>3, <1>4, <1>5 DEF Alters, Quiet, CallsOff, Concludes

\* What a handler does next it has just read, or it goes on as it was told.
LEMMA NextTask ==
  ASSUME EngineInv, FailFastInv, OutcomeInv, SummariesUndisturbed, NEW a \in Actors,
         Step(a) \/ Request(a) \/ Crash(a), RowsGoOn(a),
         NEW y, NewTask(exec[a], y), NewStops(exec[a], y)
  PROVE  WritesTruth(y, run', byHand', node') /\ HasReason(y, byHand', node')
<1> DEFINE x == exec[a]
<1>1. /\ HasReason(x, byHand, node) /\ FailFastRows /\ RowsOK /\ RetriesAlone(x)
      /\ Begins(x, "resync") => run \in Dispatchable
  BY DEF FailFastInv, EngineInv, OutcomeInv, ActsSoundly, SummariesUndisturbed
<1>2. Begins(y, "finalize") =>
          /\ y.seen \in RunActive /\ y.want \in RunEnded /\ Over(node')
          /\ y.want = "cancelled" => byHand'
  BY <1>1, DoneIsOver DEF NewTask, FailFastRows, rows
<1>3. Begins(y, "setState") => y.seen \in Dispatchable /\ y.want \in Dispatchable
  BY <1>1 DEF NewTask
<1>4. Begins(y, "replace") \/ Begins(y, "queueRetry") =>
          run' = "failed" /\ y.plan = StoppedNow(node') /\ Todo(y) \subseteq Retries
  BY DEF NewTask, rows
<1>5. run' = "cancelling" => byHand'
  BY DEF RowsGoOn, FailFastRows
<1>6. Retrying(a) => Todo(x) \cap Stops = {}
  BY <1>1, OnlyRetries
<1>7. Todo(y) \cap Stops /= {} => Failing(node', byHand')
  BY <1>1, <1>5, <1>6 DEF NewStops, HasReason, RowsGoOn, Failing
<1>8. "cancelPending" \in Todo(y) => byHand'
  BY <1>1, <1>5 DEF NewStops, HasReason, RowsGoOn
<1>9. QED
  BY <1>2, <1>3, <1>4, <1>7, <1>8 DEF WritesTruth, HasReason

LEMMA NextActs ==
  ASSUME EngineInv, FailFastInv, OutcomeInv, NEW a \in Actors, Alters(a) \/ (Retrying(a) /\ (Requeues \/ Resumes)),
         NEW y, NewTask(exec[a], y), NewStops(exec[a], y)
  PROVE  ActsSoundly(y, run', node')
<1> DEFINE x == exec[a]
<1>1. OutcomeRows /\ FailFastRows /\ ActsSoundly(x, run, node) /\ RowsOK
  BY DEF OutcomeInv, FailFastInv, EngineInv
<1>2. StopsStand \/ (Todo(x) \cap Stops = {} /\ "cancelPending" \notin Todo(x))
  <2>1. CASE Alters(a)
    BY <1>1, <2>1, AltersKeeps
  <2>2. CASE Retrying(a)
    BY <1>1, <2>2, OnlyRetries DEF ActsSoundly
  <2>3. QED
    BY <2>1, <2>2
<1>3. Begins(y, "finalize") => y.want = VerdictIn(node', y.seen)
  BY <1>1, VerdictNow DEF NewTask, rows
<1>4. Todo(y) \cap Stops /= {} => StandsAt(node', "failed") \/ run' \in Ending
  BY <1>1, <1>2 DEF NewStops, ActsSoundly, StopsStand, Ending
<1>5. "cancelPending" \in Todo(y) => run' \in Ending
  BY <1>1, <1>2 DEF NewStops, ActsSoundly, StopsStand, Ending
<1>6. RetriesAlone(y)
  BY <1>1 DEF NewStops, ActsSoundly
<1>7. QED
  BY <1>3, <1>4, <1>5, <1>6 DEF ActsSoundly

\* What another handler is still to do stays right, when this one retries because
\* the other is to carry out nothing, and when it does not because nothing that
\* was decided is undone.
LEMMA OthersSound ==
  ASSUME EngineInv, FailFastInv, OutcomeInv, RetriesUndisturbed,
         NEW a \in Actors, NEW b \in Actors, a /= b, RowsGoOn(a),
         Alters(a) \/ (Retrying(a) /\ (Requeues \/ Resumes))
  PROVE  /\ WritesTruth(exec[b], run', byHand', node') /\ HasReason(exec[b], byHand', node')
         /\ ActsSoundly(exec[b], run', node')
<1> DEFINE x == exec[b]
<1>1. /\ WritesTruth(x, run, byHand, node) /\ HasReason(x, byHand, node) /\ ActsSoundly(x, run, node)
      /\ FailFastRows /\ OutcomeRows
  BY DEF FailFastInv, OutcomeInv
<1>2. \A p : Begins(x, p) => p \in Todo(x)
  <2>1. x.todo \in Seq(Routines)
    BY DEF EngineInv, Exec
  <2> HIDE DEF x
  <2>2. QED
    BY <2>1 DEF Begins, Todo
<1>3. CASE Retrying(a)
  <2>1. Todo(x) \cap Decided = {}
    BY <1>3 DEF RetriesUndisturbed
  <2>2. /\ Todo(x) \cap Stops = {} /\ "cancelPending" \notin Todo(x)
        /\ \A p \in Decisive : ~Begins(x, p)
    BY <1>2, <2>1 DEF Decided
  <2> HIDE DEF x
  <2>3. WritesTruth(x, run', byHand', node')
    BY <2>2 DEF WritesTruth, Decisive
  <2>4. HasReason(x, byHand', node')
    BY <2>2 DEF HasReason
  <2>5. RetriesAlone(x)
    BY <1>1 DEF ActsSoundly
  <2>6. ActsSoundly(x, run', node')
    BY <2>2, <2>5 DEF ActsSoundly, Decisive
  <2>7. QED
    BY <2>3, <2>4, <2>6 DEF x
<1>4. CASE ~Retrying(a)
  <2>1. Alters(a)
    BY <1>4
  <2>2. /\ byHand => byHand'
        /\ Failing(node, byHand) => Failing(node', byHand')
    BY <1>4 DEF RowsGoOn
  <2>3. StopsStand
    BY <1>1, <2>1, AltersKeeps
  <2>4. HasReason(x, byHand', node')
    BY <1>1, <2>2 DEF HasReason
  <2>5. Over(node) => Over(node') /\ (StandsAt(node', "failed") <=> StandsAt(node, "failed"))
    BY <2>1, OverLasts
  <2>6. Begins(x, "finalize") => Over(node)
    BY <1>1 DEF WritesTruth
  <2>7. ASSUME Begins(x, "replace") \/ Begins(x, "queueRetry")
        PROVE  run' = "failed" /\ x.plan = StoppedNow(node') /\ Todo(x) \subseteq Retries
    <3>1. run = "failed" /\ x.plan = StoppedNow(node) /\ Todo(x) \subseteq Retries
      BY <1>1, <2>7 DEF WritesTruth
    <3>2. Retrying(b)
      BY <1>2, <2>7 DEF Retrying, Redo, Retries
    <3>3. "cancelPending" \notin Todo(exec[a])
      BY <3>2 DEF RetriesUndisturbed, Decided
    <3>4. Quiet
      BY <2>1, <3>1, <3>3, RunStatuses DEF Alters, TakesUp, GetsDone, CallsOff, Concludes, RunEnded
    <3>5. UNCHANGED <<run, node>>
      BY <3>1, <3>4, RunStatuses DEF Quiet, SameRun, RunEnded
    <3>6. QED
      BY <3>1, <3>5
  <2> HIDE DEF x
  <2>8. WritesTruth(x, run', byHand', node')
    BY <1>1, <2>2, <2>5, <2>6, <2>7 DEF WritesTruth
  <2>9. Begins(x, "finalize") => x.want = VerdictIn(node', x.seen)
    BY <1>1, <2>5, <2>6 DEF ActsSoundly, VerdictIn
  <2>10. ActsSoundly(x, run', node')
    BY <1>1, <2>3, <2>9 DEF ActsSoundly, StopsStand
  <2>11. QED
    BY <2>4, <2>8, <2>10 DEF x
<1>5. QED
  BY <1>3, <1>4

\* A step of any handler.
LEMMA HandlersSound ==
  ASSUME EngineInv, FailFastInv, OutcomeInv, Undisturbed, NEW a \in Actors, Step(a) \/ Request(a) \/ Crash(a)
  PROVE  FailFastInv' /\ OutcomeInv'
<1>1. RowsGoOn(a)
  BY StepGoesOn
<1>2. Alters(a) \/ (Retrying(a) /\ (Requeues \/ Resumes))
  BY StepAlters
<1>3. PICK y : exec' = [exec EXCEPT ![a] = y] /\ NewTask(exec[a], y) /\ NewStops(exec[a], y)
  BY StepProceeds DEF Proceeds
<1>4. exec'[a] = y /\ \A b \in Actors \ {a} : exec'[b] = exec[b]
  BY <1>3 DEF EngineInv
<1>5. RetriesUndisturbed /\ SummariesUndisturbed
  BY DEF Undisturbed
<1>6. WritesTruth(y, run', byHand', node') /\ HasReason(y, byHand', node')
  BY <1>1, <1>3, <1>5, NextTask
<1>7. ActsSoundly(y, run', node')
  BY <1>2, <1>3, NextActs
<1>8. ASSUME NEW b \in Actors
      PROVE  /\ WritesTruth(exec'[b], run', byHand', node') /\ HasReason(exec'[b], byHand', node')
             /\ ActsSoundly(exec'[b], run', node')
  <2>1. CASE b = a
    BY <1>4, <1>6, <1>7, <2>1
  <2>2. CASE b /= a
    <3>1. /\ WritesTruth(exec[b], run', byHand', node') /\ HasReason(exec[b], byHand', node')
          /\ ActsSoundly(exec[b], run', node')
      BY <1>1, <1>2, <1>5, <2>2, OthersSound
    <3>2. QED
      BY <1>4, <2>2, <3>1
  <2>3. QED
    BY <2>1, <2>2
<1>9. FailFastRows'
  BY <1>1 DEF RowsGoOn
<1>10. OutcomeRows'
  BY <1>2, AltersKeeps, RetriesKeep DEF FailFastInv, OutcomeInv
<1>11. QED
  BY <1>8, <1>9, <1>10 DEF FailFastInv, OutcomeInv

LEMMA SoundNext ==
  ASSUME EngineInv, FailFastInv, OutcomeInv, Undisturbed, [Next]_vars PROVE FailFastInv' /\ OutcomeInv'
<1>1. CASE UNCHANGED vars
  <2>1. FailFastInv'
    BY <1>1 DEF vars, FailFastInv, FailFastRows, WritesTruth, HasReason, AtRest, Over, StoppedNow,
                StandsAt, Newest, Failing
  <2>2. OutcomeInv'
    BY <1>1 DEF vars, OutcomeInv, OutcomeRows, ActsSoundly
  <2>3. QED
    BY <2>1, <2>2
<1>2. ASSUME NEW r \in NodeRuns, AgentEnds(r) \/ JobDies(r) \/ PersonStops(r) PROVE FailFastInv' /\ OutcomeInv'
  <2>1. FailFastInv'
    BY <1>2, AgentsGoOn
  <2>2. UNCHANGED <<run, node, exec>>
    BY <1>2 DEF AgentEnds, JobDies, PersonStops
  <2>3. OutcomeInv'
    BY <2>2 DEF OutcomeInv, OutcomeRows, ActsSoundly
  <2>4. QED
    BY <2>1, <2>3
<1>3. QED
  BY <1>1, <1>2, HandlersSound DEF Next

SoundInv == EngineInv /\ FailFastInv /\ OutcomeInv

LEMMA SoundHolds == Spec /\ []Undisturbed => []SoundInv
<1>1. Init => SoundInv
  BY InitKeeps, FailFastInit, OutcomeInit DEF SoundInv
<1>2. SoundInv /\ Undisturbed /\ [Next]_vars => SoundInv'
  BY NextKeeps, SoundNext DEF SoundInv
<1>3. QED
  BY <1>1, <1>2, PTL DEF Spec

-----------------------------------------------------------------------------
(***************************************************************************)
(* The refinement, retries included                                        *)
(***************************************************************************)
\* The abstract nodes show the last attempt of each node.
Shows ==
    /\ LifecycleNode = [n \in Nodes |-> LifecycleNode[n]]
    /\ \A r \in NodeRuns : node[r] /= "absent" /\ Newest(node, r) => LifecycleNode[r[1]] = Shown(node[r])
    /\ \A n \in Nodes : \E r \in NodeRuns : r[1] = n /\ node[r] /= "absent" /\ Newest(node, r)

LEMMA ShowsHolds == RowsOK => Shows
<1> SUFFICES ASSUME RowsOK PROVE Shows
  OBVIOUS
<1>1. LifecycleNode = [n \in Nodes |-> Shown(Current(n))]
  BY DEF LifecycleNode, Shown
<1>2. ASSUME NEW r \in NodeRuns, node[r] /= "absent", Newest(node, r)
      PROVE  LifecycleNode[r[1]] = Shown(node[r])
  <2>1. r = Latest(r[1]) /\ r[1] \in Nodes
    BY <1>2, NewestIsLatest, NodeRunParts
  <2>2. Current(r[1]) = node[r]
    BY <2>1 DEF Current
  <2>3. QED
    BY <1>1, <2>1, <2>2
<1>3. ASSUME NEW n \in Nodes
      PROVE  \E r \in NodeRuns : r[1] = n /\ node[r] /= "absent" /\ Newest(node, r)
  <2>1. Latest(n) \in NodeRuns /\ Latest(n)[1] = n /\ node[Latest(n)] /= "absent"
    BY LatestExists DEF RowsOK, AttemptsInOrder
  <2>2. Newest(node, Latest(n))
    BY <2>1, NewestIsLatest
  <2>3. QED
    BY <2>1, <2>2
<1>4. QED
  BY <1>1, <1>2, <1>3 DEF Shows

LEMMA ShowsNext == (RowsOK => Shows)'
BY ShowsHolds, PTL

\* What is seen of the rows from outside.
LEMMA ShownRows ==
  ASSUME RowsOK, Shows
  PROVE  /\ Resumable!SomeFailed <=> StandsAt(node, "failed")
         /\ AtRest(node) => Resumable!Drained
         /\ AtRest(node) /\ ~StandsAt(node, "pending") =>
                \A n \in Nodes : LifecycleNode[n] \in Resumable!NodeEnded
         /\ \A m \in Nodes : CompletedIn(node, m) => LifecycleNode[m] = "completed"
<1>1. \A r \in NodeRuns : node[r] \in {"absent", "pending"} \cup NodeActive \cup NodeEnded
  BY DEF RowsOK, RowsTyped
<1>2. \A n \in Nodes : \E r \in NodeRuns :
          r[1] = n /\ node[r] /= "absent" /\ Newest(node, r) /\ LifecycleNode[n] = Shown(node[r])
  BY DEF Shows
<1>3. Resumable!SomeFailed => StandsAt(node, "failed")
  BY <1>2 DEF Resumable!SomeFailed, StandsAt, Shown
<1>4. ASSUME StandsAt(node, "failed") PROVE Resumable!SomeFailed
  <2>1. PICK r \in NodeRuns : node[r] = "failed" /\ Newest(node, r)
    BY <1>4 DEF StandsAt
  <2>2. LifecycleNode[r[1]] = "failed" /\ r[1] \in Nodes
    BY <2>1, NodeRunParts DEF Shows, Shown, NodeActive
  <2>3. QED
    BY <2>2 DEF Resumable!SomeFailed
<1>5. AtRest(node) => Resumable!Drained
  BY <1>1, <1>2 DEF AtRest, Resumable!Drained, Shown, NodeEnded
<1>6. ASSUME AtRest(node), ~StandsAt(node, "pending"), NEW n \in Nodes
      PROVE  LifecycleNode[n] \in Resumable!NodeEnded
  <2>1. PICK r \in NodeRuns : node[r] /= "absent" /\ Newest(node, r) /\ LifecycleNode[n] = Shown(node[r])
    BY <1>2
  <2>2. node[r] \notin NodeActive /\ node[r] /= "pending"
    BY <1>6, <2>1 DEF AtRest, StandsAt
  <2>3. node[r] \in NodeEnded
    BY <1>1, <2>1, <2>2
  <2>4. QED
    BY <2>1, <2>2, <2>3 DEF Shown, NodeEnded, Resumable!NodeEnded
<1>7. ASSUME NEW m \in Nodes, CompletedIn(node, m) PROVE LifecycleNode[m] = "completed"
  <2>1. PICK i \in Iterations : node[<<m, i>>] = "completed"
    BY <1>7 DEF CompletedIn
  <2>2. <<m, i>> \in NodeRuns
    BY DEF NodeRuns, Iterations
  <2>3. Newest(node, <<m, i>>)
    BY <2>1, <2>2, StandingNow
  <2>4. LifecycleNode[<<m, i>>[1]] = Shown("completed")
    BY <2>1, <2>2, <2>3 DEF Shows
  <2>5. QED
    BY <2>4 DEF Shown, NodeActive
<1>8. QED
  BY <1>3, <1>4, <1>5, <1>6, <1>7

LEMMA SameShown ==
  ASSUME Shows, Shows', UNCHANGED node PROVE LifecycleNode' = LifecycleNode
<1>1. ASSUME NEW n \in Nodes PROVE LifecycleNode'[n] = LifecycleNode[n]
  <2>1. PICK r \in NodeRuns : r[1] = n /\ node[r] /= "absent" /\ Newest(node, r)
    BY DEF Shows
  <2>2. LifecycleNode[n] = Shown(node[r]) /\ LifecycleNode'[n] = Shown(node[r])
    BY <2>1 DEF Shows
  <2>3. QED
    BY <2>2
<1>2. QED
  BY <1>1 DEF Shows

\* One attempt goes on: one abstract node does.
LEMMA TurnShown ==
  ASSUME EngineInv, Shows, Shows', NEW r \in NodeRuns, NEW s, Turns(r, s)
  PROVE  /\ r[1] \in Nodes /\ LifecycleNode[r[1]] = Shown(node[r]) /\ LifecycleNode'[r[1]] = Shown(s)
         /\ LifecycleNode' = [LifecycleNode EXCEPT ![r[1]] = Shown(s)]
<1>1. /\ node'[r] = s /\ \A q \in NodeRuns \ {r} : node'[q] = node[q]
      /\ \A q \in NodeRuns : Newest(node', q) <=> Newest(node, q)
  BY TurnsStand
<1>2. Newest(node, r) /\ node[r] /= "absent" /\ s /= "absent"
  BY StandingNow DEF EngineInv, Turns, NodeActive, NodeEnded
<1>3. r[1] \in Nodes /\ LifecycleNode[r[1]] = Shown(node[r]) /\ LifecycleNode'[r[1]] = Shown(s)
  BY <1>1, <1>2, NodeRunParts DEF Shows
<1>4. ASSUME NEW n \in Nodes \ {r[1]} PROVE LifecycleNode'[n] = LifecycleNode[n]
  <2>1. PICK q \in NodeRuns : q[1] = n /\ node[q] /= "absent" /\ Newest(node, q)
    BY DEF Shows
  <2>2. q \in NodeRuns \ {r}
    BY <2>1
  <2>3. LifecycleNode[n] = Shown(node[q]) /\ LifecycleNode'[n] = Shown(node[q])
    BY <1>1, <2>1, <2>2 DEF Shows
  <2>4. QED
    BY <2>3
<1> DEFINE k == r[1]
<1> HIDE DEF k
<1>5. LifecycleNode' = [LifecycleNode EXCEPT ![k] = Shown(s)]
  <2>1. /\ k \in Nodes /\ LifecycleNode'[k] = Shown(s)
        /\ \A n \in Nodes \ {k} : LifecycleNode'[n] = LifecycleNode[n]
    BY <1>3, <1>4 DEF k
  <2>2. /\ LifecycleNode = [n \in Nodes |-> LifecycleNode[n]]
        /\ LifecycleNode' = [n \in Nodes |-> LifecycleNode'[n]]
    BY DEF Shows
  <2>3. QED
    BY <2>1, <2>2
<1>6. QED
  BY <1>3, <1>5 DEF k

\* Attempts are followed by others: their nodes show these, and no other changes.
LEMMA FollowShown ==
  ASSUME EngineInv, Shows, Shows', NEW P, Follows(P)
  PROVE  /\ \A p \in P : /\ p[1] \in Nodes /\ LifecycleNode[p[1]] = node[p]
                         /\ LifecycleNode'[p[1]] = Shown(node'[Following(p)])
         /\ \A n \in Nodes : (\A p \in P : p[1] /= n) => LifecycleNode'[n] = LifecycleNode[n]
<1>1. \A p \in P : p \in NodeRuns /\ Newest(node, p) /\ HasRoom(p) /\ node[p] \in {"failed", "cancelled"}
  BY DEF Follows
<1>2. ASSUME NEW p \in P
      PROVE  /\ p[1] \in Nodes /\ LifecycleNode[p[1]] = node[p]
             /\ LifecycleNode'[p[1]] = Shown(node'[Following(p)])
  <2>1. p[1] \in Nodes /\ LifecycleNode[p[1]] = node[p]
    <3>1. LifecycleNode[p[1]] = Shown(node[p])
      BY <1>1 DEF Shows
    <3>2. QED
      BY <1>1, <3>1, NodeRunParts DEF Shown, NodeActive
  <2> DEFINE f == Following(p)
  <2>2. /\ f \in NodeRuns /\ f[1] = p[1] /\ f = <<p[1], p[2] + 1>> /\ p[2] \in Iterations
        /\ p = <<p[1], p[2]>>
    BY <1>1, FollowingExists
  <2>3. node'[f] /= "absent"
    BY FollowsStand DEF Adds
  <2>4. Newest(node', f)
    <3> SUFFICES ASSUME NEW j \in Iterations, j > f[2], node'[<<f[1], j>>] /= "absent" PROVE FALSE
      BY DEF Newest
    <3> DEFINE q == <<p[1], j>>
    <3>1. q \in NodeRuns /\ j > p[2] + 1
      BY <2>1, <2>2 DEF NodeRuns, Iterations
    <3>2. node[q] = "absent"
      BY <1>1, <2>2, <3>1 DEF Newest, Iterations
    <3>3. PICK o \in P : q = Following(o)
      BY <2>2, <3>1, <3>2 DEF Follows
    <3>4. q = <<o[1], o[2] + 1>> /\ o[2] \in Iterations /\ o[1] = p[1] /\ o[2] + 1 = j
      BY <1>1, <3>3, FollowingExists
    <3>5. o = Latest(o[1]) /\ p = Latest(p[1])
      BY <1>1, NewestIsLatest DEF EngineInv
    <3>6. o = p
      BY <3>4, <3>5
    <3>7. QED
      BY <2>2, <3>1, <3>4, <3>6 DEF Iterations
  <2>5. LifecycleNode'[f[1]] = Shown(node'[f])
    BY <2>2, <2>3, <2>4 DEF Shows
  <2>6. QED
    BY <2>1, <2>2, <2>5
<1>3. ASSUME NEW n \in Nodes, \A p \in P : p[1] /= n PROVE LifecycleNode'[n] = LifecycleNode[n]
  <2>1. PICK q \in NodeRuns : q[1] = n /\ node[q] /= "absent" /\ Newest(node, q)
    BY DEF Shows
  <2>2. \A o \in NodeRuns : o[1] = n => node'[o] = node[o]
    <3> SUFFICES ASSUME NEW o \in NodeRuns, o[1] = n PROVE node'[o] = node[o]
      OBVIOUS
    <3>1. \A p \in P : Following(p)[1] = p[1]
      BY <1>1, FollowingExists
    <3>2. ~\E p \in P : o = Following(p)
      BY <1>3, <3>1
    <3>3. QED
      BY <3>2 DEF Follows
  <2>3. \A j \in Iterations : <<q[1], j>> \in NodeRuns /\ <<q[1], j>>[1] = n
    BY <2>1 DEF NodeRuns, Iterations
  <2>4. Newest(node', q) /\ node'[q] = node[q]
    BY <2>1, <2>2, <2>3 DEF Newest
  <2>5. LifecycleNode[n] = Shown(node[q]) /\ LifecycleNode'[n] = Shown(node[q])
    BY <2>1, <2>4 DEF Shows
  <2>6. QED
    BY <2>5
<1>4. QED
  BY <1>2, <1>3

\* What the run shows of its status.
LEMMA RunShown ==
  ASSUME EngineInv
  PROVE  /\ run \in Dispatchable => LifecycleRun = "active"
         /\ run \notin Dispatchable => LifecycleRun = run /\ run /= "active"
         /\ run \in RunActive => LifecycleRun \in {"active", "cancelling"}
         /\ LifecycleRun = "cancelling" <=> run = "cancelling"
BY DEF LifecycleRun, Dispatchable, RunActive, RunEnded, EngineInv, RowsOK, RowsTyped, Runs

LEMMA SameRunShown == ASSUME SameRun PROVE LifecycleRun' = LifecycleRun
BY DEF SameRun, LifecycleRun

LEMMA TakesUpRefines ==
  ASSUME EngineInv, Shows, Shows', TakesUp PROVE Resumable!Step
<1>1. PICK r \in NodeRuns, s \in {"running", "waiting", "completed", "failed"} :
          /\ node[r] = "pending" /\ Turns(r, s) /\ \A m \in Sources(r[1]) : CompletedIn(node, m)
          /\ run \in Dispatchable /\ run' = run /\ ~StandsAt(node, "failed")
  BY DEF TakesUp
<1> DEFINE n == r[1]
<1>2. /\ n \in Nodes /\ LifecycleNode[n] = "idle"
      /\ LifecycleNode'[n] = Shown(s) /\ LifecycleNode' = [LifecycleNode EXCEPT ![n] = Shown(s)]
  BY <1>1, TurnShown DEF Shown
<1>3. \A m \in Nodes : <<m, n>> \in Edges => LifecycleNode[m] = "completed"
  BY <1>1, ShownRows DEF Sources, EngineInv
<1>4. Shown(s) \in {"active", "completed", "failed"}
  BY DEF Shown, NodeActive
<1>5. LifecycleRun = "active" /\ LifecycleRun' = LifecycleRun /\ ~Resumable!SomeFailed
  BY <1>1, ShownRows DEF LifecycleRun, EngineInv
<1> HIDE DEF n
<1>6. Resumable!Start(n)
  BY <1>2, <1>3, <1>4, <1>5 DEF Resumable!Start, Resumable!Ready, Resumable!Moves
<1>7. QED
  BY <1>2, <1>6 DEF Resumable!Step

LEMMA GetsDoneRefines ==
  ASSUME EngineInv, Shows, Shows', GetsDone PROVE Resumable!Step
<1>1. PICK r \in NodeRuns, s \in NodeEnded :
          /\ node[r] \in NodeActive /\ Turns(r, s) /\ run \in RunActive
          /\ IF s = "cancelled" /\ ~StandsAt(node, "failed") THEN run' = "cancelling" ELSE SameRun
  BY DEF GetsDone
<1> DEFINE n == r[1]
<1>2. Shown(s) = s /\ s \in Resumable!NodeEnded /\ Shown(node[r]) = "active"
  BY <1>1 DEF Shown, NodeActive, NodeEnded, Resumable!NodeEnded
<1>3. /\ n \in Nodes /\ LifecycleNode[n] = "active"
      /\ LifecycleNode'[n] = s /\ LifecycleNode' = [LifecycleNode EXCEPT ![n] = s]
  BY <1>1, <1>2, TurnShown
<1>4. LifecycleRun \in {"active", "cancelling"}
  BY <1>1, RunShown
<1>5. LifecycleRun' = IF s = "cancelled" /\ ~Resumable!SomeFailed THEN "cancelling" ELSE LifecycleRun
  <2>1. Resumable!SomeFailed <=> StandsAt(node, "failed")
    BY ShownRows DEF EngineInv
  <2>2. run' = "cancelling" => LifecycleRun' = "cancelling"
    BY DEF LifecycleRun, Dispatchable
  <2>3. QED
    BY <1>1, <2>1, <2>2, SameRunShown
<1> HIDE DEF n
<1>6. Resumable!End(n)
  BY <1>3, <1>2, <1>4, <1>5 DEF Resumable!End, Resumable!Moves
<1>7. QED
  BY <1>3, <1>6 DEF Resumable!Step

LEMMA CallsOffRefines ==
  ASSUME EngineInv, Shows, Shows', CallsOff PROVE Resumable!Step \/ UNCHANGED Resumable!vars
<1>1. LifecycleNode' = LifecycleNode /\ LifecycleRun' = "cancelling"
  BY SameShown DEF CallsOff, LifecycleRun, Dispatchable
<1>2. LifecycleRun \in {"active", "cancelling"}
  BY RunShown DEF CallsOff
<1>3. QED
  BY <1>1, <1>2 DEF Resumable!Step, Resumable!Cancel, Resumable!vars

\* The steps that never started are given up; a run that ended without a failure
\* has none.
LEMMA GivesUpRefines ==
  ASSUME EngineInv, OutcomeRows, Shows, Shows', GivesUp PROVE Resumable!Step \/ UNCHANGED Resumable!vars
<1>1. run \in Ending /\ run' = run /\ \A r \in NodeRuns : node'[r] = IF node[r] = "pending" THEN "cancelled" ELSE node[r]
  BY DEF GivesUp
<1>2. ASSUME NEW n \in Nodes
      PROVE  LifecycleNode'[n] = IF LifecycleNode[n] = "idle" THEN "cancelled" ELSE LifecycleNode[n]
  <2>1. PICK q \in NodeRuns : q[1] = n /\ node[q] /= "absent" /\ Newest(node, q)
    BY DEF Shows
  <2>2. Newest(node', q) /\ node'[q] /= "absent"
    BY <1>1, <2>1, GivenUpStand
  <2>3. LifecycleNode[n] = Shown(node[q]) /\ LifecycleNode'[n] = Shown(node'[q])
    BY <2>1, <2>2 DEF Shows
  <2>4. node[q] \in {"pending"} \cup NodeActive \cup NodeEnded
    BY <2>1 DEF EngineInv, RowsOK, RowsTyped
  <2>5. QED
    BY <1>1, <2>3, <2>4 DEF Shown, NodeActive, NodeEnded
<1>3. LifecycleRun' = LifecycleRun
  BY <1>1 DEF LifecycleRun
<1>4. CASE run \in {"cancelling", "failed"}
  <2>1. LifecycleRun \in {"cancelling", "failed"}
    BY <1>4 DEF LifecycleRun, Dispatchable
  <2> DEFINE S == {n \in Nodes : LifecycleNode[n] = "idle"}
  <2>2. LifecycleNode' = [n \in Nodes |-> LifecycleNode'[n]]
    BY DEF Shows
  <2>3. LifecycleNode' = [n \in Nodes |-> IF n \in S THEN "cancelled" ELSE LifecycleNode[n]]
    BY <1>2, <2>2
  <2>4. Resumable!Skip
    BY <1>3, <2>1, <2>3 DEF Resumable!Skip
  <2>5. QED
    BY <2>4 DEF Resumable!Step
<1>5. CASE run \in {"completed", "cancelled"}
  <2>1. ~StandsAt(node, "pending")
    BY <1>5 DEF OutcomeRows
  <2>2. ASSUME NEW n \in Nodes PROVE LifecycleNode[n] /= "idle"
    <3>1. PICK q \in NodeRuns : node[q] /= "absent" /\ Newest(node, q) /\ LifecycleNode[n] = Shown(node[q])
      BY DEF Shows
    <3>2. node[q] \in NodeActive \cup NodeEnded
      BY <2>1, <3>1 DEF EngineInv, RowsOK, RowsTyped, StandsAt
    <3>3. QED
      BY <3>1, <3>2 DEF Shown, NodeActive, NodeEnded
  <2>3. LifecycleNode' = LifecycleNode
    BY <1>2, <2>2 DEF Shows
  <2>4. QED
    BY <1>3, <2>3 DEF Resumable!vars
<1>6. QED
  BY <1>1, <1>4, <1>5 DEF Ending, RunEnded

LEMMA ConcludesRefines ==
  ASSUME EngineInv, Shows, Shows', Concludes PROVE Resumable!Step
<1>1. UNCHANGED node /\ run \in RunActive /\ AtRest(node) /\ DoneIn(node) /\ run' = VerdictIn(node, run)
  BY DEF Concludes
<1>2. Resumable!SomeFailed <=> StandsAt(node, "failed")
  BY ShownRows DEF EngineInv
<1>3. Resumable!Drained /\ (Resumable!SomeFailed \/ \A n \in Nodes : LifecycleNode[n] \in Resumable!NodeEnded)
  BY <1>1, ShownRows DEF EngineInv, DoneIn
<1>4. LifecycleRun \in {"active", "cancelling"} /\ (LifecycleRun = "cancelling" <=> run = "cancelling")
  BY <1>1, RunShown
<1>5. run' \in {"failed", "cancelled", "completed"} /\ LifecycleRun' = run'
  BY <1>1 DEF VerdictIn, LifecycleRun, Dispatchable
<1>6. LifecycleRun' = IF Resumable!SomeFailed THEN "failed"
                      ELSE IF LifecycleRun = "cancelling" THEN "cancelled" ELSE "completed"
  BY <1>1, <1>2, <1>4, <1>5 DEF VerdictIn
<1>7. LifecycleNode' = LifecycleNode
  BY <1>1, SameShown
<1>8. Resumable!Finalize
  BY <1>3, <1>4, <1>6, <1>7 DEF Resumable!Finalize
<1>9. QED
  BY <1>8 DEF Resumable!Step

\* A queued retry of a failed node: the node is to be done again.
LEMMA RequeuesRefines ==
  ASSUME EngineInv, Shows, Shows', Requeues PROVE Resumable!ResumedNext
<1>1. PICK r \in FailedNow(node) :
          run = "failed" /\ run' = run /\ Follows({r}) /\ node'[Following(r)] = "pending"
  BY DEF Requeues
<1> DEFINE n == r[1]
<1>2. node[r] = "failed"
  BY DEF FailedNow
<1>3. n \in Nodes /\ LifecycleNode[n] = "failed" /\ LifecycleNode'[n] = "idle"
  BY <1>1, <1>2, FollowShown DEF Shown
<1>4. \A m \in Nodes \ {n} : LifecycleNode'[m] = LifecycleNode[m]
  <2>1. \A m \in Nodes \ {n} : \A p \in {r} : p[1] /= m
    OBVIOUS
  <2>2. QED
    BY <1>1, <2>1, FollowShown
<1>5. LifecycleRun = "failed" /\ LifecycleRun' = LifecycleRun
  BY <1>1 DEF LifecycleRun, Dispatchable
<1> HIDE DEF n
<1>6. LifecycleNode' = [LifecycleNode EXCEPT ![n] = "idle"]
  <2>1. /\ LifecycleNode = [m \in Nodes |-> LifecycleNode[m]]
        /\ LifecycleNode' = [m \in Nodes |-> LifecycleNode'[m]]
    BY DEF Shows
  <2>2. QED
    BY <1>3, <1>4, <2>1
<1>7. Resumable!Requeue(n)
  BY <1>3, <1>5, <1>6 DEF Resumable!Requeue
<1>8. QED
  BY <1>3, <1>7 DEF Resumable!ResumedNext

\* The run is taken up again: the failed node is at work, what had been cancelled
\* is as if it had never been started.
LEMMA ResumesRefines ==
  ASSUME EngineInv, Shows, Shows', Resumes PROVE Resumable!ResumedNext
<1> DEFINE F == FailedNow(node)
           C == StoppedNow(node)
           P == F \cup C
<1>1. /\ run = "failed" /\ run' = "running" /\ Follows(P)
      /\ \A p, q \in F : p = q
      /\ \A p \in F : node'[Following(p)] = "running"
      /\ \A p \in C : node'[Following(p)] = "pending"
  BY DEF Resumes
<1>2. ASSUME NEW n \in Nodes
      PROVE  \E r \in NodeRuns : /\ r[1] = n /\ node[r] /= "absent" /\ Newest(node, r)
                                 /\ LifecycleNode[n] = Shown(node[r])
                                 /\ r \in F <=> LifecycleNode[n] = "failed"
                                 /\ r \in C <=> LifecycleNode[n] = "cancelled"
  <2>1. PICK r \in NodeRuns : r[1] = n /\ node[r] /= "absent" /\ Newest(node, r)
    BY DEF Shows
  <2>2. LifecycleNode[n] = Shown(node[r])
    BY <2>1 DEF Shows
  <2>3. /\ r \in F <=> node[r] = "failed"
        /\ r \in C <=> node[r] = "cancelled"
    BY <2>1 DEF FailedNow, StoppedNow
  <2>4. /\ node[r] = "failed" <=> LifecycleNode[n] = "failed"
        /\ node[r] = "cancelled" <=> LifecycleNode[n] = "cancelled"
    BY <2>2 DEF Shown, NodeActive
  <2>5. QED
    BY <2>1, <2>2, <2>3, <2>4
<1>3. \A p \in P : p \in NodeRuns /\ node[p] /= "absent" /\ Newest(node, p)
  BY DEF FailedNow, StoppedNow
<1> HIDE DEF F, C
<1>4. \A m, n \in Nodes : LifecycleNode[m] = "failed" /\ LifecycleNode[n] = "failed" => m = n
  <2> SUFFICES ASSUME NEW m \in Nodes, NEW n \in Nodes, LifecycleNode[m] = "failed", LifecycleNode[n] = "failed"
               PROVE  m = n
    OBVIOUS
  <2>1. PICK q \in NodeRuns : q[1] = m /\ q \in F
    BY <1>2
  <2>2. PICK r \in NodeRuns : r[1] = n /\ r \in F
    BY <1>2
  <2>3. QED
    BY <1>1, <2>1, <2>2
<1>5. ASSUME NEW n \in Nodes
      PROVE  LifecycleNode'[n] = CASE LifecycleNode[n] = "failed" -> "active"
                                   [] LifecycleNode[n] = "cancelled" -> "idle"
                                   [] OTHER -> LifecycleNode[n]
  <2>1. PICK r \in NodeRuns : /\ r[1] = n /\ node[r] /= "absent" /\ Newest(node, r)
                              /\ r \in F <=> LifecycleNode[n] = "failed"
                              /\ r \in C <=> LifecycleNode[n] = "cancelled"
    BY <1>2
  <2>2. r \in F => LifecycleNode'[n] = "active"
    BY <1>1, <2>1, FollowShown DEF Shown, NodeActive
  <2>3. r \in C => LifecycleNode'[n] = "idle"
    BY <1>1, <2>1, FollowShown DEF Shown
  <2>4. r \notin P => LifecycleNode'[n] = LifecycleNode[n]
    <3> SUFFICES ASSUME r \notin P PROVE LifecycleNode'[n] = LifecycleNode[n]
      OBVIOUS
    <3>1. ASSUME NEW p \in P, p[1] = n PROVE FALSE
      <4>1. p = Latest(p[1]) /\ r = Latest(r[1])
        BY <1>3, <2>1, NewestIsLatest DEF EngineInv
      <4>2. p = r
        BY <2>1, <3>1, <4>1
      <4>3. QED
        BY <4>2
    <3> HIDE DEF P
    <3>2. QED
      BY <1>1, <3>1, FollowShown
  <2>5. CASE LifecycleNode[n] = "failed"
    BY <2>1, <2>2, <2>5
  <2>6. CASE LifecycleNode[n] = "cancelled"
    BY <2>1, <2>3, <2>6
  <2>7. CASE LifecycleNode[n] \notin {"failed", "cancelled"}
    <3>1. r \notin P
      BY <2>1, <2>7
    <3>2. LifecycleNode'[n] = LifecycleNode[n]
      BY <2>4, <3>1
    <3>3. QED
      BY <2>7, <3>2
  <2>8. QED
    BY <2>5, <2>6, <2>7
<1>6. LifecycleRun = "failed" /\ LifecycleRun' = "active"
  BY <1>1 DEF LifecycleRun, Dispatchable
<1>7. LifecycleNode' = [n \in Nodes |-> CASE LifecycleNode[n] = "failed" -> "active"
                                          [] LifecycleNode[n] = "cancelled" -> "idle"
                                          [] OTHER -> LifecycleNode[n]]
  <2>1. LifecycleNode' = [n \in Nodes |-> LifecycleNode'[n]]
    BY DEF Shows
  <2>2. QED
    BY <1>5, <2>1, Zenon
<1>8. Resumable!Resume
  BY <1>4, <1>6, <1>7, Zenon DEF Resumable!Resume
<1>9. QED
  BY <1>8 DEF Resumable!ResumedNext

\* Every step of the engine is a step of the resumed run, or none.
LEMMA StepIsResumed ==
  ASSUME EngineInv, FailFastInv, OutcomeInv, [Next]_vars, Shows, Shows'
  PROVE  [Resumable!ResumedNext]_(Resumable!vars)
<1>1. ASSUME Quiet PROVE UNCHANGED Resumable!vars
  <2>1. LifecycleNode' = LifecycleNode /\ LifecycleRun' = LifecycleRun
    BY <1>1, SameShown, SameRunShown DEF Quiet
  <2>2. QED
    BY <2>1 DEF Resumable!vars
<1>2. ASSUME Resumable!Step PROVE [Resumable!ResumedNext]_(Resumable!vars)
  BY <1>2 DEF Resumable!Next, Resumable!ResumedNext
<1>3. ASSUME NEW a \in Actors, Step(a) \/ Request(a) \/ Crash(a)
      PROVE  [Resumable!ResumedNext]_(Resumable!vars)
  <2>1. Alters(a) \/ Requeues \/ Resumes
    BY <1>3, StepAlters
  <2>2. CASE Alters(a)
    <3>1. Quiet \/ Resumable!Step \/ UNCHANGED Resumable!vars
      BY <2>2, TakesUpRefines, GetsDoneRefines, CallsOffRefines, GivesUpRefines, ConcludesRefines
         DEF Alters, OutcomeInv
    <3>2. QED
      BY <1>1, <1>2, <3>1
  <2>3. QED
    BY <2>1, <2>2, RequeuesRefines, ResumesRefines
<1>4. CASE \E r \in NodeRuns : AgentEnds(r) \/ JobDies(r) \/ PersonStops(r)
  <2>1. UNCHANGED <<run, node>>
    BY <1>4 DEF AgentEnds, JobDies, PersonStops
  <2>2. QED
    BY <1>1, <2>1 DEF Quiet, SameRun
<1>5. CASE UNCHANGED vars
  BY <1>1, <1>5 DEF vars, Quiet, SameRun
<1>6. QED
  BY <1>3, <1>4, <1>5 DEF Next

LEMMA InitIsResumed == ASSUME Init PROVE Resumable!Init
<1>1. EngineInv /\ Shows
  BY InitKeeps, ShowsHolds DEF EngineInv
<1>2. LifecycleRun = "active"
  BY DEF Init, LifecycleRun, Dispatchable
<1>3. ASSUME NEW n \in Nodes PROVE LifecycleNode[n] = "idle"
  <2>1. PICK r \in NodeRuns : node[r] /= "absent" /\ LifecycleNode[n] = Shown(node[r])
    BY <1>1 DEF Shows
  <2>2. node[r] = "pending"
    BY <2>1 DEF Init
  <2>3. QED
    BY <2>1, <2>2 DEF Shown
<1>4. LifecycleNode = [n \in Nodes |-> LifecycleNode[n]]
  BY <1>1 DEF Shows
<1>5. QED
  BY <1>2, <1>3, <1>4 DEF Resumable!Init

\* However lanes, requests and sweeps interleave and crash but for the two windows
\* - retries of failed steps, approvals and cancellations included - a run starts
\* its steps in order, starts none while a failure stands, ends each once, takes
\* its verdict at one instant from outcomes that hold at that instant, and leaves
\* a verdict only by a retry that repairs every failure and every step given up
\* because of it (retry_failed_agent_node, _resume_failed_run).
THEOREM EngineIsResumedRun == Spec /\ []Undisturbed => IsResumedRun
<1>1. Init => Resumable!Init
  BY InitIsResumed
<1>2. SoundInv => Shows
  BY ShowsHolds DEF SoundInv, EngineInv
<1>3. SoundInv /\ [Next]_vars /\ Shows /\ Shows' => [Resumable!ResumedNext]_(Resumable!vars)
  BY StepIsResumed DEF SoundInv
<1>4. QED
  BY <1>1, <1>2, <1>3, SoundHolds, PTL DEF Spec, IsResumedRun, Resumable!ResumedSpec

\* Fail-fast reaches the victim of no other failure than one that stands: an agent
\* that is told to stop by no person belongs to a run with a failed node.  A late
\* report, a second sweep, a claim or a crash in the middle of fail-fast cannot
\* change that; only a handler that set out to stop the siblings before a retry,
\* and stops them after it (_propagate_failure), can.
THEOREM RetriesAreSpared == Spec /\ []Undisturbed => []OnlySiblingsOfFailureStop
<1>1. ASSUME SoundInv PROVE OnlySiblingsOfFailureStop
  <2>1. RowsOK /\ WorkIsTied /\ FailFastRows
    BY <1>1 DEF SoundInv, EngineInv, RowsOK, FailFastInv
  <2>2. "failed" \in CurrentStatuses <=> StandsAt(node, "failed")
    BY <2>1, StatusesStand
  <2>3. QED
    BY <2>1, <2>2 DEF OnlySiblingsOfFailureStop, WorkIsTied, FailFastRows, Failing
<1>2. QED
  BY <1>1, SoundHolds, PTL

\* A retry finds nothing left that the failure had stopped: an active run with a
\* cancelled node, where no person stopped anything, has a failed node, too.
THEOREM ResumedRunsCanComplete == Spec /\ []Undisturbed => []ResumedRunCanComplete
<1>1. ASSUME SoundInv PROVE ResumedRunCanComplete
  <2>1. RowsOK /\ FailFastRows
    BY <1>1 DEF SoundInv, EngineInv, RowsOK, FailFastInv
  <2>2. \A s \in {"failed", "cancelled"} : s \in CurrentStatuses <=> StandsAt(node, s)
    BY <2>1, StatusesStand
  <2>3. QED
    BY <2>1, <2>2 DEF ResumedRunCanComplete, FailFastRows, Failing
<1>2. QED
  BY <1>1, SoundHolds, PTL

\* A run that is over has drained, with gates, retries and any number of handlers:
\* a verdict, although derived from rows read before it is written and compared
\* with nothing but the status of the run, finds the nodes as they were.
THEOREM SchedulingHoldsUndisturbed == Spec /\ []Undisturbed => []SchedulingInv
<1>1. SoundInv => EndedRunIsDrained
  BY RestIsDrained DEF SoundInv, EngineInv, FailFastInv, FailFastRows, EndedRunIsDrained
<1>2. TypeOK /\ DependenciesComplete /\ EndedRunIsDrained => SchedulingInv
  BY DEF SchedulingInv
<1>3. QED
  BY <1>1, <1>2, SoundHolds, EngineTypes, NodesStartInOrder, PTL

\* A verdict tells what became of the nodes, gates and retried nodes included: a
\* completed run completed every node, a cancelled one failed at none.
THEOREM VerdictsHoldUndisturbed == Spec /\ []Undisturbed => []VerdictMatchesNodes
<1>1. SoundInv => VerdictMatchesNodes
  <2> SUFFICES ASSUME SoundInv PROVE VerdictMatchesNodes
    OBVIOUS
  <2>1. RowsOK /\ OutcomeRows /\ FailFastRows
    BY DEF SoundInv, EngineInv, FailFastInv, OutcomeInv
  <2>2. \A s \in {"pending", "failed", "cancelled"} : s \in CurrentStatuses <=> StandsAt(node, s)
    BY <2>1, StatusesStand
  <2>3. run = "cancelled" => ~HasFailedNode
    BY <2>1, StandingNow DEF OutcomeRows
  <2>4. ASSUME run = "completed" PROVE CurrentStatuses = {"completed"}
    <3>1. ASSUME NEW n \in Nodes PROVE Current(n) = "completed"
      <4>1. Latest(n) \in NodeRuns /\ Latest(n)[1] = n /\ node[Latest(n)] /= "absent"
        BY <2>1, LatestExists DEF RowsOK, AttemptsInOrder
      <4>2. Newest(node, Latest(n))
        BY <4>1, NewestIsLatest, <2>1
      <4>3. node[Latest(n)] \notin NodeActive
        BY <2>1, <2>4, <4>1, <4>2 DEF FailFastRows, AtRest, RunEnded
      <4>4. node[Latest(n)] \notin {"pending", "failed", "cancelled"}
        BY <2>1, <2>4, <4>1, <4>2 DEF OutcomeRows, StandsAt
      <4>5. node[Latest(n)] \in {"pending"} \cup NodeActive \cup NodeEnded
        BY <2>1, <4>1 DEF RowsOK, RowsTyped
      <4>6. QED
        BY <4>3, <4>4, <4>5 DEF Current, NodeEnded
    <3>2. Nodes /= {}
      BY WorkflowEngineAssumption DEF WorkflowEngineAssumption
    <3>3. QED
      BY <3>1, <3>2 DEF CurrentStatuses
  <2>5. QED
    BY <2>3, <2>4 DEF VerdictMatchesNodes
<1>2. QED
  BY <1>1, SoundHolds, PTL

=============================================================================
