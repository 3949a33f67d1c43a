----------------------------- MODULE MCJobQueue -----------------------------
(***************************************************************************)
(* Instances for TLC of the two stores that all the workers share: the job *)
(* queue, with two processes of one lane each (a process and its           *)
(* successor, or two workers on the same database) and two jobs of         *)
(* different types; and the flight recorder, with two writers and one      *)
(* client.  The two have no variable in common, so a behaviour explores    *)
(* one of them (side) and leaves the other at its beginning.               *)
(***************************************************************************)
EXTENDS JobQueue, EventStream

CONSTANTS j1, j2, w1, w2, p1, p2
VARIABLE side

MCProcessOf == [w \in {w1, w2} |-> IF w = w2 THEN p2 ELSE p1]

\* The job types with a heartbeat: once before an agent run, and before every
\* iteration of an internal test; a lane gives the latter back at a shutdown.
MCKind == [j \in {j1, j2} |-> IF j = j1 THEN "agent_run" ELSE "internal_test"]

OnQueue(action) == side = "queue" /\ action /\ UNCHANGED <<side, streamVars>>
OnStream(action) == side = "stream" /\ action /\ UNCHANGED <<side, vars>>

MCInit == side \in {"queue", "stream"} /\ Init /\ StreamInit
MCNext == OnQueue(Next) \/ OnStream(StreamNext)
all == <<side, vars, streamVars>>

\* The fairness of FairSpec and StreamFairness, each on its side.
MCSpec ==
    /\ MCInit /\ [][MCNext]_all
    /\ WF_all(OnQueue(Tick))
    /\ \A w \in Lanes : WF_all(OnQueue(LaneStep(w)))
    /\ \A p \in Reliable : WF_all(OnQueue(StartProcess(p)))
    /\ \A c \in Clients : /\ WF_all(OnStream(Connect(c))) /\ WF_all(OnStream(Poll(c)))
                          /\ WF_all(OnStream(Send(c))) /\ WF_all(OnStream(Receive(c)))
=============================================================================
