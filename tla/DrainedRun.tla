----------------------------- MODULE DrainedRun -----------------------------
(***************************************************************************)
(* What a Workflow Run promises to whoever looks at it from outside, when  *)
(* nobody retries a node: steps start only once everything they depend on  *)
(* has completed, nothing starts after a failure or a cancellation, every  *)
(* step ends once, and the run takes its verdict in one instant, when      *)
(* nothing is active any more, from the outcomes of its steps.             *)
(***************************************************************************)
EXTENDS Naturals

CONSTANTS Nodes, Edges

VARIABLES run, node

vars == <<run, node>>

RunStatus == {"active", "cancelling", "completed", "failed", "cancelled"}
NodeEnded == {"completed", "failed", "cancelled"}

Init ==
    /\ run = "active"
    /\ node = [n \in Nodes |-> "idle"]

SomeFailed == \E n \in Nodes : node[n] = "failed"
Drained == \A n \in Nodes : node[n] /= "active"
Ready(n) == node[n] = "idle" /\ \A m \in Nodes : <<m, n>> \in Edges => node[m] = "completed"

\* Step n alone changes, to one of the given statuses.
Moves(n, statuses) == node'[n] \in statuses /\ node' = [node EXCEPT ![n] = node'[n]]

\* A step starts, or is over at once: a terminal step, or one that cannot run.
Start(n) ==
    /\ run = "active" /\ Ready(n)
    /\ Moves(n, {"active", "completed", "failed"})
    /\ ~SomeFailed
    /\ UNCHANGED run

\* A step that was stopped, and not because of a failure, cancels the run.
End(n) ==
    /\ run \in {"active", "cancelling"} /\ node[n] = "active"
    /\ Moves(n, NodeEnded)
    /\ run' = IF node'[n] = "cancelled" /\ ~SomeFailed THEN "cancelling" ELSE run

Cancel == run = "active" /\ run' = "cancelling" /\ UNCHANGED node

\* A cancelled run gives up the steps that never started, also when a failure
\* has meanwhile decided its verdict.
Skip ==
    /\ run \in {"cancelling", "failed"}
    /\ \E S \in SUBSET {n \in Nodes : node[n] = "idle"} :
          node' = [n \in Nodes |-> IF n \in S THEN "cancelled" ELSE node[n]]
    /\ UNCHANGED run

\* Failure outranks cancellation; without a failure every step has ended.
Finalize ==
    /\ run \in {"active", "cancelling"} /\ Drained
    /\ SomeFailed \/ \A n \in Nodes : node[n] \in NodeEnded
    /\ run' = IF SomeFailed THEN "failed"
              ELSE IF run = "cancelling" THEN "cancelled" ELSE "completed"
    /\ UNCHANGED node

Step == Cancel \/ Skip \/ Finalize \/ \E n \in Nodes : Start(n) \/ End(n)

\* A step that changes nothing is a stutter, and looked at no further.
Next == vars' /= vars /\ Step

Spec == Init /\ [][Next]_vars
=============================================================================
