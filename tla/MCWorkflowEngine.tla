-------------------------- MODULE MCWorkflowEngine --------------------------
(***************************************************************************)
(* Graphs of three nodes on which TLC runs WorkflowEngine.                 *)
(***************************************************************************)
EXTENDS WorkflowEngine, TLC

CONSTANTS a1, a2

\* The actors are interchangeable unless one of them is reliable.
AnyActor == Permutations(Actors)

\* Two entry agents joined by a terminal node.
JoinNodes == 1 .. 3
JoinEdges == {<<1, 3>>, <<2, 3>>}
JoinKind == <<"agent", "agent", "terminal">>
\* An entry agent and an entry gate, joined by a terminal node.
GateKind == <<"agent", "gate", "terminal">>
\* Two entry agents before a node of a type the engine refuses to run.
RefusedKind == <<"agent", "agent", "unsupported">>
=============================================================================
