----------------------------- MODULE ResumedRun -----------------------------
(***************************************************************************)
(* What a Workflow Run promises when its failed steps may be retried, too: *)
(* a drained run (DrainedRun) that is taken up again only after a failure, *)
(* and then with no failed step left: the last one is at work again or     *)
(* waits to be, and every step that had been given up is as if it had      *)
(* never been started.                                                     *)
(***************************************************************************)
EXTENDS DrainedRun

\* A failed step of a failed run is to be done again, once the run is resumed.
Requeue(n) ==
    /\ run = "failed" /\ node[n] = "failed"
    /\ node' = [node EXCEPT ![n] = "idle"]
    /\ UNCHANGED run

\* The last failed step, if it was not requeued before, starts over at once.
Resume ==
    /\ run = "failed" /\ run' = "active"
    /\ \A m, n \in Nodes : node[m] = "failed" /\ node[n] = "failed" => m = n
    /\ node' = [n \in Nodes |-> CASE node[n] = "failed" -> "active"
                                  [] node[n] = "cancelled" -> "idle"
                                  [] OTHER -> node[n]]

ResumedNext == Next \/ Resume \/ \E n \in Nodes : Requeue(n)

ResumedSpec == Init /\ [][ResumedNext]_vars
=============================================================================
