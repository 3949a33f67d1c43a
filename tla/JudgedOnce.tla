----------------------------- MODULE JudgedOnce -----------------------------
(***************************************************************************)
(* What an evaluation by an agent promises, with no lanes, leases, sweeps  *)
(* or requests: its evaluator ends once, its verdict is taken once and     *)
(* after that, from how the evaluator ended, with findings exactly if it   *)
(* is favourable, and evaluations that take turns at a subject are opened  *)
(* only when every earlier one has failed.                                 *)
(***************************************************************************)
CONSTANTS
    Evals,
    Subjects,
    Nothing         \* the subject of an evaluation that takes no turns

VARIABLES
    subject,    \* subject[e]: what evaluation e takes its turn at
    opinion,    \* opinion[e]: how its evaluator ended, if it has
    verdict,    \* verdict[e]
    findings    \* findings[e]: there are some

judgedVars == <<subject, opinion, verdict, findings>>

JudgedInit ==
    /\ subject = [e \in Evals |-> Nothing]
    /\ opinion = [e \in Evals |-> "none"]
    /\ verdict = [e \in Evals |-> "none"]
    /\ findings = [e \in Evals |-> FALSE]

Open(e) ==
    /\ verdict[e] = "none"
    /\ verdict' = [verdict EXCEPT ![e] = "open"]
    /\ opinion' = [opinion EXCEPT ![e] = "awaited"]
    /\ \E s \in Subjects \cup {Nothing} :
          /\ s /= Nothing => \A f \in Evals : subject[f] = s => verdict[f] = "failed"
          /\ subject' = [subject EXCEPT ![e] = s]
    /\ UNCHANGED findings

\* A sound opinion keeps the contract and is about what was bound.
Opine(e) ==
    /\ opinion[e] = "awaited"
    /\ opinion'[e] \in {"sound", "unsound", "failed", "stopped"}
    /\ opinion' = [opinion EXCEPT ![e] = opinion'[e]]
    /\ UNCHANGED <<subject, verdict, findings>>

\* Of a sound opinion, too, the verdict may be that it failed: the subject does
\* not verify any more.
Conclude(e) ==
    /\ verdict[e] = "open" /\ opinion[e] /= "awaited"
    /\ \E v \in {"completed", "failed", "cancelled"} :
          /\ v = "completed" => opinion[e] = "sound"
          /\ v = "cancelled" <=> opinion[e] = "stopped"
          /\ verdict' = [verdict EXCEPT ![e] = v]
          /\ findings' = [findings EXCEPT ![e] = v = "completed"]
    /\ UNCHANGED <<subject, opinion>>

JudgedNext == \E e \in Evals : Open(e) \/ Opine(e) \/ Conclude(e)

JudgedSpec == JudgedInit /\ [][JudgedNext]_judgedVars
=============================================================================
