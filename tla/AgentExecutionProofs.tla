------------------------ MODULE AgentExecutionProofs ------------------------
(***************************************************************************)
(* Proofs about AgentExecution, for any number of claims, sweeps and       *)
(* attempts and with no assumption on leases: BackingInv is inductive; the *)
(* backing of a COMPLETED run and the finality of recovery's verdict on    *)
(* attempts and calls follow from it.                                      *)
(*                                                                         *)
(* And, when a lease only runs out on an executor that stopped (FailStop): *)
(*   - for any number of claims, a run that completed or failed leaves no  *)
(*     attempt running, and the Task Run's end agrees with the run's;      *)
(*   - for two claims at most, the provider is not called again while an   *)
(*     earlier call may have been served, and the whole implements         *)
(*     OneProviderCall.  A third claim breaks it: see ProviderNotReplayed  *)
(*     in MCExecReplay.cfg.                                                *)
(***************************************************************************)
EXTENDS AgentExecution, FiniteSetTheorems, WellFoundedInduction, TLAPS

USE AgentExecutionAssumption DEF AgentExecutionAssumption

\* A non-empty set of attempt numbers has a greatest element.
LEMMA MaxOfAttempts ==
  ASSUME NEW S \in SUBSET Attempts, S /= {}
  PROVE  Max(S) \in S /\ \A n \in S : Max(S) >= n
<1> DEFINE R == OpToRel(<, Nat)
           T == {MaxAttempts - n : n \in S}
<1>1. T \subseteq Nat /\ T /= {}
  BY DEF Attempts
<1>2. PICK x \in T : \A y \in T : ~(<<y, x>> \in R)
  BY <1>1, NatLessThanWellFounded, WFMin
<1>3. \A y \in T : y >= x
  <2> SUFFICES ASSUME NEW y \in T, y < x PROVE FALSE
    BY <1>1
  <2>1. <<y, x>> \in R
    BY <1>1 DEF OpToRel
  <2>2. QED
    BY <1>2, <2>1
<1>4. PICK m \in S : x = MaxAttempts - m
  OBVIOUS
<1>5. \A n \in S : m >= n
  BY <1>3, <1>4 DEF Attempts
<1>6. QED
  BY <1>5 DEF Max

LEMMA NextAttemptRange == NextAttempt \in 1 .. MaxAttempts + 1
<1>1. CASE Begun = {}
  BY <1>1 DEF NextAttempt
<1>2. CASE Begun /= {}
  <2>1. Begun \in SUBSET Attempts
    BY DEF Begun
  <2>2. Max(Begun) \in Attempts
    BY <1>2, <2>1, MaxOfAttempts
  <2>3. QED
    BY <1>2, <2>2 DEF NextAttempt, Attempts
<1>3. QED
  BY <1>1, <1>2

-----------------------------------------------------------------------------
(***************************************************************************)
(* Steps                                                                   *)
(***************************************************************************)
Pcs == {"idle"} \cup AttemptSteps \cup FinalizeSteps \cup OutsideSteps \cup EndSteps

\* Actor a goes to pc and keeps its attempt; nobody else's memory changes.
Moves(a, pc) ==
    /\ exec' \in [Actors -> Exec]
    /\ exec'[a].pc = pc /\ exec'[a].n = exec[a].n
    /\ \A b \in Actors \ {a} : exec'[b] = exec[b]

LEMMA UpdateMoves ==
  ASSUME exec \in [Actors -> Exec], NEW a \in Actors, NEW x \in Exec,
         x.n = exec[a].n, exec' = [exec EXCEPT ![a] = x]
  PROVE  Moves(a, x.pc)
  BY DEF Moves

LEMMA GotoMoves ==
  ASSUME exec \in [Actors -> Exec], NEW a \in Actors, NEW pc \in Pcs, Goto(a, pc)
  PROVE  Moves(a, pc)
<1> DEFINE x == [exec[a] EXCEPT !.pc = pc]
<1>1. x \in Exec /\ x.n = exec[a].n /\ x.pc = pc
  BY DEF Exec, Pcs
<1>2. exec' = [exec EXCEPT ![a] = x]
  BY DEF Goto
<1>3. QED
  BY <1>1, <1>2, UpdateMoves

LEMMA GotoSeenMoves ==
  ASSUME exec \in [Actors -> Exec], NEW a \in Actors, NEW pc \in Pcs, GotoSeen(a, pc),
         run \in {"created", "running"} \cup RunEnded
  PROVE  Moves(a, pc)
<1> DEFINE x == [exec[a] EXCEPT !.pc = pc, !.seen = run]
<1>1. x \in Exec /\ x.n = exec[a].n /\ x.pc = pc
  BY DEF Exec, Pcs
<1>2. exec' = [exec EXCEPT ![a] = x]
  BY DEF GotoSeen
<1>3. QED
  BY <1>1, <1>2, UpdateMoves

\* The fields a step may set besides pc.
LEMMA ExecFields ==
  ASSUME NEW x \in Exec, NEW pc \in Pcs, NEW next \in {"retry", "fail1", "stop1", "return"},
         NEW seen \in {"created", "running"} \cup RunEnded
  PROVE  /\ [x EXCEPT !.pc = pc, !.next = next, !.seen = seen] \in Exec
         /\ [x EXCEPT !.pc = pc, !.next = next] \in Exec
         /\ [x EXCEPT !.pc = pc, !.seen = seen] \in Exec
         /\ [x EXCEPT !.pc = pc] \in Exec
  BY ZenonT(60) DEF Exec, Pcs

LEMMA CancelledMoves ==
  ASSUME exec \in [Actors -> Exec], NEW a \in Actors, NEW held \in BOOLEAN, Cancelled(a, held),
         run \in {"created", "running"} \cup RunEnded
  PROVE  Moves(a, IF held THEN "release" ELSE "stop1")
<1> DEFINE pc == IF held THEN "release" ELSE "stop1"
           x == [exec[a] EXCEPT !.pc = pc, !.next = "stop1", !.seen = run]
<1>1. pc \in Pcs
  BY DEF Pcs, AttemptSteps
<1>2. exec' = [exec EXCEPT ![a] = x]
  BY DEF Cancelled
<1>3. x \in Exec /\ x.n = exec[a].n /\ x.pc = pc
  <2>1. exec[a] \in Exec
    OBVIOUS
  <2> HIDE DEF pc
  <2>2. x \in Exec
    BY <1>1, <2>1, ExecFields
  <2>3. QED
    BY <2>1, <2>2 DEF Exec
<1> HIDE DEF pc, x
<1>4. Moves(a, pc)
  BY ONLY <1>2, <1>3, UpdateMoves, exec \in [Actors -> Exec], a \in Actors
<1>5. QED
  BY <1>4 DEF pc

(***************************************************************************)
(* What keeps BackingInv                                                   *)
(***************************************************************************)
\* What recovery may do to attempt n while somebody else works on it.
Harmless(n) ==
    /\ attempt'[n] = attempt[n] \/ (attempt[n] = "running" /\ attempt'[n] = "failed")
    /\ call'[n] = call[n] \/ (call[n] = "running" /\ call'[n] = "interrupted")
    /\ resv'[n] = resv[n] \/ (resv[n] = "active" /\ resv'[n] = "released")
    /\ output'[n] = output[n]

OnlyOwnRow(a) ==
    \A n \in Attempts : Harmless(n) \/ (a \in Executors /\ Works(a) /\ exec[a].n = n /\ attempt'[n] /= "none")

LEMMA OthersKeepProgress ==
  ASSUME BackingInv, NEW e \in Executors, exec'[e] = exec[e],
         Works(e) => Harmless(exec[e].n)
  PROVE  NumbersAreAttempts(e)' /\ ProgressIsRecorded(e)'
<1> DEFINE n == exec[e].n
<1>1. Works(e)' = Works(e) /\ \A S : Past(e, S)' = Past(e, S)
  BY DEF Works, Past
<1>2. NumbersAreAttempts(e) /\ ProgressIsRecorded(e)
  BY DEF BackingInv
<1>3. CASE ~Works(e)
  <2>1. NumbersAreAttempts(e)'
    BY <1>1, <1>2, <1>3 DEF NumbersAreAttempts, Past
  <2>2. ProgressIsRecorded(e)'
    BY <1>1, <1>3 DEF ProgressIsRecorded, Past, Works, AttemptSteps
  <2>3. QED
    BY <2>1, <2>2
<1>4. CASE Works(e)
  <2>1. n \in Attempts /\ Harmless(n)
    BY <1>2, <1>4 DEF NumbersAreAttempts
  <2>2. NumbersAreAttempts(e)'
    BY <1>1, <1>2, <1>4, <2>1 DEF NumbersAreAttempts, Past, Harmless
  <2>3. ProgressIsRecorded(e)'
    BY <1>1, <1>2, <1>4, <2>1 DEF ProgressIsRecorded, Past, Harmless
  <2>4. QED
    BY <2>2, <2>3
<1>5. QED
  BY <1>3, <1>4

\* A step of actor a that touches no attempt but its own, goes on with that one
\* if with any, and completes the run only with that one behind it.
LEMMA OrderlyStep ==
  ASSUME BackingInv, TypeOK', NEW a \in Actors,
         \A b \in Actors \ {a} : exec'[b] = exec[b],
         OnlyOwnRow(a), UnbegunIsBlank',
         a \in Executors => /\ NumbersAreAttempts(a)' /\ ProgressIsRecorded(a)'
                            /\ Works(a)' => Works(a) /\ exec'[a].n = exec[a].n,
         run' = "completed" => \/ run = "completed"
                               \/ /\ a \in Executors /\ Works(a) /\ ~Works(a)'
                                  /\ exec'[a].n = exec[a].n /\ Backed(exec[a].n)'
  PROVE  BackingInv'
<1>1. \A e, f \in Executors : e /= f /\ Works(e) /\ Works(f) => exec[e].n /= exec[f].n
  BY DEF BackingInv, WorksAlone
<1>2. \A e \in Executors : Works(e)' => Works(e) /\ exec'[e].n = exec[e].n
  BY DEF Works, Actors
<1>3. \A e \in Executors : WorksAlone(e)'
  BY <1>1, <1>2 DEF WorksAlone
<1>4. \A e \in Executors : NumbersAreAttempts(e)' /\ ProgressIsRecorded(e)'
  <2> SUFFICES ASSUME NEW e \in Executors, e /= a
               PROVE  NumbersAreAttempts(e)' /\ ProgressIsRecorded(e)'
    OBVIOUS
  <2>1. exec'[e] = exec[e]
    BY DEF Actors
  <2>2. Works(e) => exec[e].n \in Attempts
    BY DEF BackingInv, NumbersAreAttempts
  <2>3. Works(e) => Harmless(exec[e].n)
    BY <1>1, <2>2 DEF OnlyOwnRow
  <2>4. QED
    BY <2>1, <2>3, OthersKeepProgress
<1>5. CompletedForGood'
  <2> SUFFICES ASSUME run' = "completed"
               PROVE  \E n \in Attempts : Backed(n)' /\ \A e \in Executors : Works(e)' => exec'[e].n /= n
    BY DEF CompletedForGood
  <2>1. CASE run = "completed"
    <3>1. PICK n \in Attempts : Backed(n) /\ \A e \in Executors : Works(e) => exec[e].n /= n
      BY <2>1 DEF BackingInv, CompletedForGood
    <3>2. Harmless(n)
      BY <3>1 DEF OnlyOwnRow
    <3>3. Backed(n)'
      BY <3>1, <3>2 DEF Harmless, Backed
    <3>4. QED
      BY <1>2, <3>1, <3>3
  <2>2. CASE run /= "completed"
    <3>1. /\ a \in Executors /\ Works(a) /\ ~Works(a)'
          /\ exec'[a].n = exec[a].n /\ Backed(exec[a].n)'
      BY <2>2
    <3>2. PICK n \in Attempts : n = exec[a].n
      BY <3>1 DEF BackingInv, NumbersAreAttempts
    <3>3. \A e \in Executors : Works(e)' => exec'[e].n /= n
      BY <1>1, <1>2, <3>1, <3>2
    <3>4. Backed(n)'
      BY <3>1, <3>2 DEF Backed
    <3>5. QED
      BY <3>3, <3>4
  <2>3. QED
    BY <2>1, <2>2
<1>6. QED
  BY <1>3, <1>4, <1>5 DEF BackingInv

\* A step after which actor a works on no attempt, and which does to the
\* attempts no more than recovery may.
LEMMA LeavingStep ==
  ASSUME BackingInv, TypeOK', NEW a \in Actors,
         \A b \in Actors \ {a} : exec'[b] = exec[b],
         \A n \in Attempts : Harmless(n),
         a \in Executors => exec'[a].pc \notin (AttemptSteps \ {"verify", "complete"}) \cup {"recoverFail", "recoverRelease"},
         run' = "completed" => run = "completed"
  PROVE  BackingInv'
<1>1. OnlyOwnRow(a)
  BY DEF OnlyOwnRow
<1>2. UnbegunIsBlank'
  BY DEF BackingInv, UnbegunIsBlank, Harmless
<1>3. a \in Executors => NumbersAreAttempts(a)' /\ ProgressIsRecorded(a)' /\ ~Works(a)'
  BY DEF NumbersAreAttempts, ProgressIsRecorded, Works, Past, AttemptSteps
<1>4. QED
  BY <1>1, <1>2, <1>3, OrderlyStep

\* One step of an executor keeps BackingInv.
LEMMA RecoverFailStep ==
  ASSUME BackingInv, NEW e \in Executors, RecoverFail(e)
  PROVE  BackingInv'
<1>1. TypeOK /\ exec \in [Actors -> Exec] /\ e \in Actors /\ run \in {"created", "running"} \cup RunEnded
  BY DEF BackingInv, TypeOK, Actors
<1>2. exec[e].pc \in {"recoverFail"}
  BY DEF RecoverFail, At
<1>3. NumbersAreAttempts(e) /\ ProgressIsRecorded(e) /\ UnbegunIsBlank
  BY DEF BackingInv
<1>4. ~Works(e)
  BY <1>2 DEF Works, AttemptSteps, FinalizeSteps, OutsideSteps
<1>5. PICK pc \in {"recoverRelease"} : Moves(e, pc)
  BY <1>1, GotoMoves DEF RecoverFail, Pcs, AttemptSteps, FinalizeSteps, OutsideSteps, EndSteps
<1>6. TypeOK'
  BY <1>1, <1>5 DEF RecoverFail, TypeOK, Moves, RunEnded, TaskEnded, rows, others
<1>7. OnlyOwnRow(e) /\ UnbegunIsBlank'
  BY <1>1, <1>3, <1>4 DEF RecoverFail, TypeOK, OnlyOwnRow, Harmless, UnbegunIsBlank, rows
<1>8. NumbersAreAttempts(e)' /\ exec'[e].n = exec[e].n
  BY <1>2, <1>3, <1>4, <1>5, <1>7 DEF Moves, NumbersAreAttempts, OnlyOwnRow, Harmless, Pcs, AttemptSteps, FinalizeSteps, OutsideSteps, EndSteps, Past, Works
<1>9. ProgressIsRecorded(e)'
  BY <1>1, <1>2, <1>3, <1>4, <1>5 DEF RecoverFail, At, TypeOK, Moves, ProgressIsRecorded, Past, rows
<1>10. run' = "completed" => run = "completed"
  BY DEF RecoverFail, rows
<1>11. QED
  BY <1>1, <1>4, <1>5, <1>6, <1>7, <1>8, <1>9, <1>10, OrderlyStep DEF Moves, Works, Pcs, AttemptSteps, FinalizeSteps, OutsideSteps, EndSteps

LEMMA RouteStep ==
  ASSUME BackingInv, NEW e \in Executors, Route(e)
  PROVE  BackingInv'
<1>1. TypeOK /\ exec \in [Actors -> Exec] /\ e \in Actors /\ run \in {"created", "running"} \cup RunEnded
  BY DEF BackingInv, TypeOK, Actors
<1>2. exec[e].pc \in {"route"}
  BY DEF Route, At
<1>3. NumbersAreAttempts(e) /\ ProgressIsRecorded(e) /\ UnbegunIsBlank
  BY DEF BackingInv
<1>4. Works(e) /\ exec[e].n \in Attempts /\ attempt[exec[e].n] /= "none"
  BY <1>2, <1>3 DEF Works, AttemptSteps, NumbersAreAttempts
<1>5. PICK pc \in {"reserve", "fail1", "stop1"} : Moves(e, pc)
  BY <1>1, GotoSeenMoves, CancelledMoves DEF Route, Pcs, AttemptSteps, FinalizeSteps, OutsideSteps, EndSteps
<1>6. TypeOK'
  BY <1>1, <1>5 DEF Route, TypeOK, Moves, RunEnded, TaskEnded, rows, others
<1>7. OnlyOwnRow(e) /\ UnbegunIsBlank'
  BY <1>1, <1>3, <1>4 DEF Route, TypeOK, OnlyOwnRow, Harmless, UnbegunIsBlank, rows
<1>8. NumbersAreAttempts(e)' /\ exec'[e].n = exec[e].n
  BY <1>2, <1>3, <1>4, <1>5, <1>7 DEF Moves, NumbersAreAttempts, OnlyOwnRow, Harmless, Pcs, AttemptSteps, FinalizeSteps, OutsideSteps, EndSteps, Past, Works
<1>9. ProgressIsRecorded(e)'
  BY <1>1, <1>2, <1>3, <1>4, <1>5 DEF Route, At, TypeOK, Moves, ProgressIsRecorded, Past, rows
<1>10. run' = "completed" => run = "completed"
  BY DEF Route, rows
<1>11. QED
  BY <1>1, <1>4, <1>5, <1>6, <1>7, <1>8, <1>9, <1>10, OrderlyStep DEF Moves, Works, Pcs, AttemptSteps, FinalizeSteps, OutsideSteps, EndSteps

LEMMA ReserveStep ==
  ASSUME BackingInv, NEW e \in Executors, Reserve(e)
  PROVE  BackingInv'
<1>1. TypeOK /\ exec \in [Actors -> Exec] /\ e \in Actors /\ run \in {"created", "running"} \cup RunEnded
  BY DEF BackingInv, TypeOK, Actors
<1>2. exec[e].pc \in {"reserve"}
  BY DEF Reserve, At
<1>3. NumbersAreAttempts(e) /\ ProgressIsRecorded(e) /\ UnbegunIsBlank
  BY DEF BackingInv
<1>4. Works(e) /\ exec[e].n \in Attempts /\ attempt[exec[e].n] /= "none"
  BY <1>2, <1>3 DEF Works, AttemptSteps, NumbersAreAttempts
<1>5. PICK pc \in {"context", "fail1", "stop1"} : Moves(e, pc)
  BY <1>1, GotoSeenMoves, CancelledMoves DEF Reserve, Pcs, AttemptSteps, FinalizeSteps, OutsideSteps, EndSteps
<1>6. TypeOK'
  BY <1>1, <1>5, ZenonT(60) DEF Reserve, TypeOK, Moves, RunEnded, TaskEnded, rows, others
<1>7. OnlyOwnRow(e) /\ UnbegunIsBlank'
  BY <1>1, <1>3, <1>4 DEF Reserve, TypeOK, OnlyOwnRow, Harmless, UnbegunIsBlank, rows
<1>8. NumbersAreAttempts(e)' /\ exec'[e].n = exec[e].n
  BY <1>2, <1>3, <1>4, <1>5, <1>7 DEF Moves, NumbersAreAttempts, OnlyOwnRow, Harmless, Pcs, AttemptSteps, FinalizeSteps, OutsideSteps, EndSteps, Past, Works
<1>9. ProgressIsRecorded(e)'
  BY <1>1, <1>2, <1>3, <1>4, <1>5 DEF Reserve, At, TypeOK, Moves, ProgressIsRecorded, Past, rows
<1>10. run' = "completed" => run = "completed"
  BY DEF Reserve, rows
<1>11. QED
  BY <1>1, <1>4, <1>5, <1>6, <1>7, <1>8, <1>9, <1>10, OrderlyStep DEF Moves, Works, Pcs, AttemptSteps, FinalizeSteps, OutsideSteps, EndSteps

LEMMA StartCallStep ==
  ASSUME BackingInv, NEW e \in Executors, StartCall(e)
  PROVE  BackingInv'
<1>1. TypeOK /\ exec \in [Actors -> Exec] /\ e \in Actors /\ run \in {"created", "running"} \cup RunEnded
  BY DEF BackingInv, TypeOK, Actors
<1>2. exec[e].pc \in {"startCall"}
  BY DEF StartCall, At
<1>3. NumbersAreAttempts(e) /\ ProgressIsRecorded(e) /\ UnbegunIsBlank
  BY DEF BackingInv
<1>4. Works(e) /\ exec[e].n \in Attempts /\ attempt[exec[e].n] /= "none"
  BY <1>2, <1>3 DEF Works, AttemptSteps, NumbersAreAttempts
<1>5. PICK pc \in {"invoke"} : Moves(e, pc)
  BY <1>1, GotoMoves DEF StartCall, Pcs, AttemptSteps, FinalizeSteps, OutsideSteps, EndSteps
<1>6. TypeOK'
  BY <1>1, <1>5 DEF StartCall, TypeOK, Moves, RunEnded, TaskEnded, rows, others
<1>7. OnlyOwnRow(e) /\ UnbegunIsBlank'
  BY <1>1, <1>3, <1>4 DEF StartCall, TypeOK, OnlyOwnRow, Harmless, UnbegunIsBlank, rows
<1>8. NumbersAreAttempts(e)' /\ exec'[e].n = exec[e].n
  BY <1>2, <1>3, <1>4, <1>5, <1>7 DEF Moves, NumbersAreAttempts, OnlyOwnRow, Harmless, Pcs, AttemptSteps, FinalizeSteps, OutsideSteps, EndSteps, Past, Works
<1>9. ProgressIsRecorded(e)'
  BY <1>1, <1>2, <1>3, <1>4, <1>5 DEF StartCall, At, TypeOK, Moves, ProgressIsRecorded, Past, rows
<1>10. run' = "completed" => run = "completed"
  BY DEF StartCall, rows
<1>11. QED
  BY <1>1, <1>4, <1>5, <1>6, <1>7, <1>8, <1>9, <1>10, OrderlyStep DEF Moves, Works, Pcs, AttemptSteps, FinalizeSteps, OutsideSteps, EndSteps

LEMMA AnsweredStep ==
  ASSUME BackingInv, NEW e \in Executors, Answered(e)
  PROVE  BackingInv'
<1>1. TypeOK /\ exec \in [Actors -> Exec] /\ e \in Actors /\ run \in {"created", "running"} \cup RunEnded
  BY DEF BackingInv, TypeOK, Actors
<1>2. exec[e].pc \in {"answered"}
  BY DEF Answered, RecordCall, At
<1>3. NumbersAreAttempts(e) /\ ProgressIsRecorded(e) /\ UnbegunIsBlank
  BY DEF BackingInv
<1>4. Works(e) /\ exec[e].n \in Attempts /\ attempt[exec[e].n] /= "none"
  BY <1>2, <1>3 DEF Works, AttemptSteps, NumbersAreAttempts
<1>5. PICK pc \in {"settle", "late"} : Moves(e, pc) /\ (pc = "settle" => call'[exec[e].n] = "success")
  BY <1>1, <1>2, <1>4, GotoMoves DEF Answered, RecordCall, Pcs, AttemptSteps, FinalizeSteps, OutsideSteps, EndSteps, At, TypeOK
<1>6. TypeOK'
  BY <1>1, <1>5 DEF Answered, RecordCall, TypeOK, Moves, RunEnded, TaskEnded, rows, others
<1>7. OnlyOwnRow(e) /\ UnbegunIsBlank'
  BY <1>1, <1>3, <1>4 DEF Answered, RecordCall, TypeOK, OnlyOwnRow, Harmless, UnbegunIsBlank, rows
<1>8. NumbersAreAttempts(e)' /\ exec'[e].n = exec[e].n
  BY <1>2, <1>3, <1>4, <1>5, <1>7 DEF Moves, NumbersAreAttempts, OnlyOwnRow, Harmless, Pcs, AttemptSteps, FinalizeSteps, OutsideSteps, EndSteps, Past, Works
<1>9. ProgressIsRecorded(e)'
  BY <1>1, <1>2, <1>3, <1>4, <1>5 DEF Answered, RecordCall, At, TypeOK, Moves, ProgressIsRecorded, Past, rows
<1>10. run' = "completed" => run = "completed"
  BY DEF Answered, RecordCall, rows
<1>11. QED
  BY <1>1, <1>4, <1>5, <1>6, <1>7, <1>8, <1>9, <1>10, OrderlyStep DEF Moves, Works, Pcs, AttemptSteps, FinalizeSteps, OutsideSteps, EndSteps

LEMMA CallErrorStep ==
  ASSUME BackingInv, NEW e \in Executors, CallError(e)
  PROVE  BackingInv'
<1>1. TypeOK /\ exec \in [Actors -> Exec] /\ e \in Actors /\ run \in {"created", "running"} \cup RunEnded
  BY DEF BackingInv, TypeOK, Actors
<1>2. exec[e].pc \in {"callError"}
  BY DEF CallError, RecordCall, At
<1>3. NumbersAreAttempts(e) /\ ProgressIsRecorded(e) /\ UnbegunIsBlank
  BY DEF BackingInv
<1>4. Works(e) /\ exec[e].n \in Attempts /\ attempt[exec[e].n] /= "none"
  BY <1>2, <1>3 DEF Works, AttemptSteps, NumbersAreAttempts
<1>5. PICK pc \in {"release", "return"} : Moves(e, pc)
  BY <1>1, GotoMoves DEF CallError, RecordCall, Pcs, AttemptSteps, FinalizeSteps, OutsideSteps, EndSteps
<1>6. TypeOK'
  BY <1>1, <1>5 DEF CallError, RecordCall, TypeOK, Moves, RunEnded, TaskEnded, rows, others
<1>7. OnlyOwnRow(e) /\ UnbegunIsBlank'
  BY <1>1, <1>3, <1>4 DEF CallError, RecordCall, TypeOK, OnlyOwnRow, Harmless, UnbegunIsBlank, rows
<1>8. NumbersAreAttempts(e)' /\ exec'[e].n = exec[e].n
  BY <1>2, <1>3, <1>4, <1>5, <1>7 DEF Moves, NumbersAreAttempts, OnlyOwnRow, Harmless, Pcs, AttemptSteps, FinalizeSteps, OutsideSteps, EndSteps, Past, Works
<1>9. ProgressIsRecorded(e)'
  BY <1>1, <1>2, <1>3, <1>4, <1>5 DEF CallError, RecordCall, At, TypeOK, Moves, ProgressIsRecorded, Past, rows
<1>10. run' = "completed" => run = "completed"
  BY DEF CallError, RecordCall, rows
<1>11. QED
  BY <1>1, <1>4, <1>5, <1>6, <1>7, <1>8, <1>9, <1>10, OrderlyStep DEF Moves, Works, Pcs, AttemptSteps, FinalizeSteps, OutsideSteps, EndSteps

LEMMA SettleStep ==
  ASSUME BackingInv, NEW e \in Executors, Settle(e)
  PROVE  BackingInv'
<1>1. TypeOK /\ exec \in [Actors -> Exec] /\ e \in Actors /\ run \in {"created", "running"} \cup RunEnded
  BY DEF BackingInv, TypeOK, Actors
<1>2. exec[e].pc \in {"settle", "late"}
  BY DEF Settle, At
<1>3. NumbersAreAttempts(e) /\ ProgressIsRecorded(e) /\ UnbegunIsBlank
  BY DEF BackingInv
<1>4. Works(e) /\ exec[e].n \in Attempts /\ attempt[exec[e].n] /= "none"
  BY <1>2, <1>3 DEF Works, AttemptSteps, NumbersAreAttempts
<1>5. PICK pc \in {"usage", "return"} : Moves(e, pc) /\ (pc = "usage" => exec[e].pc = "settle")
  BY <1>1, <1>2, <1>4, GotoMoves DEF Settle, Pcs, AttemptSteps, FinalizeSteps, OutsideSteps, EndSteps, At, TypeOK
<1>6. TypeOK'
  BY <1>1, <1>5, ZenonT(60) DEF Settle, TypeOK, Moves, RunEnded, TaskEnded, rows, others
<1>7. OnlyOwnRow(e) /\ UnbegunIsBlank'
  BY <1>1, <1>3, <1>4 DEF Settle, TypeOK, OnlyOwnRow, Harmless, UnbegunIsBlank, rows
<1>8. NumbersAreAttempts(e)' /\ exec'[e].n = exec[e].n
  BY <1>2, <1>3, <1>4, <1>5, <1>7 DEF Moves, NumbersAreAttempts, OnlyOwnRow, Harmless, Pcs, AttemptSteps, FinalizeSteps, OutsideSteps, EndSteps, Past, Works
<1>9. ProgressIsRecorded(e)'
  BY <1>1, <1>2, <1>3, <1>4, <1>5 DEF Settle, At, TypeOK, Moves, ProgressIsRecorded, Past, rows
<1>10. run' = "completed" => run = "completed"
  BY DEF Settle, rows
<1>11. QED
  BY <1>1, <1>4, <1>5, <1>6, <1>7, <1>8, <1>9, <1>10, OrderlyStep DEF Moves, Works, Pcs, AttemptSteps, FinalizeSteps, OutsideSteps, EndSteps

LEMMA RecordUsageStep ==
  ASSUME BackingInv, NEW e \in Executors, RecordUsage(e)
  PROVE  BackingInv'
<1>1. TypeOK /\ exec \in [Actors -> Exec] /\ e \in Actors /\ run \in {"created", "running"} \cup RunEnded
  BY DEF BackingInv, TypeOK, Actors
<1>2. exec[e].pc \in {"usage"}
  BY DEF RecordUsage, Record, At
<1>3. NumbersAreAttempts(e) /\ ProgressIsRecorded(e) /\ UnbegunIsBlank
  BY DEF BackingInv
<1>4. Works(e) /\ exec[e].n \in Attempts /\ attempt[exec[e].n] /= "none"
  BY <1>2, <1>3 DEF Works, AttemptSteps, NumbersAreAttempts
<1>5. PICK pc \in {"artifact"} : Moves(e, pc)
  BY <1>1, GotoMoves DEF RecordUsage, Record, Pcs, AttemptSteps, FinalizeSteps, OutsideSteps, EndSteps
<1>6. TypeOK'
  BY <1>1, <1>5, ZenonT(60) DEF RecordUsage, Record, TypeOK, Moves, RunEnded, TaskEnded, rows, others
<1>7. OnlyOwnRow(e) /\ UnbegunIsBlank'
  BY <1>1, <1>3, <1>4 DEF RecordUsage, Record, TypeOK, OnlyOwnRow, Harmless, UnbegunIsBlank, rows
<1>8. NumbersAreAttempts(e)' /\ exec'[e].n = exec[e].n
  BY <1>2, <1>3, <1>4, <1>5, <1>7 DEF Moves, NumbersAreAttempts, OnlyOwnRow, Harmless, Pcs, AttemptSteps, FinalizeSteps, OutsideSteps, EndSteps, Past, Works
<1>9. ProgressIsRecorded(e)'
  BY <1>1, <1>2, <1>3, <1>4, <1>5 DEF RecordUsage, Record, At, TypeOK, Moves, ProgressIsRecorded, Past, rows
<1>10. run' = "completed" => run = "completed"
  BY DEF RecordUsage, Record, rows
<1>11. QED
  BY <1>1, <1>4, <1>5, <1>6, <1>7, <1>8, <1>9, <1>10, OrderlyStep DEF Moves, Works, Pcs, AttemptSteps, FinalizeSteps, OutsideSteps, EndSteps

LEMMA CreateArtifactStep ==
  ASSUME BackingInv, NEW e \in Executors, CreateArtifact(e)
  PROVE  BackingInv'
<1>1. TypeOK /\ exec \in [Actors -> Exec] /\ e \in Actors /\ run \in {"created", "running"} \cup RunEnded
  BY DEF BackingInv, TypeOK, Actors
<1>2. exec[e].pc \in {"artifact"}
  BY DEF CreateArtifact, Record, At
<1>3. NumbersAreAttempts(e) /\ ProgressIsRecorded(e) /\ UnbegunIsBlank
  BY DEF BackingInv
<1>4. Works(e) /\ exec[e].n \in Attempts /\ attempt[exec[e].n] /= "none"
  BY <1>2, <1>3 DEF Works, AttemptSteps, NumbersAreAttempts
<1>5. PICK pc \in {"finishAttempt"} : Moves(e, pc)
  BY <1>1, GotoMoves DEF CreateArtifact, Record, Pcs, AttemptSteps, FinalizeSteps, OutsideSteps, EndSteps
<1>6. TypeOK'
  BY <1>1, <1>5, ZenonT(60) DEF CreateArtifact, Record, TypeOK, Moves, RunEnded, TaskEnded, rows, others
<1>7. OnlyOwnRow(e) /\ UnbegunIsBlank'
  BY <1>1, <1>3, <1>4 DEF CreateArtifact, Record, TypeOK, OnlyOwnRow, Harmless, UnbegunIsBlank, rows
<1>8. NumbersAreAttempts(e)' /\ exec'[e].n = exec[e].n
  BY <1>2, <1>3, <1>4, <1>5, <1>7 DEF Moves, NumbersAreAttempts, OnlyOwnRow, Harmless, Pcs, AttemptSteps, FinalizeSteps, OutsideSteps, EndSteps, Past, Works
<1>9. ProgressIsRecorded(e)'
  BY <1>1, <1>2, <1>3, <1>4, <1>5 DEF CreateArtifact, Record, At, TypeOK, Moves, ProgressIsRecorded, Past, rows
<1>10. run' = "completed" => run = "completed"
  BY DEF CreateArtifact, Record, rows
<1>11. QED
  BY <1>1, <1>4, <1>5, <1>6, <1>7, <1>8, <1>9, <1>10, OrderlyStep DEF Moves, Works, Pcs, AttemptSteps, FinalizeSteps, OutsideSteps, EndSteps

LEMMA FinishAttemptStep ==
  ASSUME BackingInv, NEW e \in Executors, FinishAttempt(e)
  PROVE  BackingInv'
<1>1. TypeOK /\ exec \in [Actors -> Exec] /\ e \in Actors /\ run \in {"created", "running"} \cup RunEnded
  BY DEF BackingInv, TypeOK, Actors
<1>2. exec[e].pc \in {"finishAttempt"}
  BY DEF FinishAttempt, At
<1>3. NumbersAreAttempts(e) /\ ProgressIsRecorded(e) /\ UnbegunIsBlank
  BY DEF BackingInv
<1>4. Works(e) /\ exec[e].n \in Attempts /\ attempt[exec[e].n] /= "none"
  BY <1>2, <1>3 DEF Works, AttemptSteps, NumbersAreAttempts
<1>5. PICK pc \in {"finishRun", "return"} : Moves(e, pc) /\ (pc = "finishRun" => attempt'[exec[e].n] = "completed")
  BY <1>1, <1>2, <1>4, GotoMoves DEF FinishAttempt, Pcs, AttemptSteps, FinalizeSteps, OutsideSteps, EndSteps, At, TypeOK
<1>6. TypeOK'
  BY <1>1, <1>5 DEF FinishAttempt, TypeOK, Moves, RunEnded, TaskEnded, rows, others
<1>7. OnlyOwnRow(e) /\ UnbegunIsBlank'
  BY <1>1, <1>3, <1>4 DEF FinishAttempt, TypeOK, OnlyOwnRow, Harmless, UnbegunIsBlank, rows
<1>8. NumbersAreAttempts(e)' /\ exec'[e].n = exec[e].n
  BY <1>2, <1>3, <1>4, <1>5, <1>7 DEF Moves, NumbersAreAttempts, OnlyOwnRow, Harmless, Pcs, AttemptSteps, FinalizeSteps, OutsideSteps, EndSteps, Past, Works
<1>9. ProgressIsRecorded(e)'
  BY <1>1, <1>2, <1>3, <1>4, <1>5 DEF FinishAttempt, At, TypeOK, Moves, ProgressIsRecorded, Past, rows
<1>10. run' = "completed" => run = "completed"
  BY DEF FinishAttempt, rows
<1>11. QED
  BY <1>1, <1>4, <1>5, <1>6, <1>7, <1>8, <1>9, <1>10, OrderlyStep DEF Moves, Works, Pcs, AttemptSteps, FinalizeSteps, OutsideSteps, EndSteps

LEMMA FinishRunStep ==
  ASSUME BackingInv, NEW e \in Executors, FinishRun(e)
  PROVE  BackingInv'
<1>1. TypeOK /\ exec \in [Actors -> Exec] /\ e \in Actors /\ run \in {"created", "running"} \cup RunEnded
  BY DEF BackingInv, TypeOK, Actors
<1>2. exec[e].pc \in {"finishRun"}
  BY DEF FinishRun, ClaimRunTerminal, At
<1>3. NumbersAreAttempts(e) /\ ProgressIsRecorded(e) /\ UnbegunIsBlank
  BY DEF BackingInv
<1>4. Works(e) /\ exec[e].n \in Attempts /\ attempt[exec[e].n] /= "none"
  BY <1>2, <1>3 DEF Works, AttemptSteps, NumbersAreAttempts
<1>5. PICK pc \in {"stop1", "verify", "return"} : Moves(e, pc) /\ (run' /= run => pc = "verify")
  BY <1>1, <1>2, <1>4, GotoMoves DEF FinishRun, ClaimRunTerminal, Pcs, AttemptSteps, FinalizeSteps, OutsideSteps, EndSteps, At, TypeOK
<1>6. TypeOK'
  BY <1>1, <1>5 DEF FinishRun, ClaimRunTerminal, TypeOK, Moves, RunEnded, TaskEnded, rows, others
<1>7. OnlyOwnRow(e) /\ UnbegunIsBlank'
  BY <1>1, <1>3, <1>4 DEF FinishRun, ClaimRunTerminal, TypeOK, OnlyOwnRow, Harmless, UnbegunIsBlank, rows
<1>8. NumbersAreAttempts(e)' /\ exec'[e].n = exec[e].n
  BY <1>2, <1>3, <1>4, <1>5, <1>7 DEF Moves, NumbersAreAttempts, OnlyOwnRow, Harmless, Pcs, AttemptSteps, FinalizeSteps, OutsideSteps, EndSteps, Past, Works
<1>9. ProgressIsRecorded(e)'
  BY <1>1, <1>2, <1>3, <1>4, <1>5 DEF FinishRun, ClaimRunTerminal, At, TypeOK, Moves, ProgressIsRecorded, Past, rows
<1>10. run' = "completed" /\ run /= "completed" => ~Works(e)' /\ Backed(exec[e].n)'
  <2> SUFFICES ASSUME run' /= run PROVE ~Works(e)' /\ Backed(exec[e].n)'
    OBVIOUS
  <2>1. ~Works(e)'
    BY <1>5 DEF Moves, Works, AttemptSteps
  <2>2. Backed(exec[e].n)
    BY <1>1, <1>2, <1>3, <1>4 DEF TypeOK, ProgressIsRecorded, Past, Backed
  <2>3. QED
    BY <1>8, <2>1, <2>2 DEF Backed, FinishRun
<1>11. QED
  BY <1>1, <1>4, <1>5, <1>6, <1>7, <1>8, <1>9, <1>10, OrderlyStep DEF Moves, Works, Pcs, AttemptSteps, FinalizeSteps, OutsideSteps, EndSteps

LEMMA VerifyStep ==
  ASSUME BackingInv, NEW e \in Executors, Verify(e)
  PROVE  BackingInv'
<1>1. TypeOK /\ exec \in [Actors -> Exec] /\ e \in Actors /\ run \in {"created", "running"} \cup RunEnded
  BY DEF BackingInv, TypeOK, Actors
<1>2. exec[e].pc \in {"verify"}
  BY DEF Verify, SetTask, At
<1>3. NumbersAreAttempts(e) /\ ProgressIsRecorded(e) /\ UnbegunIsBlank
  BY DEF BackingInv
<1>4. ~Works(e)
  BY <1>2 DEF Works, AttemptSteps, FinalizeSteps, OutsideSteps
<1>5. PICK pc \in {"complete"} : Moves(e, pc)
  BY <1>1, GotoMoves DEF Verify, SetTask, Pcs, AttemptSteps, FinalizeSteps, OutsideSteps, EndSteps
<1>6. TypeOK'
  BY <1>1, <1>5 DEF Verify, SetTask, TypeOK, Moves, RunEnded, TaskEnded, rows, others
<1>7. OnlyOwnRow(e) /\ UnbegunIsBlank'
  BY <1>1, <1>3, <1>4 DEF Verify, SetTask, TypeOK, OnlyOwnRow, Harmless, UnbegunIsBlank, rows
<1>8. NumbersAreAttempts(e)' /\ exec'[e].n = exec[e].n
  BY <1>2, <1>3, <1>4, <1>5, <1>7 DEF Moves, NumbersAreAttempts, OnlyOwnRow, Harmless, Pcs, AttemptSteps, FinalizeSteps, OutsideSteps, EndSteps, Past, Works
<1>9. ProgressIsRecorded(e)'
  BY <1>1, <1>2, <1>3, <1>4, <1>5 DEF Verify, SetTask, At, TypeOK, Moves, ProgressIsRecorded, Past, rows
<1>10. run' = "completed" => run = "completed"
  BY DEF Verify, SetTask, rows
<1>11. QED
  BY <1>1, <1>4, <1>5, <1>6, <1>7, <1>8, <1>9, <1>10, OrderlyStep DEF Moves, Works, Pcs, AttemptSteps, FinalizeSteps, OutsideSteps, EndSteps

LEMMA CompleteStep ==
  ASSUME BackingInv, NEW e \in Executors, Complete(e)
  PROVE  BackingInv'
<1>1. TypeOK /\ exec \in [Actors -> Exec] /\ e \in Actors /\ run \in {"created", "running"} \cup RunEnded
  BY DEF BackingInv, TypeOK, Actors
<1>2. exec[e].pc \in {"complete"}
  BY DEF Complete, SetTask, At
<1>3. NumbersAreAttempts(e) /\ ProgressIsRecorded(e) /\ UnbegunIsBlank
  BY DEF BackingInv
<1>4. ~Works(e)
  BY <1>2 DEF Works, AttemptSteps, FinalizeSteps, OutsideSteps
<1>5. PICK pc \in {"return"} : Moves(e, pc)
  BY <1>1, GotoMoves DEF Complete, SetTask, Pcs, AttemptSteps, FinalizeSteps, OutsideSteps, EndSteps
<1>6. TypeOK'
  BY <1>1, <1>5 DEF Complete, SetTask, TypeOK, Moves, RunEnded, TaskEnded, rows, others
<1>7. OnlyOwnRow(e) /\ UnbegunIsBlank'
  BY <1>1, <1>3, <1>4 DEF Complete, SetTask, TypeOK, OnlyOwnRow, Harmless, UnbegunIsBlank, rows
<1>8. NumbersAreAttempts(e)' /\ exec'[e].n = exec[e].n
  BY <1>2, <1>3, <1>4, <1>5, <1>7 DEF Moves, NumbersAreAttempts, OnlyOwnRow, Harmless, Pcs, AttemptSteps, FinalizeSteps, OutsideSteps, EndSteps, Past, Works
<1>9. ProgressIsRecorded(e)'
  BY <1>1, <1>2, <1>3, <1>4, <1>5 DEF Complete, SetTask, At, TypeOK, Moves, ProgressIsRecorded, Past, rows
<1>10. run' = "completed" => run = "completed"
  BY DEF Complete, SetTask, rows
<1>11. QED
  BY <1>1, <1>4, <1>5, <1>6, <1>7, <1>8, <1>9, <1>10, OrderlyStep DEF Moves, Works, Pcs, AttemptSteps, FinalizeSteps, OutsideSteps, EndSteps

LEMMA FailAttemptStep ==
  ASSUME BackingInv, NEW e \in Executors, FailAttempt(e)
  PROVE  BackingInv'
<1>1. TypeOK /\ exec \in [Actors -> Exec] /\ e \in Actors /\ run \in {"created", "running"} \cup RunEnded
  BY DEF BackingInv, TypeOK, Actors
<1>2. exec[e].pc \in {"fail1"}
  BY DEF FailAttempt, At
<1>3. NumbersAreAttempts(e) /\ ProgressIsRecorded(e) /\ UnbegunIsBlank
  BY DEF BackingInv
<1>4. Works(e) /\ exec[e].n \in Attempts /\ attempt[exec[e].n] /= "none"
  BY <1>2, <1>3 DEF Works, AttemptSteps, NumbersAreAttempts
<1>5. PICK pc \in {"fail2"} : Moves(e, pc)
  BY <1>1, GotoMoves DEF FailAttempt, Pcs, AttemptSteps, FinalizeSteps, OutsideSteps, EndSteps
<1>6. TypeOK'
  BY <1>1, <1>5, ZenonT(60) DEF FailAttempt, TypeOK, Moves, RunEnded, TaskEnded, rows, others
<1>7. OnlyOwnRow(e) /\ UnbegunIsBlank'
  BY <1>1, <1>3, <1>4 DEF FailAttempt, TypeOK, OnlyOwnRow, Harmless, UnbegunIsBlank, rows
<1>8. NumbersAreAttempts(e)' /\ exec'[e].n = exec[e].n
  BY <1>2, <1>3, <1>4, <1>5, <1>7 DEF Moves, NumbersAreAttempts, OnlyOwnRow, Harmless, Pcs, AttemptSteps, FinalizeSteps, OutsideSteps, EndSteps, Past, Works
<1>9. ProgressIsRecorded(e)'
  BY <1>1, <1>2, <1>3, <1>4, <1>5 DEF FailAttempt, At, TypeOK, Moves, ProgressIsRecorded, Past, rows
<1>10. run' = "completed" => run = "completed"
  BY DEF FailAttempt, rows
<1>11. QED
  BY <1>1, <1>4, <1>5, <1>6, <1>7, <1>8, <1>9, <1>10, OrderlyStep DEF Moves, Works, Pcs, AttemptSteps, FinalizeSteps, OutsideSteps, EndSteps

LEMMA StopRunStep ==
  ASSUME BackingInv, NEW e \in Executors, StopRun(e)
  PROVE  BackingInv'
<1>1. TypeOK /\ exec \in [Actors -> Exec] /\ e \in Actors /\ run \in {"created", "running"} \cup RunEnded
  BY DEF BackingInv, TypeOK, Actors
<1>2. exec[e].pc \in {"stop1"}
  BY DEF StopRun, ClaimRunTerminal, At
<1>3. NumbersAreAttempts(e) /\ ProgressIsRecorded(e) /\ UnbegunIsBlank
  BY DEF BackingInv
<1>4. Works(e) /\ exec[e].n \in Attempts /\ attempt[exec[e].n] /= "none"
  BY <1>2, <1>3 DEF Works, AttemptSteps, NumbersAreAttempts
<1>5. PICK pc \in {"stop2", "return"} : Moves(e, pc)
  BY <1>1, GotoMoves DEF StopRun, ClaimRunTerminal, Pcs, AttemptSteps, FinalizeSteps, OutsideSteps, EndSteps
<1>6. TypeOK'
  BY <1>1, <1>5 DEF StopRun, ClaimRunTerminal, TypeOK, Moves, RunEnded, TaskEnded, rows, others
<1>7. OnlyOwnRow(e) /\ UnbegunIsBlank'
  BY <1>1, <1>3, <1>4 DEF StopRun, ClaimRunTerminal, TypeOK, OnlyOwnRow, Harmless, UnbegunIsBlank, rows
<1>8. NumbersAreAttempts(e)' /\ exec'[e].n = exec[e].n
  BY <1>2, <1>3, <1>4, <1>5, <1>7 DEF Moves, NumbersAreAttempts, OnlyOwnRow, Harmless, Pcs, AttemptSteps, FinalizeSteps, OutsideSteps, EndSteps, Past, Works
<1>9. ProgressIsRecorded(e)'
  BY <1>1, <1>2, <1>3, <1>4, <1>5 DEF StopRun, ClaimRunTerminal, At, TypeOK, Moves, ProgressIsRecorded, Past, rows
<1>10. run' = "completed" => run = "completed"
  BY DEF StopRun, ClaimRunTerminal, rows
<1>11. QED
  BY <1>1, <1>4, <1>5, <1>6, <1>7, <1>8, <1>9, <1>10, OrderlyStep DEF Moves, Works, Pcs, AttemptSteps, FinalizeSteps, OutsideSteps, EndSteps

LEMMA StopAttemptStep ==
  ASSUME BackingInv, NEW e \in Executors, StopAttempt(e)
  PROVE  BackingInv'
<1>1. TypeOK /\ exec \in [Actors -> Exec] /\ e \in Actors /\ run \in {"created", "running"} \cup RunEnded
  BY DEF BackingInv, TypeOK, Actors
<1>2. exec[e].pc \in {"stop2"}
  BY DEF StopAttempt, At
<1>3. NumbersAreAttempts(e) /\ ProgressIsRecorded(e) /\ UnbegunIsBlank
  BY DEF BackingInv
<1>4. Works(e) /\ exec[e].n \in Attempts /\ attempt[exec[e].n] /= "none"
  BY <1>2, <1>3 DEF Works, AttemptSteps, NumbersAreAttempts
<1>5. PICK pc \in {"stop3"} : Moves(e, pc)
  BY <1>1, GotoMoves DEF StopAttempt, Pcs, AttemptSteps, FinalizeSteps, OutsideSteps, EndSteps
<1>6. TypeOK'
  BY <1>1, <1>5 DEF StopAttempt, TypeOK, Moves, RunEnded, TaskEnded, rows, others
<1>7. OnlyOwnRow(e) /\ UnbegunIsBlank'
  BY <1>1, <1>3, <1>4 DEF StopAttempt, TypeOK, OnlyOwnRow, Harmless, UnbegunIsBlank, rows
<1>8. NumbersAreAttempts(e)' /\ exec'[e].n = exec[e].n
  BY <1>2, <1>3, <1>4, <1>5, <1>7 DEF Moves, NumbersAreAttempts, OnlyOwnRow, Harmless, Pcs, AttemptSteps, FinalizeSteps, OutsideSteps, EndSteps, Past, Works
<1>9. ProgressIsRecorded(e)'
  BY <1>1, <1>2, <1>3, <1>4, <1>5 DEF StopAttempt, At, TypeOK, Moves, ProgressIsRecorded, Past, rows
<1>10. run' = "completed" => run = "completed"
  BY DEF StopAttempt, rows
<1>11. QED
  BY <1>1, <1>4, <1>5, <1>6, <1>7, <1>8, <1>9, <1>10, OrderlyStep DEF Moves, Works, Pcs, AttemptSteps, FinalizeSteps, OutsideSteps, EndSteps

LEMMA StopTaskStep ==
  ASSUME BackingInv, NEW e \in Executors, StopTask(e)
  PROVE  BackingInv'
<1>1. TypeOK /\ exec \in [Actors -> Exec] /\ e \in Actors /\ run \in {"created", "running"} \cup RunEnded
  BY DEF BackingInv, TypeOK, Actors
<1>2. exec[e].pc \in {"stop3"}
  BY DEF StopTask, SetTask, At
<1>3. NumbersAreAttempts(e) /\ ProgressIsRecorded(e) /\ UnbegunIsBlank
  BY DEF BackingInv
<1>4. Works(e) /\ exec[e].n \in Attempts /\ attempt[exec[e].n] /= "none"
  BY <1>2, <1>3 DEF Works, AttemptSteps, NumbersAreAttempts
<1>5. PICK pc \in {"return"} : Moves(e, pc)
  BY <1>1, GotoMoves DEF StopTask, SetTask, Pcs, AttemptSteps, FinalizeSteps, OutsideSteps, EndSteps
<1>6. TypeOK'
  BY <1>1, <1>5 DEF StopTask, SetTask, TypeOK, Moves, RunEnded, TaskEnded, rows, others
<1>7. OnlyOwnRow(e) /\ UnbegunIsBlank'
  BY <1>1, <1>3, <1>4 DEF StopTask, SetTask, TypeOK, OnlyOwnRow, Harmless, UnbegunIsBlank, rows
<1>8. NumbersAreAttempts(e)' /\ exec'[e].n = exec[e].n
  BY <1>2, <1>3, <1>4, <1>5, <1>7 DEF Moves, NumbersAreAttempts, OnlyOwnRow, Harmless, Pcs, AttemptSteps, FinalizeSteps, OutsideSteps, EndSteps, Past, Works
<1>9. ProgressIsRecorded(e)'
  BY <1>1, <1>2, <1>3, <1>4, <1>5 DEF StopTask, SetTask, At, TypeOK, Moves, ProgressIsRecorded, Past, rows
<1>10. run' = "completed" => run = "completed"
  BY DEF StopTask, SetTask, rows
<1>11. QED
  BY <1>1, <1>4, <1>5, <1>6, <1>7, <1>8, <1>9, <1>10, OrderlyStep DEF Moves, Works, Pcs, AttemptSteps, FinalizeSteps, OutsideSteps, EndSteps

LEMMA FailDanglingStep ==
  ASSUME BackingInv, NEW e \in Executors, FailDangling(e)
  PROVE  BackingInv'
<1>1. TypeOK /\ exec \in [Actors -> Exec] /\ e \in Actors /\ run \in {"created", "running"} \cup RunEnded
  BY DEF BackingInv, TypeOK, Actors
<1>2. exec[e].pc \in {"dangling"}
  BY DEF FailDangling, At
<1>3. NumbersAreAttempts(e) /\ ProgressIsRecorded(e) /\ UnbegunIsBlank
  BY DEF BackingInv
<1>4. ~Works(e)
  BY <1>2 DEF Works, AttemptSteps, FinalizeSteps, OutsideSteps
<1>5. PICK pc \in {"fail2"} : Moves(e, pc)
  BY <1>1, GotoMoves DEF FailDangling, Pcs, AttemptSteps, FinalizeSteps, OutsideSteps, EndSteps
<1>6. TypeOK'
  BY <1>1, <1>5 DEF FailDangling, TypeOK, Moves, RunEnded, TaskEnded, rows, others
<1>7. OnlyOwnRow(e) /\ UnbegunIsBlank'
  BY <1>1, <1>3, <1>4 DEF FailDangling, TypeOK, OnlyOwnRow, Harmless, UnbegunIsBlank, rows
<1>8. NumbersAreAttempts(e)' /\ exec'[e].n = exec[e].n
  BY <1>2, <1>3, <1>4, <1>5, <1>7 DEF Moves, NumbersAreAttempts, OnlyOwnRow, Harmless, Pcs, AttemptSteps, FinalizeSteps, OutsideSteps, EndSteps, Past, Works
<1>9. ProgressIsRecorded(e)'
  BY <1>1, <1>2, <1>3, <1>4, <1>5 DEF FailDangling, At, TypeOK, Moves, ProgressIsRecorded, Past, rows
<1>10. run' = "completed" => run = "completed"
  BY DEF FailDangling, rows
<1>11. QED
  BY <1>1, <1>4, <1>5, <1>6, <1>7, <1>8, <1>9, <1>10, OrderlyStep DEF Moves, Works, Pcs, AttemptSteps, FinalizeSteps, OutsideSteps, EndSteps

LEMMA ClaimStep ==
  ASSUME BackingInv, NEW e \in Executors, Claim(e)
  PROVE  BackingInv'
<1>1. TypeOK /\ exec \in [Actors -> Exec] /\ run \in {"created", "running"} \cup RunEnded
  BY DEF BackingInv, TypeOK
<1>2. PICK pc \in {"recover"} : Moves(e, pc)
  BY <1>1, GotoMoves DEF Claim, Pcs, AttemptSteps, FinalizeSteps, OutsideSteps, EndSteps, Actors
<1>3. TypeOK'
  BY <1>1, <1>2 DEF Claim, TypeOK, Moves, RunEnded, TaskEnded, rows, others
<1>4. \A n \in Attempts : Harmless(n)
  BY <1>1 DEF Claim, TypeOK, Harmless, rows
<1>5. run' = "completed" => run = "completed"
  BY DEF Claim, rows
<1>6. QED
  BY <1>1, <1>2, <1>3, <1>4, <1>5, LeavingStep DEF Moves, Pcs, AttemptSteps, FinalizeSteps, OutsideSteps, EndSteps, Actors

LEMMA SweepStep ==
  ASSUME BackingInv, NEW a \in Sweepers, Sweep(a)
  PROVE  BackingInv'
<1>1. TypeOK /\ exec \in [Actors -> Exec] /\ run \in {"created", "running"} \cup RunEnded
  BY DEF BackingInv, TypeOK
<1>2. PICK pc \in {"interrupt"} : Moves(a, pc)
  BY <1>1, GotoMoves DEF Sweep, Pcs, AttemptSteps, FinalizeSteps, OutsideSteps, EndSteps, Actors
<1>3. TypeOK'
  BY <1>1, <1>2 DEF Sweep, TypeOK, Moves, RunEnded, TaskEnded, rows, others
<1>4. \A n \in Attempts : Harmless(n)
  BY <1>1 DEF Sweep, TypeOK, Harmless, rows
<1>5. run' = "completed" => run = "completed"
  BY DEF Sweep, rows
<1>6. QED
  BY <1>1, <1>2, <1>3, <1>4, <1>5, LeavingStep DEF Moves, Pcs, AttemptSteps, FinalizeSteps, OutsideSteps, EndSteps, Actors

LEMMA InterruptStep ==
  ASSUME BackingInv, NEW a \in Actors, Interrupt(a)
  PROVE  BackingInv'
<1>1. TypeOK /\ exec \in [Actors -> Exec] /\ run \in {"created", "running"} \cup RunEnded
  BY DEF BackingInv, TypeOK
<1>2. PICK pc \in {"return", "fail2"} : Moves(a, pc)
  BY <1>1, GotoMoves DEF Interrupt, Pcs, AttemptSteps, FinalizeSteps, OutsideSteps, EndSteps, Actors
<1>3. TypeOK'
  BY <1>1, <1>2 DEF Interrupt, TypeOK, Moves, RunEnded, TaskEnded, rows, others
<1>4. \A n \in Attempts : Harmless(n)
  BY <1>1 DEF Interrupt, TypeOK, Harmless, rows
<1>5. run' = "completed" => run = "completed"
  BY DEF Interrupt, rows
<1>6. QED
  BY <1>1, <1>2, <1>3, <1>4, <1>5, LeavingStep DEF Moves, Pcs, AttemptSteps, FinalizeSteps, OutsideSteps, EndSteps, Actors

LEMMA FailRunStep ==
  ASSUME BackingInv, NEW a \in Actors, FailRun(a)
  PROVE  BackingInv'
<1>1. TypeOK /\ exec \in [Actors -> Exec] /\ run \in {"created", "running"} \cup RunEnded
  BY DEF BackingInv, TypeOK
<1>2. PICK pc \in {"fail3", "return"} : Moves(a, pc)
  BY <1>1, GotoMoves DEF FailRun, ClaimRunTerminal, Pcs, AttemptSteps, FinalizeSteps, OutsideSteps, EndSteps, Actors
<1>3. TypeOK'
  BY <1>1, <1>2 DEF FailRun, ClaimRunTerminal, TypeOK, Moves, RunEnded, TaskEnded, rows, others
<1>4. \A n \in Attempts : Harmless(n)
  BY <1>1 DEF FailRun, ClaimRunTerminal, TypeOK, Harmless, rows
<1>5. run' = "completed" => run = "completed"
  BY DEF FailRun, ClaimRunTerminal, rows
<1>6. QED
  BY <1>1, <1>2, <1>3, <1>4, <1>5, LeavingStep DEF Moves, Pcs, AttemptSteps, FinalizeSteps, OutsideSteps, EndSteps, Actors

LEMMA FailTaskStep ==
  ASSUME BackingInv, NEW a \in Actors, FailTask(a)
  PROVE  BackingInv'
<1>1. TypeOK /\ exec \in [Actors -> Exec] /\ run \in {"created", "running"} \cup RunEnded
  BY DEF BackingInv, TypeOK
<1>2. PICK pc \in {"return"} : Moves(a, pc)
  BY <1>1, GotoMoves DEF FailTask, SetTask, Pcs, AttemptSteps, FinalizeSteps, OutsideSteps, EndSteps, Actors
<1>3. TypeOK'
  BY <1>1, <1>2 DEF FailTask, SetTask, TypeOK, Moves, RunEnded, TaskEnded, rows, others
<1>4. \A n \in Attempts : Harmless(n)
  BY <1>1 DEF FailTask, SetTask, TypeOK, Harmless, rows
<1>5. run' = "completed" => run = "completed"
  BY DEF FailTask, SetTask, rows
<1>6. QED
  BY <1>1, <1>2, <1>3, <1>4, <1>5, LeavingStep DEF Moves, Pcs, AttemptSteps, FinalizeSteps, OutsideSteps, EndSteps, Actors

\* Memory that is lost, or an exception that is raised.
LEMMA ForgottenExec ==
    /\ IdleExec \in Exec /\ IdleExec.pc = "idle"
    /\ [IdleExec EXCEPT !.pc = "gone"] \in Exec /\ [IdleExec EXCEPT !.pc = "gone"].pc = "gone"
<1>1. IdleExec \in Exec /\ IdleExec.pc = "idle"
  BY SMTT(40) DEF IdleExec, Exec
<1>2. [IdleExec EXCEPT !.pc = "gone"] \in Exec
  BY <1>1, ExecFields DEF Pcs, EndSteps
<1>3. [IdleExec EXCEPT !.pc = "gone"].pc = "gone"
  BY DEF IdleExec
<1>4. QED
  BY <1>1, <1>2, <1>3

LEMMA FinishStep ==
  ASSUME BackingInv, NEW a \in Actors, Finish(a)
  PROVE  BackingInv'
<1>1. TypeOK /\ exec \in [Actors -> Exec] /\ run \in {"created", "running"} \cup RunEnded
  BY DEF BackingInv, TypeOK
<1>2. PICK x \in {IdleExec, [IdleExec EXCEPT !.pc = "gone"]} : exec' = [exec EXCEPT ![a] = x]
  BY DEF Finish
<1>3. /\ exec' \in [Actors -> Exec] /\ exec'[a].pc \in {"idle", "gone"}
      /\ \A b \in Actors \ {a} : exec'[b] = exec[b]
  BY <1>1, <1>2, ForgottenExec
<1>4. TypeOK'
  BY <1>1, <1>3 DEF Finish, TypeOK, rows, others
<1>5. \A n \in Attempts : Harmless(n)
  BY DEF Finish, Harmless, rows
<1>6. run' = "completed" => run = "completed"
  BY DEF Finish, rows
<1>7. QED
  BY <1>3, <1>4, <1>5, <1>6, LeavingStep DEF AttemptSteps

LEMMA CrashStep ==
  ASSUME BackingInv, NEW a \in Actors, Crash(a)
  PROVE  BackingInv'
<1>1. TypeOK /\ exec \in [Actors -> Exec] /\ run \in {"created", "running"} \cup RunEnded
  BY DEF BackingInv, TypeOK
<1>2. PICK x \in {IdleExec, [IdleExec EXCEPT !.pc = "gone"]} : exec' = [exec EXCEPT ![a] = x]
  BY DEF Crash
<1>3. /\ exec' \in [Actors -> Exec] /\ exec'[a].pc \in {"idle", "gone"}
      /\ \A b \in Actors \ {a} : exec'[b] = exec[b]
  BY <1>1, <1>2, ForgottenExec
<1>4. TypeOK'
  BY <1>1, <1>3 DEF Crash, TypeOK, rows, others
<1>5. \A n \in Attempts : Harmless(n)
  BY DEF Crash, Harmless, rows
<1>6. run' = "completed" => run = "completed"
  BY DEF Crash, rows
<1>7. QED
  BY <1>3, <1>4, <1>5, <1>6, LeavingStep DEF AttemptSteps

LEMMA UnexpectedErrorStep ==
  ASSUME BackingInv, NEW a \in Actors, UnexpectedError(a)
  PROVE  BackingInv'
<1> DEFINE pc == IF exec[a].pc = "dangling" \/ ~exec[a].guarded THEN "raise" ELSE "dangling"
           x == [exec[a] EXCEPT !.pc = pc, !.guarded = FALSE]
<1>1. TypeOK /\ exec \in [Actors -> Exec] /\ run \in {"created", "running"} \cup RunEnded
  BY DEF BackingInv, TypeOK
<1>2. exec' = [exec EXCEPT ![a] = x]
  BY DEF UnexpectedError
<1>3. x \in Exec /\ x.pc \in {"raise", "dangling"}
  BY <1>1, ZenonT(60) DEF Exec, EndSteps, OutsideSteps
<1> HIDE DEF x
<1>4. /\ exec' \in [Actors -> Exec] /\ exec'[a].pc \in {"raise", "dangling"}
      /\ \A b \in Actors \ {a} : exec'[b] = exec[b]
  BY <1>1, <1>2, <1>3
<1>5. TypeOK'
  BY <1>1, <1>4 DEF UnexpectedError, TypeOK, rows, others
<1>6. \A n \in Attempts : Harmless(n)
  BY DEF UnexpectedError, Harmless, rows
<1>7. run' = "completed" => run = "completed"
  BY DEF UnexpectedError, rows
<1>8. QED
  BY <1>4, <1>5, <1>6, <1>7, LeavingStep DEF AttemptSteps

\* Steps that set more of the memory than pc.
LEMMA PlacedMoves ==
  ASSUME exec \in [Actors -> Exec], NEW a \in Actors, NEW pc \in Pcs,
         NEW next \in {"retry", "fail1", "stop1", "return"},
         NEW seen \in {"created", "running"} \cup RunEnded,
         NEW x \in {[exec[a] EXCEPT !.pc = pc, !.next = next, !.seen = seen],
                    [exec[a] EXCEPT !.pc = pc, !.next = next],
                    [exec[a] EXCEPT !.pc = pc, !.seen = seen]},
         exec' = [exec EXCEPT ![a] = x]
  PROVE  Moves(a, pc)
<1>1. exec[a] \in Exec
  OBVIOUS
<1>2. x \in Exec
  <2>1. /\ [exec[a] EXCEPT !.pc = pc, !.next = next, !.seen = seen] \in Exec
        /\ [exec[a] EXCEPT !.pc = pc, !.next = next] \in Exec
        /\ [exec[a] EXCEPT !.pc = pc, !.seen = seen] \in Exec
    BY <1>1, ExecFields
  <2>2. QED
    BY <2>1
<1>3. x.n = exec[a].n /\ x.pc = pc
  BY <1>1 DEF Exec
<1>4. QED
  BY <1>2, <1>3, UpdateMoves

LEMMA SetRunningStep ==
  ASSUME BackingInv, NEW e \in Executors, SetRunning(e)
  PROVE  BackingInv'
<1>1. TypeOK /\ exec \in [Actors -> Exec] /\ e \in Actors /\ run \in {"created", "running"} \cup RunEnded
  BY DEF BackingInv, TypeOK, Actors
<1>2. exec[e].pc \in {"setRunning"}
  BY DEF SetRunning, At
<1>3. NumbersAreAttempts(e) /\ ProgressIsRecorded(e) /\ UnbegunIsBlank
  BY DEF BackingInv
<1>4. Works(e) /\ exec[e].n \in Attempts /\ attempt[exec[e].n] /= "none"
  BY <1>2, <1>3, SMTT(40) DEF Works, AttemptSteps, NumbersAreAttempts
<1>5. PICK pc \in {"route"} : Moves(e, pc)
  <2>1. exec' = [exec EXCEPT ![e] = [exec[e] EXCEPT !.pc = "route", !.seen = "running"]]
    BY DEF SetRunning
  <2>2. QED
    BY <1>1, <2>1, PlacedMoves DEF Pcs, AttemptSteps, FinalizeSteps, OutsideSteps, EndSteps
<1>6. TypeOK'
  BY <1>1, <1>5 DEF SetRunning, TypeOK, Moves, RunEnded, TaskEnded, rows, others
<1>7. OnlyOwnRow(e) /\ UnbegunIsBlank'
  BY <1>1, <1>3, <1>4 DEF SetRunning, TypeOK, OnlyOwnRow, Harmless, UnbegunIsBlank, rows
<1>8. NumbersAreAttempts(e)' /\ exec'[e].n = exec[e].n
  BY <1>2, <1>3, <1>4, <1>5, <1>7 DEF Moves, NumbersAreAttempts, OnlyOwnRow, Harmless, Pcs, AttemptSteps, FinalizeSteps, OutsideSteps, EndSteps, Past, Works
<1>9. ProgressIsRecorded(e)'
  BY <1>1, <1>2, <1>3, <1>4, <1>5 DEF SetRunning, At, TypeOK, Moves, ProgressIsRecorded, Past, rows
<1>10. run' = "completed" => run = "completed"
  BY DEF SetRunning, rows
<1>11. QED
  BY <1>1, <1>4, <1>5, <1>6, <1>7, <1>8, <1>9, <1>10, OrderlyStep DEF Moves, Works, Pcs, AttemptSteps, FinalizeSteps, OutsideSteps, EndSteps

LEMMA ContextStep ==
  ASSUME BackingInv, NEW e \in Executors, Context(e)
  PROVE  BackingInv'
<1>1. TypeOK /\ exec \in [Actors -> Exec] /\ e \in Actors /\ run \in {"created", "running"} \cup RunEnded
  BY DEF BackingInv, TypeOK, Actors
<1>2. exec[e].pc \in {"context"}
  BY DEF Context, At
<1>3. NumbersAreAttempts(e) /\ ProgressIsRecorded(e) /\ UnbegunIsBlank
  BY DEF BackingInv
<1>4. Works(e) /\ exec[e].n \in Attempts /\ attempt[exec[e].n] /= "none"
  BY <1>2, <1>3 DEF Works, AttemptSteps, NumbersAreAttempts
<1>5. PICK pc \in {"preflight", "release"} : Moves(e, pc)
  <2>1. CASE Cancelled(e, TRUE)
    BY <1>1, <2>1, CancelledMoves
  <2>2. CASE GotoSeen(e, "preflight")
    BY <1>1, <2>2, GotoSeenMoves, SMTT(40) DEF Pcs, AttemptSteps, FinalizeSteps, OutsideSteps, EndSteps
  <2>3. CASE exec' = [exec EXCEPT ![e] = [exec[e] EXCEPT !.pc = "release", !.next = "fail1", !.seen = run]]
    BY <1>1, <2>3, PlacedMoves DEF Pcs, AttemptSteps, FinalizeSteps, OutsideSteps, EndSteps
  <2>4. QED
    BY <2>1, <2>2, <2>3 DEF Context
<1>6. TypeOK'
  BY <1>1, <1>5 DEF Context, TypeOK, Moves, RunEnded, TaskEnded, rows, others
<1>7. OnlyOwnRow(e) /\ UnbegunIsBlank'
  BY <1>1, <1>3, <1>4 DEF Context, TypeOK, OnlyOwnRow, Harmless, UnbegunIsBlank, rows
<1>8. NumbersAreAttempts(e)' /\ exec'[e].n = exec[e].n
  BY <1>2, <1>3, <1>4, <1>5, <1>7 DEF Moves, NumbersAreAttempts, OnlyOwnRow, Harmless, Pcs, AttemptSteps, FinalizeSteps, OutsideSteps, EndSteps, Past, Works
<1>9. ProgressIsRecorded(e)'
  BY <1>1, <1>2, <1>3, <1>4, <1>5 DEF Context, At, TypeOK, Moves, ProgressIsRecorded, Past, rows
<1>10. run' = "completed" => run = "completed"
  BY DEF Context, rows
<1>11. QED
  BY <1>1, <1>4, <1>5, <1>6, <1>7, <1>8, <1>9, <1>10, OrderlyStep DEF Moves, Works, Pcs, AttemptSteps, FinalizeSteps, OutsideSteps, EndSteps

LEMMA PreflightStep ==
  ASSUME BackingInv, NEW e \in Executors, Preflight(e)
  PROVE  BackingInv'
<1>1. TypeOK /\ exec \in [Actors -> Exec] /\ e \in Actors /\ run \in {"created", "running"} \cup RunEnded
  BY DEF BackingInv, TypeOK, Actors
<1>2. exec[e].pc \in {"preflight"}
  BY DEF Preflight, At
<1>3. NumbersAreAttempts(e) /\ ProgressIsRecorded(e) /\ UnbegunIsBlank
  BY DEF BackingInv
<1>4. Works(e) /\ exec[e].n \in Attempts /\ attempt[exec[e].n] /= "none"
  BY <1>2, <1>3 DEF Works, AttemptSteps, NumbersAreAttempts
<1>5. PICK pc \in {"startCall", "release"} : Moves(e, pc)
  <2>1. CASE Cancelled(e, TRUE)
    BY <1>1, <2>1, CancelledMoves
  <2>2. CASE GotoSeen(e, "startCall")
    BY <1>1, <2>2, GotoSeenMoves, SMTT(40) DEF Pcs, AttemptSteps, FinalizeSteps, OutsideSteps, EndSteps
  <2>3. CASE exec' = [exec EXCEPT ![e] = [exec[e] EXCEPT !.pc = "release", !.next = "return", !.seen = run]]
    BY <1>1, <2>3, PlacedMoves DEF Pcs, AttemptSteps, FinalizeSteps, OutsideSteps, EndSteps
  <2>4. QED
    BY <2>1, <2>2, <2>3 DEF Preflight
<1>6. TypeOK'
  BY <1>1, <1>5 DEF Preflight, TypeOK, Moves, RunEnded, TaskEnded, rows, others
<1>7. OnlyOwnRow(e) /\ UnbegunIsBlank'
  BY <1>1, <1>3, <1>4 DEF Preflight, TypeOK, OnlyOwnRow, Harmless, UnbegunIsBlank, rows
<1>8. NumbersAreAttempts(e)' /\ exec'[e].n = exec[e].n
  BY <1>2, <1>3, <1>4, <1>5, <1>7 DEF Moves, NumbersAreAttempts, OnlyOwnRow, Harmless, Pcs, AttemptSteps, FinalizeSteps, OutsideSteps, EndSteps, Past, Works
<1>9. ProgressIsRecorded(e)'
  BY <1>1, <1>2, <1>3, <1>4, <1>5 DEF Preflight, At, TypeOK, Moves, ProgressIsRecorded, Past, rows
<1>10. run' = "completed" => run = "completed"
  BY DEF Preflight, rows
<1>11. QED
  BY <1>1, <1>4, <1>5, <1>6, <1>7, <1>8, <1>9, <1>10, OrderlyStep DEF Moves, Works, Pcs, AttemptSteps, FinalizeSteps, OutsideSteps, EndSteps

LEMMA InvokeStep ==
  ASSUME BackingInv, NEW e \in Executors, Invoke(e)
  PROVE  BackingInv'
<1>1. TypeOK /\ exec \in [Actors -> Exec] /\ e \in Actors /\ run \in {"created", "running"} \cup RunEnded
  BY DEF BackingInv, TypeOK, Actors
<1>2. exec[e].pc \in {"invoke"}
  BY DEF Invoke, At
<1>3. NumbersAreAttempts(e) /\ ProgressIsRecorded(e) /\ UnbegunIsBlank
  BY DEF BackingInv
<1>4. Works(e) /\ exec[e].n \in Attempts /\ attempt[exec[e].n] /= "none"
  BY <1>2, <1>3 DEF Works, AttemptSteps, NumbersAreAttempts
<1>5. PICK pc \in {"answered", "callError"} : Moves(e, pc)
  <2>1. CASE Goto(e, "answered")
    BY <1>1, <2>1, GotoMoves DEF Pcs, AttemptSteps, FinalizeSteps, OutsideSteps, EndSteps
  <2>2. CASE \E next \in {"retry", "fail1"} : exec' = [exec EXCEPT ![e] = [exec[e] EXCEPT !.pc = "callError", !.next = next]]
    BY <1>1, <2>2, PlacedMoves DEF Pcs, AttemptSteps, FinalizeSteps, OutsideSteps, EndSteps
  <2>3. QED
    BY <2>1, <2>2 DEF Invoke
<1>6. TypeOK'
  BY <1>1, <1>5 DEF Invoke, TypeOK, Moves, RunEnded, TaskEnded, rows, others
<1>7. OnlyOwnRow(e) /\ UnbegunIsBlank'
  BY <1>1, <1>3, <1>4 DEF Invoke, TypeOK, OnlyOwnRow, Harmless, UnbegunIsBlank, rows
<1>8. NumbersAreAttempts(e)' /\ exec'[e].n = exec[e].n
  BY <1>2, <1>3, <1>4, <1>5, <1>7 DEF Moves, NumbersAreAttempts, OnlyOwnRow, Harmless, Pcs, AttemptSteps, FinalizeSteps, OutsideSteps, EndSteps, Past, Works
<1>9. ProgressIsRecorded(e)'
  BY <1>1, <1>2, <1>3, <1>4, <1>5 DEF Invoke, At, TypeOK, Moves, ProgressIsRecorded, Past, rows
<1>10. run' = "completed" => run = "completed"
  BY DEF Invoke, rows
<1>11. QED
  BY <1>1, <1>4, <1>5, <1>6, <1>7, <1>8, <1>9, <1>10, OrderlyStep DEF Moves, Works, Pcs, AttemptSteps, FinalizeSteps, OutsideSteps, EndSteps

LEMMA ReleaseReservationStep ==
  ASSUME BackingInv, NEW e \in Executors, ReleaseReservation(e)
  PROVE  BackingInv'
<1>1. TypeOK /\ exec \in [Actors -> Exec] /\ e \in Actors /\ run \in {"created", "running"} \cup RunEnded
  BY DEF BackingInv, TypeOK, Actors
<1>2. exec[e].pc \in {"release"}
  BY DEF ReleaseReservation, At
<1>3. NumbersAreAttempts(e) /\ ProgressIsRecorded(e) /\ UnbegunIsBlank
  BY DEF BackingInv
<1>4. Works(e) /\ exec[e].n \in Attempts /\ attempt[exec[e].n] /= "none"
  BY <1>2, <1>3 DEF Works, AttemptSteps, NumbersAreAttempts
<1>5. PICK pc \in {"retry", "fail1", "stop1", "return"} : Moves(e, pc)
  <2>1. exec[e].next \in {"retry", "fail1", "stop1", "return"}
    BY <1>1 DEF Exec
  <2>2. QED
    BY <1>1, <2>1, GotoMoves DEF ReleaseReservation, Pcs, AttemptSteps, FinalizeSteps, OutsideSteps, EndSteps
<1>6. TypeOK'
  BY <1>1, <1>5, ZenonT(60) DEF ReleaseReservation, TypeOK, Moves, RunEnded, TaskEnded, rows, others
<1>7. OnlyOwnRow(e) /\ UnbegunIsBlank'
  BY <1>1, <1>3, <1>4 DEF ReleaseReservation, TypeOK, OnlyOwnRow, Harmless, UnbegunIsBlank, rows
<1>8. NumbersAreAttempts(e)' /\ exec'[e].n = exec[e].n
  BY <1>2, <1>3, <1>4, <1>5, <1>7 DEF Moves, NumbersAreAttempts, OnlyOwnRow, Harmless, Pcs, AttemptSteps, FinalizeSteps, OutsideSteps, EndSteps, Past, Works
<1>9. ProgressIsRecorded(e)'
  BY <1>1, <1>2, <1>3, <1>4, <1>5 DEF ReleaseReservation, At, TypeOK, Moves, ProgressIsRecorded, Past, rows
<1>10. run' = "completed" => run = "completed"
  BY DEF ReleaseReservation, rows
<1>11. QED
  BY <1>1, <1>4, <1>5, <1>6, <1>7, <1>8, <1>9, <1>10, OrderlyStep DEF Moves, Works, Pcs, AttemptSteps, FinalizeSteps, OutsideSteps, EndSteps

\* A step between two attempts: the executor works on none before or after it.
LEMMA RecoveringStep ==
  ASSUME BackingInv, TypeOK', NEW e \in Executors,
         \A b \in Actors \ {e} : exec'[b] = exec[b],
         \A n \in Attempts : Harmless(n),
         exec'[e].pc \in {"return", "interrupt", "recoverFail", "insert"},
         exec'[e].pc = "recoverFail" => exec'[e].n > 0,
         exec'[e].pc = "insert" => exec'[e].n \in Attempts,
         run' = run
  PROVE  BackingInv'
<1>1. OnlyOwnRow(e)
  BY DEF OnlyOwnRow
<1>2. UnbegunIsBlank'
  BY DEF BackingInv, UnbegunIsBlank, Harmless
<1>3. NumbersAreAttempts(e)' /\ ProgressIsRecorded(e)' /\ ~Works(e)'
  BY DEF NumbersAreAttempts, ProgressIsRecorded, Works, Past, AttemptSteps
<1>4. QED
  BY <1>1, <1>2, <1>3, OrderlyStep DEF Actors

LEMMA ResumeRange ==
  ASSUME NEW x \in Exec, x.n > 0
  PROVE  /\ Resume(x) \in Exec /\ Resume(x).n = x.n
         /\ Resume(x).pc \in {"interrupt", "insert"}
         /\ Resume(x).pc = "insert" => x.n \in Attempts
<1>1. CASE x.n > MaxAttempts
  BY <1>1 DEF Resume, Exec, OutsideSteps
<1>2. CASE ~(x.n > MaxAttempts)
  <2>1. Resume(x) = [x EXCEPT !.pc = "insert", !.guarded = TRUE]
    BY <1>2 DEF Resume
  <2>2. x.n \in Attempts
    BY <1>2 DEF Exec, Attempts
  <2>3. QED
    BY <2>1, <2>2 DEF Exec, AttemptSteps
<1>3. QED
  BY <1>1, <1>2

LEMMA RecoverReleaseStep ==
  ASSUME BackingInv, NEW e \in Executors, RecoverRelease(e)
  PROVE  BackingInv'
<1> DEFINE x == Resume(exec[e])
<1>1. TypeOK /\ exec \in [Actors -> Exec] /\ e \in Actors
  BY DEF BackingInv, TypeOK, Actors
<1>2. exec[e].n > 0
  BY DEF BackingInv, NumbersAreAttempts, Past, RecoverRelease, At
<1>3. exec' = [exec EXCEPT ![e] = x]
  BY DEF RecoverRelease
<1>4. /\ x \in Exec /\ x.pc \in {"interrupt", "insert"}
      /\ x.pc = "insert" => x.n \in Attempts
  BY <1>1, <1>2, ResumeRange
<1> HIDE DEF x
<1>5. exec' \in [Actors -> Exec] /\ exec'[e] = x /\ \A b \in Actors \ {e} : exec'[b] = exec[b]
  BY <1>1, <1>3, <1>4
<1>6. TypeOK'
  BY <1>1, <1>5 DEF RecoverRelease, TypeOK, rows, others
<1>7. (\A n \in Attempts : Harmless(n)) /\ run' = run
  BY <1>1 DEF RecoverRelease, TypeOK, Harmless
<1>8. QED
  BY <1>4, <1>5, <1>6, <1>7, RecoveringStep

\* What recovery reads.
LEMMA ReadFields ==
  ASSUME NEW x \in Exec, NEW seen \in {"created", "running"} \cup RunEnded, NEW n \in 0 .. MaxAttempts + 1
  PROVE  [x EXCEPT !.seen = seen, !.n = n] \in Exec /\ [x EXCEPT !.seen = seen, !.n = n].n = n
  BY DEF Exec

LEMMA RecoverStep ==
  ASSUME BackingInv, NEW e \in Executors, Recover(e)
  PROVE  BackingInv'
<1> DEFINE read == [exec[e] EXCEPT !.seen = run, !.n = NextAttempt]
           open == {n \in Attempts : attempt[n] = "running"}
<1>1. TypeOK /\ exec \in [Actors -> Exec] /\ e \in Actors /\ run \in {"created", "running"} \cup RunEnded
  BY DEF BackingInv, TypeOK, Actors
<1>2. NextAttempt \in 1 .. MaxAttempts + 1
  BY NextAttemptRange
<1>3. read \in Exec /\ read.n > 0
  <2>1. exec[e] \in Exec
    BY <1>1
  <2>2. NextAttempt \in 0 .. MaxAttempts + 1 /\ NextAttempt > 0
    BY <1>2
  <2>3. QED
    BY <1>1, <2>1, <2>2, ReadFields DEF Exec
<1>4. open \in SUBSET Attempts
  OBVIOUS
<1>5. PICK x \in {[read EXCEPT !.pc = "return"], [read EXCEPT !.pc = "interrupt"],
                  [read EXCEPT !.pc = "recoverFail", !.found = open], Resume(read)} :
           exec' = [exec EXCEPT ![e] = x]
  BY DEF Recover
<1> HIDE DEF read, open
<1>6. /\ x \in Exec /\ x.pc \in {"return", "interrupt", "recoverFail", "insert"}
      /\ x.n > 0
      /\ x.pc = "insert" => x.n \in Attempts
  <2>1. CASE x = [read EXCEPT !.pc = "return"]
    BY <1>3, <2>1 DEF Exec, EndSteps
  <2>2. CASE x = [read EXCEPT !.pc = "interrupt"]
    BY <1>3, <2>2 DEF Exec, OutsideSteps
  <2>3. CASE x = [read EXCEPT !.pc = "recoverFail", !.found = open]
    BY <1>3, <1>4, <2>3 DEF Exec, OutsideSteps
  <2>4. CASE x = Resume(read)
    BY <1>3, <2>4, ResumeRange
  <2>5. QED
    BY <1>5, <2>1, <2>2, <2>3, <2>4
<1>7. exec' \in [Actors -> Exec] /\ exec'[e] = x /\ \A b \in Actors \ {e} : exec'[b] = exec[b]
  BY <1>1, <1>5, <1>6
<1>8. TypeOK'
  BY <1>1, <1>7 DEF Recover, TypeOK, rows, others
<1>9. (\A n \in Attempts : Harmless(n)) /\ run' = run
  BY DEF Recover, Harmless, rows
<1>10. QED
  BY <1>6, <1>7, <1>8, <1>9, RecoveringStep

\* The unique attempt number: only an attempt nobody begun can be begun.
LEMMA InsertAttemptStep ==
  ASSUME BackingInv, NEW e \in Executors, InsertAttempt(e)
  PROVE  BackingInv'
<1>1. TypeOK /\ exec \in [Actors -> Exec] /\ e \in Actors /\ UnbegunIsBlank
  BY DEF BackingInv, TypeOK, Actors
<1>2. exec[e].pc = "insert" /\ exec[e].n \in Attempts /\ ~Works(e)
  BY DEF BackingInv, NumbersAreAttempts, Past, InsertAttempt, At, Works
<1>3. CASE attempt[exec[e].n] /= "none"
  <2>1. Moves(e, "return")
    BY <1>1, <1>3, GotoMoves DEF InsertAttempt, Pcs, EndSteps
  <2>2. TypeOK'
    BY <1>1, <1>3, <2>1 DEF InsertAttempt, TypeOK, Moves, others
  <2>3. (\A n \in Attempts : Harmless(n)) /\ run' = run
    BY <1>3 DEF InsertAttempt, Harmless
  <2>4. QED
    BY <1>1, <2>1, <2>2, <2>3, RecoveringStep DEF Moves
<1>4. CASE attempt[exec[e].n] = "none"
  <2>1. PICK n \in Attempts : n = exec[e].n
    BY <1>2
  <2>2. attempt' = [attempt EXCEPT ![n] = "running"] /\ UNCHANGED <<run, task, call, resv, output, others>>
    BY <1>4, <2>1 DEF InsertAttempt
  <2>3. Moves(e, "setRunning")
    BY <1>1, <1>4, GotoMoves DEF InsertAttempt, Pcs, AttemptSteps
  <2>4. TypeOK'
    BY <1>1, <2>2, <2>3 DEF TypeOK, Moves, others
  <2>5. \A m \in Attempts : m /= n => Harmless(m)
    BY <1>1, <2>2 DEF TypeOK, Harmless
  <2>6. attempt[n] = "none" /\ call[n] = "none" /\ attempt'[n] = "running" /\ call'[n] = "none"
    BY <1>1, <1>4, <2>1, <2>2 DEF TypeOK, UnbegunIsBlank
  <2>7. \A f \in Executors : Works(f) => exec[f].n \in Attempts /\ exec[f].n /= n
    BY <2>6 DEF BackingInv, NumbersAreAttempts
  <2>8. UnbegunIsBlank'
    BY <1>1, <2>2, <2>6 DEF TypeOK, UnbegunIsBlank
  <2>9. \A f \in Executors \ {e} : exec'[f] = exec[f] /\ Works(f)' = Works(f)
    BY <2>3 DEF Moves, Actors, Works
  <2>10. exec'[e].pc = "setRunning" /\ exec'[e].n = n
    BY <2>1, <2>3 DEF Moves
  <2>11. \A f \in Executors : NumbersAreAttempts(f)' /\ ProgressIsRecorded(f)'
    <3>1. NumbersAreAttempts(e)'
      BY <2>6, <2>10 DEF NumbersAreAttempts, Past
    <3>2. ProgressIsRecorded(e)'
      BY <2>6, <2>10 DEF ProgressIsRecorded, Past
    <3>3. ASSUME NEW f \in Executors \ {e} PROVE NumbersAreAttempts(f)' /\ ProgressIsRecorded(f)'
      BY <2>5, <2>7, <2>9, OthersKeepProgress
    <3>4. QED
      BY <3>1, <3>2, <3>3
  <2>12. \A f \in Executors : WorksAlone(f)'
    <3>1. \A f, g \in Executors : f /= g /\ Works(f) /\ Works(g) => exec[f].n /= exec[g].n
      BY DEF BackingInv, WorksAlone
    <3>2. QED
      BY <2>7, <2>9, <2>10, <3>1 DEF WorksAlone
  <2>13. CompletedForGood'
    <3> SUFFICES ASSUME run' = "completed"
                 PROVE  \E m \in Attempts : Backed(m)' /\ \A f \in Executors : Works(f)' => exec'[f].n /= m
      BY DEF CompletedForGood
    <3>1. PICK m \in Attempts : Backed(m) /\ \A f \in Executors : Works(f) => exec[f].n /= m
      BY <2>2 DEF BackingInv, CompletedForGood
    <3>2. m /= n
      BY <2>6, <3>1 DEF Backed
    <3>3. Backed(m)'
      BY <2>5, <3>1, <3>2 DEF Harmless, Backed
    <3>4. QED
      BY <2>9, <2>10, <3>1, <3>2, <3>3
  <2>14. QED
    BY <2>4, <2>8, <2>11, <2>12, <2>13 DEF BackingInv
<1>5. QED
  BY <1>3, <1>4

LEMMA RetryStep ==
  ASSUME BackingInv, NEW e \in Executors, Retry(e)
  PROVE  BackingInv'
<1>1. TypeOK /\ exec \in [Actors -> Exec] /\ e \in Actors
  BY DEF BackingInv, TypeOK, Actors
<1>2. exec[e].pc = "retry" /\ exec[e].n \in Attempts
  BY DEF BackingInv, NumbersAreAttempts, Works, AttemptSteps, Retry, At
<1>3. exec[e] \in Exec
  BY <1>1
<1>4. /\ exec' \in [Actors -> Exec] /\ exec'[e].pc \in {"return", "fail2", "insert"}
      /\ exec'[e].pc = "insert" => exec'[e].n \in Attempts
      /\ \A b \in Actors \ {e} : exec'[b] = exec[b]
  <2>1. CASE attempt[exec[e].n] /= "running"
    <3>1. Moves(e, "return")
      BY <1>1, <2>1, GotoMoves DEF Retry, Pcs, EndSteps
    <3>2. QED
      BY <3>1 DEF Moves
  <2>2. CASE attempt[exec[e].n] = "running" /\ exec[e].n = MaxAttempts
    <3> DEFINE x == [exec[e] EXCEPT !.pc = "fail2", !.guarded = FALSE]
    <3>1. exec' = [exec EXCEPT ![e] = x]
      BY <2>2 DEF Retry
    <3>2. x \in Exec /\ x.pc = "fail2"
      BY <1>3 DEF Exec, FinalizeSteps
    <3> HIDE DEF x
    <3>3. QED
      BY <1>1, <3>1, <3>2
  <2>3. CASE attempt[exec[e].n] = "running" /\ exec[e].n /= MaxAttempts
    <3> DEFINE x == [exec[e] EXCEPT !.pc = "insert", !.n = exec[e].n + 1]
    <3>1. exec' = [exec EXCEPT ![e] = x]
      BY <2>3 DEF Retry
    <3>2. exec[e].n + 1 \in Attempts /\ exec[e].n + 1 \in 0 .. MaxAttempts + 1
      BY <1>2, <2>3 DEF Attempts
    <3>3. x \in Exec /\ x.pc = "insert" /\ x.n \in Attempts
      BY <1>3, <3>2 DEF Exec, AttemptSteps
    <3> HIDE DEF x
    <3>4. QED
      BY <1>1, <3>1, <3>3
  <2>4. QED
    BY <2>1, <2>2, <2>3
<1>5. TypeOK'
  BY <1>1, <1>4 DEF Retry, TypeOK, others
<1>6. (\A n \in Attempts : Harmless(n)) /\ run' = run
  BY <1>1 DEF Retry, TypeOK, Harmless
<1>7. OnlyOwnRow(e) /\ UnbegunIsBlank'
  BY <1>6 DEF OnlyOwnRow, BackingInv, UnbegunIsBlank, Harmless
<1>8. NumbersAreAttempts(e)' /\ ProgressIsRecorded(e)' /\ ~Works(e)'
  BY <1>4 DEF NumbersAreAttempts, ProgressIsRecorded, Works, Past, AttemptSteps
<1>9. QED
  BY <1>1, <1>4, <1>5, <1>6, <1>7, <1>8, OrderlyStep

\* Steps that leave every executor where it is.
LEMMA OutsideStep ==
  ASSUME BackingInv, Enqueue \/ CancelCheck \/ CancelWrite \/ CancelAgentRun \/ UNCHANGED vars
  PROVE  BackingInv'
<1>1. TypeOK'
  BY DEF BackingInv, TypeOK, Enqueue, CancelCheck, CancelWrite, CancelAgentRun, vars, rows
<1>2. UNCHANGED <<run, attempt, call, resv, output, exec>>
  BY DEF Enqueue, CancelCheck, CancelWrite, CancelAgentRun, vars, rows
<1>3. UnbegunIsBlank' /\ CompletedForGood'
  BY <1>2 DEF BackingInv, UnbegunIsBlank, CompletedForGood, Backed, Works
<1>4. \A e \in Executors : NumbersAreAttempts(e)' /\ WorksAlone(e)' /\ ProgressIsRecorded(e)'
  BY <1>2 DEF BackingInv, NumbersAreAttempts, WorksAlone, ProgressIsRecorded, Works, Past
<1>5. QED
  BY <1>1, <1>3, <1>4 DEF BackingInv

-----------------------------------------------------------------------------
(***************************************************************************)
(* The theorems                                                            *)
(***************************************************************************)
LEMMA InitBackingInv == Init => BackingInv
<1> SUFFICES ASSUME Init PROVE BackingInv
  OBVIOUS
<1>1. TypeOK
  BY ForgottenExec DEF Init, TypeOK, RunEnded, TaskEnded
<1>2. \A e \in Executors : exec[e].pc = "idle"
  BY DEF Init, IdleExec, Actors
<1>3. \A e \in Executors : NumbersAreAttempts(e) /\ WorksAlone(e) /\ ProgressIsRecorded(e)
  BY <1>2 DEF NumbersAreAttempts, WorksAlone, ProgressIsRecorded, Works, Past, AttemptSteps
<1>4. UnbegunIsBlank /\ CompletedForGood
  BY DEF Init, UnbegunIsBlank, CompletedForGood
<1>5. QED
  BY <1>1, <1>3, <1>4 DEF BackingInv

LEMMA StepBackingInv == BackingInv /\ [Next]_vars => BackingInv'
<1> SUFFICES ASSUME BackingInv, [Next]_vars PROVE BackingInv'
  OBVIOUS
<1>1. ASSUME NEW e \in Executors, RecoveryStep(e) PROVE BackingInv'
  BY <1>1, RecoverStep, RecoverFailStep, RecoverReleaseStep DEF RecoveryStep
<1>2. ASSUME NEW e \in Executors, AttemptStep(e) PROVE BackingInv'
  BY <1>2, InsertAttemptStep, SetRunningStep, RouteStep, ReserveStep, ContextStep, PreflightStep,
     StartCallStep, InvokeStep, AnsweredStep, CallErrorStep, SettleStep, RecordUsageStep,
     CreateArtifactStep, FinishAttemptStep, ReleaseReservationStep, RetryStep DEF AttemptStep
<1>3. ASSUME NEW e \in Executors, FinalizeStep(e) PROVE BackingInv'
  BY <1>3, FinishRunStep, VerifyStep, CompleteStep, FailAttemptStep, StopRunStep, StopAttemptStep,
     StopTaskStep, FailDanglingStep DEF FinalizeStep
<1>4. ASSUME NEW a \in Actors, SharedStep(a) PROVE BackingInv'
  BY <1>4, InterruptStep, FailRunStep, FailTaskStep, FinishStep DEF SharedStep
<1>5. ASSUME NEW a \in Actors, Step(a) \/ UnexpectedError(a) \/ Crash(a) PROVE BackingInv'
  BY <1>1, <1>2, <1>3, <1>4, <1>5, UnexpectedErrorStep, CrashStep DEF Step
<1>6. ASSUME NEW e \in Executors, Claim(e) PROVE BackingInv'
  BY <1>6, ClaimStep
<1>7. ASSUME NEW s \in Sweepers, Sweep(s) PROVE BackingInv'
  BY <1>7, SweepStep
<1>8. QED
  BY <1>5, <1>6, <1>7, OutsideStep DEF Next

\* Every commit an executor has passed stays in the rows of the one attempt it
\* works on, whatever recovery, sweeps and other executors do.
THEOREM BackingInvariant == Spec => []BackingInv
  BY InitBackingInv, StepBackingInv, PTL DEF Spec

\* Rows and memory keep their types.
THEOREM TypesCorrect == Spec => []TypeOK
<1>1. BackingInv => TypeOK
  BY DEF BackingInv
<1>2. QED
  BY <1>1, BackingInvariant, PTL

\* A run that claim_agent_run_terminal marks COMPLETED has an attempt whose call
\* succeeded, whose spend is committed, and whose usage and artifact exist.
THEOREM CompletedRunsAreBacked == Spec => []CompletedIsBacked
<1>1. BackingInv => CompletedIsBacked
  BY DEF BackingInv, CompletedForGood, CompletedIsBacked
<1>2. QED
  BY <1>1, BackingInvariant, PTL

\* What recovery has recorded as failed or interrupted stays so, and no worker
\* records output for an interrupted call, even one that lost its lease.
THEOREM VerdictsStand == Spec => VerdictStands
<1> DEFINE Stands(n) == /\ attempt[n] = "failed" => attempt'[n] = "failed"
                        /\ call[n] \in {"error", "interrupted"} => call'[n] = call[n] /\ output'[n] = output[n]
<1>1. BackingInv /\ [Next]_vars => \A n \in Attempts : Stands(n)
  <2> SUFFICES ASSUME BackingInv, [Next]_vars, NEW n \in Attempts PROVE Stands(n)
    OBVIOUS
  <2>1. TypeOK
    BY DEF BackingInv
  <2>2. \A e \in Executors : ProgressIsRecorded(e)
    BY DEF BackingInv
  <2>3. ASSUME UNCHANGED <<attempt, call, output>> PROVE Stands(n)
    BY <2>3
  <2>4. ASSUME NEW e \in Executors, RecoveryStep(e) PROVE Stands(n)
    BY <2>1, <2>4 DEF RecoveryStep, Recover, RecoverFail, RecoverRelease, TypeOK, rows
  <2>5. ASSUME NEW e \in Executors, AttemptStep(e) PROVE Stands(n)
    <3>1. CASE InsertAttempt(e)
      BY <2>1, <3>1 DEF InsertAttempt, TypeOK
    <3>2. CASE StartCall(e)
      BY <2>1, <2>2, <3>2 DEF StartCall, At, ProgressIsRecorded, Past, TypeOK
    <3>3. CASE Answered(e) \/ CallError(e)
      BY <2>1, <3>3 DEF Answered, CallError, RecordCall, TypeOK
    <3>4. CASE RecordUsage(e) \/ CreateArtifact(e)
      BY <2>1, <2>2, <3>4 DEF RecordUsage, CreateArtifact, Record, At, ProgressIsRecorded, Past, TypeOK
    <3>5. CASE FinishAttempt(e) \/ Retry(e)
      BY <2>1, <3>5 DEF FinishAttempt, Retry, TypeOK
    <3>6. CASE SetRunning(e) \/ Route(e) \/ Reserve(e) \/ Context(e) \/ Preflight(e) \/ Invoke(e)
               \/ Settle(e) \/ ReleaseReservation(e)
      BY <2>3, <3>6 DEF SetRunning, Route, Reserve, Context, Preflight, Invoke, Settle, ReleaseReservation, rows
    <3>7. QED
      BY <2>5, <3>1, <3>2, <3>3, <3>4, <3>5, <3>6 DEF AttemptStep
  <2>6. ASSUME NEW e \in Executors, FinalizeStep(e) PROVE Stands(n)
    <3>1. CASE FinishRun(e) \/ Verify(e) \/ Complete(e) \/ StopRun(e) \/ StopTask(e)
      BY <2>3, <3>1 DEF FinishRun, Verify, Complete, StopRun, StopTask, SetTask
    <3>2. CASE FailAttempt(e) \/ StopAttempt(e) \/ FailDangling(e)
      BY <2>1, <3>2 DEF FailAttempt, StopAttempt, FailDangling, TypeOK
    <3>3. QED
      BY <2>6, <3>1, <3>2 DEF FinalizeStep
  <2>7. ASSUME NEW a \in Actors, SharedStep(a) PROVE Stands(n)
    <3>1. CASE Interrupt(a)
      BY <2>1, <3>1 DEF Interrupt, TypeOK
    <3>2. CASE FailRun(a) \/ FailTask(a) \/ Finish(a)
      BY <2>3, <3>2 DEF FailRun, FailTask, SetTask, Finish, rows
    <3>3. QED
      BY <2>7, <3>1, <3>2 DEF SharedStep
  <2>8. ASSUME NEW a \in Actors, Step(a) \/ UnexpectedError(a) \/ Crash(a) PROVE Stands(n)
    <3>1. CASE UnexpectedError(a) \/ Crash(a)
      BY <2>3, <3>1 DEF UnexpectedError, Crash, rows
    <3>2. QED
      BY <2>4, <2>5, <2>6, <2>7, <2>8, <3>1 DEF Step
  <2>9. ASSUME \/ Enqueue \/ \E e \in Executors : Claim(e)
               \/ \E s \in Sweepers : Sweep(s)
               \/ CancelCheck \/ CancelWrite \/ CancelAgentRun \/ UNCHANGED vars
        PROVE  Stands(n)
    BY <2>3, <2>9 DEF Enqueue, Claim, Sweep, CancelCheck, CancelWrite, CancelAgentRun, vars, rows
  <2> HIDE DEF Stands
  <2>10. QED
    BY <2>8, <2>9 DEF Next
<1>2. QED
  BY <1>1, BackingInvariant, PTL DEF Spec, VerdictStands

-----------------------------------------------------------------------------
(***************************************************************************)
(* The rows an actor can rely on                                           *)
(***************************************************************************)
Open == {n \in Attempts : attempt[n] = "running"}

\* The steps at which an executor has one attempt in hand and the run is open.
Going == {"setRunning", "route", "reserve", "context", "preflight", "startCall", "invoke",
          "answered", "callError", "settle", "late", "usage", "artifact", "finishAttempt",
          "finishRun", "release", "retry", "fail1", "stop1"}

\* The executor that lives holds the job, and the sweep, which waits for the
\* job to end, never meets one.
OneAtWork ==
    /\ \A e \in Executors : Live(e) => job.status = "leased" /\ job.holder = e
    /\ \A s \in Sweepers : /\ ~exec[s].guarded
                           /\ exec[s].pc \in {"idle", "interrupt", "fail2", "fail3", "return", "raise"}
                           /\ Live(s) => job.status \in {"done", "failed"}
    /\ job.status \in {"leased", "done", "failed"} => job.holder \in Executors
    /\ job.status = "absent" => run = "created"

\* What an actor may rely on in the row of the run ...
RunAt(a) ==
    /\ exec[a].pc \in Going \cup {"recoverFail", "recoverRelease", "insert"} => run \notin RunEnded
    /\ exec[a].pc \in {"verify", "complete"} => run = "completed"
    /\ exec[a].pc = "fail3" => run = "failed"
    /\ exec[a].pc \in {"stop2", "stop3"} => run = "stopped"

\* ... and in those of its attempts.
Tidy(a) ==
    /\ exec[a].pc \in {"recoverRelease", "insert", "fail2"} => Open = {}
    /\ exec[a].pc = "recoverFail" => Open \subseteq exec[a].found
    /\ exec[a].pc \in Going => Open \subseteq {exec[a].n}

RowInv ==
    /\ TypeOK
    /\ OneAtWork
    /\ \A a \in Actors : RunAt(a) /\ Tidy(a)
    /\ TaskFollowsRun
    /\ EndedRunHasNoOpenAttempt

\* A step of the executor that has the job: it is the only actor that moves.
LEMMA WorkerStep ==
  ASSUME RowInv, NEW e \in Executors, Live(e), TypeOK', job' = job,
         \A b \in Actors \ {e} : exec'[b] = exec[b],
         RunAt(e)', Tidy(e)', TaskFollowsRun', EndedRunHasNoOpenAttempt'
  PROVE  RowInv'
<1>1. job.status = "leased" /\ job.holder = e
  BY DEF RowInv, OneAtWork
<1>2. \A b \in Actors \ {e} : exec[b].pc \in {"idle", "gone"}
  BY <1>1 DEF RowInv, OneAtWork, Live, Actors
<1>3. OneAtWork'
  BY <1>1, <1>2 DEF RowInv, OneAtWork, Live, Actors
<1>4. \A b \in Actors \ {e} : RunAt(b)' /\ Tidy(b)'
  BY <1>2 DEF RunAt, Tidy, Going
<1>5. QED
  BY <1>3, <1>4 DEF RowInv, Actors

\* A step of the sweep, when no executor will ever move again.
LEMMA SweeperStep ==
  ASSUME RowInv, NEW s \in Sweepers, job.status \in {"done", "failed"}, TypeOK', job' = job,
         \A b \in Actors \ {s} : exec'[b] = exec[b],
         ~exec'[s].guarded, exec'[s].pc \in {"idle", "interrupt", "fail2", "fail3", "return", "raise"},
         run \in RunEnded => run' = run, Open' \subseteq Open,
         RunAt(s)', Tidy(s)', TaskFollowsRun', EndedRunHasNoOpenAttempt'
  PROVE  RowInv'
<1>1. \A e \in Executors : exec[e].pc \in {"idle", "gone"} /\ exec'[e] = exec[e]
  BY DEF RowInv, OneAtWork, Live, Actors
<1>2. OneAtWork'
  BY <1>1 DEF RowInv, OneAtWork, Live, Actors
<1>3. \A e \in Executors : RunAt(e)' /\ Tidy(e)'
  BY <1>1 DEF RunAt, Tidy, Going
<1>4. ASSUME NEW b \in Sweepers \ {s} PROVE RunAt(b)' /\ Tidy(b)'
  <2>1. exec'[b] = exec[b] /\ exec[b].pc \in {"idle", "interrupt", "fail2", "fail3", "return", "raise"}
    BY DEF RowInv, OneAtWork, Actors
  <2>2. RunAt(b) /\ Tidy(b)
    BY DEF RowInv, Actors
  <2>3. QED
    BY <2>1, <2>2 DEF RunAt, Tidy, Going, RunEnded
<1>5. QED
  BY <1>2, <1>3, <1>4 DEF RowInv, Actors

\* Steps that close or open no row: the executor goes on with its attempt ...
LEMMA GoingOn ==
  ASSUME RowInv, NEW e \in Executors, TypeOK', UNCHANGED <<job, run, task, attempt>>,
         \A b \in Actors \ {e} : exec'[b] = exec[b],
         exec[e].pc \in Going, exec'[e].pc \in Going \cup {"return"}, exec'[e].n = exec[e].n
  PROVE  RowInv'
<1>1. Live(e) /\ RunAt(e) /\ Tidy(e)
  BY DEF RowInv, Actors, Live, Going
<1>2. RunAt(e)' /\ Tidy(e)'
  BY <1>1 DEF RunAt, Tidy, Going, Open
<1>3. TaskFollowsRun' /\ EndedRunHasNoOpenAttempt'
  BY DEF RowInv, TaskFollowsRun, EndedRunHasNoOpenAttempt
<1>4. QED
  BY <1>1, <1>2, <1>3, WorkerStep

\* ... or leaves it to the handler, to the caller or to the next claim.
LEMMA GivingUp ==
  ASSUME RowInv, NEW e \in Executors, Live(e), TypeOK', UNCHANGED <<job, run, task, attempt>>,
         \A b \in Actors \ {e} : exec'[b] = exec[b],
         exec'[e].pc \in {"return", "raise", "dangling", "interrupt", "gone"}
  PROVE  RowInv'
<1>1. RunAt(e)' /\ Tidy(e)'
  BY DEF RunAt, Tidy, Going
<1>2. TaskFollowsRun' /\ EndedRunHasNoOpenAttempt'
  BY DEF RowInv, TaskFollowsRun, EndedRunHasNoOpenAttempt
<1>3. QED
  BY <1>1, <1>2, WorkerStep

-----------------------------------------------------------------------------
(***************************************************************************)
(* What each step does to the memory of its actor                          *)
(***************************************************************************)
\* Where a step inside an attempt leads that changes neither the run nor an attempt.
Quiet(e) == Route(e) \/ Reserve(e) \/ Context(e) \/ Preflight(e) \/ StartCall(e) \/ Invoke(e)
            \/ Answered(e) \/ CallError(e) \/ Settle(e) \/ RecordUsage(e) \/ CreateArtifact(e)
            \/ ReleaseReservation(e)

\* The compound updates of a step: pc with the branch a pending release takes.
LEMMA PlacedNext ==
  ASSUME exec \in [Actors -> Exec], NEW a \in Actors, NEW pc \in Pcs,
         NEW next \in {"retry", "fail1", "stop1", "return"}, NEW seen \in {"created", "running"} \cup RunEnded,
         exec' = [exec EXCEPT ![a].pc = pc, ![a].next = next, ![a].seen = seen]
  PROVE  Moves(a, pc) /\ exec'[a].next = next
<1> DEFINE x == [exec[a] EXCEPT !.pc = pc, !.next = next, !.seen = seen]
<1>1. exec[a] \in Exec
  BY Zenon
<1>2. x \in Exec
  BY <1>1, ExecFields, Zenon
<1>3. x.n = exec[a].n /\ x.pc = pc /\ x.next = next
  BY <1>1 DEF Exec
<1>4. exec' = [exec EXCEPT ![a] = x]
  BY Zenon
<1> HIDE DEF x
<1>5. exec' \in [Actors -> Exec]
  BY <1>2, <1>4, Zenon
<1>6. exec'[a] = x
  BY <1>4, Zenon
<1>7. \A b \in Actors \ {a} : exec'[b] = exec[b]
  BY <1>4, Zenon
<1>8. QED
  BY <1>3, <1>5, <1>6, <1>7, Zenon DEF Moves

\* A quiet step goes on inside the attempt it is in, or gives it up.
LEMMA QuietMoves ==
  ASSUME TypeOK, NEW e \in Executors, Quiet(e)
  PROVE  exec[e].pc \in Going /\ \E pc \in Going \cup {"return"} : Moves(e, pc)
<1>1. exec \in [Actors -> Exec] /\ e \in Actors /\ run \in {"created", "running"} \cup RunEnded
  BY DEF TypeOK, Actors
<1>2. Going \cup {"return"} \subseteq Pcs
  BY DEF Going, Pcs, AttemptSteps, EndSteps
<1>3. CASE Route(e)
  BY <1>1, <1>2, <1>3, GotoSeenMoves, CancelledMoves DEF Route, At, Going
<1>4. CASE Reserve(e)
  BY <1>1, <1>2, <1>4, GotoSeenMoves, CancelledMoves DEF Reserve, At, Going
<1>5. CASE Context(e)
  BY <1>1, <1>2, <1>5, GotoSeenMoves, CancelledMoves, PlacedNext, ZenonT(60) DEF Context, At, Going
<1>6. CASE Preflight(e)
  BY <1>1, <1>2, <1>6, GotoSeenMoves, CancelledMoves, PlacedNext DEF Preflight, At, Going
<1>7. CASE StartCall(e)
  BY <1>1, <1>2, <1>7, GotoMoves DEF StartCall, At, Going
<1>8. CASE Invoke(e)
  <2>1. ASSUME NEW next \in {"retry", "fail1"},
               exec' = [exec EXCEPT ![e].pc = "callError", ![e].next = next]
        PROVE  Moves(e, "callError")
    BY <1>1, <1>2, <2>1, PlacedMoves, ZenonT(60) DEF Going
  <2>2. QED
    BY <1>1, <1>2, <1>8, <2>1, GotoMoves DEF Invoke, At, Going
<1>9. CASE Answered(e) \/ CallError(e)
  BY <1>1, <1>2, <1>9, GotoMoves DEF Answered, CallError, RecordCall, At, Going
<1>10. CASE Settle(e)
  BY <1>1, <1>2, <1>10, GotoMoves DEF Settle, At, Going
<1>11. CASE RecordUsage(e) \/ CreateArtifact(e)
  BY <1>1, <1>2, <1>11, GotoMoves DEF RecordUsage, CreateArtifact, Record, At, Going
<1>12. CASE ReleaseReservation(e)
  <2>1. exec[e].next \in {"retry", "fail1", "stop1", "return"}
    BY <1>1 DEF Exec
  <2>2. QED
    BY <1>1, <1>2, <1>12, <2>1, GotoMoves DEF ReleaseReservation, At, Going
<1>13. QED
  BY <1>3, <1>4, <1>5, <1>6, <1>7, <1>8, <1>9, <1>10, <1>11, <1>12 DEF Quiet

\* A quiet step writes calls, reservations and outputs, which RowInv is not about.
LEMMA QuietKeepsRows ==
  ASSUME RowInv, NEW e \in Executors, TypeOK', Quiet(e)
  PROVE  RowInv'
<1>1. PICK pc \in Going \cup {"return"} : Moves(e, pc)
  BY QuietMoves DEF RowInv
<1>2. exec[e].pc \in Going
  BY QuietMoves DEF RowInv
<1>3. UNCHANGED <<job, run, task, attempt>>
  BY DEF Quiet, Route, Reserve, Context, Preflight, StartCall, Invoke, Answered, CallError, Settle,
         RecordUsage, CreateArtifact, Record, ReleaseReservation, rows, others
<1>4. QED
  BY <1>1, <1>2, <1>3, GoingOn DEF Moves

-----------------------------------------------------------------------------
(***************************************************************************)
(* RowInv is kept: steps of an executor                                    *)
(***************************************************************************)
\* Facts every step below starts from.
LEMMA WorkersRows ==
  ASSUME RowInv, NEW e \in Executors
  PROVE  /\ e \in Actors /\ exec \in [Actors -> Exec] /\ exec[e] \in Exec
         /\ run \in {"created", "running"} \cup RunEnded
         /\ attempt \in [Attempts -> {"none", "running", "completed", "failed"}]
         /\ RunAt(e) /\ Tidy(e) /\ TaskFollowsRun /\ EndedRunHasNoOpenAttempt
  BY DEF RowInv, TypeOK, Actors

\* Recovery looks at the rows: what still runs is what it will fail.
LEMMA RecoverKeepsRows ==
  ASSUME RowInv, NEW e \in Executors, TypeOK', Recover(e)
  PROVE  RowInv'
<1> DEFINE read == [exec[e] EXCEPT !.seen = run, !.n = NextAttempt]
<1>1. exec \in [Actors -> Exec] /\ e \in Actors /\ exec[e] \in Exec
  BY WorkersRows
<1>2. Live(e) /\ UNCHANGED <<job, run, task, attempt>>
  BY DEF Recover, Live, At, rows, others
<1>3. read \in Exec /\ read.n > 0
  <2>1. NextAttempt \in 0 .. MaxAttempts + 1 /\ NextAttempt > 0
    BY NextAttemptRange
  <2>2. QED
    BY <1>1, <2>1, ReadFields, WorkersRows DEF Exec
<1>4. ASSUME NEW x, exec' = [exec EXCEPT ![e] = x]
      PROVE  exec'[e] = x /\ \A b \in Actors \ {e} : exec'[b] = exec[b]
  BY <1>1, <1>4
<1>5. CASE run \in RunEnded \/ CrossedBoundary
  <2>1. PICK x \in {[read EXCEPT !.pc = "return"], [read EXCEPT !.pc = "interrupt"]} :
           exec' = [exec EXCEPT ![e] = x]
    BY <1>5 DEF Recover
  <2>2. x.pc \in {"return", "interrupt"}
    BY <1>3, <2>1 DEF Exec
  <2>3. QED
    BY <1>2, <1>4, <2>1, <2>2, GivingUp
<1>6. CASE run \notin RunEnded /\ ~CrossedBoundary /\ Open /= {}
  <2> DEFINE x == [read EXCEPT !.pc = "recoverFail", !.found = Open]
  <2>1. exec' = [exec EXCEPT ![e] = x]
    BY <1>6 DEF Recover, Open
  <2>2. x.pc = "recoverFail" /\ x.found = Open
    BY <1>3 DEF Exec
  <2> HIDE DEF x
  <2>3. exec'[e].pc = "recoverFail" /\ exec'[e].found = Open
    BY <1>4, <2>1, <2>2
  <2>4. RunAt(e)' /\ Tidy(e)'
    BY <1>2, <1>6, <2>3 DEF RunAt, Tidy, Going, Open
  <2>5. TaskFollowsRun' /\ EndedRunHasNoOpenAttempt'
    BY <1>2, WorkersRows DEF TaskFollowsRun, EndedRunHasNoOpenAttempt
  <2>6. QED
    BY <1>2, <1>4, <2>1, <2>4, <2>5, WorkerStep
<1>7. CASE run \notin RunEnded /\ ~CrossedBoundary /\ Open = {}
  <2> DEFINE x == Resume(read)
  <2>1. exec' = [exec EXCEPT ![e] = x]
    BY <1>7 DEF Recover, Open
  <2>2. x.pc \in {"interrupt", "insert"}
    BY <1>3, ResumeRange
  <2> HIDE DEF x
  <2>3. RunAt(e)' /\ Tidy(e)'
    BY <1>2, <1>4, <1>7, <2>1, <2>2 DEF RunAt, Tidy, Going, Open
  <2>4. TaskFollowsRun' /\ EndedRunHasNoOpenAttempt'
    BY <1>2, WorkersRows DEF TaskFollowsRun, EndedRunHasNoOpenAttempt
  <2>5. QED
    BY <1>2, <1>4, <2>1, <2>3, <2>4, WorkerStep
<1>8. QED
  BY <1>5, <1>6, <1>7

\* The interrupted attempts are failed, and nothing else of the run is open.
LEMMA RecoverFailKeepsRows ==
  ASSUME RowInv, NEW e \in Executors, TypeOK', RecoverFail(e)
  PROVE  RowInv'
<1>1. exec[e].pc = "recoverFail" /\ Live(e) /\ UNCHANGED <<job, run, task>>
  BY DEF RecoverFail, Live, At, others
<1>2. Moves(e, "recoverRelease")
  BY WorkersRows, GotoMoves DEF RecoverFail, Pcs, OutsideSteps
<1>3. Open' = {}
  BY <1>1, WorkersRows DEF RecoverFail, Tidy, Open
<1>4. RunAt(e)' /\ Tidy(e)'
  BY <1>1, <1>2, <1>3, WorkersRows DEF Moves, RunAt, Tidy, Going
<1>5. TaskFollowsRun' /\ EndedRunHasNoOpenAttempt'
  BY <1>1, <1>3, WorkersRows DEF TaskFollowsRun, EndedRunHasNoOpenAttempt, Open
<1>6. QED
  BY <1>1, <1>2, <1>4, <1>5, WorkerStep DEF Moves

\* Releasing reservations comes after the attempts were closed.
LEMMA RecoverReleaseKeepsRows ==
  ASSUME BackingInv, RowInv, NEW e \in Executors, TypeOK', RecoverRelease(e)
  PROVE  RowInv'
<1> DEFINE x == Resume(exec[e])
<1>1. exec[e].pc = "recoverRelease" /\ Live(e) /\ UNCHANGED <<job, run, task, attempt>>
  BY DEF RecoverRelease, Live, At, others
<1>2. exec[e].n > 0
  BY <1>1 DEF BackingInv, NumbersAreAttempts, Past
<1>3. exec' = [exec EXCEPT ![e] = x]
  BY DEF RecoverRelease
<1>4. x.pc \in {"interrupt", "insert"}
  BY <1>2, WorkersRows, ResumeRange
<1> HIDE DEF x
<1>5. exec'[e] = x /\ \A b \in Actors \ {e} : exec'[b] = exec[b]
  BY <1>3, WorkersRows
<1>6. RunAt(e)' /\ Tidy(e)'
  BY <1>1, <1>4, <1>5, WorkersRows DEF RunAt, Tidy, Going, Open
<1>7. TaskFollowsRun' /\ EndedRunHasNoOpenAttempt'
  BY <1>1, WorkersRows DEF TaskFollowsRun, EndedRunHasNoOpenAttempt
<1>8. QED
  BY <1>1, <1>5, <1>6, <1>7, WorkerStep

\* The new attempt is the only one that runs.
LEMMA InsertKeepsRows ==
  ASSUME RowInv, NEW e \in Executors, TypeOK', InsertAttempt(e)
  PROVE  RowInv'
<1>1. exec[e].pc = "insert" /\ Live(e) /\ UNCHANGED <<job, run, task>>
  BY DEF InsertAttempt, Live, At, others
<1>2. Open = {} /\ run \notin RunEnded
  BY <1>1, WorkersRows DEF RunAt, Tidy
<1>3. CASE attempt[exec[e].n] = "none"
  <2>1. Moves(e, "setRunning")
    BY <1>3, WorkersRows, GotoMoves DEF InsertAttempt, Pcs, AttemptSteps
  <2>2. Open' \subseteq {exec[e].n}
    BY <1>2, <1>3, WorkersRows DEF InsertAttempt, Open
  <2>3. RunAt(e)' /\ Tidy(e)'
    BY <1>1, <1>2, <2>1, <2>2 DEF Moves, RunAt, Tidy, Going
  <2>4. TaskFollowsRun' /\ EndedRunHasNoOpenAttempt'
    BY <1>1, <1>2, WorkersRows DEF TaskFollowsRun, EndedRunHasNoOpenAttempt, RunEnded
  <2>5. QED
    BY <1>1, <2>1, <2>3, <2>4, WorkerStep DEF Moves
<1>4. CASE attempt[exec[e].n] /= "none"
  <2>1. Moves(e, "return") /\ attempt' = attempt
    BY <1>4, WorkersRows, GotoMoves DEF InsertAttempt, Pcs, EndSteps
  <2>2. QED
    BY <1>1, <2>1, GivingUp DEF Moves
<1>5. QED
  BY <1>3, <1>4

\* The blind write of the run's status meets no run that has ended.
LEMMA SetRunningKeepsRows ==
  ASSUME RowInv, NEW e \in Executors, TypeOK', SetRunning(e)
  PROVE  RowInv'
<1>1. exec[e].pc = "setRunning" /\ Live(e) /\ UNCHANGED <<job, task, attempt>>
  BY DEF SetRunning, Live, At, others
<1>2. run \notin RunEnded /\ run' \notin RunEnded /\ Open \subseteq {exec[e].n}
  BY <1>1, WorkersRows DEF SetRunning, RunAt, Tidy, Going, RunEnded
<1>3. Moves(e, "route")
  <2> DEFINE x == [exec[e] EXCEPT !.pc = "route", !.seen = "running"]
  <2>1. exec' = [exec EXCEPT ![e] = x]
    BY DEF SetRunning
  <2>2. x \in Exec /\ x.n = exec[e].n /\ x.pc = "route"
    BY WorkersRows, ZenonT(60) DEF Exec, AttemptSteps
  <2> HIDE DEF x
  <2>3. QED
    <3>1. exec \in [Actors -> Exec] /\ e \in Actors
      BY WorkersRows
    <3>2. QED
      BY <2>1, <2>2, <3>1, UpdateMoves
<1>4. RunAt(e)' /\ Tidy(e)'
  BY <1>1, <1>2, <1>3 DEF Moves, RunAt, Tidy, Going, Open
<1>5. TaskFollowsRun' /\ EndedRunHasNoOpenAttempt'
  BY <1>1, <1>2, WorkersRows DEF TaskFollowsRun, EndedRunHasNoOpenAttempt, RunEnded
<1>6. QED
  BY <1>1, <1>3, <1>4, <1>5, WorkerStep DEF Moves

\* Completing the attempt closes it.
LEMMA FinishAttemptKeepsRows ==
  ASSUME RowInv, NEW e \in Executors, TypeOK', FinishAttempt(e)
  PROVE  RowInv'
<1>1. exec[e].pc = "finishAttempt" /\ Live(e) /\ UNCHANGED <<job, run, task>>
  BY DEF FinishAttempt, Live, At, others
<1>2. run \notin RunEnded /\ Open \subseteq {exec[e].n}
  BY <1>1, WorkersRows DEF RunAt, Tidy, Going
<1>3. PICK pc \in {"finishRun", "return"} : Moves(e, pc)
  BY WorkersRows, GotoMoves DEF FinishAttempt, Pcs, AttemptSteps, EndSteps
<1>4. Open' \subseteq Open
  BY WorkersRows DEF FinishAttempt, Open
<1>5. RunAt(e)' /\ Tidy(e)'
  BY <1>1, <1>2, <1>3, <1>4 DEF Moves, RunAt, Tidy, Going
<1>6. TaskFollowsRun' /\ EndedRunHasNoOpenAttempt'
  BY <1>1, <1>2, WorkersRows DEF TaskFollowsRun, EndedRunHasNoOpenAttempt, RunEnded
<1>7. QED
  BY <1>1, <1>3, <1>5, <1>6, WorkerStep DEF Moves

\* The attempt that failed is closed before the next one, or the run's end.
LEMMA RetryKeepsRows ==
  ASSUME RowInv, NEW e \in Executors, TypeOK', Retry(e)
  PROVE  RowInv'
<1>1. exec[e].pc = "retry" /\ Live(e) /\ UNCHANGED <<job, run, task>>
  BY DEF Retry, Live, At, others
<1>2. run \notin RunEnded /\ Open \subseteq {exec[e].n}
  BY <1>1, WorkersRows DEF RunAt, Tidy, Going
<1>3. e \in Actors /\ exec \in [Actors -> Exec] /\ exec[e] \in Exec
  BY WorkersRows
<1>4. CASE attempt[exec[e].n] /= "running"
  <2>1. Moves(e, "return") /\ attempt' = attempt
    BY <1>3, <1>4, GotoMoves DEF Retry, Pcs, EndSteps
  <2>2. QED
    BY <1>1, <2>1, GivingUp DEF Moves
<1>5. CASE attempt[exec[e].n] = "running"
  <2>1. Open' = {}
    BY <1>2, <1>5, WorkersRows DEF Retry, Open
  <2>2. PICK x \in {[exec[e] EXCEPT !.pc = "fail2", !.guarded = FALSE],
                    [exec[e] EXCEPT !.pc = "insert", !.n = exec[e].n + 1]} :
           exec' = [exec EXCEPT ![e] = x]
    BY <1>5 DEF Retry
  <2>3. x.pc \in {"fail2", "insert"}
    BY <1>3, <2>2 DEF Exec
  <2>4. exec'[e] = x /\ \A b \in Actors \ {e} : exec'[b] = exec[b]
    BY <1>3, <2>2
  <2>5. RunAt(e)' /\ Tidy(e)'
    BY <1>1, <1>2, <2>1, <2>3, <2>4 DEF RunAt, Tidy, Going
  <2>6. TaskFollowsRun' /\ EndedRunHasNoOpenAttempt'
    BY <1>1, <1>2, WorkersRows DEF TaskFollowsRun, EndedRunHasNoOpenAttempt, RunEnded
  <2>7. QED
    BY <1>1, <2>4, <2>5, <2>6, WorkerStep
<1>6. QED
  BY <1>4, <1>5

\* The executor's ends of the run: completed with no attempt open, or stopped.
LEMMA EndingKeepsRows ==
  ASSUME BackingInv, RowInv, NEW e \in Executors, TypeOK', FinishRun(e) \/ StopRun(e)
  PROVE  RowInv'
<1>1. exec[e].pc \in {"finishRun", "stop1"} /\ Live(e) /\ UNCHANGED <<job, task, attempt>>
  BY DEF FinishRun, StopRun, Live, At, others
<1>2. run \notin RunEnded /\ Open \subseteq {exec[e].n}
  BY <1>1, WorkersRows DEF RunAt, Tidy, Going
<1>3. exec[e].pc = "finishRun" => Open = {}
  BY <1>2 DEF BackingInv, ProgressIsRecorded, Past, Open
<1>4. \/ Moves(e, "stop1") /\ run' = run
      \/ Moves(e, "stop2") /\ run' = "stopped"
      \/ Moves(e, "verify") /\ run' = "completed" /\ exec[e].pc = "finishRun"
  BY <1>2, WorkersRows, GotoMoves DEF FinishRun, StopRun, ClaimRunTerminal, At, Pcs, AttemptSteps
<1>5. RunAt(e)' /\ Tidy(e)'
  BY <1>1, <1>2, <1>4 DEF Moves, RunAt, Tidy, Going, Open
<1>6. TaskFollowsRun'
  BY <1>1, <1>2, WorkersRows DEF TaskFollowsRun, RunEnded
<1>7. EndedRunHasNoOpenAttempt'
  BY <1>1, <1>2, <1>3, <1>4 DEF EndedRunHasNoOpenAttempt, RunEnded, Open
<1>8. QED
  BY <1>1, <1>4, <1>5, <1>6, <1>7, WorkerStep DEF Moves

\* Whoever ended the run ends the Task Run the same way.
LEMMA TaskEndKeepsRows ==
  ASSUME RowInv, NEW e \in Executors, TypeOK', Verify(e) \/ Complete(e) \/ StopTask(e) \/ FailTask(e)
  PROVE  RowInv'
<1>1. Live(e) /\ UNCHANGED <<job, run, attempt>>
  BY DEF Verify, Complete, StopTask, FailTask, SetTask, Live, At, others
<1>2. \/ exec[e].pc \in {"verify", "complete"} /\ task' \in {"verifying", "completed"} /\ run = "completed"
      \/ exec[e].pc = "stop3" /\ task' = "cancelled" /\ run = "stopped"
      \/ exec[e].pc = "fail3" /\ task' = "failed" /\ run = "failed"
  BY WorkersRows DEF Verify, Complete, StopTask, FailTask, SetTask, At, RunAt
<1>3. PICK pc \in {"complete", "return"} : Moves(e, pc) /\ (pc = "complete" => exec[e].pc = "verify")
  BY WorkersRows, GotoMoves DEF Verify, Complete, StopTask, FailTask, SetTask, At, Pcs, AttemptSteps, EndSteps
<1>4. RunAt(e)' /\ Tidy(e)'
  BY <1>1, <1>2, <1>3 DEF Moves, RunAt, Tidy, Going
<1>5. TaskFollowsRun' /\ EndedRunHasNoOpenAttempt'
  BY <1>1, <1>2, WorkersRows DEF TaskFollowsRun, EndedRunHasNoOpenAttempt
<1>6. QED
  BY <1>1, <1>3, <1>4, <1>5, WorkerStep DEF Moves

\* The steps that fail attempts: an executor leaves none open but after a stop.
LEMMA FailingKeepsRows ==
  ASSUME RowInv, NEW e \in Executors, TypeOK', FailAttempt(e) \/ StopAttempt(e) \/ FailDangling(e)
  PROVE  RowInv'
<1>1. exec[e].pc \in {"fail1", "stop2", "dangling"} /\ Live(e) /\ UNCHANGED <<job, run, task>>
  BY DEF FailAttempt, StopAttempt, FailDangling, Live, At, others
<1>2. \/ Moves(e, "stop3") /\ run = "stopped"
      \/ Moves(e, "fail2") /\ exec[e].pc \in {"fail1", "dangling"}
  BY WorkersRows, GotoMoves DEF FailAttempt, StopAttempt, FailDangling, At, RunAt, Pcs, AttemptSteps, FinalizeSteps
<1>3. Open' \subseteq Open
  BY WorkersRows DEF FailAttempt, StopAttempt, FailDangling, Open
<1>4. exec[e].pc \in {"fail1", "dangling"} => Open' = {}
  BY WorkersRows DEF FailAttempt, StopAttempt, FailDangling, At, Open, Tidy, Going
<1>5. RunAt(e)' /\ Tidy(e)'
  BY <1>1, <1>2, <1>4 DEF Moves, RunAt, Tidy, Going
<1>6. TaskFollowsRun' /\ EndedRunHasNoOpenAttempt'
  BY <1>1, <1>3, WorkersRows DEF TaskFollowsRun, EndedRunHasNoOpenAttempt, Open
<1>7. QED
  BY <1>1, <1>2, <1>5, <1>6, WorkerStep DEF Moves

-----------------------------------------------------------------------------
(***************************************************************************)
(* RowInv is kept: steps executors and sweeps share, and all others        *)
(***************************************************************************)
LEMMA SharedFacts ==
  ASSUME RowInv, NEW a \in Actors
  PROVE  /\ exec \in [Actors -> Exec] /\ exec[a] \in Exec
         /\ run \in {"created", "running"} \cup RunEnded
         /\ attempt \in [Attempts -> {"none", "running", "completed", "failed"}]
         /\ RunAt(a) /\ Tidy(a) /\ TaskFollowsRun /\ EndedRunHasNoOpenAttempt
  BY DEF RowInv, TypeOK

\* What WorkerStep and SweeperStep have in common.
LEMMA ActorStep ==
  ASSUME RowInv, NEW a \in Actors, Live(a), TypeOK', job' = job,
         \A b \in Actors \ {a} : exec'[b] = exec[b],
         a \in Sweepers => /\ ~exec'[a].guarded
                           /\ exec'[a].pc \in {"idle", "interrupt", "fail2", "fail3", "return", "raise"},
         run \in RunEnded => run' = run, Open' \subseteq Open,
         RunAt(a)', Tidy(a)', TaskFollowsRun', EndedRunHasNoOpenAttempt'
  PROVE  RowInv'
<1>1. CASE a \in Executors
  BY <1>1, WorkerStep
<1>2. CASE a \in Sweepers
  <2>1. job.status \in {"done", "failed"}
    BY <1>2 DEF RowInv, OneAtWork
  <2>2. QED
    BY <1>2, <2>1, SweeperStep
<1>3. QED
  BY <1>1, <1>2 DEF Actors

\* Goto keeps the rest of the memory.
LEMMA GotoGuarded ==
  ASSUME exec \in [Actors -> Exec], NEW a \in Actors, NEW pc \in Pcs, Goto(a, pc)
  PROVE  exec'[a].guarded = exec[a].guarded
<1>1. exec[a] \in Exec /\ exec' = [exec EXCEPT ![a] = [exec[a] EXCEPT !.pc = pc]]
  BY DEF Goto
<1>2. [exec[a] EXCEPT !.pc = pc].guarded = exec[a].guarded
  BY <1>1 DEF Exec
<1>3. QED
  BY <1>1, <1>2

\* Interrupting closes every attempt before the run is failed.
LEMMA InterruptKeepsRows ==
  ASSUME RowInv, NEW a \in Actors, TypeOK', Interrupt(a)
  PROVE  RowInv'
<1>1. exec[a].pc = "interrupt" /\ Live(a) /\ UNCHANGED <<job, run, task>>
  BY DEF Interrupt, Live, At, others
<1>2. PICK pc \in {"return", "fail2"} : Goto(a, pc) /\ (pc = "fail2" => run \notin RunEnded)
  BY DEF Interrupt
<1>3. pc \in Pcs
  BY DEF Pcs, EndSteps, FinalizeSteps
<1>4. Moves(a, pc) /\ exec'[a].guarded = exec[a].guarded
  BY <1>2, <1>3, SharedFacts, GotoMoves, GotoGuarded
<1>5. Open' \subseteq Open
  BY SharedFacts DEF Interrupt, Open
<1>6. pc = "fail2" => Open' = {}
  <2>1. SUFFICES ASSUME pc = "fail2" PROVE Open' = {}
    OBVIOUS
  <2>2. run \notin RunEnded
    BY <1>2, <2>1
  <2>3. QED
    BY <2>2, SharedFacts DEF Interrupt, Open
<1>7. RunAt(a)' /\ Tidy(a)'
  BY <1>1, <1>4, <1>6 DEF Moves, RunAt, Tidy, Going
<1>8. TaskFollowsRun' /\ EndedRunHasNoOpenAttempt'
  BY <1>1, <1>5, SharedFacts DEF TaskFollowsRun, EndedRunHasNoOpenAttempt, Open
<1>9. a \in Sweepers => ~exec'[a].guarded
  BY <1>4 DEF RowInv, OneAtWork
<1>10. QED
  BY <1>1, <1>4, <1>5, <1>7, <1>8, <1>9, ActorStep DEF Moves

\* Only one actor moves the run to its end, and none of its attempts is open.
LEMMA FailRunKeepsRows ==
  ASSUME RowInv, NEW a \in Actors, TypeOK', FailRun(a)
  PROVE  RowInv'
<1>1. exec[a].pc = "fail2" /\ Live(a) /\ UNCHANGED <<job, task, attempt>>
  BY DEF FailRun, Live, At, others
<1>2. Open = {}
  BY <1>1, SharedFacts DEF Tidy
<1>3. PICK pc \in {"return", "fail3"} : /\ Goto(a, pc)
                                        /\ pc = "fail3" => run \notin RunEnded /\ run' = "failed"
                                        /\ pc = "return" => run' = run
  BY DEF FailRun, ClaimRunTerminal
<1>4. pc \in Pcs
  BY DEF Pcs, EndSteps, FinalizeSteps
<1>5. Moves(a, pc) /\ exec'[a].guarded = exec[a].guarded
  BY <1>3, <1>4, SharedFacts, GotoMoves, GotoGuarded
<1>6. Open' = {}
  BY <1>1, <1>2 DEF Open
<1>7. RunAt(a)' /\ Tidy(a)'
  BY <1>3, <1>5, <1>6 DEF Moves, RunAt, Tidy, Going
<1>8. run \in RunEnded => run' = run
  BY <1>3
<1>9. TaskFollowsRun' /\ EndedRunHasNoOpenAttempt'
  BY <1>1, <1>3, <1>6, SharedFacts DEF TaskFollowsRun, EndedRunHasNoOpenAttempt, Open, RunEnded
<1>10. a \in Sweepers => ~exec'[a].guarded
  BY <1>5 DEF RowInv, OneAtWork
<1>11. QED
  BY <1>1, <1>2, <1>5, <1>6, <1>7, <1>8, <1>9, <1>10, ActorStep DEF Moves

\* The Task Run is failed by whoever failed the run, executor or sweep.
LEMMA FailTaskKeepsRows ==
  ASSUME RowInv, NEW a \in Actors, TypeOK', FailTask(a)
  PROVE  RowInv'
<1>1. exec[a].pc = "fail3" /\ Live(a) /\ UNCHANGED <<job, run, attempt>> /\ task' = "failed" /\ Goto(a, "return")
  BY DEF FailTask, SetTask, Live, At, others
<1>2. run = "failed"
  BY <1>1, SharedFacts DEF RunAt
<1>3. "return" \in Pcs
  BY DEF Pcs, EndSteps
<1>4. Moves(a, "return") /\ exec'[a].guarded = exec[a].guarded
  BY <1>1, <1>3, SharedFacts, GotoMoves, GotoGuarded
<1>5. RunAt(a)' /\ Tidy(a)'
  BY <1>4 DEF Moves, RunAt, Tidy, Going
<1>6. TaskFollowsRun' /\ EndedRunHasNoOpenAttempt'
  BY <1>1, <1>2, SharedFacts DEF TaskFollowsRun, EndedRunHasNoOpenAttempt
<1>7. a \in Sweepers => ~exec'[a].guarded
  BY <1>4 DEF RowInv, OneAtWork
<1>8. Open' \subseteq Open
  BY <1>1 DEF Open
<1>9. QED
  BY <1>1, <1>4, <1>5, <1>6, <1>7, <1>8, ActorStep DEF Moves

\* An error or a crash writes nothing.
LEMMA FailureKeepsRows ==
  ASSUME RowInv, NEW a \in Actors, TypeOK', UnexpectedError(a) \/ Crash(a)
  PROVE  RowInv'
<1>1. Live(a)
  BY DEF UnexpectedError, Crash, Live, AttemptSteps, FinalizeSteps, OutsideSteps
<1>2. UNCHANGED <<job, run, task, attempt>>
  BY DEF UnexpectedError, Crash, rows, others
<1>3. /\ exec'[a].pc \in {"raise", "dangling", "gone", "idle"} /\ ~exec'[a].guarded
      /\ a \in Sweepers => exec'[a].pc \in {"raise", "idle"}
      /\ a \in Executors => exec'[a].pc \in {"raise", "dangling", "gone"}
      /\ \A b \in Actors \ {a} : exec'[b] = exec[b]
  <2>1. CASE Crash(a)
    <3>1. PICK x \in {IdleExec, [IdleExec EXCEPT !.pc = "gone"]} :
             exec' = [exec EXCEPT ![a] = x] /\ (x = IdleExec <=> a \in Sweepers)
      BY <2>1, ForgottenExec DEF Crash
    <3>2. x.pc \in {"idle", "gone"} /\ ~x.guarded /\ (x.pc = "idle" <=> x = IdleExec)
      BY <3>1 DEF IdleExec
    <3>3. exec'[a] = x /\ \A b \in Actors \ {a} : exec'[b] = exec[b]
      BY <3>1, SharedFacts
    <3>4. QED
      BY <3>1, <3>2, <3>3
  <2>2. CASE UnexpectedError(a)
    <3> DEFINE pc == IF exec[a].pc = "dangling" \/ ~exec[a].guarded THEN "raise" ELSE "dangling"
               x == [exec[a] EXCEPT !.pc = pc, !.guarded = FALSE]
    <3>1. exec' = [exec EXCEPT ![a] = x]
      BY <2>2 DEF UnexpectedError
    <3>2. x.pc = pc /\ ~x.guarded
      BY SharedFacts DEF Exec
    <3>3. a \in Sweepers => pc = "raise"
      BY DEF RowInv, OneAtWork
    <3> HIDE DEF x
    <3>4. exec'[a] = x /\ \A b \in Actors \ {a} : exec'[b] = exec[b]
      BY <3>1, SharedFacts
    <3>5. QED
      BY <3>2, <3>3, <3>4
  <2>3. QED
    BY <2>1, <2>2
<1>4. CASE a \in Executors
  BY <1>1, <1>2, <1>3, <1>4, GivingUp
<1>5. CASE a \in Sweepers
  <2>1. RunAt(a)' /\ Tidy(a)'
    BY <1>3, <1>5 DEF RunAt, Tidy, Going
  <2>2. TaskFollowsRun' /\ EndedRunHasNoOpenAttempt'
    BY <1>2, SharedFacts DEF TaskFollowsRun, EndedRunHasNoOpenAttempt
  <2>3. Open' \subseteq Open
    BY <1>2 DEF Open
  <2>4. QED
    BY <1>1, <1>2, <1>3, <1>5, <2>1, <2>2, <2>3, ActorStep
<1>6. QED
  BY <1>4, <1>5 DEF Actors

\* The executor that ends the job is the one that holds it.
LEMMA FinishKeepsRows ==
  ASSUME RowInv, NEW a \in Actors, TypeOK', Finish(a)
  PROVE  RowInv'
<1>1. exec[a].pc \in {"return", "raise"} /\ Live(a) /\ UNCHANGED <<run, task, attempt>>
  BY DEF Finish, Live, rows
<1>2. PICK x \in {IdleExec, [IdleExec EXCEPT !.pc = "gone"]} :
         exec' = [exec EXCEPT ![a] = x] /\ (x = IdleExec <=> a \in Sweepers)
  BY ForgottenExec DEF Finish
<1>3. x.pc \in {"idle", "gone"} /\ ~x.guarded
  BY <1>2 DEF IdleExec
<1>4. exec'[a] = x /\ \A b \in Actors \ {a} : exec'[b] = exec[b]
  BY <1>2, SharedFacts
<1>5. RunAt(a)' /\ Tidy(a)'
  BY <1>3, <1>4 DEF RunAt, Tidy, Going
<1>6. TaskFollowsRun' /\ EndedRunHasNoOpenAttempt'
  BY <1>1, SharedFacts DEF TaskFollowsRun, EndedRunHasNoOpenAttempt
<1>7. CASE a \in Sweepers
  <2>1. job.holder /= a
    BY <1>1, <1>7 DEF RowInv, OneAtWork
  <2>2. job' = job /\ Open' \subseteq Open
    BY <1>1, <2>1 DEF Finish, Open
  <2>3. x.pc = "idle"
    BY <1>2, <1>7 DEF IdleExec
  <2>4. QED
    BY <1>1, <1>3, <1>4, <1>5, <1>6, <1>7, <2>2, <2>3, ActorStep
<1>8. CASE a \in Executors
  <2>1. job.status = "leased" /\ job.holder = a
    BY <1>1, <1>8 DEF RowInv, OneAtWork
  <2>2. job'.status \in {"done", "failed"} /\ job'.holder = a
    <3>1. job \in [status : {"absent", "pending", "leased", "done", "failed"}, holder : Executors \cup {NoOne}]
      BY DEF RowInv, TypeOK
    <3>2. job' \in {[job EXCEPT !.status = "done"], [job EXCEPT !.status = "failed"]}
      BY <2>1 DEF Finish
    <3>3. QED
      BY <2>1, <3>1, <3>2
  <2>3. \A b \in Actors \ {a} : exec[b].pc \in {"idle", "gone"}
    BY <2>1 DEF RowInv, OneAtWork, Live, Actors
  <2>4. OneAtWork'
    BY <1>3, <1>4, <1>8, <2>2, <2>3 DEF RowInv, OneAtWork, Live, Actors
  <2>5. \A b \in Actors \ {a} : RunAt(b)' /\ Tidy(b)'
    BY <1>4, <2>3 DEF RunAt, Tidy, Going
  <2>6. QED
    BY <1>5, <1>6, <2>4, <2>5 DEF RowInv
<1>9. QED
  BY <1>7, <1>8 DEF Actors

\* Only a stopped executor loses its lease, so the claim finds nobody at work.
LEMMA ClaimKeepsRows ==
  ASSUME FailStop, RowInv, NEW e \in Executors, TypeOK', Claim(e)
  PROVE  RowInv'
<1>1. UNCHANGED <<run, task, attempt>> /\ job'.status = "leased" /\ job'.holder = e /\ Goto(e, "recover")
  BY DEF Claim, rows
<1>2. e \in Actors /\ "recover" \in Pcs
  BY DEF Actors, Pcs, OutsideSteps
<1>3. Moves(e, "recover")
  BY <1>1, <1>2, SharedFacts, GotoMoves
<1>4. \A b \in Actors : exec[b].pc \in {"idle", "gone"}
  <2>1. job.status = "pending" \/ (job.status = "leased" /\ ~Live(job.holder))
    BY DEF Claim, LeaseRanOut
  <2>2. QED
    BY <2>1 DEF RowInv, OneAtWork, Live, Actors
<1>5. OneAtWork'
  BY <1>1, <1>3, <1>4 DEF RowInv, OneAtWork, Live, Moves, Actors
<1>6. \A b \in Actors : exec'[b].pc \in {"idle", "gone", "recover"}
  BY <1>3, <1>4 DEF Moves
<1>7. \A b \in Actors : RunAt(b)' /\ Tidy(b)'
  BY <1>6 DEF RunAt, Tidy, Going
<1>8. TaskFollowsRun' /\ EndedRunHasNoOpenAttempt'
  BY <1>1 DEF RowInv, TaskFollowsRun, EndedRunHasNoOpenAttempt
<1>9. QED
  BY <1>5, <1>7, <1>8 DEF RowInv

\* A sweep starts after the job's end only: an absent job has a run not yet begun.
LEMMA SweepKeepsRows ==
  ASSUME RowInv, NEW s \in Sweepers, TypeOK', Sweep(s)
  PROVE  RowInv'
<1>1. UNCHANGED <<job, run, task, attempt>> /\ Goto(s, "interrupt")
  BY DEF Sweep, rows, others
<1>2. job.status \in {"done", "failed"}
  BY DEF Sweep, RowInv, OneAtWork
<1>3. s \in Actors /\ "interrupt" \in Pcs
  BY DEF Actors, Pcs, OutsideSteps
<1>4. Moves(s, "interrupt") /\ exec'[s].guarded = exec[s].guarded
  BY <1>1, <1>3, SharedFacts, GotoMoves, GotoGuarded
<1>5. ~exec'[s].guarded
  BY <1>4 DEF RowInv, OneAtWork
<1>6. RunAt(s)' /\ Tidy(s)'
  BY <1>4 DEF Moves, RunAt, Tidy, Going
<1>7. TaskFollowsRun' /\ EndedRunHasNoOpenAttempt' /\ Open' \subseteq Open
  BY <1>1 DEF RowInv, TaskFollowsRun, EndedRunHasNoOpenAttempt, Open
<1>8. QED
  BY <1>1, <1>2, <1>4, <1>5, <1>6, <1>7, SweeperStep DEF Moves

\* Steps that leave every actor where it is.
LEMMA RequestKeepsRows ==
  ASSUME RowInv, TypeOK', Enqueue \/ CancelCheck \/ CancelWrite \/ CancelAgentRun \/ UNCHANGED vars
  PROVE  RowInv'
<1>1. UNCHANGED <<run, attempt, exec>>
  BY DEF Enqueue, CancelCheck, CancelWrite, CancelAgentRun, vars, rows
<1>2. \A a \in Actors : RunAt(a)' /\ Tidy(a)'
  BY <1>1 DEF RowInv, RunAt, Tidy, Open
<1>3. TaskFollowsRun' /\ EndedRunHasNoOpenAttempt'
  BY <1>1 DEF RowInv, TaskFollowsRun, EndedRunHasNoOpenAttempt, Enqueue, CancelCheck, CancelWrite,
              CancelAgentRun, vars, rows
<1>4. OneAtWork'
  <2>1. CASE Enqueue
    <3>1. job' = [job EXCEPT !.status = "pending"] /\ job.status = "absent"
      BY <2>1 DEF Enqueue
    <3>2. job \in [status : {"absent", "pending", "leased", "done", "failed"}, holder : Executors \cup {NoOne}]
      BY DEF RowInv, TypeOK
    <3>3. job'.status = "pending"
      BY <3>1, <3>2
    <3>4. QED
      BY <1>1, <3>1, <3>3 DEF RowInv, OneAtWork, Live
  <2>2. CASE UNCHANGED job
    BY <1>1, <2>2 DEF RowInv, OneAtWork, Live
  <2>3. QED
    BY <2>1, <2>2 DEF CancelCheck, CancelWrite, CancelAgentRun, vars
<1>5. QED
  BY <1>2, <1>3, <1>4 DEF RowInv

\* Nothing runs and nothing has ended.
LEMMA InitRowInv == Init => RowInv
<1> SUFFICES ASSUME Init PROVE RowInv
  OBVIOUS
<1>1. TypeOK
  BY InitBackingInv DEF BackingInv
<1>2. \A a \in Actors : exec[a].pc = "idle" /\ ~exec[a].guarded
  BY DEF Init, IdleExec
<1>3. OneAtWork
  BY <1>2 DEF Init, OneAtWork, Live, Actors
<1>4. \A a \in Actors : RunAt(a) /\ Tidy(a)
  BY <1>2 DEF RunAt, Tidy, Going
<1>5. TaskFollowsRun /\ EndedRunHasNoOpenAttempt
  BY DEF Init, TaskFollowsRun, EndedRunHasNoOpenAttempt
<1>6. QED
  BY <1>1, <1>3, <1>4, <1>5 DEF RowInv

\* Every step keeps RowInv if a lease only runs out on a stopped executor.
LEMMA StepRowInv ==
  ASSUME FailStop
  PROVE  BackingInv /\ RowInv /\ [Next]_vars => RowInv'
<1> SUFFICES ASSUME BackingInv, RowInv, [Next]_vars PROVE RowInv'
  OBVIOUS
<1>1. TypeOK'
  BY StepBackingInv DEF BackingInv
<1>2. ASSUME NEW e \in Executors, RecoveryStep(e) PROVE RowInv'
  BY <1>1, <1>2, RecoverKeepsRows, RecoverFailKeepsRows, RecoverReleaseKeepsRows DEF RecoveryStep
<1>3. ASSUME NEW e \in Executors, AttemptStep(e) PROVE RowInv'
  BY <1>1, <1>3, QuietKeepsRows, InsertKeepsRows, SetRunningKeepsRows, FinishAttemptKeepsRows,
     RetryKeepsRows DEF AttemptStep, Quiet
<1>4. ASSUME NEW e \in Executors, FinalizeStep(e) PROVE RowInv'
  BY <1>1, <1>4, EndingKeepsRows, TaskEndKeepsRows, FailingKeepsRows DEF FinalizeStep
<1>5. ASSUME NEW a \in Actors, SharedStep(a) PROVE RowInv'
  BY <1>1, <1>5, InterruptKeepsRows, FailRunKeepsRows, FailTaskKeepsRows, FinishKeepsRows DEF SharedStep
<1>6. ASSUME NEW a \in Actors, Step(a) \/ UnexpectedError(a) \/ Crash(a) PROVE RowInv'
  BY <1>1, <1>2, <1>3, <1>4, <1>5, <1>6, FailureKeepsRows DEF Step
<1>7. ASSUME NEW e \in Executors, Claim(e) PROVE RowInv'
  BY <1>1, <1>7, ClaimKeepsRows
<1>8. ASSUME NEW s \in Sweepers, Sweep(s) PROVE RowInv'
  BY <1>1, <1>8, SweepKeepsRows
<1>9. QED
  BY <1>1, <1>6, <1>7, <1>8, RequestKeepsRows DEF Next

\* RowInv is inductive together with BackingInv.
LEMMA RowInvariant ==
  ASSUME FailStop
  PROVE  Spec => [](BackingInv /\ RowInv)
<1>1. Init => BackingInv /\ RowInv
  BY InitBackingInv, InitRowInv
<1>2. BackingInv /\ RowInv /\ [Next]_vars => (BackingInv /\ RowInv)'
  BY StepBackingInv, StepRowInv
<1>3. QED
  BY <1>1, <1>2, PTL DEF Spec

\* When only a stopped executor loses its lease, a run that completed or failed
\* has no attempt left running, however many claims, sweeps and crashes it took:
\* every path to the end closes the attempts in an earlier commit.
THEOREM EndedRunsAreTidy ==
  ASSUME FailStop
  PROVE  Spec => []EndedRunHasNoOpenAttempt
<1>1. RowInv => EndedRunHasNoOpenAttempt
  BY DEF RowInv
<1>2. QED
  BY <1>1, RowInvariant, PTL

\* The Task Run ends as its Agent Run did, although it ends in a later commit
\* that crashes, sweeps and cancellations may come before.
THEOREM TaskRunFollows ==
  ASSUME FailStop
  PROVE  Spec => []TaskFollowsRun
<1>1. RowInv => TaskFollowsRun
  BY DEF RowInv
<1>2. QED
  BY <1>1, RowInvariant, PTL

-----------------------------------------------------------------------------
(***************************************************************************)
(* The calls an executor may follow                                        *)
(***************************************************************************)
AtMostTwoClaims == \A e, f, g \in Executors : e = f \/ f = g \/ e = g

NeverServed == {"none", "error"}

\* Before its attempt n an executor finds only recorded failures, and nothing
\* of n or later; from then on its own attempt alone may have been served, and
\* it retries after a recorded failure only.
ClearedTo(e) ==
    LET n == exec[e].n IN
    /\ exec[e].pc \in {"recoverFail", "recoverRelease", "insert"} =>
         /\ \A m \in Attempts : call[m] \in NeverServed
         /\ \A m \in Attempts : m >= n => attempt[m] = "none"
    /\ exec[e].pc \in Going =>
         /\ \A m \in Attempts \ {n} : call[m] \in NeverServed
         /\ \A m \in Attempts : m > n => attempt[m] = "none"
    /\ exec[e].pc = "retry" \/ (exec[e].pc = "release" /\ exec[e].next = "retry") => call[n] = "error"

NothingBegun == \A n \in Attempts : attempt[n] = "none"
NoneInterrupted == \A n \in Attempts : call[n] /= "interrupted"

\* Another claim is still to come.
ClaimAhead(e) == \E f \in Executors \ {e} : exec[f].pc = "idle"

\* The claim that comes after another one finds no call already interrupted:
\* only itself, or a sweep after the job's end, interrupts calls.
CallInv ==
    /\ ProviderNotReplayed
    /\ \A e \in Executors : ClearedTo(e)
    /\ (\A e \in Executors : exec[e].pc = "idle") => NothingBegun
    /\ \A e \in Executors :
         /\ exec[e].pc = "recover" => NoneInterrupted
         /\ exec[e].pc = "idle" /\ job.status \notin {"done", "failed"} => NoneInterrupted
         /\ ClaimAhead(e) => /\ exec[e].pc \notin {"interrupt", "recoverFail", "recoverRelease"}
                             /\ exec[e].pc = "recover" => NothingBegun

\* A step of the executor at work.
LEMMA CallerStep ==
  ASSUME RowInv, CallInv, NEW e \in Executors, Live(e), job' = job,
         \A b \in Actors \ {e} : exec'[b] = exec[b],
         exec'[e].pc \notin {"idle", "recover"},
         ClaimAhead(e) => /\ exec'[e].pc \notin {"interrupt", "recoverFail", "recoverRelease"}
                          /\ NoneInterrupted => NoneInterrupted',
         ProviderNotReplayed', ClearedTo(e)'
  PROVE  CallInv'
<1>1. job.status = "leased"
  BY DEF RowInv, OneAtWork
<1>2. \A f \in Executors \ {e} : exec[f].pc \in {"idle", "gone"} /\ exec'[f] = exec[f]
  BY DEF RowInv, OneAtWork, Live, Actors
<1>3. \A f \in Executors \ {e} : ClearedTo(f)'
  BY <1>2 DEF ClearedTo, Going
<1>4. ClaimAhead(e)' <=> ClaimAhead(e)
  BY <1>2 DEF ClaimAhead
<1>5. \A f \in Executors : exec'[f].pc = "idle" => NoneInterrupted'
  <2> SUFFICES ASSUME NEW f \in Executors, exec'[f].pc = "idle" PROVE NoneInterrupted'
    OBVIOUS
  <2>1. f /= e /\ exec[f].pc = "idle"
    BY <1>2
  <2>2. ClaimAhead(e) /\ NoneInterrupted
    BY <1>1, <2>1 DEF ClaimAhead, CallInv
  <2>3. QED
    BY <2>2
<1>6. QED
  BY <1>2, <1>3, <1>4, <1>5 DEF CallInv

\* Once the job has ended nobody calls the provider any more.
LEMMA JobOver ==
  ASSUME CallInv, job'.status \in {"done", "failed"},
         \A e \in Executors : exec'[e].pc \in {"idle", "gone"},
         (\A e \in Executors : exec'[e].pc = "idle") => NothingBegun',
         ProviderNotReplayed'
  PROVE  CallInv'
<1>1. \A e \in Executors : ClearedTo(e)'
  BY DEF ClearedTo, Going
<1>2. QED
  BY <1>1 DEF CallInv

\* Steps that record no call, and after which no attempt is in hand.
LEMMA CallsUntouched ==
  ASSUME RowInv, CallInv, NEW e \in Executors, Live(e), UNCHANGED <<job, call>>,
         \A b \in Actors \ {e} : exec'[b] = exec[b],
         exec'[e].pc \in {"return", "raise", "dangling", "gone", "fail2", "fail3", "verify", "complete",
                          "stop2", "stop3"}
  PROVE  CallInv'
<1>1. ProviderNotReplayed' /\ (NoneInterrupted => NoneInterrupted')
  BY DEF CallInv, ProviderNotReplayed, NoneInterrupted
<1>2. ClearedTo(e)'
  BY DEF ClearedTo, Going
<1>3. QED
  BY <1>1, <1>2, CallerStep

\* Steps inside attempt n: whatever becomes of its call, the others stay failed.
LEMMA SameAttempt ==
  ASSUME BackingInv, RowInv, CallInv, NEW e \in Executors, exec[e].pc \in Going, job' = job,
         \A b \in Actors \ {e} : exec'[b] = exec[b],
         exec'[e].pc \in Going \cup {"return"}, exec'[e].n = exec[e].n,
         call' \in [Attempts -> {"none", "running", "success", "error", "interrupted"}],
         \A m \in Attempts \ {exec[e].n} : call'[m] = call[m] /\ attempt'[m] = attempt[m],
         \A m \in Attempts : call'[m] = "interrupted" => call[m] = "interrupted",
         exec'[e].pc = "retry" \/ (exec'[e].pc = "release" /\ exec'[e].next = "retry") => call'[exec[e].n] = "error"
  PROVE  CallInv'
<1> DEFINE n == exec[e].n
<1>1. Live(e) /\ n \in Nat
  BY WorkersRows DEF Live, Going, Exec
<1>2. /\ \A m \in Attempts \ {n} : call[m] \in NeverServed
      /\ \A m \in Attempts : m > n => attempt[m] = "none"
  BY DEF CallInv, ClearedTo
<1>3. \A m \in Attempts : m > n => call[m] = "none"
  BY <1>2 DEF BackingInv, UnbegunIsBlank
<1>4. \A m \in Attempts \ {n} : call'[m] \in NeverServed /\ (m > n => call'[m] = "none" /\ attempt'[m] = "none")
  BY <1>2, <1>3
<1>5. ProviderNotReplayed'
  <2> SUFFICES ASSUME NEW m \in Attempts, NEW k \in Attempts, m < k, call'[k] /= "none"
               PROVE  call'[m] \in {"none", "error"}
    BY DEF ProviderNotReplayed
  <2>1. ~(k > n)
    BY <1>1, <1>4 DEF Attempts
  <2>2. m /= n
    BY <1>1, <2>1 DEF Attempts
  <2>3. QED
    BY <1>4, <2>2 DEF NeverServed
<1>6. ClearedTo(e)'
  <2>1. \A m \in Attempts : m > n => m /= n
    BY <1>1 DEF Attempts
  <2>2. exec'[e].pc \notin {"recoverFail", "recoverRelease", "insert"}
    BY DEF Going
  <2>3. QED
    BY <1>4, <2>1, <2>2 DEF ClearedTo
<1>7. NoneInterrupted => NoneInterrupted'
  BY DEF NoneInterrupted
<1>8. exec'[e].pc \notin {"idle", "recover", "interrupt", "recoverFail", "recoverRelease"}
  BY DEF Going
<1>9. QED
  BY <1>1, <1>5, <1>6, <1>7, <1>8, CallerStep

\* The steps inside an attempt, with the memory of why a reservation is released.
LEMMA QuietRetries ==
  ASSUME TypeOK, NEW e \in Executors, ClearedTo(e), exec[e].n \in Attempts, Quiet(e)
  PROVE  exec'[e].pc = "retry" \/ (exec'[e].pc = "release" /\ exec'[e].next = "retry") =>
            call'[exec[e].n] = "error"
<1>1. exec \in [Actors -> Exec] /\ e \in Actors /\ exec[e] \in Exec /\ run \in {"created", "running"} \cup RunEnded
  BY DEF TypeOK, Actors
<1>2. ASSUME NEW pc, Goto(e, pc) PROVE exec'[e].pc = pc /\ exec'[e].next = exec[e].next
  <2>1. exec'[e] = [exec[e] EXCEPT !.pc = pc]
    BY <1>1, <1>2 DEF Goto
  <2>2. QED
    BY <1>1, <2>1 DEF Exec
<1>3. ASSUME NEW pc, GotoSeen(e, pc) PROVE exec'[e].pc = pc
  <2>1. exec'[e] = [exec[e] EXCEPT !.pc = pc, !.seen = run]
    BY <1>1, <1>3 DEF GotoSeen
  <2>2. QED
    BY <1>1, <2>1 DEF Exec
<1>4. ASSUME NEW pc, NEW next, exec' = [exec EXCEPT ![e].pc = pc, ![e].next = next, ![e].seen = run]
      PROVE  exec'[e].pc = pc /\ exec'[e].next = next
  <2>1. exec'[e] = [exec[e] EXCEPT !.pc = pc, !.next = next, !.seen = run]
    BY <1>1, <1>4
  <2>2. QED
    BY <1>1, <2>1 DEF Exec
<1>5. ASSUME NEW held \in BOOLEAN, Cancelled(e, held) PROVE exec'[e].pc \in {"release", "stop1"} /\ exec'[e].next = "stop1"
  <2> DEFINE pc == IF held THEN "release" ELSE "stop1"
  <2>1. exec' = [exec EXCEPT ![e].pc = pc, ![e].next = "stop1", ![e].seen = run]
    BY <1>5 DEF Cancelled
  <2>2. pc \in {"release", "stop1"}
    OBVIOUS
  <2> HIDE DEF pc
  <2>3. exec'[e] = [exec[e] EXCEPT !.pc = pc, !.next = "stop1", !.seen = run]
    BY <1>1, <2>1
  <2>4. QED
    BY <1>1, <2>2, <2>3 DEF Exec
<1>6. CASE Route(e) \/ Reserve(e) \/ Context(e) \/ Preflight(e)
  <2> DEFINE Leaves(next) == exec' = [exec EXCEPT ![e].pc = "release", ![e].next = next, ![e].seen = run]
  <2>1. \A next : Leaves(next) => exec'[e].pc = "release" /\ exec'[e].next = next
    BY <1>4
  <2>2. CASE Route(e) \/ Reserve(e)
    BY <1>3, <1>5, <2>2 DEF Route, Reserve
  <2>3. ASSUME Context(e) PROVE (\E held \in BOOLEAN : Cancelled(e, held)) \/ GotoSeen(e, "preflight") \/ Leaves("fail1")
    BY <2>3 DEF Context
  <2>4. ASSUME Preflight(e) PROVE (\E held \in BOOLEAN : Cancelled(e, held)) \/ GotoSeen(e, "startCall") \/ Leaves("return")
    BY <2>4 DEF Preflight
  <2> HIDE DEF Leaves
  <2>5. QED
    BY <1>3, <1>5, <1>6, <2>1, <2>2, <2>3, <2>4
<1>7. CASE StartCall(e) \/ Answered(e) \/ Settle(e) \/ RecordUsage(e) \/ CreateArtifact(e)
  BY <1>2, <1>7 DEF StartCall, Answered, RecordCall, Settle, RecordUsage, CreateArtifact, Record
<1>8. CASE Invoke(e)
  <2>1. ASSUME NEW next, exec' = [exec EXCEPT ![e].pc = "callError", ![e].next = next]
        PROVE  exec'[e].pc = "callError"
    <3>1. exec'[e] = [exec[e] EXCEPT !.pc = "callError", !.next = next]
      BY <1>1, <2>1
    <3>2. QED
      BY <1>1, <3>1 DEF Exec
  <2>2. QED
    BY <1>2, <1>8, <2>1 DEF Invoke
<1>9. CASE CallError(e)
  <2>1. exec'[e].pc \in {"release", "return"} /\ (exec'[e].pc = "release" => call' = [call EXCEPT ![exec[e].n] = "error"])
    BY <1>2, <1>9 DEF CallError, RecordCall
  <2>2. QED
    BY <2>1 DEF TypeOK
<1>10. CASE ReleaseReservation(e)
  <2>1. exec'[e].pc = exec[e].next /\ exec'[e].next = exec[e].next /\ exec[e].pc = "release" /\ call' = call
    BY <1>2, <1>10 DEF ReleaseReservation, At
  <2>2. exec[e].next \in {"retry", "fail1", "stop1", "return"}
    BY <1>1 DEF Exec
  <2>3. QED
    BY <2>1, <2>2 DEF ClearedTo
<1>11. QED
  BY <1>6, <1>7, <1>8, <1>9, <1>10 DEF Quiet

\* A quiet step changes no call but that of its own attempt.
LEMMA QuietKeepsCalls ==
  ASSUME BackingInv, BackingInv', RowInv, CallInv, NEW e \in Executors, Quiet(e)
  PROVE  CallInv'
<1>1. TypeOK /\ call' \in [Attempts -> {"none", "running", "success", "error", "interrupted"}]
  BY DEF BackingInv, TypeOK
<1>2. PICK pc \in Going \cup {"return"} : Moves(e, pc)
  BY <1>1, QuietMoves
<1>3. exec[e].pc \in Going
  BY <1>1, QuietMoves
<1>4. exec[e].n \in Attempts
  BY <1>3 DEF BackingInv, NumbersAreAttempts, Works, Going, AttemptSteps
<1>5. UNCHANGED <<job, attempt>>
  BY DEF Quiet, Route, Reserve, Context, Preflight, StartCall, Invoke, Answered, CallError, Settle,
         RecordUsage, CreateArtifact, Record, ReleaseReservation, rows, others
<1>6. call' = call \/ \E status \in {"running", "success", "error"} : call' = [call EXCEPT ![exec[e].n] = status]
  BY DEF Quiet, Route, Reserve, Context, Preflight, StartCall, Invoke, Answered, CallError, RecordCall, Settle,
         RecordUsage, CreateArtifact, Record, ReleaseReservation, rows
<1>7. /\ \A m \in Attempts \ {exec[e].n} : call'[m] = call[m]
      /\ \A m \in Attempts : call'[m] = "interrupted" => call[m] = "interrupted"
  BY <1>1, <1>4, <1>6 DEF TypeOK
<1>8. ClearedTo(e)
  BY DEF CallInv
<1>9. exec'[e].pc = "retry" \/ (exec'[e].pc = "release" /\ exec'[e].next = "retry") => call'[exec[e].n] = "error"
  BY <1>1, <1>4, <1>8, QuietRetries
<1>10. QED
  BY <1>1, <1>2, <1>3, <1>5, <1>7, <1>9, SameAttempt DEF Moves

\* The other steps inside an attempt call no provider.
LEMMA AttemptKeepsCalls ==
  ASSUME BackingInv, BackingInv', RowInv, CallInv, NEW e \in Executors, SetRunning(e) \/ FinishAttempt(e) \/ FinishRun(e)
  PROVE  CallInv'
<1>1. exec[e].pc \in Going /\ UNCHANGED <<job, call>>
  BY DEF SetRunning, FinishAttempt, FinishRun, At, Going, others
<1>2. Live(e)
  BY <1>1 DEF Live, Going
<1>3. PICK pc \in {"route", "finishRun", "return", "stop1", "verify"} : Moves(e, pc)
  <2>1. CASE SetRunning(e)
    <3> DEFINE x == [exec[e] EXCEPT !.pc = "route", !.seen = "running"]
    <3>1. exec' = [exec EXCEPT ![e] = x]
      BY <2>1 DEF SetRunning
    <3>2. x \in Exec /\ x.n = exec[e].n /\ x.pc = "route"
      BY WorkersRows, ZenonT(60) DEF Exec, AttemptSteps
    <3>3. exec \in [Actors -> Exec] /\ e \in Actors
      BY WorkersRows
    <3> HIDE DEF x
    <3>4. QED
      BY <3>1, <3>2, <3>3, UpdateMoves
  <2>2. CASE FinishAttempt(e) \/ FinishRun(e)
    BY <2>2, WorkersRows, GotoMoves DEF FinishAttempt, FinishRun, ClaimRunTerminal, Pcs, AttemptSteps, EndSteps
  <2>3. QED
    BY <2>1, <2>2
<1>4. CASE pc = "verify"
  BY <1>1, <1>2, <1>3, <1>4, CallsUntouched DEF Moves
<1>5. CASE pc /= "verify"
  <2>1. exec'[e].pc \in {"route", "finishRun", "return", "stop1"} /\ exec'[e].n = exec[e].n
    BY <1>3, <1>5 DEF Moves
  <2>2. \A m \in Attempts \ {exec[e].n} : attempt'[m] = attempt[m]
    BY WorkersRows DEF SetRunning, FinishAttempt, FinishRun
  <2>3. call' \in [Attempts -> {"none", "running", "success", "error", "interrupted"}]
    BY DEF BackingInv, TypeOK
  <2>4. \A b \in Actors \ {e} : exec'[b] = exec[b]
    BY <1>3 DEF Moves
  <2>5. exec'[e].pc \in Going \cup {"return"} /\ exec'[e].pc \notin {"retry", "release"}
    BY <2>1 DEF Going
  <2>6. QED
    BY <1>1, <2>1, <2>2, <2>3, <2>4, <2>5, SameAttempt
<1>6. QED
  BY <1>4, <1>5

\* The next attempt is beyond all that were begun.
LEMMA NextAttemptIsNew ==
  ASSUME NEW m \in Attempts, m >= NextAttempt
  PROVE  attempt[m] = "none"
<1> SUFFICES ASSUME attempt[m] /= "none" PROVE FALSE
  OBVIOUS
<1>1. m \in Begun /\ Begun \in SUBSET Attempts
  BY DEF Begun
<1>2. Max(Begun) \in Attempts /\ Max(Begun) >= m
  BY <1>1, MaxOfAttempts
<1>3. NextAttempt = Max(Begun) + 1
  BY <1>1 DEF NextAttempt
<1>4. QED
  BY <1>2, <1>3 DEF Attempts

\* The first claim finds nothing and starts with attempt 1; a later one finds
\* no interrupted call, and goes on only past recorded failures.
LEMMA RecoverKeepsCalls ==
  ASSUME BackingInv, RowInv, CallInv, NEW e \in Executors, Recover(e)
  PROVE  CallInv'
<1> DEFINE read == [exec[e] EXCEPT !.seen = run, !.n = NextAttempt]
<1>1. exec \in [Actors -> Exec] /\ e \in Actors /\ exec[e] \in Exec
  BY WorkersRows
<1>2. Live(e) /\ exec[e].pc = "recover" /\ UNCHANGED <<job, attempt, call>>
  BY DEF Recover, Live, At, rows, others
<1>3. read \in Exec /\ read.n > 0 /\ read.n = NextAttempt
  <2>1. NextAttempt \in 0 .. MaxAttempts + 1 /\ NextAttempt > 0
    BY NextAttemptRange
  <2>2. QED
    BY <1>1, <2>1, ReadFields, WorkersRows DEF Exec
<1>4. NoneInterrupted
  BY <1>2 DEF CallInv
<1>5. ClaimAhead(e) => ~CrossedBoundary /\ Open = {} /\ ~(NextAttempt > MaxAttempts)
  <2> SUFFICES ASSUME ClaimAhead(e) PROVE ~CrossedBoundary /\ Open = {} /\ ~(NextAttempt > MaxAttempts)
    OBVIOUS
  <2>1. \A m \in Attempts : attempt[m] = "none" /\ call[m] = "none"
    BY <1>2 DEF CallInv, NothingBegun, BackingInv, UnbegunIsBlank
  <2>2. NextAttempt = 1
    BY <2>1 DEF NextAttempt, Begun
  <2>3. QED
    BY <2>1, <2>2 DEF CrossedBoundary, Open
<1>6. ~CrossedBoundary => \A m \in Attempts : call[m] \in NeverServed
  BY <1>4 DEF CrossedBoundary, NoneInterrupted, NeverServed, BackingInv, TypeOK
<1>7. \A m \in Attempts : m >= NextAttempt => attempt[m] = "none"
  BY NextAttemptIsNew
<1>8. ProviderNotReplayed' /\ (NoneInterrupted => NoneInterrupted')
  BY <1>2 DEF CallInv, ProviderNotReplayed, NoneInterrupted
<1>9. ASSUME NEW x, exec' = [exec EXCEPT ![e] = x]
      PROVE  exec'[e] = x /\ \A b \in Actors \ {e} : exec'[b] = exec[b]
  BY <1>1, <1>9
<1>10. CASE run \in RunEnded
  <2> DEFINE x == [read EXCEPT !.pc = "return"]
  <2>1. exec' = [exec EXCEPT ![e] = x]
    BY <1>10 DEF Recover
  <2>2. x.pc = "return"
    BY <1>3 DEF Exec
  <2> HIDE DEF x
  <2>3. QED
    BY <1>2, <1>9, <2>1, <2>2, CallsUntouched
<1>11. CASE run \notin RunEnded /\ CrossedBoundary
  <2> DEFINE x == [read EXCEPT !.pc = "interrupt"]
  <2>1. exec' = [exec EXCEPT ![e] = x]
    BY <1>11 DEF Recover
  <2>2. x.pc = "interrupt"
    BY <1>3 DEF Exec
  <2> HIDE DEF x
  <2>3. ClearedTo(e)'
    BY <1>9, <2>1, <2>2 DEF ClearedTo, Going
  <2>4. QED
    BY <1>2, <1>5, <1>8, <1>9, <1>11, <2>1, <2>2, <2>3, CallerStep
<1>12. CASE run \notin RunEnded /\ ~CrossedBoundary /\ Open /= {}
  <2> DEFINE x == [read EXCEPT !.pc = "recoverFail", !.found = Open]
  <2>1. exec' = [exec EXCEPT ![e] = x]
    BY <1>12 DEF Recover, Open
  <2>2. x.pc = "recoverFail" /\ x.n = NextAttempt
    BY <1>3 DEF Exec
  <2> HIDE DEF x
  <2>3. ClearedTo(e)'
    BY <1>2, <1>6, <1>7, <1>9, <1>12, <2>1, <2>2 DEF ClearedTo, Going
  <2>4. QED
    BY <1>2, <1>5, <1>8, <1>9, <1>12, <2>1, <2>2, <2>3, CallerStep
<1>13. CASE run \notin RunEnded /\ ~CrossedBoundary /\ Open = {}
  <2> DEFINE x == Resume(read)
  <2>1. exec' = [exec EXCEPT ![e] = x]
    BY <1>13 DEF Recover, Open
  <2>2. x.pc \in {"interrupt", "insert"} /\ x.n = NextAttempt
    BY <1>3, ResumeRange
  <2>3. x.pc = "interrupt" => NextAttempt > MaxAttempts
    BY <1>3 DEF Resume, Exec
  <2> HIDE DEF x
  <2>4. ClearedTo(e)'
    BY <1>2, <1>6, <1>7, <1>9, <1>13, <2>1, <2>2 DEF ClearedTo, Going
  <2>5. QED
    BY <1>2, <1>5, <1>8, <1>9, <2>1, <2>2, <2>3, <2>4, CallerStep
<1>14. QED
  BY <1>10, <1>11, <1>12, <1>13

\* Only the last claim closes attempts of an earlier one.
LEMMA RecoverFailKeepsCalls ==
  ASSUME BackingInv, RowInv, CallInv, NEW e \in Executors, RecoverFail(e)
  PROVE  CallInv'
<1>1. exec[e].pc = "recoverFail" /\ Live(e) /\ UNCHANGED <<job, call>>
  BY DEF RecoverFail, Live, At, others
<1>2. Moves(e, "recoverRelease")
  BY WorkersRows, GotoMoves DEF RecoverFail, Pcs, OutsideSteps
<1>3. ~ClaimAhead(e)
  BY <1>1 DEF CallInv
<1>4. \A m \in Attempts : attempt[m] = "none" => attempt'[m] = "none"
  BY DEF RecoverFail
<1>5. ClearedTo(e)'
  BY <1>1, <1>2, <1>4 DEF CallInv, ClearedTo, Moves, Going
<1>6. ProviderNotReplayed'
  BY <1>1 DEF CallInv, ProviderNotReplayed
<1>7. QED
  BY <1>1, <1>2, <1>3, <1>5, <1>6, CallerStep DEF Moves

\* Recovery goes on to a new attempt past the failures it has found.
LEMMA RecoverReleaseKeepsCalls ==
  ASSUME BackingInv, RowInv, CallInv, NEW e \in Executors, RecoverRelease(e)
  PROVE  CallInv'
<1> DEFINE x == Resume(exec[e])
<1>1. exec[e].pc = "recoverRelease" /\ Live(e) /\ UNCHANGED <<job, call, attempt>>
  BY DEF RecoverRelease, Live, At, others
<1>2. exec[e].n > 0
  BY <1>1 DEF BackingInv, NumbersAreAttempts, Past
<1>3. exec' = [exec EXCEPT ![e] = x]
  BY DEF RecoverRelease
<1>4. x.pc \in {"interrupt", "insert"} /\ x.n = exec[e].n
  BY <1>2, WorkersRows, ResumeRange
<1> HIDE DEF x
<1>5. exec'[e] = x /\ \A b \in Actors \ {e} : exec'[b] = exec[b]
  BY <1>3, WorkersRows
<1>6. ~ClaimAhead(e)
  BY <1>1 DEF CallInv
<1>7. ClearedTo(e)'
  BY <1>1, <1>4, <1>5 DEF CallInv, ClearedTo, Going
<1>8. ProviderNotReplayed'
  BY <1>1 DEF CallInv, ProviderNotReplayed
<1>9. QED
  BY <1>1, <1>4, <1>5, <1>6, <1>7, <1>8, CallerStep

\* The new attempt follows recorded failures only.
LEMMA InsertKeepsCalls ==
  ASSUME BackingInv, RowInv, CallInv, NEW e \in Executors, InsertAttempt(e)
  PROVE  CallInv'
<1>1. exec[e].pc = "insert" /\ Live(e) /\ UNCHANGED <<job, call>> /\ exec[e].n \in Nat
  BY WorkersRows DEF InsertAttempt, Live, At, others, Exec
<1>2. PICK pc \in {"setRunning", "return"} : Moves(e, pc)
  BY WorkersRows, GotoMoves DEF InsertAttempt, Pcs, AttemptSteps, EndSteps
<1>3. \A m \in Attempts \ {exec[e].n} : attempt'[m] = attempt[m]
  BY WorkersRows DEF InsertAttempt
<1>4. /\ \A m \in Attempts : call[m] \in NeverServed
      /\ \A m \in Attempts : m >= exec[e].n => attempt[m] = "none"
  BY <1>1 DEF CallInv, ClearedTo
<1>5. \A m \in Attempts : m > exec[e].n => attempt'[m] = "none"
  BY <1>1, <1>3, <1>4 DEF Attempts
<1>6. exec'[e].pc \in {"setRunning", "return"} /\ exec'[e].n = exec[e].n
  BY <1>2 DEF Moves
<1>7. ClearedTo(e)'
  BY <1>1, <1>4, <1>5, <1>6 DEF ClearedTo
<1>8. ProviderNotReplayed' /\ (NoneInterrupted => NoneInterrupted')
  BY <1>1 DEF CallInv, ProviderNotReplayed, NoneInterrupted
<1>9. QED
  BY <1>1, <1>2, <1>6, <1>7, <1>8, CallerStep DEF Moves

\* The next attempt follows a recorded failure of this one.
LEMMA RetryKeepsCalls ==
  ASSUME BackingInv, RowInv, CallInv, NEW e \in Executors, Retry(e)
  PROVE  CallInv'
<1> DEFINE n == exec[e].n
<1>1. exec[e].pc = "retry" /\ Live(e) /\ UNCHANGED <<job, call>> /\ n \in Nat
  BY WorkersRows DEF Retry, Live, At, others, Exec
<1>2. e \in Actors /\ exec \in [Actors -> Exec] /\ exec[e] \in Exec
  BY WorkersRows
<1>3. PICK x \in {[exec[e] EXCEPT !.pc = "return"], [exec[e] EXCEPT !.pc = "fail2", !.guarded = FALSE],
                  [exec[e] EXCEPT !.pc = "insert", !.n = n + 1]} :
         exec' = [exec EXCEPT ![e] = x]
  BY DEF Retry, Goto
<1>4. x.pc \in {"return", "fail2", "insert"} /\ (x.pc = "insert" => x.n = n + 1)
  BY <1>2, <1>3 DEF Exec
<1>5. exec'[e] = x /\ \A b \in Actors \ {e} : exec'[b] = exec[b]
  BY <1>2, <1>3
<1>6. CASE x.pc \in {"return", "fail2"}
  BY <1>1, <1>5, <1>6, CallsUntouched
<1>7. CASE x.pc = "insert"
  <2>1. \A m \in Attempts : call[m] \in NeverServed
    BY <1>1 DEF CallInv, ClearedTo, Going, NeverServed
  <2>2. \A m \in Attempts : m > n => attempt[m] = "none"
    BY <1>1 DEF CallInv, ClearedTo, Going
  <2>3. \A m \in Attempts : m >= n + 1 => attempt'[m] = "none"
    <3>1. \A m \in Attempts \ {n} : attempt'[m] = attempt[m]
      BY WorkersRows DEF Retry
    <3>2. QED
      BY <1>1, <2>2, <3>1 DEF Attempts
  <2>4. ClearedTo(e)'
    BY <1>1, <1>4, <1>5, <1>7, <2>1, <2>3 DEF ClearedTo, Going
  <2>5. ProviderNotReplayed' /\ (NoneInterrupted => NoneInterrupted')
    BY <1>1 DEF CallInv, ProviderNotReplayed, NoneInterrupted
  <2>6. QED
    BY <1>1, <1>5, <1>7, <2>4, <2>5, CallerStep
<1>8. QED
  BY <1>4, <1>6, <1>7

\* The ends of run, attempt and Task Run, errors and crashes record no call.
LEMMA EndKeepsCalls ==
  ASSUME RowInv, CallInv, NEW e \in Executors,
         \/ Verify(e) \/ Complete(e) \/ FailAttempt(e) \/ StopRun(e) \/ StopAttempt(e) \/ StopTask(e)
         \/ FailDangling(e) \/ FailRun(e) \/ FailTask(e) \/ UnexpectedError(e) \/ Crash(e)
  PROVE  CallInv'
<1>1. Live(e) /\ UNCHANGED <<job, call>>
  BY DEF Verify, Complete, FailAttempt, StopRun, StopAttempt, StopTask, FailDangling, FailRun, FailTask,
         SetTask, UnexpectedError, Crash, Live, At, AttemptSteps, FinalizeSteps, OutsideSteps, rows, others
<1>2. e \in Actors /\ exec \in [Actors -> Exec] /\ exec[e] \in Exec
  BY WorkersRows
<1>3. CASE UnexpectedError(e)
  <2> DEFINE pc == IF exec[e].pc = "dangling" \/ ~exec[e].guarded THEN "raise" ELSE "dangling"
             x == [exec[e] EXCEPT !.pc = pc, !.guarded = FALSE]
  <2>1. exec' = [exec EXCEPT ![e] = x]
    BY <1>3 DEF UnexpectedError
  <2>2. x.pc \in {"raise", "dangling"}
    BY <1>2 DEF Exec
  <2> HIDE DEF x
  <2>3. exec'[e] = x /\ \A b \in Actors \ {e} : exec'[b] = exec[b]
    BY <1>2, <2>1
  <2>4. QED
    BY <1>1, <2>2, <2>3, CallsUntouched
<1>4. CASE Crash(e)
  <2> DEFINE x == [IdleExec EXCEPT !.pc = "gone"]
  <2>1. exec' = [exec EXCEPT ![e] = x]
    BY <1>4 DEF Crash
  <2>2. x.pc = "gone"
    BY ForgottenExec
  <2> HIDE DEF x
  <2>3. exec'[e] = x /\ \A b \in Actors \ {e} : exec'[b] = exec[b]
    BY <1>2, <2>1
  <2>4. QED
    BY <1>1, <2>2, <2>3, CallsUntouched
<1>5. CASE ~UnexpectedError(e) /\ ~Crash(e)
  <2>1. PICK pc \in {"complete", "return", "fail2", "fail3", "stop2", "stop3"} : Goto(e, pc)
    BY <1>5 DEF Verify, Complete, FailAttempt, StopRun, StopAttempt, StopTask, FailDangling, FailRun, FailTask,
                SetTask, ClaimRunTerminal
  <2>2. pc \in Pcs
    BY DEF Pcs, AttemptSteps, FinalizeSteps, EndSteps
  <2>3. Moves(e, pc)
    BY <1>2, <2>1, <2>2, GotoMoves
  <2>4. QED
    BY <1>1, <2>3, CallsUntouched DEF Moves
<1>6. QED
  BY <1>3, <1>4, <1>5

\* Interrupting turns open calls into interrupted ones, and nobody follows.
LEMMA InterruptKeepsCalls ==
  ASSUME RowInv, CallInv, NEW a \in Actors, Interrupt(a)
  PROVE  CallInv'
<1>1. exec[a].pc = "interrupt" /\ Live(a) /\ UNCHANGED job
  BY DEF Interrupt, Live, At, others
<1>2. \A m \in Attempts : /\ call'[m] /= "none" => call[m] /= "none"
                          /\ call[m] \in NeverServed => call'[m] = call[m]
                          /\ attempt[m] = "none" => attempt'[m] = "none"
  BY DEF Interrupt, RowInv, TypeOK, NeverServed
<1>3. ProviderNotReplayed'
  BY <1>2 DEF CallInv, ProviderNotReplayed, NeverServed
<1>4. PICK pc \in {"return", "fail2"} : Moves(a, pc)
  BY SharedFacts, GotoMoves DEF Interrupt, Pcs, EndSteps, FinalizeSteps
<1>5. CASE a \in Executors
  <2>1. ~ClaimAhead(a)
    BY <1>1, <1>5 DEF CallInv
  <2>2. ClearedTo(a)'
    BY <1>4 DEF Moves, ClearedTo, Going
  <2>3. QED
    BY <1>1, <1>3, <1>4, <1>5, <2>1, <2>2, CallerStep DEF Moves
<1>6. CASE a \in Sweepers
  <2>1. job.status \in {"done", "failed"}
    BY <1>1, <1>6 DEF RowInv, OneAtWork
  <2>2. \A e \in Executors : exec[e].pc \in {"idle", "gone"} /\ exec'[e] = exec[e]
    BY <1>4, <1>6, <2>1 DEF RowInv, OneAtWork, Live, Moves, Actors
  <2>3. (\A e \in Executors : exec'[e].pc = "idle") => NothingBegun'
    BY <1>2, <2>2 DEF CallInv, NothingBegun
  <2>4. QED
    BY <1>1, <1>3, <2>1, <2>2, <2>3, JobOver
<1>7. QED
  BY <1>5, <1>6 DEF Actors

\* A sweep that records no call leaves the executors' calls as they are.
LEMMA SweeperKeepsCalls ==
  ASSUME RowInv, CallInv, NEW s \in Sweepers,
         Sweep(s) \/ FailRun(s) \/ FailTask(s) \/ Finish(s) \/ UnexpectedError(s) \/ Crash(s)
  PROVE  CallInv'
<1>1. UNCHANGED <<call, attempt>>
  BY DEF Sweep, FailRun, FailTask, SetTask, Finish, UnexpectedError, Crash, rows
<1>2. job.status \in {"done", "failed"} /\ job.holder /= s
  <2>1. Live(s) \/ Sweep(s)
    BY DEF FailRun, FailTask, SetTask, Finish, UnexpectedError, Crash, Live, At,
           AttemptSteps, FinalizeSteps, OutsideSteps
  <2>2. job.status \in {"done", "failed"}
    BY <2>1 DEF Sweep, RowInv, OneAtWork
  <2>3. QED
    BY <2>2 DEF RowInv, OneAtWork
<1>3. job' = job
  BY <1>2 DEF Sweep, FailRun, FailTask, SetTask, Finish, UnexpectedError, Crash, others
<1>4. \A e \in Executors : exec'[e] = exec[e]
  <2>1. \E x : exec' = [exec EXCEPT ![s] = x]
    BY DEF Sweep, FailRun, FailTask, ClaimRunTerminal, SetTask, Goto, Finish, UnexpectedError, Crash
  <2>2. \A e \in Executors : e \in Actors /\ e /= s
    BY DEF Actors
  <2>3. QED
    BY <2>1, <2>2 DEF RowInv, TypeOK
<1>5. \A e \in Executors : exec[e].pc \in {"idle", "gone"}
  BY <1>2 DEF RowInv, OneAtWork, Live
<1>6. ProviderNotReplayed' /\ ((\A e \in Executors : exec'[e].pc = "idle") => NothingBegun')
  BY <1>1, <1>4 DEF CallInv, ProviderNotReplayed, NothingBegun
<1>7. QED
  BY <1>2, <1>3, <1>4, <1>5, <1>6, JobOver

\* The executor that ends the job was the only one at work.
LEMMA FinishKeepsCalls ==
  ASSUME RowInv, RowInv', CallInv, NEW e \in Executors, Finish(e)
  PROVE  CallInv'
<1>1. exec[e].pc \in {"return", "raise"} /\ Live(e) /\ UNCHANGED <<attempt, call>>
  BY DEF Finish, Live, rows
<1>2. job.status = "leased" /\ job.holder = e
  BY <1>1 DEF RowInv, OneAtWork
<1>3. job'.status \in {"done", "failed"}
  <2>1. job \in [status : {"absent", "pending", "leased", "done", "failed"}, holder : Executors \cup {NoOne}]
    BY DEF RowInv, TypeOK
  <2>2. job' \in {[job EXCEPT !.status = "done"], [job EXCEPT !.status = "failed"]}
    BY <1>2 DEF Finish
  <2>3. QED
    BY <2>1, <2>2
<1>4. exec' = [exec EXCEPT ![e] = [IdleExec EXCEPT !.pc = "gone"]]
  BY DEF Finish
<1>5. exec'[e].pc = "gone" /\ \A b \in Actors \ {e} : exec'[b] = exec[b]
  BY <1>4, WorkersRows, ForgottenExec
<1>6. \A f \in Executors : exec'[f].pc \in {"idle", "gone"}
  BY <1>2, <1>5 DEF RowInv, OneAtWork, Live, Actors
<1>7. ProviderNotReplayed'
  BY <1>1 DEF CallInv, ProviderNotReplayed
<1>8. QED
  BY <1>3, <1>5, <1>6, <1>7, JobOver

\* No call is interrupted as long as a claim may still come; the second claim
\* comes to a first one's rows, the first to none.
LEMMA ClaimKeepsCalls ==
  ASSUME FailStop, AtMostTwoClaims, RowInv, CallInv, NEW e \in Executors, Claim(e)
  PROVE  CallInv'
<1>1. /\ exec[e].pc = "idle" /\ job.status \in {"pending", "leased"} /\ job'.status = "leased"
      /\ Goto(e, "recover") /\ UNCHANGED <<attempt, call>>
  BY DEF Claim, At, LeaseRanOut, rows
<1>2. "recover" \in Pcs
  BY DEF Pcs, OutsideSteps
<1>3. Moves(e, "recover")
  BY <1>1, <1>2, WorkersRows, GotoMoves
<1>4. \A f \in Executors \ {e} : exec[f].pc \in {"idle", "gone"} /\ exec'[f] = exec[f]
  <2>1. job.status = "pending" \/ (job.status = "leased" /\ ~Live(job.holder))
    BY DEF Claim, LeaseRanOut
  <2>2. QED
    BY <1>3, <2>1 DEF RowInv, OneAtWork, Live, Moves, Actors
<1>5. NoneInterrupted'
  BY <1>1 DEF CallInv, NoneInterrupted
<1>6. ClaimAhead(e)' => NothingBegun'
  <2> SUFFICES ASSUME NEW f \in Executors \ {e}, exec'[f].pc = "idle" PROVE NothingBegun'
    BY DEF ClaimAhead
  <2>1. \A g \in Executors : g = e \/ g = f
    BY DEF AtMostTwoClaims
  <2>2. \A g \in Executors : exec[g].pc = "idle"
    BY <1>1, <1>4, <2>1
  <2>3. QED
    BY <1>1, <2>2 DEF CallInv, NothingBegun
<1>7. exec'[e].pc = "recover"
  BY <1>3 DEF Moves
<1>8. \A f \in Executors : ClearedTo(f)'
  BY <1>4, <1>7 DEF ClearedTo, Going
<1>9. ProviderNotReplayed'
  BY <1>1 DEF CallInv, ProviderNotReplayed
<1>10. \A f \in Executors \ {e} : exec'[f].pc \in {"idle", "gone"}
  BY <1>4
<1>11. QED
  BY <1>5, <1>6, <1>7, <1>8, <1>9, <1>10 DEF CallInv

\* Requests and the enqueueing of the job change no call.
LEMMA RequestKeepsCalls ==
  ASSUME RowInv, CallInv, Enqueue \/ CancelCheck \/ CancelWrite \/ CancelAgentRun \/ UNCHANGED vars
  PROVE  CallInv'
<1>1. UNCHANGED <<attempt, call, exec>>
  BY DEF Enqueue, CancelCheck, CancelWrite, CancelAgentRun, vars, rows
<1>2. job'.status \in {"done", "failed"} <=> job.status \in {"done", "failed"}
  <2>1. CASE Enqueue
    <3>1. job' = [job EXCEPT !.status = "pending"] /\ job.status = "absent"
      BY <2>1 DEF Enqueue
    <3>2. job \in [status : {"absent", "pending", "leased", "done", "failed"}, holder : Executors \cup {NoOne}]
      BY DEF RowInv, TypeOK
    <3>3. QED
      BY <3>1, <3>2
  <2>2. CASE UNCHANGED job
    BY <2>2
  <2>3. QED
    BY <2>1, <2>2 DEF CancelCheck, CancelWrite, CancelAgentRun, vars
<1>3. \A e \in Executors : ClearedTo(e)' /\ (ClaimAhead(e)' <=> ClaimAhead(e))
  BY <1>1 DEF CallInv, ClearedTo, ClaimAhead
<1>4. ProviderNotReplayed' /\ (NothingBegun' <=> NothingBegun) /\ (NoneInterrupted' <=> NoneInterrupted)
  BY <1>1 DEF CallInv, ProviderNotReplayed, NothingBegun, NoneInterrupted
<1>5. QED
  BY <1>1, <1>2, <1>3, <1>4 DEF CallInv

\* No call has been made.
LEMMA InitCallInv == Init => CallInv
<1> SUFFICES ASSUME Init PROVE CallInv
  OBVIOUS
<1>1. \A e \in Executors : exec[e].pc = "idle"
  BY DEF Init, IdleExec, Actors
<1>2. \A n \in Attempts : attempt[n] = "none" /\ call[n] = "none"
  BY DEF Init
<1>3. \A e \in Executors : ClearedTo(e)
  BY <1>1 DEF ClearedTo, Going
<1>4. QED
  BY <1>1, <1>2, <1>3 DEF CallInv, ProviderNotReplayed, NothingBegun, NoneInterrupted

\* Every step keeps CallInv as long as there are two claims at most.
LEMMA StepCallInv ==
  ASSUME FailStop, AtMostTwoClaims
  PROVE  BackingInv /\ RowInv /\ CallInv /\ [Next]_vars => CallInv'
<1> SUFFICES ASSUME BackingInv, RowInv, CallInv, [Next]_vars PROVE CallInv'
  OBVIOUS
<1>1. BackingInv' /\ RowInv'
  BY StepBackingInv, StepRowInv
<1>2. ASSUME NEW e \in Executors, RecoveryStep(e) PROVE CallInv'
  BY <1>2, RecoverKeepsCalls, RecoverFailKeepsCalls, RecoverReleaseKeepsCalls DEF RecoveryStep
<1>3. ASSUME NEW e \in Executors, AttemptStep(e) PROVE CallInv'
  BY <1>1, <1>3, QuietKeepsCalls, AttemptKeepsCalls, InsertKeepsCalls, RetryKeepsCalls DEF AttemptStep, Quiet
<1>4. ASSUME NEW e \in Executors, FinalizeStep(e) PROVE CallInv'
  BY <1>1, <1>4, AttemptKeepsCalls, EndKeepsCalls DEF FinalizeStep
<1>5. ASSUME NEW a \in Actors, SharedStep(a) PROVE CallInv'
  <2>1. CASE Interrupt(a)
    BY <2>1, InterruptKeepsCalls
  <2>2. CASE a \in Executors /\ (FailRun(a) \/ FailTask(a) \/ Finish(a))
    BY <1>1, <2>2, EndKeepsCalls, FinishKeepsCalls
  <2>3. CASE a \in Sweepers /\ (FailRun(a) \/ FailTask(a) \/ Finish(a))
    BY <2>3, SweeperKeepsCalls
  <2>4. QED
    BY <1>5, <2>1, <2>2, <2>3 DEF SharedStep, Actors
<1>6. ASSUME NEW a \in Actors, UnexpectedError(a) \/ Crash(a) PROVE CallInv'
  BY <1>6, EndKeepsCalls, SweeperKeepsCalls DEF Actors
<1>7. ASSUME NEW a \in Actors, Step(a) \/ UnexpectedError(a) \/ Crash(a) PROVE CallInv'
  BY <1>2, <1>3, <1>4, <1>5, <1>6, <1>7 DEF Step
<1>8. ASSUME NEW e \in Executors, Claim(e) PROVE CallInv'
  BY <1>8, ClaimKeepsCalls
<1>9. ASSUME NEW s \in Sweepers, Sweep(s) PROVE CallInv'
  BY <1>9, SweeperKeepsCalls
<1>10. QED
  BY <1>7, <1>8, <1>9, RequestKeepsCalls DEF Next

\* With one crash and one recovery, the run, its attempts, its calls and its
\* Task Run never contradict each other; above all, the provider is not called
\* again while an earlier call may have been served.
THEOREM RecoveryIsSafe ==
  ASSUME FailStop, AtMostTwoClaims
  PROVE  Spec => []RecoveryInv
<1>1. Init => BackingInv /\ RowInv /\ CallInv
  BY InitBackingInv, InitRowInv, InitCallInv
<1>2. BackingInv /\ RowInv /\ CallInv /\ [Next]_vars => (BackingInv /\ RowInv /\ CallInv)'
  BY StepBackingInv, StepRowInv, StepCallInv
<1>3. BackingInv /\ RowInv /\ CallInv => RecoveryInv
  BY DEF RowInv, CallInv, RecoveryInv
<1>4. QED
  BY <1>1, <1>2, <1>3, PTL DEF Spec

-----------------------------------------------------------------------------
(***************************************************************************)
(* The run is one provider call with known-failure retries                 *)
(***************************************************************************)
Called == {n \in Attempts : call[n] /= "none"}
Served == {"running", "success", "interrupted"}

\* The steps of OneProviderCall, in the rows of the run.
Asks(n) ==
    /\ run \notin RunEnded /\ run' = run
    /\ \A m \in Attempts : call[m] \in NeverServed
    /\ call[n] = "none" /\ call' = [call EXCEPT ![n] = "running"]

Fails(n) ==
    /\ run \notin RunEnded /\ run' = run
    /\ \A m \in Attempts \ {n} : call[m] \in NeverServed
    /\ call[n] = "running" /\ call' = [call EXCEPT ![n] = "error"]

Ends ==
    /\ run \notin RunEnded /\ run' \in RunEnded /\ call' = call
    /\ run' = "completed" => \E n \in Attempts : call[n] = "success"

Rests ==
    /\ run' = run \/ (run \notin RunEnded /\ run' \notin RunEnded)
    /\ \A n \in Attempts : /\ call'[n] = "none" <=> call[n] = "none"
                           /\ call'[n] \in Served <=> call[n] \in Served

\* The steps of one executor inside its attempt.
LEMMA QuietRefines ==
  ASSUME BackingInv, RowInv, CallInv, NEW e \in Executors, Quiet(e)
  PROVE  Rests \/ \E n \in Attempts : Asks(n) \/ Fails(n)
<1> DEFINE n == exec[e].n
<1>1. TypeOK /\ exec[e].pc \in Going /\ run' = run
  BY QuietMoves DEF RowInv, Quiet, Route, Reserve, Context, Preflight, StartCall, Invoke, Answered, CallError,
                    Settle, RecordUsage, CreateArtifact, Record, ReleaseReservation, rows
<1>2. n \in Attempts
  BY <1>1 DEF BackingInv, NumbersAreAttempts, Works, Going, AttemptSteps
<1>3. run \notin RunEnded /\ \A m \in Attempts \ {n} : call[m] \in NeverServed
  BY <1>1, WorkersRows DEF RunAt, CallInv, ClearedTo
<1>4. CASE StartCall(e)
  <2>1. call[n] = "none" /\ call' = [call EXCEPT ![n] = "running"]
    BY <1>4 DEF StartCall, At, BackingInv, ProgressIsRecorded, Past
  <2>2. Asks(n)
    BY <1>1, <1>3, <2>1 DEF Asks, NeverServed
  <2>3. QED
    BY <1>2, <2>2
<1>5. CASE CallError(e) /\ call[n] = "running"
  <2>1. call' = [call EXCEPT ![n] = "error"]
    BY <1>5 DEF CallError, RecordCall
  <2>2. QED
    BY <1>1, <1>2, <1>3, <1>5, <2>1 DEF Fails
<1>6. CASE Answered(e) \/ (CallError(e) /\ call[n] /= "running")
  <2>1. call' = call \/ (call[n] = "running" /\ call' = [call EXCEPT ![n] = "success"])
    BY <1>6 DEF Answered, CallError, RecordCall
  <2>2. QED
    BY <1>1, <1>2, <2>1 DEF Rests, Served, TypeOK
<1>7. CASE UNCHANGED call
  BY <1>1, <1>7 DEF Rests
<1>8. QED
  BY <1>4, <1>5, <1>6, <1>7 DEF Quiet, Route, Reserve, Context, Preflight, Invoke, Settle, RecordUsage,
                               CreateArtifact, Record, ReleaseReservation, rows

\* Only FinishRun completes the run, on its attempt's recorded success.
LEMMA FinalizeRefines ==
  ASSUME BackingInv, NEW e \in Executors, FinalizeStep(e)
  PROVE  Rests \/ Ends
<1>1. CASE FinishRun(e)
  <2>1. call' = call /\ exec[e].n \in Attempts /\ call[exec[e].n] = "success"
    BY <1>1 DEF FinishRun, At, BackingInv, ProgressIsRecorded, NumbersAreAttempts, Past, Works, AttemptSteps
  <2>2. run' = run \/ (run \notin RunEnded /\ run' = "completed")
    BY <1>1 DEF FinishRun, ClaimRunTerminal
  <2>3. QED
    BY <2>1, <2>2 DEF Rests, Ends, RunEnded
<1>2. CASE StopRun(e)
  <2>1. call' = call /\ (run' = run \/ (run \notin RunEnded /\ run' = "stopped"))
    BY <1>2 DEF StopRun, ClaimRunTerminal
  <2>2. QED
    BY <2>1 DEF Rests, Ends, RunEnded
<1>3. CASE UNCHANGED <<run, call>>
  BY <1>3 DEF Rests
<1>4. QED
  BY <1>1, <1>2, <1>3 DEF FinalizeStep, Verify, Complete, StopTask, SetTask, FailAttempt, StopAttempt, FailDangling

\* Interrupting leaves a call in doubt; failing the run ends it.
LEMMA SharedRefines ==
  ASSUME TypeOK, NEW a \in Actors, SharedStep(a)
  PROVE  Rests \/ Ends
<1>1. CASE Interrupt(a)
  BY <1>1 DEF Interrupt, Rests, Served, TypeOK
<1>2. CASE FailRun(a)
  <2>1. call' = call /\ (run' = run \/ (run \notin RunEnded /\ run' = "failed"))
    BY <1>2 DEF FailRun, ClaimRunTerminal
  <2>2. QED
    BY <2>1 DEF Rests, Ends, RunEnded
<1>3. CASE FailTask(a) \/ Finish(a)
  BY <1>3 DEF FailTask, SetTask, Finish, Rests, rows
<1>4. QED
  BY <1>1, <1>2, <1>3 DEF SharedStep

\* Every step asks, records a known failure, ends the run, or does not show.
LEMMA StepRefines ==
  ASSUME BackingInv, RowInv, CallInv, [Next]_vars
  PROVE  Rests \/ Ends \/ \E n \in Attempts : Asks(n) \/ Fails(n)
<1>1. ASSUME UNCHANGED <<run, call>> PROVE Rests
  BY <1>1 DEF Rests
<1>2. ASSUME NEW e \in Executors, RecoveryStep(e) PROVE Rests
  BY <1>1, <1>2 DEF RecoveryStep, Recover, RecoverFail, RecoverRelease, rows
<1>3. ASSUME NEW e \in Executors, AttemptStep(e) PROVE Rests \/ \E n \in Attempts : Asks(n) \/ Fails(n)
  <2>1. CASE Quiet(e)
    BY <2>1, QuietRefines
  <2>2. CASE SetRunning(e)
    <3>1. run \notin RunEnded
      BY <2>2, WorkersRows DEF SetRunning, At, RunAt, Going
    <3>2. run' \notin RunEnded /\ call' = call
      BY <2>2, <3>1 DEF SetRunning, RunEnded
    <3>3. QED
      BY <3>1, <3>2 DEF Rests
  <2>3. CASE InsertAttempt(e) \/ FinishAttempt(e) \/ Retry(e)
    BY <1>1, <2>3 DEF InsertAttempt, FinishAttempt, Retry
  <2>4. QED
    BY <1>3, <2>1, <2>2, <2>3 DEF AttemptStep, Quiet
<1>4. ASSUME NEW a \in Actors, Step(a) PROVE Rests \/ Ends \/ \E n \in Attempts : Asks(n) \/ Fails(n)
  <2>1. TypeOK
    BY DEF RowInv
  <2>2. QED
    BY <1>2, <1>3, <1>4, <2>1, FinalizeRefines, SharedRefines DEF Step
<1>5. ASSUME NEW a \in Actors, UnexpectedError(a) \/ Crash(a) PROVE Rests
  BY <1>1, <1>5 DEF UnexpectedError, Crash, rows
<1>6. ASSUME \/ Enqueue \/ \E e \in Executors : Claim(e)
             \/ \E s \in Sweepers : Sweep(s)
             \/ CancelCheck \/ CancelWrite \/ CancelAgentRun \/ UNCHANGED vars
      PROVE  Rests
  BY <1>1, <1>6 DEF Enqueue, Claim, Sweep, CancelCheck, CancelWrite, CancelAgentRun, vars, rows
<1>7. QED
  BY <1>4, <1>5, <1>6 DEF Next

\* A new call is one more, within the attempts the run has.
LEMMA OneMoreCall ==
  ASSUME NEW n \in Attempts, call[n] = "none", Called' = Called \cup {n}
  PROVE  /\ Cardinality(Called) \in Nat /\ Cardinality(Called) < MaxAttempts
         /\ Cardinality(Called') = Cardinality(Called) + 1
<1>1. IsFiniteSet(Attempts) /\ Cardinality(Attempts) = MaxAttempts
  BY FS_Interval DEF Attempts
<1>2. Called \in SUBSET Attempts /\ n \notin Called
  BY DEF Called
<1>3. IsFiniteSet(Called) /\ Cardinality(Called) <= MaxAttempts /\ (Cardinality(Called) = MaxAttempts => Called = Attempts)
  BY <1>1, <1>2, FS_Subset
<1>4. Cardinality(Called) \in Nat
  BY <1>3, FS_CardinalityType
<1>5. Cardinality(Called \cup {n}) = Cardinality(Called) + 1
  BY <1>2, <1>3, FS_AddElement
<1>6. QED
  BY <1>2, <1>3, <1>4, <1>5

\* Such a step is one of OneProviderCall's, or a stutter.
LEMMA RefineNext ==
  ASSUME TypeOK, Rests \/ Ends \/ \E n \in Attempts : Asks(n) \/ Fails(n)
  PROVE  [Abstract!CallNext]_(Abstract!callVars)
<1> DEFINE Pending == \E n \in Attempts : call[n] \in Served
           Verdict == IF run \in RunEnded THEN run ELSE "open"
<1>1. CASE Rests
  <2>1. Called' = Called /\ (Pending' <=> Pending) /\ Verdict' = Verdict
    BY <1>1 DEF Rests, Called
  <2>2. QED
    BY <2>1 DEF Abstract!callVars, Called, Served
<1>2. CASE Ends
  <2>1. Called' = Called /\ (Pending' <=> Pending) /\ Verdict = "open" /\ Verdict' = run'
    BY <1>2 DEF Ends, Called
  <2>2. run' = "completed" => Pending
    BY <1>2 DEF Ends, Served
  <2>3. run' \in {"completed", "failed", "stopped"}
    BY <1>2 DEF Ends, RunEnded
  <2>4. Abstract!End(run')
    BY <2>1, <2>2 DEF Abstract!End, Called, Served
  <2>5. QED
    BY <2>3, <2>4 DEF Abstract!CallNext
<1>3. ASSUME NEW n \in Attempts, Asks(n) PROVE Abstract!Ask
  <2>1. Called' = Called \cup {n} /\ ~Pending /\ Pending' /\ Verdict = "open" /\ Verdict' = "open"
    BY <1>3 DEF Asks, Called, Served, NeverServed, TypeOK
  <2>2. /\ Cardinality(Called) < MaxAttempts
        /\ Cardinality(Called') = Cardinality(Called) + 1
    BY <1>3, <2>1, OneMoreCall DEF Asks
  <2>3. QED
    BY <2>1, <2>2 DEF Abstract!Ask, Called, Served
<1>4. ASSUME NEW n \in Attempts, Fails(n) PROVE Abstract!KnownFailure
  <2>1. Called' = Called /\ Pending /\ ~Pending' /\ Verdict = "open" /\ Verdict' = "open"
    BY <1>4 DEF Fails, Called, Served, NeverServed, TypeOK
  <2>2. QED
    BY <2>1 DEF Abstract!KnownFailure, Called, Served
<1>5. QED
  BY <1>1, <1>2, <1>3, <1>4 DEF Abstract!CallNext

\* No call was made and the run is open.
LEMMA RefineInit == Init => Abstract!CallInit
<1> SUFFICES ASSUME Init PROVE Abstract!CallInit
  OBVIOUS
<1>1. Called = {} /\ ~(\E n \in Attempts : call[n] \in Served) /\ run \notin RunEnded
  BY DEF Init, Called, Served, RunEnded
<1>2. Cardinality(Called) = 0
  BY <1>1, FS_EmptySet
<1>3. QED
  BY <1>1, <1>2 DEF Abstract!CallInit, Called, Served

\* Workers, leases, recovery and sweeps implement the one provider call: it is
\* asked again only after a known failure, ends once, and completes on success.
THEOREM RefinesOneProviderCall ==
  ASSUME FailStop, AtMostTwoClaims
  PROVE  Spec => IsOneProviderCall
<1>1. Init => BackingInv /\ RowInv /\ CallInv /\ Abstract!CallInit
  BY InitBackingInv, InitRowInv, InitCallInv, RefineInit
<1>2. BackingInv /\ RowInv /\ CallInv /\ [Next]_vars => (BackingInv /\ RowInv /\ CallInv)'
  BY StepBackingInv, StepRowInv, StepCallInv
<1>3. BackingInv /\ RowInv /\ CallInv /\ [Next]_vars => [Abstract!CallNext]_(Abstract!callVars)
  BY StepRefines, RefineNext DEF RowInv
<1>4. QED
  BY <1>1, <1>2, <1>3, PTL DEF Spec, IsOneProviderCall, Abstract!CallSpec
=============================================================================
