-------------------------- MODULE OneProviderCall --------------------------
(***************************************************************************)
(* What running an Agent Run promises, with no workers, leases or          *)
(* transactions: the provider is asked again only after the previous call  *)
(* is known to have failed, the run ends once, and it completes only on a  *)
(* call that did not fail.                                                 *)
(***************************************************************************)
EXTENDS Integers

CONSTANT MaxCalls       \* calls the run may make at most

VARIABLES
    verdict,    \* "open", or how the run ended
    calls,      \* how many provider calls were started
    pending     \* the last call is not known to have failed

callVars == <<verdict, calls, pending>>

CallInit == verdict = "open" /\ calls = 0 /\ pending = FALSE

Ask ==
    /\ verdict = "open" /\ ~pending /\ calls < MaxCalls
    /\ calls' = calls + 1
    /\ pending' = TRUE
    /\ UNCHANGED verdict

KnownFailure ==
    /\ verdict = "open" /\ pending
    /\ pending' = FALSE
    /\ UNCHANGED <<verdict, calls>>

End(how) ==
    /\ verdict = "open"
    /\ how = "completed" => pending
    /\ verdict' = how
    /\ UNCHANGED <<calls, pending>>

CallNext == Ask \/ KnownFailure \/ \E how \in {"completed", "failed", "stopped"} : End(how)

CallSpec == CallInit /\ [][CallNext]_callVars
=============================================================================
