----------------------------- MODULE ReplayedLog -----------------------------
(***************************************************************************)
(* What the flight recorder and its stream promise together: events are    *)
(* appended to one log, and every client sees that log from its beginning, *)
(* in order, without a gap and without a repetition, however often it has  *)
(* to reconnect.                                                           *)
(***************************************************************************)
EXTENDS Integers, Sequences

CONSTANTS Entries, Clients
VARIABLES
    history,   \* the log, a sequence of entries
    view       \* [Clients -> what each has been shown]

RLInit == history = <<>> /\ view = [c \in Clients |-> <<>>]

RLAppend ==
    /\ history' \in Seq(Entries)
    /\ Len(history') = Len(history) + 1
    /\ \A i \in 1..Len(history) : history'[i] = history[i]
    /\ UNCHANGED view

\* A client is shown the entry that follows the last one it was shown.
RLShow(c) ==
    /\ Len(view[c]) < Len(history)
    /\ view' = [view EXCEPT ![c] = Append(@, history[Len(@) + 1])]
    /\ UNCHANGED history

RLNext == RLAppend \/ \E c \in Clients : RLShow(c)
RLSpec == RLInit /\ [][RLNext]_<<history, view>>
=============================================================================
