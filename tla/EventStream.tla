----------------------------- MODULE EventStream -----------------------------
(***************************************************************************)
(* The flight recorder of one Task Run (execution_event_repository.py) and *)
(* its event stream (sse.py).  Everything that works on the run -- parallel *)
(* agents, the engine, requests -- records events under the next sequence  *)
(* number, which is read in one statement and taken in a later one; a      *)
(* unique constraint refuses the second taker, who reads again.  A stream  *)
(* polls the table for what lies above its cursor, and a client whose      *)
(* connection broke resumes after the last event it received.              *)
(***************************************************************************)
EXTENDS Integers, Sequences, FiniteSets

CONSTANTS
    Writers,      \* sessions that record events
    Clients,      \* clients of the stream
    MaxAttempts,  \* _MAX_SEQUENCE_RETRIES
    MaxRecords,   \* bound: how many events each writer records
    MaxDrops      \* bound: how many connections break

ASSUME StreamAssumption == MaxAttempts \in Nat \ {0} /\ MaxRecords \in Nat /\ MaxDrops \in Nat

VARIABLES
    rows,      \* execution_events: a set of [seq, by, nth]
    writer,    \* [Writers -> the call of record in progress]
    stream,    \* [Clients -> the generator that serves it]
    wire,      \* [Clients -> what was sent and not yet received]
    received,  \* [Clients -> what it received]
    drops      \* how many connections broke

streamVars == <<rows, writer, stream, wire, received, drops>>

EventRow == [seq : Nat \ {0}, by : Writers, nth : Nat]
Closed == [pc |-> "closed", cursor |-> 0, batch |-> {}]

StreamInit ==
    /\ rows = {}
    /\ writer = [w \in Writers |-> [pc |-> "idle", next |-> 0, tries |-> 0, nth |-> 0, before |-> 0]]
    /\ stream = [c \in Clients |-> Closed]
    /\ wire = [c \in Clients |-> <<>>]
    /\ received = [c \in Clients |-> <<>>]
    /\ drops = 0

Numbers(R) == {e.seq : e \in R}

-----------------------------------------------------------------------------
(* Writers *)

\* `before' is history: how many rows there were when the call began.
Record(w) ==
    /\ writer[w].pc = "idle"
    /\ writer[w].nth < MaxRecords
    /\ writer' = [writer EXCEPT ![w] = [pc |-> "read", next |-> 0, tries |-> 0, nth |-> @.nth + 1,
                                        before |-> Cardinality(rows)]]
    /\ UNCHANGED <<rows, stream, wire, received, drops>>

\* coalesce(max(sequence_number), 0)
Highest(S) == IF S = {} THEN 0 ELSE CHOOSE n \in S : \A m \in S : m <= n

ReadMax(w) ==
    /\ writer[w].pc = "read"
    /\ writer' = [writer EXCEPT ![w] = [@ EXCEPT !.pc = "insert", !.next = Highest(Numbers(rows)) + 1]]
    /\ UNCHANGED <<rows, stream, wire, received, drops>>

Free(n) == n \notin Numbers(rows)

Insert(w) ==
    /\ writer[w].pc = "insert"
    /\ Free(writer[w].next)
    /\ rows' = rows \cup {[seq |-> writer[w].next, by |-> w, nth |-> writer[w].nth]}
    /\ writer' = [writer EXCEPT ![w].pc = "idle"]
    /\ UNCHANGED <<stream, wire, received, drops>>

\* Mutant of Again: the refused number is inserted once more.
AgainWithNext(k) == [k EXCEPT !.tries = @ + 1, !.pc = IF k.tries + 1 < MaxAttempts THEN "insert" ELSE "idle"]
\* The unique constraint refuses the number: read again, or give up.
Again(k) == [k EXCEPT !.tries = @ + 1, !.pc = IF k.tries + 1 < MaxAttempts THEN "read" ELSE "idle"]

Refused(w) ==
    /\ writer[w].pc = "insert"
    /\ ~Free(writer[w].next)
    /\ writer' = [writer EXCEPT ![w] = Again(@)]
    /\ UNCHANGED <<rows, stream, wire, received, drops>>

\* The database is locked or the process dies: the event is not recorded.
Interrupted(w) ==
    /\ writer[w].pc \in {"read", "insert"}
    /\ writer' = [writer EXCEPT ![w].pc = "idle"]
    /\ UNCHANGED <<rows, stream, wire, received, drops>>

-----------------------------------------------------------------------------
(* Streams and clients *)

\* Mutant of ResumeAfter: after the last one that was sent.
ResumeAfterSent(c) == stream[c].cursor
\* A client resumes after the last event it received: after nothing, if none.
ResumeAfter(c) == IF received[c] = <<>> THEN 0 ELSE received[c][Len(received[c])].seq

Connect(c) ==
    /\ stream[c].pc = "closed"
    /\ stream' = [stream EXCEPT ![c] = [pc |-> "poll", cursor |-> ResumeAfter(c), batch |-> {}]]
    /\ UNCHANGED <<rows, writer, wire, received, drops>>

\* list_for_task_run; an empty answer is asked for again.
Poll(c) ==
    /\ stream[c].pc = "poll"
    /\ LET new == {e \in rows : e.seq > stream[c].cursor}
       IN /\ new # {}
          /\ stream' = [stream EXCEPT ![c].pc = "send", ![c].batch = new]
    /\ UNCHANGED <<rows, writer, wire, received, drops>>

\* The batch is in the order of the numbers; the cursor moves before the event
\* is handed to the connection.
Send(c) ==
    /\ stream[c].pc = "send"
    /\ \E e \in stream[c].batch :
          /\ \A f \in stream[c].batch : e.seq <= f.seq
          /\ LET left == stream[c].batch \ {e}
             IN stream' = [stream EXCEPT ![c] =
                    [pc |-> IF left = {} THEN "poll" ELSE "send", cursor |-> e.seq, batch |-> left]]
          /\ wire' = [wire EXCEPT ![c] = Append(@, e)]
    /\ UNCHANGED <<rows, writer, received, drops>>

Receive(c) ==
    /\ wire[c] # <<>>
    /\ received' = [received EXCEPT ![c] = Append(@, Head(wire[c]))]
    /\ wire' = [wire EXCEPT ![c] = Tail(@)]
    /\ UNCHANGED <<rows, writer, stream, drops>>

\* The connection breaks: what is on the wire is lost, the generator is closed.
Drop(c) ==
    /\ drops < MaxDrops
    /\ stream[c].pc # "closed"
    /\ drops' = drops + 1
    /\ stream' = [stream EXCEPT ![c] = [@ EXCEPT !.pc = "closed", !.batch = {}]]
    /\ wire' = [wire EXCEPT ![c] = <<>>]
    /\ UNCHANGED <<rows, writer, received>>

StreamNext ==
    \/ \E w \in Writers : Record(w) \/ ReadMax(w) \/ Insert(w) \/ Refused(w) \/ Interrupted(w)
    \/ \E c \in Clients : Connect(c) \/ Poll(c) \/ Send(c) \/ Receive(c) \/ Drop(c)

\* The generator polls for ever and sends what it finds; a client reconnects.
StreamFairness ==
    \A c \in Clients :
        /\ WF_streamVars(Connect(c)) /\ WF_streamVars(Poll(c))
        /\ WF_streamVars(Send(c)) /\ WF_streamVars(Receive(c))

StreamSpec == StreamInit /\ [][StreamNext]_streamVars

-----------------------------------------------------------------------------
(* Properties *)

\* Every row, call, stream and message has one of the forms the code gives it.
StreamTypeOK ==
    /\ rows \subseteq EventRow
    /\ writer \in [Writers -> [pc : {"idle", "read", "insert"}, next : Nat, tries : Nat, nth : Nat, before : Nat]]
    /\ stream \in [Clients -> [pc : {"closed", "poll", "send"}, cursor : Nat, batch : SUBSET rows]]
    /\ wire \in [Clients -> Seq(rows)]
    /\ received \in [Clients -> Seq(rows)]
    /\ drops \in Nat

\* Whatever writers collide and connections break, what a client has received is
\* the beginning of the log: the i-th event it saw is the one numbered i, and
\* the only one so numbered.  No event is ever recorded below a cursor that has
\* passed it (sse.py, observability.py lines 23-27).
ReceivesPrefix ==
    \A c \in Clients : \A i \in 1..Len(received[c]) :
        {e \in rows : e.seq = i} = {received[c][i]}

\* A writer is refused only because others got on: each of its failed attempts
\* answers to another event that was recorded since it began, so that an event
\* is given up only under that much contention (record, _MAX_SEQUENCE_RETRIES).
RefusalsAreProgress ==
    \A w \in Writers : writer[w].tries <= Cardinality(rows) - writer[w].before

\* Flight recorder and stream implement the log that every client sees from its
\* beginning (ReplayedLog).
absHistory == [i \in 1..Cardinality(rows) |-> CHOOSE e \in rows : e.seq = i]
Replay == INSTANCE ReplayedLog WITH Entries <- EventRow, history <- absHistory, view <- received
IsReplayedLog == Replay!RLSpec

\* A recorded event reaches every client that keeps reconnecting.
EventsArrive ==
    \A c \in Clients : \A n \in 1..(Cardinality(Writers) * MaxRecords) :
        n \in Numbers(rows) ~> Len(received[c]) >= n
=============================================================================
