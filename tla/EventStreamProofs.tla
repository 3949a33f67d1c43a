-------------------------- MODULE EventStreamProofs --------------------------
(***************************************************************************)
(* Proofs about EventStream, for any number of writers, clients, events,   *)
(* attempts and broken connections.  The argument: a number is inserted    *)
(* only if it is free, and was read as one above the highest, so that the  *)
(* rows are numbered 1..n without a gap; hence nothing is ever recorded    *)
(* below a cursor, and what a client has received, followed by what is on  *)
(* the wire, followed by the batch, is always a run of the log.            *)
(***************************************************************************)
EXTENDS EventStream, FiniteSetTheorems, TLAPS

\* A call of record in progress.
Call == [pc : {"idle", "read", "insert"}, next : Nat, tries : Nat, nth : Nat, before : Nat]

\* The rows are numbered from 1 on without a gap, and no two alike.
RowsNumbered ==
    /\ IsFiniteSet(rows)
    /\ Numbers(rows) = 1..Cardinality(rows)
    /\ \A e, f \in rows : e.seq = f.seq => e = f

\* The number a writer is about to take was the next one when it was read.
WritersBehind ==
    \A w \in Writers : writer[w].pc = "insert" => writer[w].next \in 1..(Cardinality(rows) + 1)

\* A sequence of rows that is numbered on from b.
NumberedFrom(b, s) == \A i \in 1..Len(s) : s[i].seq = b + i

\* What a client has received, then what is on its wire, is the log from 1 to
\* its cursor.
InOrder(c) ==
    /\ NumberedFrom(0, received[c])
    /\ NumberedFrom(Len(received[c]), wire[c])
    /\ stream[c].pc = "closed" => wire[c] = <<>>
    /\ stream[c].pc # "closed" => stream[c].cursor = Len(received[c]) + Len(wire[c])

\* A batch is a run of the log that begins above the cursor.
BatchFollows(c) ==
    \A e \in stream[c].batch :
        /\ e.seq > stream[c].cursor
        /\ \A f \in rows : stream[c].cursor < f.seq /\ f.seq <= e.seq => f \in stream[c].batch

StreamInv ==
    /\ StreamTypeOK
    /\ RowsNumbered
    /\ WritersBehind
    /\ \A c \in Clients : InOrder(c) /\ BatchFollows(c)

-----------------------------------------------------------------------------
(* Numbers and sequences *)

\* The highest of 1..n is n: what coalesce(max, 0) reads from a log without gaps.
LEMMA HighestOfRange ==
    ASSUME NEW n \in Nat
    PROVE  Highest(1..n) = n
<1>1. CASE n = 0
  BY <1>1 DEF Highest
<1>2. CASE n # 0
  <2>1. n \in 1..n /\ \A m \in 1..n : m <= n
    BY <1>2
  <2>2. \A k \in 1..n : (\A m \in 1..n : m <= k) => k = n
    BY <2>1
  <2>3. 1..n # {}
    BY <2>1
  <2> QED
    BY <2>1, <2>2, <2>3 DEF Highest
<1> QED
  BY <1>1, <1>2

\* A sequence over a set is one over every larger set.
LEMMA SeqGrows ==
    ASSUME NEW S, NEW T, S \subseteq T, NEW s \in Seq(S)
    PROVE  s \in Seq(T)
  OBVIOUS

LEMMA AppendNumbered ==
    ASSUME NEW S, NEW s \in Seq(S), NEW e \in S, NEW b \in Nat,
           NumberedFrom(b, s), e.seq = b + Len(s) + 1
    PROVE  NumberedFrom(b, Append(s, e)) /\ Len(Append(s, e)) = Len(s) + 1
<1>1. Len(Append(s, e)) = Len(s) + 1
  OBVIOUS
<1> SUFFICES ASSUME NEW i \in 1..(Len(s) + 1) PROVE Append(s, e)[i].seq = b + i
  BY <1>1 DEF NumberedFrom
<1>2. CASE i = Len(s) + 1
  <2>1. Append(s, e)[i] = e
    BY <1>2
  <2> QED
    BY <1>2, <2>1
<1>3. CASE i # Len(s) + 1
  <2>1. i \in 1..Len(s) /\ Append(s, e)[i] = s[i]
    BY <1>3
  <2> QED
    BY <2>1 DEF NumberedFrom
<1> QED
  BY <1>2, <1>3

LEMMA TailNumbered ==
    ASSUME NEW S, NEW s \in Seq(S), s # <<>>, NEW b \in Nat, NumberedFrom(b, s)
    PROVE  /\ Head(s) \in S /\ Head(s).seq = b + 1
           /\ Tail(s) \in Seq(S) /\ Len(Tail(s)) = Len(s) - 1
           /\ NumberedFrom(b + 1, Tail(s))
<1>1. Head(s) \in S /\ Tail(s) \in Seq(S) /\ Len(Tail(s)) = Len(s) - 1
  OBVIOUS
<1>2. 1 \in 1..Len(s) /\ Head(s) = s[1]
  OBVIOUS
<1>3. Head(s).seq = b + 1
  BY <1>2 DEF NumberedFrom
<1>4. ASSUME NEW i \in 1..Len(Tail(s)) PROVE Tail(s)[i].seq = (b + 1) + i
  <2>1. i + 1 \in 1..Len(s) /\ Tail(s)[i] = s[i + 1]
    BY <1>1
  <2>2. s[i + 1].seq = b + (i + 1)
    BY <2>1 DEF NumberedFrom
  <2> QED
    BY <2>1, <2>2
<1> QED
  BY <1>1, <1>3, <1>4 DEF NumberedFrom

\* What the writers' steps make of a call.
LEMMA CallNumbered ==
    ASSUME NEW k \in Call, NEW n \in Nat
    PROVE  /\ [k EXCEPT !.pc = "insert", !.next = n] \in Call
           /\ [k EXCEPT !.pc = "insert", !.next = n].next = n
  BY DEF Call

LEMMA CallTried ==
    ASSUME NEW k \in Call, NEW n \in Nat, NEW p \in {"idle", "read"},
           NEW l, l = [k EXCEPT !.tries = n, !.pc = p]
    PROVE  l \in Call /\ l.pc # "insert"
  BY DEF Call

\* A numbered log has a natural number of rows.
LEMMA CountIsNat ==
    ASSUME RowsNumbered
    PROVE  Cardinality(rows) \in Nat
  BY FS_CardinalityType DEF RowsNumbered

-----------------------------------------------------------------------------
(* The invariant *)

LEMMA InitStream == StreamInit => StreamInv
<1> SUFFICES ASSUME StreamInit PROVE StreamInv
  OBVIOUS
<1>1. StreamTypeOK
  BY DEF StreamInit, StreamTypeOK, Closed, EventRow
<1>2. RowsNumbered
  <2>1. IsFiniteSet({}) /\ Cardinality({}) = 0
    BY FS_EmptySet
  <2> QED
    BY <2>1 DEF StreamInit, RowsNumbered, Numbers
<1>3. WritersBehind
  BY DEF StreamInit, WritersBehind
<1>4. \A c \in Clients : InOrder(c) /\ BatchFollows(c)
  BY DEF StreamInit, InOrder, NumberedFrom, BatchFollows, Closed
<1> QED
  BY <1>1, <1>2, <1>3, <1>4 DEF StreamInv

\* Steps of writers that leave the rows alone and take no number.
LEMMA WriterStep ==
    ASSUME StreamInv, NEW w \in Writers,
           UNCHANGED <<rows, stream, wire, received, drops>>,
           writer' \in [Writers -> Call],
           \A v \in Writers \ {w} : writer'[v] = writer[v],
           writer'[w].pc = "insert" => writer'[w].next \in 1..(Cardinality(rows) + 1)
    PROVE  StreamInv'
<1>1. StreamTypeOK'
  BY DEF StreamInv, StreamTypeOK, Call
<1>2. RowsNumbered'
  BY DEF StreamInv, RowsNumbered, Numbers
<1>3. WritersBehind'
  BY DEF StreamInv, StreamTypeOK, WritersBehind
<1>4. (\A c \in Clients : InOrder(c) /\ BatchFollows(c))'
  BY DEF StreamInv, InOrder, BatchFollows
<1> QED
  BY <1>1, <1>2, <1>3, <1>4 DEF StreamInv

LEMMA RecordStep == ASSUME StreamInv, NEW w \in Writers, Record(w) PROVE StreamInv'
<1>1. Cardinality(rows) \in Nat
  BY CountIsNat DEF StreamInv
<1>2. writer' \in [Writers -> Call] /\ writer'[w].pc = "read"
  BY <1>1 DEF Record, StreamInv, StreamTypeOK, Call
<1>3. \A v \in Writers \ {w} : writer'[v] = writer[v]
  BY DEF Record, StreamInv, StreamTypeOK
<1> QED
  BY <1>2, <1>3, WriterStep DEF Record

LEMMA ReadMaxStep == ASSUME StreamInv, NEW w \in Writers, ReadMax(w) PROVE StreamInv'
<1>1. Cardinality(rows) \in Nat
  BY CountIsNat DEF StreamInv
<1>2. Highest(Numbers(rows)) = Cardinality(rows)
  BY <1>1, HighestOfRange DEF StreamInv, RowsNumbered
<1>3. writer' \in [Writers -> Call] /\ writer'[w].next = Cardinality(rows) + 1
  <2> DEFINE call == [writer[w] EXCEPT !.pc = "insert", !.next = Highest(Numbers(rows)) + 1]
  <2>1. writer \in [Writers -> Call]
    BY DEF StreamInv, StreamTypeOK, Call
  <2>2. call \in Call /\ call.next = Cardinality(rows) + 1
    <3>1. writer[w] \in Call /\ Highest(Numbers(rows)) + 1 \in Nat
      BY <1>1, <1>2, <2>1
    <3> QED
      BY <1>2, <3>1, CallNumbered
  <2>3. writer' = [writer EXCEPT ![w] = call]
    BY DEF ReadMax
  <2> HIDE DEF call
  <2> QED
    BY <2>1, <2>2, <2>3
<1>4. \A v \in Writers \ {w} : writer'[v] = writer[v]
  BY DEF ReadMax, StreamInv, StreamTypeOK
<1>5. writer'[w].next \in 1..(Cardinality(rows) + 1)
  BY <1>1, <1>3
<1> QED
  BY <1>3, <1>4, <1>5, WriterStep DEF ReadMax

LEMMA RefusedStep == ASSUME StreamInv, NEW w \in Writers, Refused(w) PROVE StreamInv'
<1>1. writer' \in [Writers -> Call] /\ writer'[w].pc # "insert"
  <2>1. writer \in [Writers -> Call]
    BY DEF StreamInv, StreamTypeOK, Call
  <2>2. Again(writer[w]) \in Call /\ Again(writer[w]).pc # "insert"
    <3> DEFINE n == writer[w].tries + 1
               p == IF writer[w].tries + 1 < MaxAttempts THEN "read" ELSE "idle"
    <3>1. writer[w] \in Call /\ n \in Nat /\ p \in {"idle", "read"}
      BY <2>1 DEF Call
    <3>2. Again(writer[w]) = [writer[w] EXCEPT !.tries = n, !.pc = p]
      BY DEF Again
    <3> HIDE DEF n, p
    <3> QED
      BY <3>1, <3>2, CallTried
  <2>3. writer' = [writer EXCEPT ![w] = Again(writer[w])]
    BY DEF Refused
  <2> QED
    BY <2>1, <2>2, <2>3, SMTT(40)
<1>2. \A v \in Writers \ {w} : writer'[v] = writer[v]
  BY DEF Refused, StreamInv, StreamTypeOK
<1> QED
  BY <1>1, <1>2, WriterStep DEF Refused

LEMMA InterruptedStep == ASSUME StreamInv, NEW w \in Writers, Interrupted(w) PROVE StreamInv'
<1>1. writer' \in [Writers -> Call] /\ writer'[w].pc # "insert"
  BY DEF Interrupted, StreamInv, StreamTypeOK, Call
<1>2. \A v \in Writers \ {w} : writer'[v] = writer[v]
  BY DEF Interrupted, StreamInv, StreamTypeOK
<1> QED
  BY <1>1, <1>2, WriterStep DEF Interrupted

\* A row is added right above the highest, whoever else was writing.
LEMMA Appended ==
    ASSUME StreamInv, NEW w \in Writers, Insert(w)
    PROVE  /\ writer[w].next = Cardinality(rows) + 1
           /\ Cardinality(rows') = Cardinality(rows) + 1
           /\ IsFiniteSet(rows')
           /\ rows \subseteq rows'
           /\ \A e \in rows' \ rows : e.seq = Cardinality(rows) + 1
           /\ \E e \in EventRow : e.seq = Cardinality(rows) + 1 /\ rows' = rows \cup {e}
<1> DEFINE new == [seq |-> writer[w].next, by |-> w, nth |-> writer[w].nth]
<1>1. Cardinality(rows) \in Nat
  BY CountIsNat DEF StreamInv
<1>2. writer[w].next \in 1..(Cardinality(rows) + 1) /\ writer[w].next \notin 1..Cardinality(rows)
  BY DEF Insert, Free, StreamInv, WritersBehind, RowsNumbered
<1>3. writer[w].next = Cardinality(rows) + 1
  BY <1>1, <1>2
<1>4. rows' = rows \cup {new}
  BY DEF Insert
<1>5. new \notin rows
  <2>1. new.seq = writer[w].next
    OBVIOUS
  <2> HIDE DEF new
  <2> QED
    BY <2>1 DEF Insert, Free, Numbers
<1>6. new \in EventRow
  BY <1>1, <1>3 DEF EventRow, StreamInv, StreamTypeOK
<1>7. new.seq = Cardinality(rows) + 1
  BY <1>3
<1> HIDE DEF new
<1>8. IsFiniteSet(rows') /\ Cardinality(rows') = Cardinality(rows) + 1
  BY <1>4, <1>5, FS_AddElement DEF StreamInv, RowsNumbered
<1> QED
  BY <1>3, <1>4, <1>6, <1>7, <1>8

LEMMA InsertStep == ASSUME StreamInv, NEW w \in Writers, Insert(w) PROVE StreamInv'
<1> DEFINE n == Cardinality(rows)
<1>1. n \in Nat
  BY CountIsNat DEF StreamInv
<1>2. PICK new \in EventRow : new.seq = n + 1 /\ rows' = rows \cup {new}
  BY Appended
<1>3. Cardinality(rows') = n + 1 /\ IsFiniteSet(rows')
  BY Appended
<1>4. UNCHANGED <<stream, wire, received, drops>>
  BY DEF Insert
<1>5. writer' = [writer EXCEPT ![w].pc = "idle"]
  BY DEF Insert
<1>6. Numbers(rows) = 1..n /\ \A e, f \in rows : e.seq = f.seq => e = f
  BY DEF StreamInv, RowsNumbered
<1> HIDE DEF n
<1>7. StreamTypeOK'
  <2>1. rows' \subseteq EventRow
    BY <1>2 DEF StreamInv, StreamTypeOK
  <2>2. writer' \in [Writers -> Call]
    BY <1>5, ZenonT(60) DEF StreamInv, StreamTypeOK, Call
  <2>3. stream' \in [Clients -> [pc : {"closed", "poll", "send"}, cursor : Nat, batch : SUBSET rows']]
    BY <1>2, <1>4 DEF StreamInv, StreamTypeOK
  <2>4. wire' \in [Clients -> Seq(rows')] /\ received' \in [Clients -> Seq(rows')]
    <3>1. rows \subseteq rows'
      BY <1>2
    <3> QED
      BY <1>4, <3>1, SeqGrows DEF StreamInv, StreamTypeOK
  <2> QED
    BY <1>4, <2>1, <2>2, <2>3, <2>4 DEF StreamInv, StreamTypeOK, Call
<1>8. RowsNumbered'
  <2>1. Numbers(rows') = Numbers(rows) \cup {n + 1}
    BY <1>2 DEF Numbers
  <2>2. Numbers(rows') = 1..(n + 1)
    BY <1>1, <1>6, <2>1
  <2>3. \A e \in rows : e.seq \in 1..n
    BY <1>6 DEF Numbers
  <2>4. \A e, f \in rows' : e.seq = f.seq => e = f
    BY <1>1, <1>2, <1>6, <2>3
  <2> QED
    BY <1>3, <2>2, <2>4 DEF RowsNumbered
<1>9. WritersBehind'
  <2> SUFFICES ASSUME NEW v \in Writers, writer'[v].pc = "insert"
               PROVE  writer'[v].next \in 1..(Cardinality(rows') + 1)
    BY DEF WritersBehind
  <2>1. v # w /\ writer'[v] = writer[v]
    BY <1>5 DEF StreamInv, StreamTypeOK
  <2>2. writer[v].next \in 1..(n + 1)
    BY <2>1 DEF StreamInv, WritersBehind, n
  <2> QED
    BY <1>1, <1>3, <2>1, <2>2
<1>10. ASSUME NEW c \in Clients PROVE InOrder(c)' /\ BatchFollows(c)'
  <2>1. InOrder(c)'
    BY <1>4 DEF StreamInv, InOrder
  <2>2. BatchFollows(c)'
    <3> SUFFICES ASSUME NEW e \in stream[c].batch, NEW f \in rows',
                        stream[c].cursor < f.seq, f.seq <= e.seq
                 PROVE  f \in stream[c].batch
      BY <1>4 DEF StreamInv, BatchFollows
    <3>1. e \in rows
      BY DEF StreamInv, StreamTypeOK
    <3>2. e.seq \in 1..n
      BY <1>6, <3>1 DEF Numbers
    <3>3. f \in rows
      BY <1>1, <1>2, <3>2
    <3> QED
      BY <3>3 DEF StreamInv, BatchFollows
  <2> QED
    BY <2>1, <2>2
<1> QED
  BY <1>7, <1>8, <1>9, <1>10 DEF StreamInv

\* Steps that touch one client only.
LEMMA ClientStep ==
    ASSUME StreamInv, NEW c \in Clients, UNCHANGED <<rows, writer>>,
           StreamTypeOK',
           \A d \in Clients \ {c} : /\ stream'[d] = stream[d]
                                    /\ wire'[d] = wire[d] /\ received'[d] = received[d],
           InOrder(c)', BatchFollows(c)'
    PROVE  StreamInv'
<1>1. RowsNumbered'
  BY DEF StreamInv, RowsNumbered, Numbers
<1>2. WritersBehind'
  BY DEF StreamInv, WritersBehind
<1>3. ASSUME NEW d \in Clients PROVE InOrder(d)' /\ BatchFollows(d)'
  <2>1. CASE d = c
    BY <2>1
  <2>2. CASE d # c
    BY <2>2 DEF StreamInv, InOrder, BatchFollows
  <2> QED
    BY <2>1, <2>2
<1> QED
  BY <1>1, <1>2, <1>3 DEF StreamInv

\* A client that resumes after the last event it received resumes after as many
\* as it received.
LEMMA ResumesInOrder ==
    ASSUME StreamInv, NEW c \in Clients
    PROVE  ResumeAfter(c) = Len(received[c])
<1>1. received[c] \in Seq(rows)
  BY DEF StreamInv, StreamTypeOK
<1>2. CASE received[c] = <<>>
  BY <1>2 DEF ResumeAfter
<1>3. CASE received[c] # <<>>
  <2>1. Len(received[c]) \in 1..Len(received[c])
    BY <1>1, <1>3
  <2> QED
    <3>1. NumberedFrom(0, received[c])
      BY DEF StreamInv, InOrder
    <3>2. received[c][Len(received[c])].seq = 0 + Len(received[c])
      BY <2>1, <3>1 DEF NumberedFrom
    <3> QED
      BY <1>1, <1>3, <3>2 DEF ResumeAfter
<1> QED
  BY <1>2, <1>3

LEMMA ConnectStep == ASSUME StreamInv, NEW c \in Clients, Connect(c) PROVE StreamInv'
<1> DEFINE opened == [pc |-> "poll", cursor |-> Len(received[c]), batch |-> {}]
<1>1. Len(received[c]) \in Nat
  BY DEF StreamInv, StreamTypeOK
<1>2. stream' = [stream EXCEPT ![c] = opened] /\ UNCHANGED <<rows, writer, wire, received, drops>>
  BY ResumesInOrder DEF Connect
<1>3. stream'[c] = opened /\ \A d \in Clients \ {c} : stream'[d] = stream[d]
  BY <1>2 DEF StreamInv, StreamTypeOK
<1>4. StreamTypeOK'
  BY <1>1, <1>2 DEF StreamInv, StreamTypeOK
<1>5. InOrder(c) /\ wire[c] = <<>>
  BY DEF Connect, StreamInv, InOrder
<1>6. InOrder(c)'
  BY <1>1, <1>2, <1>3, <1>5 DEF InOrder
<1>7. BatchFollows(c)'
  BY <1>3 DEF BatchFollows
<1> QED
  BY <1>2, <1>3, <1>4, <1>6, <1>7, ClientStep

LEMMA PollStep == ASSUME StreamInv, NEW c \in Clients, Poll(c) PROVE StreamInv'
<1> DEFINE new == {e \in rows : e.seq > stream[c].cursor}
<1>1. UNCHANGED <<rows, writer, wire, received, drops>>
  BY DEF Poll
<1>2. /\ stream'[c].pc = "send" /\ stream'[c].batch = new /\ stream'[c].cursor = stream[c].cursor
      /\ stream[c].pc = "poll"
      /\ \A d \in Clients \ {c} : stream'[d] = stream[d]
  BY DEF Poll, StreamInv, StreamTypeOK
<1>3. StreamTypeOK'
  <2>1. stream' = [stream EXCEPT ![c].pc = "send", ![c].batch = new]
    BY DEF Poll
  <2>2. new \subseteq rows
    OBVIOUS
  <2>3. stream \in [Clients -> [pc : {"closed", "poll", "send"}, cursor : Nat, batch : SUBSET rows]]
    BY DEF StreamInv, StreamTypeOK
  <2> HIDE DEF new
  <2>4. stream' \in [Clients -> [pc : {"closed", "poll", "send"}, cursor : Nat, batch : SUBSET rows]]
    BY <2>1, <2>2, <2>3
  <2> QED
    BY <1>1, <2>4 DEF StreamInv, StreamTypeOK
<1>4. InOrder(c)'
  BY <1>1, <1>2 DEF StreamInv, InOrder
<1>5. BatchFollows(c)'
  BY <1>1, <1>2 DEF BatchFollows
<1> QED
  BY <1>1, <1>2, <1>3, <1>4, <1>5, ClientStep

LEMMA SendStep == ASSUME StreamInv, NEW c \in Clients, Send(c) PROVE StreamInv'
<1> DEFINE n == Cardinality(rows)
           k == stream[c].cursor
<1>1. n \in Nat
  BY CountIsNat DEF StreamInv
<1>2. PICK e \in stream[c].batch :
        /\ \A f \in stream[c].batch : e.seq <= f.seq
        /\ stream' = [stream EXCEPT ![c] =
               [pc |-> IF stream[c].batch \ {e} = {} THEN "poll" ELSE "send",
                cursor |-> e.seq, batch |-> stream[c].batch \ {e}]]
        /\ wire' = [wire EXCEPT ![c] = Append(@, e)]
  BY DEF Send
<1>3. UNCHANGED <<rows, writer, received, drops>>
  BY DEF Send
<1>4. /\ stream[c] \in [pc : {"closed", "poll", "send"}, cursor : Nat, batch : SUBSET rows]
      /\ wire[c] \in Seq(rows) /\ received[c] \in Seq(rows) /\ rows \subseteq EventRow
  BY DEF StreamInv, StreamTypeOK
<1>5. e \in rows /\ e.seq \in 1..n
  BY <1>2, <1>4 DEF StreamInv, RowsNumbered, Numbers
<1>6. e.seq = k + 1
  <2>1. e.seq > k
    BY <1>2 DEF StreamInv, BatchFollows
  <2>2. k + 1 \in Numbers(rows)
    BY <1>1, <1>4, <1>5, <2>1 DEF StreamInv, RowsNumbered
  <2>3. PICK f \in rows : f.seq = k + 1
    BY <2>2 DEF Numbers
  <2>4. f \in stream[c].batch
    BY <1>2, <1>4, <1>5, <2>1, <2>3 DEF StreamInv, BatchFollows
  <2> QED
    BY <1>2, <1>4, <1>5, <2>1, <2>3, <2>4
<1>7. /\ stream'[c].cursor = k + 1 /\ stream'[c].batch = stream[c].batch \ {e}
      /\ stream'[c].pc \in {"poll", "send"}
      /\ wire'[c] = Append(wire[c], e)
      /\ \A d \in Clients \ {c} : stream'[d] = stream[d] /\ wire'[d] = wire[d]
  BY <1>2, <1>6 DEF StreamInv, StreamTypeOK
<1>8. StreamTypeOK'
  BY <1>2, <1>3, <1>4, <1>5, <1>6 DEF StreamInv, StreamTypeOK
<1>9. InOrder(c)'
  <2>1. InOrder(c) /\ k = Len(received[c]) + Len(wire[c])
    BY DEF Send, StreamInv, InOrder
  <2>2. Len(received[c]) \in Nat /\ Len(wire[c]) \in Nat
    BY <1>4
  <2>3. e.seq = Len(received[c]) + Len(wire[c]) + 1
    BY <1>6, <2>1
  <2>4. NumberedFrom(Len(received[c]), wire'[c]) /\ Len(wire'[c]) = Len(wire[c]) + 1
    <3>1. NumberedFrom(Len(received[c]), wire[c])
      BY <2>1 DEF InOrder
    <3>2. /\ NumberedFrom(Len(received[c]), Append(wire[c], e))
          /\ Len(Append(wire[c], e)) = Len(wire[c]) + 1
      BY <1>4, <1>5, <2>2, <2>3, <3>1, AppendNumbered
    <3> QED
      BY <1>7, <3>2
  <2>5. stream'[c].cursor = Len(received[c]) + Len(wire'[c])
    <3> DEFINE a == Len(received[c])
               b == Len(wire[c])
               m == Len(wire'[c])
               l == stream'[c].cursor
    <3>1. a \in Nat /\ b \in Nat
      BY <2>2
    <3>2. m = b + 1
      BY <2>4, Zenon
    <3>3. l = a + b + 1
      BY <1>7, <2>1
    <3> SUFFICES l = a + m
      OBVIOUS
    <3> HIDE DEF a, b, m, l
    <3> QED
      BY <3>1, <3>2, <3>3
  <2>6. stream'[c].pc # "closed" /\ received' = received
    BY <1>3, <1>7
  <2> QED
    BY <2>1, <2>4, <2>5, <2>6 DEF InOrder
<1>10. BatchFollows(c)'
  <2> SUFFICES ASSUME NEW g \in stream[c].batch \ {e}
               PROVE  /\ g.seq > k + 1
                      /\ \A f \in rows : k + 1 < f.seq /\ f.seq <= g.seq => f \in stream[c].batch \ {e}
    BY <1>3, <1>7 DEF BatchFollows
  <2>1. g \in rows /\ g.seq >= e.seq /\ g.seq # e.seq
    BY <1>2, <1>4, <1>5 DEF StreamInv, RowsNumbered
  <2>2. g.seq \in Nat
    BY <1>4, <2>1 DEF EventRow
  <2>3. g.seq > k + 1
    BY <1>4, <1>6, <2>1, <2>2
  <2>4. ASSUME NEW f \in rows, k + 1 < f.seq, f.seq <= g.seq
        PROVE  f \in stream[c].batch \ {e}
    <3>1. f.seq \in Nat
      BY <1>4 DEF EventRow
    <3>2. f # e /\ k < f.seq
      BY <1>4, <1>6, <2>4, <3>1
    <3> QED
      BY <2>4, <3>2 DEF StreamInv, BatchFollows
  <2> QED
    BY <2>3, <2>4
<1> QED
  BY <1>3, <1>7, <1>8, <1>9, <1>10, ClientStep

LEMMA ReceiveStep == ASSUME StreamInv, NEW c \in Clients, Receive(c) PROVE StreamInv'
<1>1. UNCHANGED <<rows, writer, stream, drops>>
  BY DEF Receive
<1>2. /\ wire[c] \in Seq(rows) /\ received[c] \in Seq(rows) /\ wire[c] # <<>>
      /\ stream[c].cursor \in Nat
  BY DEF Receive, StreamInv, StreamTypeOK
<1>3. /\ received'[c] = Append(received[c], Head(wire[c]))
      /\ wire'[c] = Tail(wire[c])
      /\ \A d \in Clients \ {c} : received'[d] = received[d] /\ wire'[d] = wire[d]
  BY DEF Receive, StreamInv, StreamTypeOK
<1>4. /\ InOrder(c) /\ stream[c].pc # "closed"
      /\ Len(received[c]) \in Nat /\ Len(wire[c]) \in Nat
      /\ stream[c].cursor = Len(received[c]) + Len(wire[c])
  <2>1. InOrder(c)
    BY DEF StreamInv
  <2>2. Len(received[c]) \in Nat /\ Len(wire[c]) \in Nat
    BY <1>2
  <2> QED
    BY <1>2, <2>1, <2>2 DEF InOrder
<1>5. /\ Head(wire[c]) \in rows /\ Head(wire[c]).seq = Len(received[c]) + 1
      /\ wire'[c] \in Seq(rows) /\ Len(wire'[c]) = Len(wire[c]) - 1
      /\ NumberedFrom(Len(received[c]) + 1, wire'[c])
  BY <1>2, <1>3, <1>4, TailNumbered DEF InOrder
<1>6. /\ received'[c] \in Seq(rows) /\ Len(received'[c]) = Len(received[c]) + 1
      /\ NumberedFrom(0, received'[c])
  <2>1. Head(wire[c]).seq = 0 + Len(received[c]) + 1
    BY <1>4, <1>5
  <2>2. NumberedFrom(0, received'[c]) /\ Len(received'[c]) = Len(received[c]) + 1
    BY <1>2, <1>3, <1>4, <1>5, <2>1, AppendNumbered DEF InOrder
  <2> QED
    BY <1>2, <1>3, <1>5, <2>2
<1>7. StreamTypeOK'
  <2>1. received' \in [Clients -> Seq(rows)] /\ wire' \in [Clients -> Seq(rows)]
    BY <1>3, <1>5, <1>6 DEF Receive, StreamInv, StreamTypeOK
  <2> QED
    BY <1>1, <2>1 DEF StreamInv, StreamTypeOK
<1>8. InOrder(c)'
  <2>1. stream[c].cursor = Len(received'[c]) + Len(wire'[c])
    <3> DEFINE a == Len(received[c])
               b == Len(wire[c])
               l == Len(received'[c])
               m == Len(wire'[c])
               k == stream[c].cursor
    <3>1. a \in Nat /\ b \in Nat /\ k = a + b
      BY <1>4, Zenon
    <3>2. l = a + 1 /\ m = b - 1
      BY <1>5, <1>6, Zenon
    <3> SUFFICES k = l + m
      OBVIOUS
    <3> HIDE DEF a, b, k, l, m
    <3> QED
      BY <3>1, <3>2
  <2> QED
    BY <1>1, <1>4, <1>5, <1>6, <2>1 DEF InOrder
<1>9. BatchFollows(c)'
  BY <1>1 DEF StreamInv, BatchFollows
<1> QED
  BY <1>1, <1>3, <1>7, <1>8, <1>9, ClientStep

LEMMA DropStep == ASSUME StreamInv, NEW c \in Clients, Drop(c) PROVE StreamInv'
<1>1. UNCHANGED <<rows, writer, received>>
  BY DEF Drop
<1>2. /\ stream'[c].pc = "closed" /\ stream'[c].batch = {} /\ wire'[c] = <<>>
      /\ \A d \in Clients \ {c} : stream'[d] = stream[d] /\ wire'[d] = wire[d]
  BY DEF Drop, StreamInv, StreamTypeOK
<1>3. StreamTypeOK'
  <2>1. stream' \in [Clients -> [pc : {"closed", "poll", "send"}, cursor : Nat, batch : SUBSET rows]]
    <3> DEFINE left == [stream[c] EXCEPT !.pc = "closed", !.batch = {}]
    <3>1. stream[c] \in [pc : {"closed", "poll", "send"}, cursor : Nat, batch : SUBSET rows]
      BY DEF StreamInv, StreamTypeOK
    <3>2. left \in [pc : {"closed", "poll", "send"}, cursor : Nat, batch : SUBSET rows]
      BY <3>1
    <3>3. stream' = [stream EXCEPT ![c] = left]
      BY DEF Drop
    <3> HIDE DEF left
    <3> QED
      BY <3>2, <3>3 DEF StreamInv, StreamTypeOK
  <2>2. wire' \in [Clients -> Seq(rows)]
    BY DEF Drop, StreamInv, StreamTypeOK
  <2> QED
    BY <2>1, <2>2 DEF Drop, StreamInv, StreamTypeOK
<1>4. InOrder(c)'
  <2>1. NumberedFrom(0, received[c])
    BY DEF StreamInv, InOrder
  <2>2. NumberedFrom(Len(received[c]), <<>>)
    BY DEF NumberedFrom
  <2> QED
    BY <1>1, <1>2, <2>1, <2>2 DEF InOrder
<1>5. BatchFollows(c)'
  BY <1>2 DEF BatchFollows
<1> QED
  BY <1>1, <1>2, <1>3, <1>4, <1>5, ClientStep

LEMMA StreamStep == StreamInv /\ [StreamNext]_streamVars => StreamInv'
<1> SUFFICES ASSUME StreamInv, [StreamNext]_streamVars PROVE StreamInv'
  OBVIOUS
<1>1. CASE \E w \in Writers : Record(w) \/ ReadMax(w) \/ Insert(w) \/ Refused(w) \/ Interrupted(w)
  BY <1>1, RecordStep, ReadMaxStep, InsertStep, RefusedStep, InterruptedStep
<1>2. CASE \E c \in Clients : Connect(c) \/ Poll(c) \/ Send(c) \/ Receive(c) \/ Drop(c)
  BY <1>2, ConnectStep, PollStep, SendStep, ReceiveStep, DropStep
<1>3. CASE UNCHANGED streamVars
  BY <1>3 DEF streamVars, StreamInv, StreamTypeOK, RowsNumbered, WritersBehind, InOrder,
              NumberedFrom, BatchFollows, Numbers
<1> QED
  BY <1>1, <1>2, <1>3 DEF StreamNext

-----------------------------------------------------------------------------
(* Refusals *)

\* Each failed attempt is answered by a row; so is the one that is about to fail.
RefusalInv ==
    \A w \in Writers :
        /\ writer[w].tries <= Cardinality(rows) - writer[w].before
        /\ writer[w].pc = "insert" => writer[w].tries <= writer[w].next - 1 - writer[w].before

LEMMA InitRefusal == StreamInit => RefusalInv
<1>1. Cardinality({}) = 0
  BY FS_EmptySet
<1> QED
  BY <1>1 DEF StreamInit, RefusalInv

LEMMA RefusalStep == StreamInv /\ RefusalInv /\ [StreamNext]_streamVars => RefusalInv'
<1> SUFFICES ASSUME StreamInv, RefusalInv, [StreamNext]_streamVars, NEW v \in Writers
             PROVE  /\ writer'[v].tries <= Cardinality(rows') - writer'[v].before
                    /\ writer'[v].pc = "insert" => writer'[v].tries <= writer'[v].next - 1 - writer'[v].before
  BY DEF RefusalInv
<1> DEFINE n == Cardinality(rows)
<1>1. n \in Nat
  BY CountIsNat DEF StreamInv
<1>2. writer \in [Writers -> Call] /\ writer[v] \in Call
  BY DEF StreamInv, StreamTypeOK, Call
<1>3. /\ writer[v].tries <= n - writer[v].before
      /\ writer[v].pc = "insert" => writer[v].tries <= writer[v].next - 1 - writer[v].before
  BY DEF RefusalInv
<1>4. CASE \E w \in Writers : Insert(w)
  <2>1. PICK w \in Writers : Insert(w)
    BY <1>4
  <2>2. Cardinality(rows') = n + 1
    BY <2>1, Appended
  <2>3. /\ writer'[v].tries = writer[v].tries /\ writer'[v].before = writer[v].before
        /\ writer'[v].next = writer[v].next
        /\ writer'[v].pc = "insert" => writer[v].pc = "insert"
    BY <1>2, <2>1 DEF Insert, Call
  <2> HIDE DEF n
  <2> QED
    BY <1>1, <1>2, <1>3, <2>2, <2>3 DEF Call
<1>5. CASE rows' = rows /\ writer'[v] = writer[v]
  BY <1>3, <1>5
<1>6. CASE Record(v)
  BY <1>1, <1>2, <1>6 DEF Record
<1>7. CASE ReadMax(v)
  <2>1. Highest(Numbers(rows)) = n
    BY <1>1, HighestOfRange DEF StreamInv, RowsNumbered
  <2>2. /\ writer'[v].tries = writer[v].tries /\ writer'[v].before = writer[v].before
        /\ writer'[v].next = n + 1 /\ rows' = rows
    BY <1>2, <1>7, <2>1 DEF ReadMax
  <2> QED
    BY <1>1, <1>2, <1>3, <2>2 DEF Call
<1>8. CASE Refused(v)
  <2>1. /\ writer'[v].tries = writer[v].tries + 1 /\ writer'[v].before = writer[v].before
        /\ writer'[v].pc # "insert" /\ rows' = rows
    BY <1>2, <1>8 DEF Refused, Again, Call
  <2>2. writer[v].next \in 1..n /\ writer[v].pc = "insert"
    BY <1>8 DEF Refused, Free, StreamInv, RowsNumbered
  <2> QED
    BY <1>1, <1>2, <1>3, <2>1, <2>2 DEF Call
<1>9. CASE Interrupted(v)
  BY <1>2, <1>3, <1>9 DEF Interrupted
<1>10. ASSUME NEW w \in Writers \ {v}, Record(w) \/ ReadMax(w) \/ Refused(w) \/ Interrupted(w)
       PROVE  rows' = rows /\ writer'[v] = writer[v]
  BY <1>2, <1>10 DEF Record, ReadMax, Refused, Interrupted
<1>11. ASSUME NEW c \in Clients, Connect(c) \/ Poll(c) \/ Send(c) \/ Receive(c) \/ Drop(c)
       PROVE  rows' = rows /\ writer'[v] = writer[v]
  BY <1>11 DEF Connect, Poll, Send, Receive, Drop
<1>12. CASE UNCHANGED streamVars
  BY <1>5, <1>12 DEF streamVars
<1> QED
  BY <1>4, <1>5, <1>6, <1>7, <1>8, <1>9, <1>10, <1>11, <1>12 DEF StreamNext

-----------------------------------------------------------------------------
(* Refinement *)

\* The history that the rows stand for.
LEMMA HistoryIsLog ==
    ASSUME StreamInv
    PROVE  /\ absHistory \in Seq(EventRow) /\ Len(absHistory) = Cardinality(rows)
           /\ \A i \in 1..Cardinality(rows) : absHistory[i] \in rows /\ absHistory[i].seq = i
<1>1. Cardinality(rows) \in Nat
  BY CountIsNat DEF StreamInv
<1>2. ASSUME NEW i \in 1..Cardinality(rows)
      PROVE  (CHOOSE e \in rows : e.seq = i) \in rows /\ (CHOOSE e \in rows : e.seq = i).seq = i
  <2>1. \E e \in rows : e.seq = i
    BY DEF StreamInv, RowsNumbered, Numbers
  <2> QED
    BY <2>1
<1>3. \A i \in 1..Cardinality(rows) : absHistory[i] \in rows /\ absHistory[i].seq = i
  BY <1>2 DEF absHistory
<1>4. rows \subseteq EventRow
  BY DEF StreamInv, StreamTypeOK
<1>5. absHistory \in [1..Cardinality(rows) -> EventRow]
  BY <1>2, <1>4 DEF absHistory
<1> QED
  BY <1>1, <1>3, <1>5

LEMMA ReplayInit == StreamInit => Replay!RLInit
<1> SUFFICES ASSUME StreamInit PROVE absHistory = <<>> /\ received = [c \in Clients |-> <<>>]
  BY DEF Replay!RLInit
<1>1. Cardinality(rows) = 0
  BY FS_EmptySet DEF StreamInit
<1>2. absHistory \in Seq(EventRow) /\ Len(absHistory) = 0
  BY <1>1, HistoryIsLog, InitStream
<1> QED
  BY <1>2 DEF StreamInit

LEMMA ReplayStep ==
    StreamInv /\ StreamInv' /\ [StreamNext]_streamVars => [Replay!RLNext]_<<absHistory, received>>
<1> SUFFICES ASSUME StreamInv, StreamInv', [StreamNext]_streamVars
             PROVE  [Replay!RLNext]_<<absHistory, received>>
  OBVIOUS
<1>1. CASE \E w \in Writers : Insert(w)
  <2>1. PICK w \in Writers : Insert(w)
    BY <1>1
  <2>2. Cardinality(rows) \in Nat /\ Cardinality(rows') = Cardinality(rows) + 1 /\ rows \subseteq rows'
    BY <2>1, Appended, CountIsNat DEF StreamInv
  <2>3. /\ absHistory' \in Seq(EventRow) /\ Len(absHistory') = Cardinality(rows')
        /\ \A i \in 1..Cardinality(rows') : absHistory'[i] \in rows' /\ absHistory'[i].seq = i
    <3>1. (/\ absHistory \in Seq(EventRow) /\ Len(absHistory) = Cardinality(rows)
           /\ \A i \in 1..Cardinality(rows) : absHistory[i] \in rows /\ absHistory[i].seq = i)'
      BY HistoryIsLog, PTL
    <3> QED
      BY <3>1
  <2>4. \A i \in 1..Len(absHistory) : absHistory'[i] = absHistory[i]
    <3> SUFFICES ASSUME NEW i \in 1..Cardinality(rows) PROVE absHistory'[i] = absHistory[i]
      BY HistoryIsLog
    <3>1. absHistory[i] \in rows' /\ absHistory[i].seq = i
      BY <2>2, HistoryIsLog
    <3>2. absHistory'[i] \in rows' /\ absHistory'[i].seq = i
      BY <2>2, <2>3
    <3>3. \A e, f \in rows' : e.seq = f.seq => e = f
      BY DEF StreamInv, RowsNumbered
    <3> HIDE DEF absHistory
    <3> QED
      BY <3>1, <3>2, <3>3
  <2>5. Len(absHistory') = Len(absHistory) + 1
    <3>1. Len(absHistory) = Cardinality(rows)
      BY HistoryIsLog
    <3> QED
      BY <2>2, <2>3, <3>1
  <2> QED
    BY <2>1, <2>3, <2>4, <2>5 DEF Insert, Replay!RLNext, Replay!RLAppend
<1>2. CASE \E c \in Clients : Receive(c)
  <2>1. PICK c \in Clients : Receive(c)
    BY <1>2
  <2>2. /\ wire[c] \in Seq(rows) /\ wire[c] # <<>> /\ received[c] \in Seq(rows)
        /\ Len(received[c]) \in Nat /\ NumberedFrom(Len(received[c]), wire[c])
    BY <2>1 DEF Receive, StreamInv, StreamTypeOK, InOrder
  <2>3. Head(wire[c]) \in rows /\ Head(wire[c]).seq = Len(received[c]) + 1
    BY <2>2, TailNumbered
  <2>4. Len(received[c]) + 1 \in 1..Cardinality(rows)
    BY <2>3 DEF StreamInv, RowsNumbered, Numbers
  <2>5. absHistory[Len(received[c]) + 1] = Head(wire[c])
    <3>1. /\ absHistory[Len(received[c]) + 1] \in rows
          /\ absHistory[Len(received[c]) + 1].seq = Len(received[c]) + 1
      BY <2>4, HistoryIsLog
    <3> QED
      BY <2>3, <3>1 DEF StreamInv, RowsNumbered
  <2>6. Len(received[c]) < Len(absHistory)
    <3>1. Len(absHistory) = Cardinality(rows) /\ Cardinality(rows) \in Nat
      BY HistoryIsLog, CountIsNat DEF StreamInv
    <3> QED
      BY <2>2, <2>4, <3>1
  <2>7. received' = [received EXCEPT ![c] = Append(@, absHistory[Len(@) + 1])]
    BY <2>1, <2>5 DEF Receive
  <2>8. absHistory' = absHistory
    BY <2>1 DEF Receive, absHistory
  <2> QED
    BY <2>6, <2>7, <2>8 DEF Replay!RLNext, Replay!RLShow
<1>3. ASSUME rows' = rows, received' = received PROVE UNCHANGED <<absHistory, received>>
  BY <1>3 DEF absHistory
<1>4. ASSUME NEW w \in Writers, Record(w) \/ ReadMax(w) \/ Refused(w) \/ Interrupted(w)
      PROVE  rows' = rows /\ received' = received
  BY <1>4 DEF Record, ReadMax, Refused, Interrupted
<1>5. ASSUME NEW c \in Clients, Connect(c) \/ Poll(c) \/ Send(c) \/ Drop(c)
      PROVE  rows' = rows /\ received' = received
  BY <1>5 DEF Connect, Poll, Send, Drop
<1>6. CASE UNCHANGED streamVars
  BY <1>3, <1>6 DEF streamVars
<1> QED
  BY <1>1, <1>2, <1>3, <1>4, <1>5, <1>6 DEF StreamNext

-----------------------------------------------------------------------------
(* Theorems *)

\* The inductive invariant: the rows are numbered without a gap, every writer is
\* at or behind the end of the log, and every stream stands where its client and
\* its wire end.
THEOREM StreamInvariant == StreamSpec => []StreamInv
  BY InitStream, StreamStep, PTL DEF StreamSpec

\* Every row, call, stream and message has its form (execution_event_repository.py,
\* sse.py), whatever the interleaving.
THEOREM StreamTypes == StreamSpec => []StreamTypeOK
<1>1. StreamInv => StreamTypeOK
  BY DEF StreamInv
<1> QED
  BY <1>1, StreamInvariant, PTL

\* What a client received has the numbers 1, 2, ... of the log, and each number
\* stands for one event: no gap, no repetition, nothing recorded behind the
\* cursor of a stream (sse.py), for any number of writers and reconnections.
THEOREM GaplessDelivery == StreamSpec => []ReceivesPrefix
<1>1. StreamInv => ReceivesPrefix
  <2> SUFFICES ASSUME StreamInv, NEW c \in Clients, NEW i \in 1..Len(received[c])
               PROVE  {e \in rows : e.seq = i} = {received[c][i]}
    BY DEF ReceivesPrefix
  <2>1. received[c] \in Seq(rows)
    BY DEF StreamInv, StreamTypeOK
  <2>2. received[c][i] \in rows
    BY <2>1
  <2>3. received[c][i].seq = i
    <3>1. NumberedFrom(0, received[c])
      BY DEF StreamInv, InOrder
    <3>2. received[c][i].seq = 0 + i
      BY <3>1 DEF NumberedFrom
    <3> QED
      BY <2>1, <3>2
  <2>4. \A e \in rows : e.seq = i => e = received[c][i]
    BY <2>2, <2>3 DEF StreamInv, RowsNumbered
  <2> QED
    BY <2>2, <2>3, <2>4
<1> QED
  BY <1>1, StreamInvariant, PTL

\* A writer is refused no more often than others got an event recorded since its
\* call began (record, _MAX_SEQUENCE_RETRIES): contention alone cannot make
\* every writer give up.
THEOREM RefusalsAnswered == StreamSpec => []RefusalsAreProgress
<1>1. RefusalInv => RefusalsAreProgress
  BY DEF RefusalInv, RefusalsAreProgress
<1> QED
  BY <1>1, InitRefusal, RefusalStep, StreamInvariant, PTL DEF StreamSpec

\* Flight recorder and stream implement the one log that every client is shown
\* from its beginning (ReplayedLog): a recorded event is an entry appended to it,
\* a received one is the next entry shown, everything else is invisible.
THEOREM RefinesReplayedLog == StreamSpec => IsReplayedLog
<1>1. StreamInv /\ [StreamNext]_streamVars => StreamInv'
  BY StreamStep
<1> QED
  BY <1>1, InitStream, ReplayInit, ReplayStep, PTL DEF StreamSpec, IsReplayedLog, Replay!RLSpec
=============================================================================
