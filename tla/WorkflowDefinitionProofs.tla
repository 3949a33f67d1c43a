----------------------- MODULE WorkflowDefinitionProofs -----------------------
(***************************************************************************)
(* Proofs about WorkflowDefinition, for every graph of any nodes and any   *)
(* number of authors and starters: the validator accepts exactly the       *)
(* graphs that can be run, a published version can be run unless an edit   *)
(* overtook its publication, no version is lost, and no run starts on an   *)
(* entry that was withdrawn before it was asked for.                       *)
(***************************************************************************)
EXTENDS WorkflowDefinition, FiniteSetTheorems, WellFoundedInduction, TLAPS

-----------------------------------------------------------------------------
(***************************************************************************)
(* Loops                                                                   *)
(***************************************************************************)
LEMMA LeastNatural ==
  ASSUME NEW S \in SUBSET Nat, S # {}
  PROVE  \E x \in S : \A y \in S : x <= y
<1>1. PICK x \in S : \A y \in S : ~(<<y, x>> \in OpToRel(<, Nat))
  BY NatLessThanWellFounded, WFMin
<1>2. \A y \in S : x <= y
  <2> SUFFICES ASSUME NEW y \in S, y < x PROVE FALSE
    OBVIOUS
  <2>1. <<y, x>> \in OpToRel(<, Nat)
    BY DEF OpToRel
  <2>2. QED
    BY <1>1, <2>1
<1>3. QED
  BY <1>2

\* Induction up to N, on a set in place of a predicate.
LEMMA InductionUpTo ==
  ASSUME NEW N \in Nat, NEW S, 0 \in S, \A k \in 0 .. N - 1 : k \in S => k + 1 \in S
  PROVE  0 .. N \subseteq S
<1> SUFFICES ASSUME 0 .. N \ S # {} PROVE FALSE
  OBVIOUS
<1>1. PICK x \in 0 .. N \ S : \A y \in 0 .. N \ S : x <= y
  BY LeastNatural, 0 .. N \ S \in SUBSET Nat
<1>2. x # 0 /\ x - 1 \in 0 .. N - 1 /\ x - 1 \in S
  BY <1>1
<1>3. QED
  BY <1>1, <1>2

\* The states of a loop exist.
LoopStates(N, D, body, start) ==
    {s \in [0 .. N -> D] : s[0] = start /\ \A k \in 1 .. N : s[k] = body[k][s[k - 1]]}

LEMMA LoopHasStates ==
  ASSUME NEW N \in Nat, NEW D, NEW start \in D, NEW body \in [1 .. N -> [D -> D]]
  PROVE  LoopStates(N, D, body, start) # {}
<1> DEFINE Runs(s, m) == s[0] = start /\ \A k \in 1 .. m : s[k] = body[k][s[k - 1]]
           P == {m \in 0 .. N : \E s \in [0 .. m -> D] : Runs(s, m)}
<1>1. 0 \in P
  <2> DEFINE s == [k \in 0 .. 0 |-> start]
  <2>1. s \in [0 .. 0 -> D] /\ Runs(s, 0)
    OBVIOUS
  <2> HIDE DEF s, Runs
  <2>2. QED
    BY <2>1
<1>2. ASSUME NEW m \in 0 .. N - 1, m \in P PROVE m + 1 \in P
  <2>1. PICK s \in [0 .. m -> D] : Runs(s, m)
    BY <1>2
  <2> DEFINE t == [k \in 0 .. m + 1 |-> IF k = m + 1 THEN body[m + 1][s[m]] ELSE s[k]]
  <2>2. t \in [0 .. m + 1 -> D]
    <3>1. body[m + 1] \in [D -> D] /\ s[m] \in D
      OBVIOUS
    <3>2. \A k \in 0 .. m + 1 : k # m + 1 => k \in 0 .. m
      OBVIOUS
    <3>3. QED
      BY <3>1, <3>2
  <2>3. \A k \in 0 .. m + 1 : t[k] = IF k = m + 1 THEN body[m + 1][s[m]] ELSE s[k]
    OBVIOUS
  <2> HIDE DEF t
  <2>4. t[0] = start
    BY <2>1, <2>3
  <2>5. ASSUME NEW k \in 1 .. m + 1 PROVE t[k] = body[k][t[k - 1]]
    <3>1. t[k - 1] = s[k - 1]
      BY <2>3
    <3>2. CASE k = m + 1
      BY <2>3, <3>1, <3>2
    <3>3. CASE k # m + 1
      BY <2>1, <2>3, <3>1, <3>3
    <3>4. QED
      BY <3>2, <3>3
  <2>6. Runs(t, m + 1)
    BY <2>4, <2>5
  <2> HIDE DEF Runs
  <2>7. QED
    BY <2>2, <2>6
<1>3. N \in P
  <2> HIDE DEF P
  <2>1. 0 .. N \subseteq P
    BY <1>1, <1>2, InductionUpTo
  <2>2. QED
    BY <2>1
<1>4. PICK s \in [0 .. N -> D] : Runs(s, N)
  BY <1>3
<1>5. s \in LoopStates(N, D, body, start)
  BY <1>4 DEF LoopStates
<1>6. QED
  BY <1>5

\* The rule of loops: what each round carries from I[k - 1] to I[k] carries the
\* start to the end.
LEMMA LoopKeeps ==
  ASSUME NEW N \in Nat, NEW D, NEW start \in D, NEW body \in [1 .. N -> [D -> D]],
         NEW I, start \in I[0], \A k \in 1 .. N : \A s \in D : s \in I[k - 1] => body[k][s] \in I[k]
  PROVE  Loop(N, body, start) \in D /\ Loop(N, body, start) \in I[N]
<1> DEFINE Is(s) == s = [k \in 0 .. N |-> IF k = 0 THEN start ELSE body[k][s[k - 1]]]
           after == CHOOSE s : Is(s)
<1>1. \E s : Is(s)
  <2>0. PICK s : s \in LoopStates(N, D, body, start)
    BY LoopHasStates
  <2>1. s \in [0 .. N -> D] /\ s[0] = start /\ \A k \in 1 .. N : s[k] = body[k][s[k - 1]]
    BY <2>0 DEF LoopStates
  <2>2. \A k \in 0 .. N : s[k] = IF k = 0 THEN start ELSE body[k][s[k - 1]]
    BY <2>1
  <2>3. Is(s)
    BY <2>1, <2>2
  <2> HIDE DEF Is
  <2>4. QED
    BY <2>3
<1>2. Is(after)
  <2> HIDE DEF Is
  <2>1. QED
    BY <1>1
<1>3. Loop(N, body, start) = after[N]
  BY DEF Loop
<1> HIDE DEF after
<1>4. after[0] = start /\ \A k \in 1 .. N : after[k] = body[k][after[k - 1]]
  BY <1>2
<1> HIDE DEF Is
<1> DEFINE P == {k \in 0 .. N : after[k] \in D /\ after[k] \in I[k]}
<1>5. 0 \in P
  BY <1>4
<1>6. ASSUME NEW k \in 0 .. N - 1, k \in P PROVE k + 1 \in P
  <2>1. k + 1 \in 1 .. N /\ (k + 1) - 1 = k
    OBVIOUS
  <2>2. after[k] \in D /\ after[k] \in I[k]
    BY <1>6
  <2>3. after[k + 1] = body[k + 1][after[k]]
    BY <1>4, <2>1
  <2>4. body[k + 1] \in [D -> D]
    BY <2>1
  <2>5. QED
    BY <2>1, <2>2, <2>3, <2>4
<1>7. N \in P
  <2> HIDE DEF P
  <2>1. 0 .. N \subseteq P
    BY <1>5, <1>6, InductionUpTo
  <2>2. QED
    BY <2>1
<1>8. QED
  BY <1>3, <1>7

-----------------------------------------------------------------------------
(***************************************************************************)
(* The breadth-first search                                                *)
(***************************************************************************)
\* What the schema promises of the rows of a version, or of any part of them.
EdgeRows == [from : Node, to : Node, by : Author, cond : BOOLEAN]
GraphRows == [nodes : SUBSET Node, config : [Node -> Entry \cup {Nothing}],
              edges : SUBSET EdgeRows, gone : SUBSET Node]
IsGraph(g) == g \in GraphRows /\ IsFiniteSet(g.edges) /\ Readable(g)

IsRelation(R) == \A r \in R : r[2] \in Node
ClosedUnder(R, T) == \A r \in R : r[1] \in T => r[2] \in T

LEMMA NodesAreFinite == IsFiniteSet(Node) /\ Cardinality(Node) \in Nat
BY DefinitionAssumption, FS_CardinalityType DEF DefinitionAssumption

LEMMA NodesAreOrdered == \A n \in Node : \E i \in Rounds : Order[i] = n
BY DefinitionAssumption DEF DefinitionAssumption, Rounds

LEMMA OrderIsOfNodes == \A i \in Rounds : Order[i] \in Node
BY DefinitionAssumption DEF DefinitionAssumption, Rounds

Wider(R, T) == T \cup {r[2] : r \in {q \in R : q[1] \in T}}

LEMMA WiderIsWider ==
  ASSUME NEW R, IsRelation(R), NEW T \in SUBSET Node
  PROVE  /\ Wider(R, T) \in SUBSET Node
         /\ T \subseteq Wider(R, T)
         /\ Wider(R, T) = T <=> ClosedUnder(R, T)
         /\ \A U : T \subseteq U /\ ClosedUnder(R, U) => Wider(R, T) \subseteq U
BY DEF IsRelation, Wider, ClosedUnder

\* The search finds nothing outside a closed set that holds its starting points,
\* and what it finds is closed.
LEMMA ReachIsTheClosure ==
  ASSUME NEW R, IsRelation(R), NEW S \in SUBSET Node
  PROVE  /\ Reach(R, S) \in SUBSET Node
         /\ S \subseteq Reach(R, S)
         /\ ClosedUnder(R, Reach(R, S))
         /\ \A U \in SUBSET Node : S \subseteq U /\ ClosedUnder(R, U) => Reach(R, S) \subseteq U
<1> DEFINE N == Cardinality(Node)
           D == SUBSET Node
           body == [k \in 1 .. N |-> [T \in D |-> Wider(R, T)]]
<1>1. N \in Nat
  BY NodesAreFinite
<1>2. Reach(R, S) = Loop(N, body, S)
  BY DEF Reach, Rounds, Wider
<1>3. body \in [1 .. N -> [D -> D]] /\ \A k \in 1 .. N, T \in D : body[k][T] = Wider(R, T)
  BY WiderIsWider
<1>4. S \in D
  OBVIOUS
<1> HIDE DEF body, N, D
<1>5. ASSUME NEW U \in SUBSET Node, S \subseteq U, ClosedUnder(R, U)
      PROVE  Reach(R, S) \subseteq U
  <2> DEFINE I == [k \in 0 .. N |-> SUBSET U]
  <2>1. S \in I[0]
    BY <1>1, <1>5
  <2>2. \A k \in 1 .. N : \A T \in D : T \in I[k - 1] => body[k][T] \in I[k]
    BY <1>1, <1>3, <1>5, WiderIsWider DEF D
  <2> HIDE DEF I
  <2>3. Loop(N, body, S) \in I[N]
    BY <1>1, <1>3, <1>4, <2>1, <2>2, LoopKeeps
  <2>4. QED
    BY <1>1, <1>2, <2>3 DEF I
<1>6. /\ Reach(R, S) \in SUBSET Node /\ S \subseteq Reach(R, S)
      /\ ClosedUnder(R, Reach(R, S)) \/ Cardinality(Reach(R, S)) >= N
  <2> DEFINE OK(T, k) == T \in D /\ S \subseteq T /\ (ClosedUnder(R, T) \/ Cardinality(T) >= k)
             I == [k \in 0 .. N |-> {T \in D : OK(T, k)}]
  <2>1. S \in I[0]
    BY <1>1, <1>4, FS_Subset, FS_CardinalityType, NodesAreFinite DEF D
  <2>2. ASSUME NEW k \in 1 .. N, NEW T \in D, OK(T, k - 1)
        PROVE  OK(Wider(R, T), k)
    <3>1. CASE ClosedUnder(R, T)
      BY <2>2, <3>1, WiderIsWider DEF D
    <3>2. CASE ~ClosedUnder(R, T)
      <4>1. IsFiniteSet(T) /\ IsFiniteSet(Wider(R, T)) /\ T \subseteq Wider(R, T) /\ T # Wider(R, T)
        BY <3>2, WiderIsWider, FS_Subset, NodesAreFinite DEF D
      <4>2. Cardinality(T) < Cardinality(Wider(R, T)) /\ Cardinality(T) \in Nat /\ Cardinality(Wider(R, T)) \in Nat
        BY <4>1, FS_Subset, FS_CardinalityType
      <4>3. Cardinality(Wider(R, T)) >= k
        BY <1>1, <2>2, <3>2, <4>2
      <4>4. QED
        BY <2>2, <4>3, WiderIsWider DEF D
    <3>3. QED
      BY <3>1, <3>2
  <2>3. \A k \in 1 .. N : \A T \in D : T \in I[k - 1] => body[k][T] \in I[k]
    <3> SUFFICES ASSUME NEW k \in 1 .. N, NEW T \in D, T \in I[k - 1] PROVE body[k][T] \in I[k]
      OBVIOUS
    <3>1. k - 1 \in 0 .. N /\ k \in 0 .. N
      BY <1>1
    <3>2. OK(T, k - 1)
      BY <3>1
    <3>3. OK(Wider(R, T), k)
      BY <2>2, <3>2
    <3> HIDE DEF OK
    <3>4. Wider(R, T) \in D
      BY <3>3 DEF OK
    <3>5. QED
      BY <1>3, <3>1, <3>3, <3>4
  <2> HIDE DEF I
  <2>4. Loop(N, body, S) \in I[N]
    BY <1>1, <1>3, <1>4, <2>1, <2>3, LoopKeeps
  <2>5. QED
    BY <1>1, <1>2, <2>4 DEF I, D
<1>7. ClosedUnder(R, Reach(R, S))
  <2> SUFFICES ASSUME Cardinality(Reach(R, S)) >= N PROVE ClosedUnder(R, Reach(R, S))
    BY <1>6
  <2>1. Reach(R, S) = Node
    <3>1. Cardinality(Reach(R, S)) \in Nat
      BY <1>6, FS_Subset, FS_CardinalityType, NodesAreFinite
    <3>2. Cardinality(Reach(R, S)) <= N /\ (N = Cardinality(Reach(R, S)) => Node = Reach(R, S))
      BY <1>6, FS_Subset, NodesAreFinite DEF N
    <3>3. QED
      BY <1>1, <3>1, <3>2
  <2>2. QED
    BY <2>1 DEF ClosedUnder, IsRelation
<1>8. QED
  BY <1>5, <1>6, <1>7

-----------------------------------------------------------------------------
(***************************************************************************)
(* The depth-first search                                                  *)
(***************************************************************************)
Table == [Node -> [Search -> Search]]

Follow(g, call, n) ==
    [i \in Rounds |-> [s \in Search |->
        IF s.found \/ ~Linked(g, n, Order[i]) THEN s
        ELSE IF Order[i] \notin s.visited THEN call[Order[i]][s]
        ELSE [s EXCEPT !.found = Order[i] \in s.stack]]]
\* What it makes of s at its neighbour m.
Met(g, call, n, m, s) ==
    IF s.found \/ ~Linked(g, n, m) THEN s
    ELSE IF m \notin s.visited THEN call[m][s]
    ELSE [s EXCEPT !.found = m \in s.stack]
Entered(n, d) == [visited |-> d.visited \cup {n}, stack |-> d.stack \cup {n}, found |-> FALSE]
Left(g, call, n, d) == Loop(Cardinality(Node), Follow(g, call, n), Entered(n, d))

LEMMA HasCycleIsLeft ==
  ASSUME NEW g, NEW call, NEW n, NEW d
  PROVE  HasCycle(g, call, n, d) =
            IF Left(g, call, n, d).found THEN Left(g, call, n, d) ELSE Popped(Left(g, call, n, d), n)
BY DEF HasCycle, Left, Follow, Entered

LEMMA EnteredIsSearch ==
  ASSUME NEW n \in Node, NEW d \in Search
  PROVE  /\ Entered(n, d) \in Search
         /\ Entered(n, d).visited = d.visited \cup {n}
         /\ Entered(n, d).stack = d.stack \cup {n}
         /\ Entered(n, d).found = FALSE
BY DEF Entered, Search

LEMMA PoppedIsSearch ==
  ASSUME NEW n, NEW d \in Search
  PROVE  /\ Popped(d, n) \in Search
         /\ Popped(d, n).visited = d.visited
         /\ Popped(d, n).stack = d.stack \ {n}
         /\ Popped(d, n).found = d.found
BY DEF Popped, Search

LEMMA FollowIsStep ==
  ASSUME NEW g, NEW call \in Table, NEW n \in Node
  PROVE  /\ Follow(g, call, n) \in [1 .. Cardinality(Node) -> [Search -> Search]]
         /\ \A i \in 1 .. Cardinality(Node), s \in Search :
               Follow(g, call, n)[i][s] = Met(g, call, n, Order[i], s)
<1>1. \A i \in Rounds, s \in Search : Follow(g, call, n)[i][s] = Met(g, call, n, Order[i], s)
  BY DEF Follow, Met
<1>2. \A i \in Rounds, s \in Search : Follow(g, call, n)[i][s] \in Search
  <2> SUFFICES ASSUME NEW i \in Rounds, NEW s \in Search PROVE Follow(g, call, n)[i][s] \in Search
    OBVIOUS
  <2>1. call[Order[i]][s] \in Search
    BY OrderIsOfNodes DEF Table
  <2>2. [s EXCEPT !.found = Order[i] \in s.stack] \in Search
    <3>1. \A b \in BOOLEAN : [s EXCEPT !.found = b] \in Search
      BY DEF Search
    <3>2. (Order[i] \in s.stack) \in BOOLEAN
      OBVIOUS
    <3>3. QED
      BY <3>1, <3>2
  <2>3. QED
    BY <1>1, <2>1, <2>2 DEF Met
<1>3. Follow(g, call, n) \in [Rounds -> [Search -> Search]]
  BY <1>2 DEF Follow
<1>4. QED
  BY <1>1, <1>3 DEF Rounds

Meets(g, call, n) ==
    \A i \in 1 .. Cardinality(Node), s \in Search : Follow(g, call, n)[i][s] = Met(g, call, n, Order[i], s)

LEMMA FollowMeets ==
  ASSUME NEW g, NEW call \in Table, NEW n \in Node
  PROVE  Meets(g, call, n)
BY FollowIsStep DEF Meets

LEMMA HasCycleIsSearch ==
  ASSUME NEW g, NEW call \in Table, NEW n \in Node, NEW d \in Search
  PROVE  Left(g, call, n, d) \in Search /\ HasCycle(g, call, n, d) \in Search
<1> DEFINE N == Cardinality(Node)
           I == [i \in 0 .. N |-> Search]
           body == Follow(g, call, n)
<1>1. N \in Nat /\ body \in [1 .. N -> [Search -> Search]] /\ Entered(n, d) \in Search
  BY NodesAreFinite, FollowIsStep, EnteredIsSearch
<1> HIDE DEF body
<1>2. Entered(n, d) \in I[0] /\ \A i \in 1 .. N : \A s \in Search : s \in I[i - 1] => body[i][s] \in I[i]
  BY <1>1
<1> HIDE DEF N, I
<1>3. Loop(N, body, Entered(n, d)) \in Search
  BY <1>1, <1>2, LoopKeeps
<1>4. Left(g, call, n, d) \in Search
  BY <1>3 DEF Left, N, body
<1>5. QED
  BY <1>4, HasCycleIsLeft, PoppedIsSearch

\* The search is the last of a chain of tables, each of which calls the one before.
OutOfDepth == [n \in Node |-> [d \in Search |-> [d EXCEPT !.found = TRUE]]]
Calling(g, call) == [n \in Node |-> [d \in Search |-> HasCycle(g, call, n, d)]]

LEMMA CallingIsTable ==
  ASSUME NEW g
  PROVE  /\ OutOfDepth \in Table
         /\ \A call \in Table : Calling(g, call) \in Table
<1>1. \A d \in Search : [d EXCEPT !.found = TRUE] \in Search
  BY DEF Search
<1>2. OutOfDepth \in Table
  BY <1>1 DEF OutOfDepth, Table
<1>3. ASSUME NEW call \in Table PROVE Calling(g, call) \in Table
  <2>1. \A n \in Node, d \in Search : HasCycle(g, call, n, d) \in Search
    BY HasCycleIsSearch
  <2>2. QED
    BY <2>1 DEF Calling, Table
<1>4. QED
  BY <1>2, <1>3

LEMMA DepthFirstIsChain ==
  ASSUME NEW g
  PROVE  \E calls : /\ \A k \in 0 .. Cardinality(Node) : calls[k] \in Table
                    /\ calls[0] = OutOfDepth
                    /\ \A k \in 1 .. Cardinality(Node) : calls[k] = Calling(g, calls[k - 1])
                    /\ DepthFirst(g) = calls[Cardinality(Node)]
<1> DEFINE N == Cardinality(Node)
           At(c, k) == [n \in Node |-> [d \in Search |->
                          IF k = 0 THEN [d EXCEPT !.found = TRUE] ELSE HasCycle(g, c[k - 1], n, d)]]
           Is(c) == c = [k \in 0 .. N |-> At(c, k)]
           calls == CHOOSE c : Is(c)
           body == [k \in 1 .. N |-> [call \in Table |-> Calling(g, call)]]
<1>1. N \in Nat
  BY NodesAreFinite
<1>2. body \in [1 .. N -> [Table -> Table]] /\ \A k \in 1 .. N, call \in Table : body[k][call] = Calling(g, call)
  BY CallingIsTable
<1>3. \A c : At(c, 0) = OutOfDepth
  BY DEF OutOfDepth
<1>4. \A c, k : k # 0 => At(c, k) = Calling(g, c[k - 1])
  BY DEF Calling
<1>5. DepthFirst(g) = calls[N]
  BY DEF DepthFirst
<1> HIDE DEF N, body, At
<1>6. PICK c : c \in LoopStates(N, Table, body, OutOfDepth)
  BY <1>1, <1>2, LoopHasStates, CallingIsTable
<1>7. /\ c \in [0 .. N -> Table] /\ c[0] = OutOfDepth
      /\ \A k \in 1 .. N : c[k] = Calling(g, c[k - 1])
  <2>1. c \in [0 .. N -> Table] /\ c[0] = OutOfDepth /\ \A k \in 1 .. N : c[k] = body[k][c[k - 1]]
    BY <1>6 DEF LoopStates
  <2>2. \A k \in 1 .. N : k - 1 \in 0 .. N /\ c[k - 1] \in Table
    BY <1>1, <2>1
  <2>3. QED
    BY <1>2, <2>1, <2>2
<1>8. ASSUME NEW k \in 0 .. N PROVE c[k] = At(c, k)
  <2>1. CASE k = 0
    BY <1>3, <1>7, <2>1
  <2>2. CASE k # 0
    <3>1. c[k] = Calling(g, c[k - 1])
      BY <1>1, <1>7, <2>2
    <3>2. At(c, k) = Calling(g, c[k - 1])
      BY <1>4, <2>2
    <3>3. QED
      BY <3>1, <3>2
  <2>3. QED
    BY <2>1, <2>2
<1>9. Is(c)
  BY <1>7, <1>8
<1>10. Is(calls)
  <2> HIDE DEF Is
  <2>1. QED
    BY <1>9
<1> HIDE DEF calls
<1>11. \A k \in 0 .. N : calls[k] = At(calls, k)
  BY <1>10
<1> HIDE DEF Is
<1>12. calls[0] = OutOfDepth /\ \A k \in 1 .. N : calls[k] = Calling(g, calls[k - 1])
  BY <1>1, <1>3, <1>4, <1>11
<1> DEFINE P == {k \in 0 .. N : calls[k] \in Table}
<1>13. 0 \in P
  BY <1>1, <1>12, CallingIsTable
<1>14. \A k \in 0 .. N - 1 : k \in P => k + 1 \in P
  <2> SUFFICES ASSUME NEW k \in 0 .. N - 1, k \in P PROVE k + 1 \in P
    OBVIOUS
  <2>1. k + 1 \in 1 .. N /\ (k + 1) - 1 = k
    BY <1>1
  <2>2. calls[k + 1] = Calling(g, calls[k])
    BY <1>12, <2>1
  <2>3. QED
    BY <2>1, <2>2, CallingIsTable
<1>15. \A k \in 0 .. N : calls[k] \in Table
  <2> HIDE DEF P
  <2>1. 0 .. N \subseteq P
    BY <1>1, <1>13, <1>14, InductionUpTo
  <2>2. QED
    BY <2>1 DEF P
<1>16. QED
  BY <1>5, <1>12, <1>15 DEF N

-----------------------------------------------------------------------------
(***************************************************************************)
(* The depth-first search misses no cycle: the nodes it has left behind    *)
(* can be ranked in the order it left them                                 *)
(***************************************************************************)
Ranked(g, B) ==
    \E f \in [B -> 1 .. Cardinality(B)] :
       \A e \in g.edges : e.from \in B => e.to \in B /\ f[e.to] < f[e.from]
Black(d) == d.visited \ d.stack
Consistent(g, d) == d.stack \subseteq d.visited /\ d.visited \subseteq g.nodes /\ Ranked(g, Black(d))

\* What a call of has_cycle(n) that found nothing makes of d.
Explored(g, n, d, r) == r.stack = d.stack /\ d.visited \cup {n} \subseteq r.visited /\ Consistent(g, r)
SoundCalls(g, call) ==
    \A n \in g.nodes, d \in Search :
       n \notin d.visited /\ Consistent(g, d) /\ ~call[n][d].found => Explored(g, n, d, call[n][d])

LEMMA RankedGrows ==
  ASSUME NEW g, NEW B, IsFiniteSet(B), Ranked(g, B), NEW n, n \notin B,
         \A e \in g.edges : e.from = n => e.to \in B
  PROVE  Ranked(g, B \cup {n})
<1> PICK f \in [B -> 1 .. Cardinality(B)] :
       \A e \in g.edges : e.from \in B => e.to \in B /\ f[e.to] < f[e.from]
  BY DEF Ranked
<1> DEFINE C == B \cup {n}
           h == [m \in C |-> IF m = n THEN Cardinality(B) + 1 ELSE f[m]]
<1>1. Cardinality(B) \in Nat /\ Cardinality(C) = Cardinality(B) + 1
  BY FS_CardinalityType, FS_AddElement
<1>2. h \in [C -> 1 .. Cardinality(C)]
  BY <1>1
<1>3. \A e \in g.edges : e.from \in C => e.to \in C /\ h[e.to] < h[e.from]
  <2> SUFFICES ASSUME NEW e \in g.edges, e.from \in C PROVE e.to \in C /\ h[e.to] < h[e.from]
    OBVIOUS
  <2>1. e.to \in B
    OBVIOUS
  <2>2. h[e.to] = f[e.to] /\ f[e.to] \in 1 .. Cardinality(B)
    BY <2>1
  <2>3. CASE e.from = n
    <3>1. h[e.from] = Cardinality(B) + 1
      BY <2>3
    <3>2. QED
      BY <1>1, <2>1, <2>2, <3>1
  <2>4. CASE e.from # n
    BY <2>1, <2>2, <2>4
  <2>5. QED
    BY <2>3, <2>4
<1> HIDE DEF h, C
<1>4. Ranked(g, C)
  BY <1>2, <1>3 DEF Ranked
<1>5. QED
  BY <1>4 DEF C

LEMMA NumberedIfRanked ==
  ASSUME NEW g, IsFiniteSet(g.nodes), Readable(g), Ranked(g, g.nodes)
  PROVE  \E number \in [g.nodes -> 1 .. Cardinality(g.nodes)] :
            \A e \in g.edges : number[e.from] < number[e.to]
<1> DEFINE K == Cardinality(g.nodes)
<1> PICK f \in [g.nodes -> 1 .. K] :
       \A e \in g.edges : e.from \in g.nodes => e.to \in g.nodes /\ f[e.to] < f[e.from]
  BY DEF Ranked
<1>0. K \in Nat
  BY FS_CardinalityType
<1> HIDE DEF K
<1> DEFINE number == [n \in g.nodes |-> K + 1 - f[n]]
<1>1. number \in [g.nodes -> 1 .. K]
  BY <1>0
<1>2. \A e \in g.edges : number[e.from] < number[e.to]
  <2> SUFFICES ASSUME NEW e \in g.edges PROVE number[e.from] < number[e.to]
    OBVIOUS
  <2>1. e.from \in g.nodes /\ e.to \in g.nodes /\ f[e.to] < f[e.from]
    BY DEF Readable
  <2>2. number[e.from] = K + 1 - f[e.from] /\ number[e.to] = K + 1 - f[e.to]
        /\ f[e.from] \in 1 .. K /\ f[e.to] \in 1 .. K
    BY <2>1
  <2> HIDE DEF number
  <2>3. QED
    BY <1>0, <2>1, <2>2
<1> HIDE DEF number
<1>3. QED
  BY <1>1, <1>2 DEF K

LEMMA HasCycleIsSound ==
  ASSUME NEW g, IsGraph(g), NEW call \in Table, SoundCalls(g, call),
         NEW n \in g.nodes, NEW d \in Search, n \notin d.visited, Consistent(g, d),
         ~HasCycle(g, call, n, d).found
  PROVE  Explored(g, n, d, HasCycle(g, call, n, d))
<1> DEFINE N == Cardinality(Node)
           body == Follow(g, call, n)
           Seen(s, i) == \A j \in 1 .. i : Linked(g, n, Order[j]) => Order[j] \in Black(s)
           OK(s, i) == \/ s.found
                       \/ /\ s.stack = d.stack \cup {n}
                          /\ d.visited \cup {n} \subseteq s.visited
                          /\ Consistent(g, s)
                          /\ Seen(s, i)
           I == [i \in 0 .. N |-> {s \in Search : OK(s, i)}]
<1>0. \A i \in 1 .. N, s \in Search : body[i][s] = Met(g, call, n, Order[i], s)
  <2> HIDE DEF OK, I
  <2>1. n \in Node
    BY DEF IsGraph, GraphRows
  <2>2. Meets(g, call, n)
    BY <2>1, FollowMeets
  <2>3. QED
    BY <2>2 DEF Meets
<1>1. N \in Nat /\ g.nodes \subseteq Node /\ n \in Node
  BY NodesAreFinite DEF IsGraph, GraphRows
<1>2. OK(Entered(n, d), 0) /\ Entered(n, d) \in Search
  <2> DEFINE s == Entered(n, d)
  <2>0. s \in Search /\ s.visited = d.visited \cup {n} /\ s.stack = d.stack \cup {n} /\ s.found = FALSE
    BY <1>1, EnteredIsSearch
  <2> HIDE DEF s
  <2>1. Black(s) = Black(d)
    BY <2>0 DEF Black, Consistent
  <2>2. Consistent(g, s)
    BY <2>0, <2>1 DEF Consistent
  <2>3. Seen(s, 0)
    OBVIOUS
  <2> HIDE DEF Seen
  <2>4. OK(s, 0)
    BY <2>0, <2>2, <2>3
  <2>5. QED
    BY <2>0, <2>4 DEF s
<1>3. ASSUME NEW i \in 1 .. N, NEW s \in Search, OK(s, i - 1)
      PROVE  OK(body[i][s], i)
  <2> DEFINE m == Order[i]
  <2>0. body[i][s] = IF s.found \/ ~Linked(g, n, m) THEN s
                     ELSE IF m \notin s.visited THEN call[m][s]
                     ELSE [s EXCEPT !.found = m \in s.stack]
    <3>1. body[i][s] = Met(g, call, n, m, s)
      <4> HIDE DEF body
      <4>1. QED
        BY <1>0
    <3>2. QED
      BY <3>1 DEF Met
  <2> HIDE DEF body
  <2>1. \A r : Seen(r, i - 1) /\ (Linked(g, n, m) => m \in Black(r)) => Seen(r, i)
    BY <1>1
  <2>2. CASE s.found
    BY <2>0, <2>2
  <2>3. CASE ~s.found /\ ~Linked(g, n, m)
    BY <1>3, <2>0, <2>1, <2>3
  <2>4. CASE ~s.found /\ Linked(g, n, m) /\ m \notin s.visited
    <3> DEFINE r == call[m][s]
    <3>1. body[i][s] = r
      BY <2>0, <2>4
    <3>2. m \in g.nodes
      BY <2>4 DEF Linked, IsGraph, Readable
    <3> SUFFICES ASSUME ~r.found PROVE OK(r, i)
      BY <3>1
    <3>3. Explored(g, m, s, r)
      BY <1>3, <2>4, <3>2 DEF SoundCalls
    <3>4. Black(s) \subseteq Black(r) /\ m \in Black(r)
      BY <1>3, <2>4, <3>3 DEF Explored, Black, Consistent
    <3>5. Seen(r, i - 1)
      BY <1>3, <2>4, <3>4
    <3>6. Seen(r, i)
      BY <2>1, <3>4, <3>5
    <3> HIDE DEF Seen
    <3>7. QED
      BY <1>3, <2>4, <3>3, <3>6 DEF Explored
  <2>5. CASE ~s.found /\ Linked(g, n, m) /\ m \in s.visited
    <3> DEFINE r == [s EXCEPT !.found = m \in s.stack]
    <3>1. body[i][s] = r
      BY <2>0, <2>5
    <3>2. r.visited = s.visited /\ r.stack = s.stack /\ r.found = (m \in s.stack)
      BY DEF Search
    <3> HIDE DEF r
    <3> SUFFICES ASSUME m \notin s.stack PROVE OK(r, i)
      BY <3>1, <3>2
    <3>3. Black(r) = Black(s) /\ m \in Black(r) /\ (Consistent(g, s) => Consistent(g, r))
      BY <2>5, <3>2 DEF Black, Consistent
    <3>4. Seen(r, i)
      BY <1>3, <2>1, <2>5, <3>3
    <3> HIDE DEF Seen
    <3>5. QED
      BY <1>3, <2>5, <3>2, <3>3, <3>4
  <2>6. QED
    BY <2>2, <2>3, <2>4, <2>5
<1> DEFINE left == Left(g, call, n, d)
<1>4. left \in Search /\ OK(left, N)
  <2>1. body \in [1 .. N -> [Search -> Search]]
    BY <1>1, FollowIsStep
  <2> HIDE DEF OK, body
  <2>2. Entered(n, d) \in I[0]
    BY <1>1, <1>2
  <2>3. \A i \in 1 .. N : \A s \in Search : s \in I[i - 1] => body[i][s] \in I[i]
    <3> SUFFICES ASSUME NEW i \in 1 .. N, NEW s \in Search, s \in I[i - 1] PROVE body[i][s] \in I[i]
      OBVIOUS
    <3>1. i - 1 \in 0 .. N /\ i \in 0 .. N
      BY <1>1
    <3>2. OK(s, i - 1)
      BY <3>1
    <3>3. OK(body[i][s], i)
      BY <1>3, <3>2
    <3>4. body[i][s] \in Search
      BY <2>1
    <3>5. QED
      BY <3>1, <3>3, <3>4
  <2> HIDE DEF I
  <2>4. Loop(N, body, Entered(n, d)) \in Search /\ Loop(N, body, Entered(n, d)) \in I[N]
    BY <1>1, <1>2, <2>1, <2>2, <2>3, LoopKeeps
  <2>5. left \in Search /\ left \in I[N]
    BY <2>4 DEF Left, body
  <2>6. QED
    BY <1>1, <2>5 DEF I
<1> HIDE DEF left
<1>5. ~left.found /\ HasCycle(g, call, n, d) = Popped(left, n)
  <2>1. HasCycle(g, call, n, d) = IF left.found THEN left ELSE Popped(left, n)
    BY HasCycleIsLeft DEF left
  <2>2. QED
    BY <1>4, <2>1, PoppedIsSearch
<1> DEFINE r == Popped(left, n)
<1>6. /\ left.stack = d.stack \cup {n} /\ d.visited \cup {n} \subseteq left.visited
      /\ Consistent(g, left) /\ Seen(left, N)
  BY <1>4, <1>5
<1>7. r.visited = left.visited /\ r.stack = d.stack /\ n \notin d.stack
  <2>1. n \notin d.stack
    BY DEF Consistent
  <2>2. r.visited = left.visited /\ r.stack = left.stack \ {n}
    BY <1>4, PoppedIsSearch
  <2> HIDE DEF r
  <2>3. QED
    BY <1>6, <2>1, <2>2
<1>8. Black(r) = Black(left) \cup {n} /\ n \notin Black(left)
  BY <1>6, <1>7 DEF Black
<1>9. Ranked(g, Black(left) \cup {n})
  <2>1. \A e \in g.edges : e.from = n => e.to \in Black(left)
    <3> SUFFICES ASSUME NEW e \in g.edges, e.from = n PROVE e.to \in Black(left)
      OBVIOUS
    <3>1. e.to \in Node
      BY <1>1 DEF IsGraph, Readable
    <3>2. PICK j \in 1 .. N : Order[j] = e.to
      BY <3>1, NodesAreOrdered DEF Rounds
    <3>3. Linked(g, n, Order[j])
      BY <3>2 DEF Linked
    <3>4. QED
      BY <1>6, <3>2, <3>3
  <2>2. IsFiniteSet(Black(left))
    BY <1>4, NodesAreFinite, FS_Subset DEF Search, Black
  <2>3. QED
    BY <1>6, <1>8, <2>1, <2>2, RankedGrows DEF Consistent
<1>10. QED
  BY <1>5, <1>6, <1>7, <1>8, <1>9 DEF Explored, Consistent

LEMMA DepthFirstIsSound ==
  ASSUME NEW g, IsGraph(g)
  PROVE  DepthFirst(g) \in Table /\ SoundCalls(g, DepthFirst(g))
<1> DEFINE N == Cardinality(Node)
<1> PICK calls : /\ \A k \in 0 .. N : calls[k] \in Table
                 /\ calls[0] = OutOfDepth
                 /\ \A k \in 1 .. N : calls[k] = Calling(g, calls[k - 1])
                 /\ DepthFirst(g) = calls[N]
  BY DepthFirstIsChain
<1>1. N \in Nat /\ g.nodes \subseteq Node
  BY NodesAreFinite DEF IsGraph, GraphRows
<1> HIDE DEF N
<1> DEFINE P == {k \in 0 .. N : SoundCalls(g, calls[k])}
<1>2. 0 \in P
  <2>1. \A n \in Node, d \in Search : OutOfDepth[n][d].found
    BY DEF OutOfDepth, Search
  <2>2. SoundCalls(g, OutOfDepth)
    BY <1>1, <2>1 DEF SoundCalls
  <2>3. QED
    BY <1>1, <2>2
<1>3. \A k \in 0 .. N - 1 : k \in P => k + 1 \in P
  <2> SUFFICES ASSUME NEW k \in 0 .. N - 1, SoundCalls(g, calls[k]) PROVE SoundCalls(g, calls[k + 1]) /\ k + 1 \in 0 .. N
    OBVIOUS
  <2>1. k + 1 \in 1 .. N /\ (k + 1) - 1 = k /\ k \in 0 .. N /\ k + 1 \in 0 .. N
    BY <1>1
  <2>2. calls[k + 1] = Calling(g, calls[k]) /\ calls[k] \in Table
    BY <2>1
  <2>3. \A n \in Node, d \in Search : Calling(g, calls[k])[n][d] = HasCycle(g, calls[k], n, d)
    BY DEF Calling
  <2>4. SoundCalls(g, Calling(g, calls[k]))
    <3> SUFFICES ASSUME NEW n \in g.nodes, NEW d \in Search, n \notin d.visited, Consistent(g, d),
                        ~HasCycle(g, calls[k], n, d).found
                 PROVE  Explored(g, n, d, HasCycle(g, calls[k], n, d))
      BY <1>1, <2>3 DEF SoundCalls
    <3>1. QED
      BY <2>2, HasCycleIsSound
  <2>5. QED
    BY <2>1, <2>2, <2>4
<1>4. N \in P
  <2> HIDE DEF P
  <2>1. 0 .. N \subseteq P
    BY <1>1, <1>2, <1>3, InductionUpTo
  <2>2. QED
    BY <1>1, <2>1
<1>5. QED
  BY <1>1, <1>4


-----------------------------------------------------------------------------
(***************************************************************************)
(* The depth-first search invents no cycle: along a numbering, a call only *)
(* meets nodes above those on the stack                                    *)
(***************************************************************************)
Calm(g, d) == ~d.found /\ d.visited \subseteq g.nodes /\ d.stack \subseteq d.visited
Below(number, d, n) == \A m \in d.stack : number[m] < number[n]
QuietCalls(g, number, b, call) ==
    \A n \in g.nodes, d \in Search :
       number[n] > b /\ Calm(g, d) /\ Below(number, d, n) =>
          Calm(g, call[n][d]) /\ call[n][d].stack = d.stack

IsNumbering(g, number) ==
    /\ number \in [g.nodes -> 1 .. Cardinality(Node)]
    /\ \A e \in g.edges : number[e.from] < number[e.to]

LEMMA HasCycleIsQuiet ==
  ASSUME NEW g, IsGraph(g), NEW number, IsNumbering(g, number),
         NEW call \in Table, NEW b \in Nat, QuietCalls(g, number, b + 1, call),
         NEW n \in g.nodes, NEW d \in Search, number[n] > b, Calm(g, d), Below(number, d, n)
  PROVE  Calm(g, HasCycle(g, call, n, d)) /\ HasCycle(g, call, n, d).stack = d.stack
<1> DEFINE N == Cardinality(Node)
           body == Follow(g, call, n)
           OK(s) == Calm(g, s) /\ s.stack = d.stack \cup {n}
           I == [i \in 0 .. N |-> {s \in Search : OK(s)}]
<1>0. \A i \in 1 .. N, s \in Search : body[i][s] = Met(g, call, n, Order[i], s)
  <2> HIDE DEF OK, I
  <2>1. n \in Node
    BY DEF IsGraph, GraphRows
  <2>2. Meets(g, call, n)
    BY <2>1, FollowMeets
  <2>3. QED
    BY <2>2 DEF Meets
<1>1. N \in Nat /\ g.nodes \subseteq Node /\ n \in Node
  BY NodesAreFinite DEF IsGraph, GraphRows
<1>2. \A m \in g.nodes : number[m] \in Nat
  BY <1>1 DEF IsNumbering
<1>3. OK(Entered(n, d)) /\ Entered(n, d) \in Search
  <2> DEFINE s == Entered(n, d)
  <2>0. s \in Search /\ s.visited = d.visited \cup {n} /\ s.stack = d.stack \cup {n} /\ s.found = FALSE
    BY <1>1, EnteredIsSearch
  <2> HIDE DEF s
  <2>1. QED
    BY <2>0 DEF Calm, s
<1>4. ASSUME NEW i \in 1 .. N, NEW s \in Search, OK(s)
      PROVE  OK(body[i][s])
  <2> DEFINE m == Order[i]
  <2>0. body[i][s] = IF s.found \/ ~Linked(g, n, m) THEN s
                     ELSE IF m \notin s.visited THEN call[m][s]
                     ELSE [s EXCEPT !.found = m \in s.stack]
    <3>1. body[i][s] = Met(g, call, n, m, s)
      <4> HIDE DEF body
      <4>1. QED
        BY <1>0
    <3>2. QED
      BY <3>1 DEF Met
  <2> HIDE DEF body
  <2>1. CASE s.found \/ ~Linked(g, n, m)
    BY <1>4, <2>0, <2>1
  <2>2. CASE ~s.found /\ Linked(g, n, m)
    <3>1. m \in g.nodes /\ number[n] < number[m]
      BY <2>2 DEF Linked, IsGraph, Readable, IsNumbering
    <3>2. number[m] > b + 1
      BY <1>2, <3>1
    <3>3. Below(number, s, m)
      <4> SUFFICES ASSUME NEW x \in s.stack PROVE number[x] < number[m]
        BY DEF Below
      <4>1. x \in g.nodes
        BY <1>4 DEF Calm
      <4>2. number[x] <= number[n]
        <5>1. CASE x = n
          BY <1>2, <5>1
        <5>2. CASE x # n
          BY <1>2, <1>4, <4>1, <5>2 DEF Below
        <5>3. QED
          BY <5>1, <5>2
      <4>3. QED
        BY <1>2, <3>1, <4>1, <4>2
    <3>4. CASE m \notin s.visited
      <4>1. body[i][s] = call[m][s]
        BY <2>0, <2>2, <3>4
      <4>2. QED
        BY <1>4, <3>1, <3>2, <3>3, <4>1 DEF QuietCalls
    <3>5. CASE m \in s.visited
      <4>1. m \notin s.stack
        BY <1>2, <3>1, <3>3 DEF Below
      <4> DEFINE r == [s EXCEPT !.found = m \in s.stack]
      <4>2. body[i][s] = r
        BY <2>0, <2>2, <3>5
      <4>3. r.visited = s.visited /\ r.stack = s.stack /\ r.found = (m \in s.stack)
        BY DEF Search
      <4> HIDE DEF r
      <4>4. QED
        BY <1>4, <4>1, <4>2, <4>3 DEF Calm
    <3>6. QED
      BY <3>4, <3>5
  <2>3. QED
    BY <2>1, <2>2
<1> DEFINE left == Left(g, call, n, d)
<1>5. left \in Search /\ OK(left)
  <2>1. body \in [1 .. N -> [Search -> Search]]
    BY <1>1, FollowIsStep
  <2> HIDE DEF OK, body
  <2>2. Entered(n, d) \in I[0]
    BY <1>1, <1>3
  <2>3. \A i \in 1 .. N : \A s \in Search : s \in I[i - 1] => body[i][s] \in I[i]
    <3> SUFFICES ASSUME NEW i \in 1 .. N, NEW s \in Search, s \in I[i - 1] PROVE body[i][s] \in I[i]
      OBVIOUS
    <3>1. i - 1 \in 0 .. N /\ i \in 0 .. N
      BY <1>1
    <3>2. OK(s)
      BY <3>1
    <3>3. OK(body[i][s])
      BY <1>4, <3>2
    <3>4. body[i][s] \in Search
      BY <2>1
    <3>5. QED
      BY <3>1, <3>3, <3>4
  <2> HIDE DEF I
  <2>4. Loop(N, body, Entered(n, d)) \in Search /\ Loop(N, body, Entered(n, d)) \in I[N]
    BY <1>1, <1>3, <2>1, <2>2, <2>3, LoopKeeps
  <2>5. left \in Search /\ left \in I[N]
    BY <2>4 DEF Left, body
  <2>6. QED
    BY <1>1, <2>5 DEF I
<1> HIDE DEF left
<1>6. HasCycle(g, call, n, d) = Popped(left, n)
  <2>1. HasCycle(g, call, n, d) = IF left.found THEN left ELSE Popped(left, n)
    BY HasCycleIsLeft DEF left
  <2>2. QED
    BY <1>5, <2>1 DEF Calm
<1> DEFINE r == Popped(left, n)
<1>7. r.visited = left.visited /\ r.stack = left.stack \ {n} /\ r.found = left.found
  BY <1>5, PoppedIsSearch
<1>8. n \notin d.stack
  BY <1>2 DEF Below
<1> HIDE DEF r
<1>9. Calm(g, r) /\ r.stack = d.stack
  BY <1>5, <1>7, <1>8 DEF Calm
<1>10. QED
  BY <1>6, <1>9 DEF r

LEMMA DepthFirstIsQuiet ==
  ASSUME NEW g, IsGraph(g), NEW number, IsNumbering(g, number)
  PROVE  QuietCalls(g, number, 0, DepthFirst(g))
<1> DEFINE N == Cardinality(Node)
<1> PICK calls : /\ \A k \in 0 .. N : calls[k] \in Table
                 /\ calls[0] = OutOfDepth
                 /\ \A k \in 1 .. N : calls[k] = Calling(g, calls[k - 1])
                 /\ DepthFirst(g) = calls[N]
  BY DepthFirstIsChain
<1>1. N \in Nat /\ g.nodes \subseteq Node
  BY NodesAreFinite DEF IsGraph, GraphRows
<1>2. number \in [g.nodes -> 1 .. N]
  BY DEF IsNumbering
<1> HIDE DEF N
<1> DEFINE P == {k \in 0 .. N : QuietCalls(g, number, N - k, calls[k])}
<1>3. 0 \in P
  <2>1. \A n \in g.nodes : ~(number[n] > N - 0)
    BY <1>1, <1>2
  <2>2. QuietCalls(g, number, N - 0, calls[0])
    BY <2>1 DEF QuietCalls
  <2>3. QED
    BY <1>1, <2>2
<1>4. \A k \in 0 .. N - 1 : k \in P => k + 1 \in P
  <2> SUFFICES ASSUME NEW k \in 0 .. N - 1, QuietCalls(g, number, N - k, calls[k])
               PROVE  QuietCalls(g, number, N - (k + 1), calls[k + 1]) /\ k + 1 \in 0 .. N
    OBVIOUS
  <2>1. k + 1 \in 1 .. N /\ (k + 1) - 1 = k /\ k \in 0 .. N /\ k + 1 \in 0 .. N
    BY <1>1
  <2>2. calls[k + 1] = Calling(g, calls[k]) /\ calls[k] \in Table
    BY <2>1
  <2>3. \A n \in Node, d \in Search : Calling(g, calls[k])[n][d] = HasCycle(g, calls[k], n, d)
    BY DEF Calling
  <2> DEFINE b == N - (k + 1)
  <2>4. b \in Nat /\ b + 1 = N - k
    BY <1>1
  <2> HIDE DEF b
  <2>5. QuietCalls(g, number, b, Calling(g, calls[k]))
    <3> SUFFICES ASSUME NEW n \in g.nodes, NEW d \in Search, number[n] > b, Calm(g, d), Below(number, d, n)
                 PROVE  /\ Calm(g, HasCycle(g, calls[k], n, d))
                        /\ HasCycle(g, calls[k], n, d).stack = d.stack
      BY <1>1, <2>3 DEF QuietCalls
    <3>1. QuietCalls(g, number, b + 1, calls[k])
      BY <2>4
    <3>2. QED
      BY <2>2, <2>4, <3>1, HasCycleIsQuiet
  <2>6. QED
    BY <2>1, <2>2, <2>5 DEF b
<1>5. N \in P
  <2> HIDE DEF P
  <2>1. 0 .. N \subseteq P
    BY <1>1, <1>3, <1>4, InductionUpTo
  <2>2. QED
    BY <1>1, <2>1
<1>6. N - N = 0
  BY <1>1
<1>7. QED
  BY <1>5, <1>6

-----------------------------------------------------------------------------
(* From every node that is not visited yet *)

Sweep(g) == [i \in Rounds |-> [d \in Search |->
    IF d.found \/ Order[i] \notin g.nodes \/ Order[i] \in d.visited THEN d
    ELSE DepthFirst(g)[Order[i]][d]]]
Unvisited == [visited |-> {}, stack |-> {}, found |-> FALSE]
Swept(g) == Loop(Cardinality(Node), Sweep(g), Unvisited)

LEMMA CyclicIsSwept ==
  ASSUME NEW g PROVE Cyclic(g) = Swept(g).found
BY DEF Cyclic, Swept, Sweep, Unvisited

Arrived(g, n, d) == IF d.found \/ n \notin g.nodes \/ n \in d.visited THEN d ELSE DepthFirst(g)[n][d]

LEMMA SweepIsStep ==
  ASSUME NEW g, IsGraph(g)
  PROVE  /\ Unvisited \in Search
         /\ Sweep(g) \in [1 .. Cardinality(Node) -> [Search -> Search]]
         /\ \A i \in 1 .. Cardinality(Node), d \in Search : Sweep(g)[i][d] = Arrived(g, Order[i], d)
<1>1. \A i \in Rounds, d \in Search : Sweep(g)[i][d] = Arrived(g, Order[i], d)
  BY DEF Sweep, Arrived
<1>2. DepthFirst(g) \in Table
  BY DepthFirstIsSound
<1>3. \A i \in Rounds, d \in Search : Sweep(g)[i][d] \in Search
  BY <1>1, <1>2, OrderIsOfNodes DEF Arrived, Table
<1>4. Sweep(g) \in [Rounds -> [Search -> Search]]
  BY <1>3 DEF Sweep
<1>5. Unvisited \in Search
  BY DEF Unvisited, Search
<1>6. QED
  BY <1>1, <1>4, <1>5 DEF Rounds

\* A graph in which no cycle is found can be numbered.
LEMMA NoCycleIsMissed ==
  ASSUME NEW g, IsGraph(g), ~Cyclic(g)
  PROVE  \E number \in [g.nodes -> 1 .. Cardinality(g.nodes)] :
            \A e \in g.edges : number[e.from] < number[e.to]
<1> DEFINE N == Cardinality(Node)
           body == Sweep(g)
           Seen(d, i) == \A j \in 1 .. i : Order[j] \in g.nodes => Order[j] \in d.visited
           OK(d, i) == d.found \/ (d.stack = {} /\ Consistent(g, d) /\ Seen(d, i))
           I == [i \in 0 .. N |-> {d \in Search : OK(d, i)}]
<1>1. N \in Nat /\ g.nodes \subseteq Node
  BY NodesAreFinite DEF IsGraph, GraphRows
<1>2. OK(Unvisited, 0)
  <2>1. \A f : f = [x \in {} |-> 0] => f \in [{} -> 1 .. Cardinality({})]
    OBVIOUS
  <2>2. Ranked(g, {})
    BY <2>1 DEF Ranked
  <2>3. QED
    BY <2>2 DEF Consistent, Unvisited, Black
<1>3. ASSUME NEW i \in 1 .. N, NEW d \in Search, OK(d, i - 1)
      PROVE  OK(body[i][d], i)
  <2> DEFINE n == Order[i]
  <2>1. body[i][d] = IF d.found \/ n \notin g.nodes \/ n \in d.visited THEN d ELSE DepthFirst(g)[n][d]
    BY SweepIsStep DEF Arrived
  <2> HIDE DEF body
  <2>2. \A r : Seen(r, i - 1) /\ (n \in g.nodes => n \in r.visited) => Seen(r, i)
    BY <1>1
  <2>3. CASE d.found
    BY <2>1, <2>3
  <2>4. CASE ~d.found /\ (n \notin g.nodes \/ n \in d.visited)
    <3>1. Seen(d, i)
      BY <1>3, <2>2, <2>4
    <3> HIDE DEF Seen
    <3>2. QED
      BY <1>3, <2>1, <2>4, <3>1
  <2>5. CASE ~d.found /\ n \in g.nodes /\ n \notin d.visited
    <3> DEFINE r == DepthFirst(g)[n][d]
    <3>1. body[i][d] = r
      BY <2>1, <2>5
    <3> SUFFICES ASSUME ~r.found PROVE OK(r, i)
      BY <3>1
    <3>2. Explored(g, n, d, r)
      BY <1>3, <2>5, DepthFirstIsSound DEF SoundCalls
    <3>3. Seen(r, i - 1)
      BY <1>3, <2>5, <3>2 DEF Explored
    <3>4. Seen(r, i)
      BY <2>2, <3>2, <3>3 DEF Explored
    <3> HIDE DEF Seen
    <3>5. QED
      BY <1>3, <2>5, <3>2, <3>4 DEF Explored
  <2>6. QED
    BY <2>3, <2>4, <2>5
<1> DEFINE last == Swept(g)
<1>4. last \in Search /\ OK(last, N)
  <2>1. body \in [1 .. N -> [Search -> Search]] /\ Unvisited \in Search
    BY SweepIsStep
  <2> HIDE DEF OK, body
  <2>2. Unvisited \in I[0]
    BY <1>1, <1>2, <2>1
  <2>3. \A i \in 1 .. N : \A s \in Search : s \in I[i - 1] => body[i][s] \in I[i]
    <3> SUFFICES ASSUME NEW i \in 1 .. N, NEW s \in Search, s \in I[i - 1] PROVE body[i][s] \in I[i]
      OBVIOUS
    <3>1. i - 1 \in 0 .. N /\ i \in 0 .. N
      BY <1>1
    <3>2. OK(s, i - 1)
      BY <3>1
    <3>3. OK(body[i][s], i)
      BY <1>3, <3>2
    <3>4. body[i][s] \in Search
      BY <2>1
    <3>5. QED
      BY <3>1, <3>3, <3>4
  <2> HIDE DEF I
  <2>4. Loop(N, body, Unvisited) \in Search /\ Loop(N, body, Unvisited) \in I[N]
    BY <1>1, <2>1, <2>2, <2>3, LoopKeeps
  <2>5. last \in Search /\ last \in I[N]
    BY <2>4 DEF Swept, body
  <2>6. QED
    BY <1>1, <2>5 DEF I
<1>5. ~last.found
  BY CyclicIsSwept
<1> HIDE DEF last
<1>6. last.stack = {} /\ Consistent(g, last) /\ Seen(last, N)
  BY <1>4, <1>5
<1>7. g.nodes \subseteq last.visited
  <2> SUFFICES ASSUME NEW n \in g.nodes PROVE n \in last.visited
    OBVIOUS
  <2>1. PICK i \in 1 .. N : Order[i] = n
    BY <1>1, NodesAreOrdered DEF Rounds
  <2>2. QED
    BY <1>6, <2>1
<1>8. Black(last) = g.nodes
  BY <1>6, <1>7 DEF Black, Consistent
<1>9. Ranked(g, g.nodes)
  BY <1>6, <1>8 DEF Consistent
<1>10. IsFiniteSet(g.nodes)
  BY <1>1, NodesAreFinite, FS_Subset
<1>11. QED
  BY <1>9, <1>10, NumberedIfRanked DEF IsGraph

\* In a graph that can be numbered none is found.
LEMMA NoCycleIsInvented ==
  ASSUME NEW g, IsGraph(g), NEW number, IsNumbering(g, number)
  PROVE  ~Cyclic(g)
<1> DEFINE N == Cardinality(Node)
           body == Sweep(g)
           OK(d) == Calm(g, d) /\ d.stack = {}
           I == [i \in 0 .. N |-> {d \in Search : OK(d)}]
<1>1. N \in Nat /\ g.nodes \subseteq Node
  BY NodesAreFinite DEF IsGraph, GraphRows
<1>2. OK(Unvisited)
  BY DEF Calm, Unvisited
<1>3. ASSUME NEW i \in 1 .. N, NEW d \in Search, OK(d)
      PROVE  OK(body[i][d])
  <2> DEFINE n == Order[i]
  <2>1. body[i][d] = IF d.found \/ n \notin g.nodes \/ n \in d.visited THEN d ELSE DepthFirst(g)[n][d]
    BY SweepIsStep DEF Arrived
  <2> HIDE DEF body
  <2>2. CASE d.found \/ n \notin g.nodes \/ n \in d.visited
    BY <1>3, <2>1, <2>2
  <2>3. CASE ~(d.found \/ n \notin g.nodes \/ n \in d.visited)
    <3>1. number[n] > 0
      BY <1>1, <2>3 DEF IsNumbering
    <3>2. Below(number, d, n)
      BY <1>3 DEF Below
    <3>3. QED
      BY <1>3, <2>1, <2>3, <3>1, <3>2, DepthFirstIsQuiet DEF QuietCalls
  <2>4. QED
    BY <2>2, <2>3
<1> DEFINE last == Swept(g)
<1>4. OK(last)
  <2>1. body \in [1 .. N -> [Search -> Search]] /\ Unvisited \in Search
    BY SweepIsStep
  <2> HIDE DEF OK, body
  <2>2. Unvisited \in I[0]
    BY <1>1, <1>2, <2>1
  <2>3. \A i \in 1 .. N : \A s \in Search : s \in I[i - 1] => body[i][s] \in I[i]
    <3> SUFFICES ASSUME NEW i \in 1 .. N, NEW s \in Search, s \in I[i - 1] PROVE body[i][s] \in I[i]
      OBVIOUS
    <3>1. i - 1 \in 0 .. N /\ i \in 0 .. N
      BY <1>1
    <3>2. OK(body[i][s])
      BY <1>3, <3>1
    <3>3. body[i][s] \in Search
      BY <2>1
    <3>4. QED
      BY <3>1, <3>2, <3>3
  <2> HIDE DEF I
  <2>4. Loop(N, body, Unvisited) \in I[N]
    BY <1>1, <2>1, <2>2, <2>3, LoopKeeps
  <2>5. last \in I[N]
    BY <2>4 DEF Swept, body
  <2>6. QED
    BY <1>1, <2>5 DEF I
<1>5. QED
  BY <1>4, CyclicIsSwept DEF Calm

-----------------------------------------------------------------------------
(***************************************************************************)
(* The validator accepts exactly the graphs that can be run                *)
(***************************************************************************)
Numbered(g) ==
    \E number \in [g.nodes -> 1 .. Cardinality(g.nodes)] :
       \A e \in g.edges : number[e.from] < number[e.to]
Connected(g) ==
    \A part \in SUBSET g.nodes : part \notin {{}, g.nodes} =>
       \E e \in g.edges : (e.from \in part) # (e.to \in part)

LEMMA RunnableParts ==
  ASSUME NEW g
  PROVE  Runnable(g) <=> g.nodes # {} /\ Numbered(g) /\ Connected(g)
BY DEF Runnable, Numbered, Connected

LEMMA GraphIsTyped ==
  ASSUME NEW g, IsGraph(g)
  PROVE  /\ g.nodes \subseteq Node /\ IsFiniteSet(g.nodes) /\ IsFiniteSet(g.edges)
         /\ \A e \in g.edges : /\ e \in EdgeRows /\ e.cond \in BOOLEAN
                               /\ e.from \in g.nodes /\ e.to \in g.nodes
BY NodesAreFinite, FS_Subset DEF IsGraph, GraphRows, EdgeRows, Readable

LEMMA NumberedIsNumbering ==
  ASSUME NEW g, IsGraph(g), Numbered(g)
  PROVE  \E number : IsNumbering(g, number)
<1> PICK number \in [g.nodes -> 1 .. Cardinality(g.nodes)] :
       \A e \in g.edges : number[e.from] < number[e.to]
  BY DEF Numbered
<1>1. /\ Cardinality(g.nodes) \in Nat /\ Cardinality(Node) \in Nat
      /\ Cardinality(g.nodes) <= Cardinality(Node)
  BY GraphIsTyped, NodesAreFinite, FS_CardinalityType, FS_Subset
<1>2. number \in [g.nodes -> 1 .. Cardinality(Node)]
  BY <1>1
<1>3. QED
  BY <1>2 DEF IsNumbering

LEMMA CyclicIsExact ==
  ASSUME NEW g, IsGraph(g)
  PROVE  ~Cyclic(g) <=> Numbered(g)
<1>1. ~Cyclic(g) => Numbered(g)
  BY NoCycleIsMissed DEF Numbered
<1>2. Numbered(g) => ~Cyclic(g)
  BY NumberedIsNumbering, NoCycleIsInvented
<1>3. QED
  BY <1>1, <1>2

\* Among nodes there is one with the least number, and one with the greatest.
LEMMA Outermost ==
  ASSUME NEW g, IsGraph(g), NEW number, IsNumbering(g, number), NEW S \in SUBSET g.nodes, S # {}
  PROVE  /\ \E n \in S : \A m \in S : number[n] <= number[m]
         /\ \E n \in S : \A m \in S : number[m] <= number[n]
<1> DEFINE N == Cardinality(Node)
<1>1. N \in Nat /\ number \in [g.nodes -> 1 .. N]
  BY NodesAreFinite DEF IsNumbering
<1> HIDE DEF N
<1>2. \E n \in S : \A m \in S : number[n] <= number[m]
  <2> DEFINE V == {number[n] : n \in S}
  <2>1. V \in SUBSET Nat /\ V # {}
    BY <1>1
  <2>2. PICK x \in V : \A y \in V : x <= y
    <3> HIDE DEF V
    <3>1. QED
      BY <2>1, LeastNatural
  <2>3. QED
    BY <2>2
<1>3. \E n \in S : \A m \in S : number[m] <= number[n]
  <2> DEFINE V == {N - number[n] : n \in S}
  <2>1. V \in SUBSET Nat /\ V # {}
    BY <1>1
  <2>2. PICK x \in V : \A y \in V : x <= y
    <3> HIDE DEF V
    <3>1. QED
      BY <2>1, LeastNatural
  <2>3. PICK n \in S : x = N - number[n]
    BY <2>2
  <2>4. \A m \in S : N - number[n] <= N - number[m]
    BY <2>2, <2>3
  <2>5. \A m \in S : number[m] <= number[n]
    BY <1>1, <2>4
  <2>6. QED
    BY <2>5
<1>4. QED
  BY <1>2, <1>3

LEMMA WaysAreRelations ==
  ASSUME NEW g, IsGraph(g)
  PROVE  /\ IsRelation(Successors(g)) /\ IsRelation(Predecessors(g)) /\ IsRelation(Around(g))
         /\ \A U : ClosedUnder(Successors(g), U) <=> \A e \in g.edges : e.from \in U => e.to \in U
         /\ \A U : ClosedUnder(Predecessors(g), U) <=> \A e \in g.edges : e.to \in U => e.from \in U
         /\ \A U : ClosedUnder(Around(g), U) <=> \A e \in g.edges : e.to \in U <=> e.from \in U
<1>1. \A e \in g.edges : e.from \in Node /\ e.to \in Node
  BY GraphIsTyped
<1>2. IsRelation(Successors(g)) /\ IsRelation(Predecessors(g)) /\ IsRelation(Around(g))
  BY <1>1 DEF IsRelation, Around, Successors, Predecessors
<1>3. \A U : ClosedUnder(Successors(g), U) <=> \A e \in g.edges : e.from \in U => e.to \in U
  <2> SUFFICES ASSUME NEW U PROVE ClosedUnder(Successors(g), U) <=> \A e \in g.edges : e.from \in U => e.to \in U
    OBVIOUS
  <2>1. \A e \in g.edges : <<e.from, e.to>> \in Successors(g)
    BY DEF Successors
  <2>2. \A r \in Successors(g) : \E e \in g.edges : r[1] = e.from /\ r[2] = e.to
    BY DEF Successors
  <2>3. \A e \in g.edges : <<e.from, e.to>>[1] = e.from /\ <<e.from, e.to>>[2] = e.to
    OBVIOUS
  <2>4. ASSUME ClosedUnder(Successors(g), U), NEW e \in g.edges, e.from \in U PROVE e.to \in U
    BY <2>1, <2>3, <2>4 DEF ClosedUnder
  <2>5. ASSUME \A e \in g.edges : e.from \in U => e.to \in U PROVE ClosedUnder(Successors(g), U)
    BY <2>2, <2>5 DEF ClosedUnder
  <2>6. QED
    BY <2>4, <2>5
<1>4. \A U : ClosedUnder(Predecessors(g), U) <=> \A e \in g.edges : e.to \in U => e.from \in U
  <2> SUFFICES ASSUME NEW U PROVE ClosedUnder(Predecessors(g), U) <=> \A e \in g.edges : e.to \in U => e.from \in U
    OBVIOUS
  <2>1. \A e \in g.edges : <<e.to, e.from>> \in Predecessors(g)
    BY DEF Predecessors
  <2>2. \A r \in Predecessors(g) : \E e \in g.edges : r[1] = e.to /\ r[2] = e.from
    BY DEF Predecessors
  <2>3. \A e \in g.edges : <<e.to, e.from>>[1] = e.to /\ <<e.to, e.from>>[2] = e.from
    OBVIOUS
  <2>4. ASSUME ClosedUnder(Predecessors(g), U), NEW e \in g.edges, e.to \in U PROVE e.from \in U
    BY <2>1, <2>3, <2>4 DEF ClosedUnder
  <2>5. ASSUME \A e \in g.edges : e.to \in U => e.from \in U PROVE ClosedUnder(Predecessors(g), U)
    BY <2>2, <2>5 DEF ClosedUnder
  <2>6. QED
    BY <2>4, <2>5
<1>5. \A U : ClosedUnder(Around(g), U) <=> ClosedUnder(Successors(g), U) /\ ClosedUnder(Predecessors(g), U)
  BY DEF ClosedUnder, Around
<1>6. QED
  BY <1>2, <1>3, <1>4, <1>5

\* A graph that can be numbered has a first node and a last one, every node
\* comes after an entry and before a terminal.
LEMMA NumberedIsPassable ==
  ASSUME NEW g, IsGraph(g), g.nodes # {}, Numbered(g)
  PROVE  /\ Entries(g) # {} /\ Terminals(g) # {}
         /\ Unreachable(g) = {} /\ DeadEnds(g) = {}
         /\ \A e \in g.edges : e.from # e.to
<1> PICK number : IsNumbering(g, number)
  BY NumberedIsNumbering
<1>0. /\ \A n \in g.nodes : number[n] \in Nat
      /\ \A e \in g.edges : e.from \in g.nodes /\ e.to \in g.nodes /\ number[e.from] < number[e.to]
  BY GraphIsTyped, NodesAreFinite DEF IsNumbering
<1>1. Entries(g) # {}
  <2>1. PICK n \in g.nodes : \A m \in g.nodes : number[n] <= number[m]
    BY Outermost
  <2>2. Sources(g, n) = {}
    BY <1>0, <2>1 DEF Sources
  <2>3. QED
    BY <2>2 DEF Entries
<1>2. Terminals(g) # {}
  <2>1. PICK n \in g.nodes : \A m \in g.nodes : number[m] <= number[n]
    BY Outermost
  <2>2. Targets(g, n) = {}
    BY <1>0, <2>1 DEF Targets
  <2>3. QED
    BY <2>2 DEF Terminals
<1>3. Unreachable(g) = {}
  <2> DEFINE U == Reach(Successors(g), Entries(g))
  <2>1. Entries(g) \subseteq U /\ ClosedUnder(Successors(g), U)
    <3>1. Entries(g) \in SUBSET Node
      BY GraphIsTyped DEF Entries
    <3>2. QED
      BY <3>1, WaysAreRelations, ReachIsTheClosure
  <2> HIDE DEF U
  <2>2. ASSUME g.nodes \ U # {} PROVE FALSE
    <3>1. PICK n \in g.nodes \ U : \A m \in g.nodes \ U : number[n] <= number[m]
      BY <2>2, Outermost
    <3>2. Sources(g, n) # {}
      BY <2>1, <3>1 DEF Entries
    <3>3. PICK e \in g.edges : e.to = n
      BY <3>2 DEF Sources
    <3>4. e.from \in U
      BY <1>0, <3>1, <3>3
    <3>5. e.to \in U
      BY <2>1, <3>4, WaysAreRelations
    <3>6. QED
      BY <3>1, <3>3, <3>5
  <2>3. QED
    BY <2>2 DEF Unreachable, U
<1>4. DeadEnds(g) = {}
  <2> DEFINE U == Reach(Predecessors(g), Terminals(g))
  <2>1. Terminals(g) \subseteq U /\ ClosedUnder(Predecessors(g), U)
    <3>1. Terminals(g) \in SUBSET Node
      BY GraphIsTyped DEF Terminals
    <3>2. QED
      BY <3>1, WaysAreRelations, ReachIsTheClosure
  <2> HIDE DEF U
  <2>2. ASSUME g.nodes \ U # {} PROVE FALSE
    <3>1. PICK n \in g.nodes \ U : \A m \in g.nodes \ U : number[m] <= number[n]
      BY <2>2, Outermost
    <3>2. Targets(g, n) # {}
      BY <2>1, <3>1 DEF Terminals
    <3>3. PICK e \in g.edges : e.from = n
      BY <3>2 DEF Targets
    <3>4. e.to \in U
      BY <1>0, <3>1, <3>3
    <3>5. e.from \in U
      BY <2>1, <3>4, WaysAreRelations
    <3>6. QED
      BY <3>1, <3>3, <3>5
  <2>3. QED
    BY <2>2 DEF DeadEnds, U
<1>5. \A e \in g.edges : e.from # e.to
  BY <1>0
<1>6. QED
  BY <1>1, <1>2, <1>3, <1>4, <1>5

LEMMA ConnectivityIsExact ==
  ASSUME NEW g, IsGraph(g), g.nodes # {}
  PROVE  Unconnected(g) = {} <=> Connected(g)
<1> DEFINE S == Some(g.nodes)
           U == Reach(Around(g), S)
<1>1. S # {} /\ S \subseteq g.nodes
  BY DEF Some
<1>2. /\ U \in SUBSET Node /\ S \subseteq U /\ ClosedUnder(Around(g), U)
      /\ \A T \in SUBSET Node : S \subseteq T /\ ClosedUnder(Around(g), T) => U \subseteq T
  BY <1>1, GraphIsTyped, WaysAreRelations, ReachIsTheClosure
<1>3. Unconnected(g) = g.nodes \ U
  BY DEF Unconnected
<1>4. \E n : S = {n}
  BY DEF Some
<1> HIDE DEF U, S
<1>5. \A T : ClosedUnder(Around(g), T) <=> \A e \in g.edges : e.to \in T <=> e.from \in T
  BY WaysAreRelations
<1>6. ASSUME Connected(g) PROVE Unconnected(g) = {}
  <2>1. U \subseteq g.nodes
    <3>1. ClosedUnder(Around(g), g.nodes)
      BY <1>5, GraphIsTyped
    <3>2. QED
      BY <1>1, <1>2, <3>1, GraphIsTyped
  <2>2. ~ \E e \in g.edges : (e.from \in U) # (e.to \in U)
    BY <1>2, <1>5
  <2>3. U \in {{}, g.nodes}
    BY <1>6, <2>1, <2>2 DEF Connected
  <2>4. QED
    BY <1>1, <1>2, <1>3, <2>3
<1>7. ASSUME Unconnected(g) = {} PROVE Connected(g)
  <2> SUFFICES ASSUME NEW part \in SUBSET g.nodes, part \notin {{}, g.nodes},
                      \A e \in g.edges : e.from \in part <=> e.to \in part
               PROVE  FALSE
    BY DEF Connected
  <2>1. g.nodes \subseteq U
    BY <1>3, <1>7
  <2>2. CASE S \subseteq part
    <3>1. ClosedUnder(Around(g), part)
      BY <1>5
    <3>2. part \in SUBSET Node
      BY GraphIsTyped
    <3>3. QED
      BY <1>2, <2>1, <2>2, <3>1, <3>2
  <2>3. CASE ~(S \subseteq part)
    <3> DEFINE rest == g.nodes \ part
    <3>1. S \subseteq rest
      BY <1>1, <1>4, <2>3
    <3>2. ClosedUnder(Around(g), rest)
      BY <1>5, GraphIsTyped
    <3>3. rest \in SUBSET Node
      BY GraphIsTyped
    <3>4. QED
      BY <1>2, <2>1, <3>1, <3>2, <3>3
  <2>4. QED
    BY <2>2, <2>3
<1>8. QED
  BY <1>6, <1>7

\* Rows have as many targets as there are rows iff no two have the same.
LEMMA TargetsAreCounted ==
  ASSUME NEW E, IsFiniteSet(E)
  PROVE  Cardinality(E) = Cardinality({e.to : e \in E}) <=> \A d, e \in E : d.to = e.to => d = e
<1> DEFINE T == {e.to : e \in E}
           f == [e \in E |-> e.to]
<1>1. f \in Surjection(E, T)
  BY DEF Surjection
<1>2. Cardinality(T) = Cardinality(E) <=> f \in Injection(E, T)
  BY <1>1, FS_Surjection
<1>3. f \in Injection(E, T) <=> \A d, e \in E : d.to = e.to => d = e
  <2>1. f \in [E -> T] /\ \A e \in E : f[e] = e.to
    OBVIOUS
  <2>2. f \in Injection(E, T) <=> \A d, e \in E : f[d] = f[e] => d = e
    <3> HIDE DEF f, T
    <3>1. QED
      BY <2>1, Zenon DEF Injection, IsInjective
  <2>3. QED
    BY <2>1, <2>2
<1>4. QED
  BY <1>2, <1>3

\* What WithinEngine says of edges, and of what is evaluated.
EdgesWithin(g) ==
    /\ \A e \in g.edges : ~e.cond
    /\ \A n \in g.nodes : /\ Cardinality(Targets(g, n)) = Cardinality({e.to : e \in Targets(g, n)})
                          /\ Cardinality(Targets(g, n)) <= MaxFanOut
Evaluated(g) ==
    \A n \in g.nodes : TypeOf[n] = "evaluation" =>
       {TypeOf[e.from] : e \in Sources(g, n)} = {"agent"} /\ Cardinality(Sources(g, n)) = 1

LEMMA EdgesAreExact ==
  ASSUME NEW g, IsGraph(g), \A e \in g.edges : e.from # e.to
  PROVE  EdgeIssues(g) = {} <=> EdgesWithin(g)
<1>0. \A n : IsFiniteSet(Targets(g, n)) /\ Cardinality(Targets(g, n)) \in Nat
  BY GraphIsTyped, FS_Subset, FS_CardinalityType DEF Targets
<1>1. ASSUME EdgeIssues(g) = {}, NEW n \in g.nodes
      PROVE  /\ Cardinality(Targets(g, n)) = Cardinality({e.to : e \in Targets(g, n)})
             /\ Cardinality(Targets(g, n)) <= MaxFanOut
  <2>1. \A d, e \in Targets(g, n) : d.to = e.to => d = e
    BY <1>1 DEF EdgeIssues, Targets
  <2>2. CASE Targets(g, n) = {}
    BY <1>0, <2>1, <2>2, TargetsAreCounted, FS_EmptySet, DefinitionAssumption DEF DefinitionAssumption
  <2>3. CASE Targets(g, n) # {}
    <3>1. PICK e \in g.edges : e.from = n
      BY <2>3 DEF Targets
    <3>2. ~(Cardinality(Targets(g, e.from)) > MaxFanOut)
      BY <1>1 DEF EdgeIssues
    <3>3. QED
      BY <1>0, <2>1, <3>1, <3>2, TargetsAreCounted, DefinitionAssumption DEF DefinitionAssumption
  <2>4. QED
    BY <2>2, <2>3
<1>2. EdgeIssues(g) = {} => EdgesWithin(g)
  BY <1>1 DEF EdgesWithin, EdgeIssues
<1>3. ASSUME EdgesWithin(g), NEW e \in g.edges PROVE e \notin EdgeIssues(g)
  <2>1. e.from \in g.nodes
    BY GraphIsTyped
  <2>2. /\ Cardinality(Targets(g, e.from)) = Cardinality({d.to : d \in Targets(g, e.from)})
        /\ Cardinality(Targets(g, e.from)) <= MaxFanOut
    BY <1>3, <2>1 DEF EdgesWithin
  <2>3. \A d, c \in Targets(g, e.from) : d.to = c.to => d = c
    BY <1>0, <2>2, TargetsAreCounted
  <2>4. ~ \E d \in g.edges \ {e} : d.from = e.from /\ d.to = e.to
    BY <2>3 DEF Targets
  <2>5. ~(Cardinality(Targets(g, e.from)) > MaxFanOut)
    BY <1>0, <2>2, DefinitionAssumption DEF DefinitionAssumption
  <2>6. QED
    BY <1>3, <2>4, <2>5 DEF EdgeIssues, EdgesWithin
<1>4. QED
  BY <1>2, <1>3 DEF EdgeIssues

LEMMA NeedsAreExact ==
  ASSUME NEW g, IsGraph(g), NEW active
  PROVE  AgentIssues(g, active) = {} /\ EvaluationIssues(g, active) = {}
           <=> Evaluated(g) /\ Configured(g, active)
<1>1. ASSUME NEW n
      PROVE  (\E e \in g.edges : Sources(g, n) = {e} /\ TypeOf[e.from] = "agent")
               <=> {TypeOf[e.from] : e \in Sources(g, n)} = {"agent"} /\ Cardinality(Sources(g, n)) = 1
  <2>1. Sources(g, n) \subseteq g.edges /\ IsFiniteSet(Sources(g, n))
    BY GraphIsTyped, FS_Subset DEF Sources
  <2>2. Cardinality(Sources(g, n)) = 1 <=> \E e : Sources(g, n) = {e}
    BY <2>1, FS_Singleton
  <2>3. \A e : Sources(g, n) = {e} => e \in g.edges /\ {TypeOf[d.from] : d \in Sources(g, n)} = {TypeOf[e.from]}
    BY <2>1
  <2>4. QED
    BY <2>2, <2>3
<1>2. EvaluationIssues(g, active) = {} <=>
        Evaluated(g) /\ \A n \in g.nodes : TypeOf[n] = "evaluation" => g.config[n] \in active
  BY <1>1 DEF EvaluationIssues, Evaluated
<1>3. AgentIssues(g, active) = {} <=> \A n \in g.nodes : TypeOf[n] = "agent" => g.config[n] \in active
  BY DEF AgentIssues
<1>4. QED
  BY <1>2, <1>3 DEF Configured

LEMMA WithinEngineParts ==
  ASSUME NEW g
  PROVE  WithinEngine(g) <=> EdgesWithin(g) /\ Evaluated(g)
BY DEF WithinEngine, EdgesWithin, Evaluated

\* The whole validator, on any graph whose edges join nodes it has: no sound
\* graph is refused, no other is accepted (workflow_validation_service.py,
\* validate).
THEOREM AcceptedIsRunnable ==
  ASSUME NEW g, IsGraph(g), NEW active
  PROVE  Accepts(g, active) <=> Runnable(g) /\ WithinEngine(g) /\ Configured(g, active)
<1>1. CASE g.nodes = {}
  BY <1>1 DEF Accepts, Runnable
<1>2. CASE g.nodes # {} /\ ~Numbered(g)
  BY <1>2, CyclicIsExact, RunnableParts DEF Accepts
<1>3. CASE g.nodes # {} /\ Numbered(g)
  <2>1. /\ Entries(g) # {} /\ Terminals(g) # {} /\ ~Cyclic(g)
        /\ Unreachable(g) = {} /\ DeadEnds(g) = {}
    BY <1>3, NumberedIsPassable, CyclicIsExact
  <2>2. EdgeIssues(g) = {} <=> EdgesWithin(g)
    BY <1>3, NumberedIsPassable, EdgesAreExact
  <2>3. Unconnected(g) = {} <=> Connected(g)
    BY <1>3, ConnectivityIsExact
  <2>4. Accepts(g, active) <=> /\ EdgesWithin(g) /\ Connected(g)
                               /\ Evaluated(g) /\ Configured(g, active)
    BY <1>3, <2>1, <2>2, <2>3, NeedsAreExact DEF Accepts
  <2>5. QED
    BY <1>3, <2>4, RunnableParts, WithinEngineParts
<1>4. QED
  BY <1>1, <1>2, <1>3

-----------------------------------------------------------------------------
(***************************************************************************)
(* The inductive invariant                                                 *)
(***************************************************************************)
EditRequests ==
    [pc : {"add_node", "update_node"}, v : Version, draft : {TRUE}, n : Node, config : Entry \cup {Nothing}]
      \cup [pc : {"delete_node"}, v : Version, draft : {TRUE}, n : Node]
      \cup [pc : {"add_edge", "delete_edge"}, v : Version, draft : {TRUE}, e : EdgeRows]
LoadRequests == [pc : {"load_edges", "judge"}, v : Version, g : GraphRows]
PublishRequests == [pc : {"load_nodes", "publish"}, v : Version]
CopyRequests == [pc : {"copy"}, v : Version \cup {0}, new : Version]
WithdrawRequests == [pc : {"withdraw"}, v : Version, to : {"deprecated", "retired"}]
AuthorRequests ==
    {Free} \cup EditRequests \cup LoadRequests \cup PublishRequests \cup CopyRequests \cup WithdrawRequests

Needs == SUBSET (Entry \cup {Nothing})
StarterRequests ==
    {Free} \cup [pc : {"nodes"}, v : Version, asked : SUBSET Entry]
      \cup [pc : {"edges", "preflight", "create"}, v : Version, asked : SUBSET Entry,
            nodes : SUBSET Node, needs : Needs]

Unpublished == {"none", "draft"}
Sound(v) == Runnable(graph[v]) /\ WithinEngine(graph[v])

\* Versions are numbered as they were made, and their rows are a graph.
VersionsAreRows ==
    /\ status \in [Version -> {"none", "draft", "active", "deprecated", "retired"}]
    /\ graph \in [Version -> GraphRows]
    /\ \A v \in Version : IsGraph(graph[v])
    /\ current \in {"none", "active"} /\ live \subseteq Entry /\ late \subseteq Version
    /\ made \in Version
    /\ \A v \in Version : status[v] # "none" <=> v <= made

\* What a request that has read something still knows.
RequestHolds(r) ==
    /\ r.pc \in Edits \cup {"load_nodes", "load_edges", "judge", "publish"} => status[r.v] # "none"
    /\ r.pc \in {"load_edges", "judge"} =>
          IsFiniteSet(r.g.edges) /\ (r.v \notin late => r.g = graph[r.v])
    /\ r.pc = "publish" /\ r.v \notin late => Sound(r.v)
    /\ r.pc = "copy" => r.v <= made /\ r.new <= made + 1
    /\ r.pc = "withdraw" => status[r.v] \notin Unpublished

StartHolds(r) ==
    /\ r.pc # "idle" => status[r.v] \notin Unpublished /\ live \subseteq r.asked
    /\ r.pc \in {"edges", "preflight", "create"} => r.nodes # {}
    /\ r.pc = "create" => r.needs \subseteq r.asked

RunHolds(r) == status[r.v] \notin Unpublished /\ r.nodes # {} /\ r.needs \subseteq r.asked

DefinitionInv ==
    /\ VersionsAreRows
    /\ author \in [Author -> AuthorRequests]
    /\ starter \in [Starter -> StarterRequests]
    /\ runs \subseteq [v : Version, asked : SUBSET Entry, nodes : SUBSET Node, needs : Needs]
    /\ \A v \in Version : status[v] \notin Unpublished /\ v \notin late => Sound(v)
    /\ \A a \in Author : RequestHolds(author[a])
    /\ \A s \in Starter : StartHolds(starter[s])
    /\ \A r \in runs : RunHolds(r)

LEMMA InitHolds ==
  ASSUME DefinitionInit PROVE DefinitionInv
<1>1. EmptyGraph \in GraphRows /\ EmptyGraph.edges = {} /\ IsGraph(EmptyGraph)
  BY FS_EmptySet DEF EmptyGraph, GraphRows, IsGraph, Readable
<1>2. 1 \in Version
  BY DefinitionAssumption DEF DefinitionAssumption, Version
<1>3. VersionsAreRows
  <2>1. \A v \in Version : v >= 1
    BY DefinitionAssumption DEF DefinitionAssumption, Version
  <2>2. graph \in [Version -> GraphRows] /\ \A v \in Version : IsGraph(graph[v])
    BY <1>1 DEF DefinitionInit, NewWorkflow
  <2>3. \A v \in Version : status[v] # "none" <=> v <= made
    BY <2>1 DEF DefinitionInit, NewWorkflow, Version
  <2>4. QED
    BY <1>2, <2>2, <2>3 DEF DefinitionInit, NewWorkflow, VersionsAreRows
<1>4. \A a \in Author : author[a] = Free /\ RequestHolds(Free)
  BY DEF DefinitionInit, NewWorkflow, Free, RequestHolds, Edits
<1>5. \A s \in Starter : starter[s] = Free /\ StartHolds(Free)
  BY DEF DefinitionInit, NewWorkflow, Free, StartHolds
<1>6. author \in [Author -> AuthorRequests] /\ starter \in [Starter -> StarterRequests]
  BY DEF DefinitionInit, NewWorkflow, AuthorRequests, StarterRequests
<1>7. \A v \in Version : status[v] \in Unpublished
  BY DEF DefinitionInit, NewWorkflow, Unpublished
<1>8. QED
  BY <1>3, <1>4, <1>5, <1>6, <1>7 DEF DefinitionInv, DefinitionInit, NewWorkflow

LEMMA LatestIsMade ==
  ASSUME VersionsAreRows
  PROVE  Latest = made
<1> DEFINE P(v) == status[v] # "none" /\ \A w \in Version : status[w] # "none" => w <= v
<1>1. made \in Version /\ P(made)
  BY DEF VersionsAreRows, Version
<1>2. \A v \in Version : P(v) => v = made
  BY <1>1, DefinitionAssumption DEF VersionsAreRows, Version, DefinitionAssumption
<1>3. Latest = CHOOSE v \in Version : P(v)
  BY DEF Latest
<1> HIDE DEF P
<1>4. QED
  BY <1>1, <1>2, <1>3

(***************************************************************************)
(* Steps that change one request and nothing it depends on                 *)
(***************************************************************************)
LEMMA AuthorKeeps ==
  ASSUME DefinitionInv, NEW a \in Author, NEW x \in AuthorRequests, RequestHolds(x),
         author' = [author EXCEPT ![a] = x],
         UNCHANGED <<status, graph, current, live, starter, runs, late, made>>
  PROVE  DefinitionInv'
<1>1. author' \in [Author -> AuthorRequests]
  BY DEF DefinitionInv
<1>2. \A b \in Author : author'[b] = IF b = a THEN x ELSE author[b]
  BY DEF DefinitionInv
<1>3. (\A b \in Author : RequestHolds(author[b]))'
  <2> SUFFICES ASSUME NEW b \in Author PROVE RequestHolds(author[b])'
    OBVIOUS
  <2>1. RequestHolds(author'[b])
    BY <1>2 DEF DefinitionInv
  <2>2. QED
    BY <2>1 DEF RequestHolds, Sound
<1>4. (\A s \in Starter : StartHolds(starter[s]))'
  BY DEF DefinitionInv, StartHolds
<1>5. (\A r \in runs : RunHolds(r))'
  BY DEF DefinitionInv, RunHolds
<1>6. (\A v \in Version : status[v] \notin Unpublished /\ v \notin late => Sound(v))'
  BY DEF DefinitionInv, Sound
<1>7. VersionsAreRows'
  BY DEF DefinitionInv, VersionsAreRows
<1>8. QED
  BY <1>1, <1>3, <1>4, <1>5, <1>6, <1>7 DEF DefinitionInv

LEMMA StarterKeeps ==
  ASSUME DefinitionInv, NEW s \in Starter, NEW x \in StarterRequests, StartHolds(x),
         starter' = [starter EXCEPT ![s] = x],
         UNCHANGED <<status, graph, current, live, author, runs, late, made>>
  PROVE  DefinitionInv'
<1>1. starter' \in [Starter -> StarterRequests]
  BY DEF DefinitionInv
<1>2. \A b \in Starter : starter'[b] = IF b = s THEN x ELSE starter[b]
  BY DEF DefinitionInv
<1>3. (\A b \in Starter : StartHolds(starter[b]))'
  <2> SUFFICES ASSUME NEW b \in Starter PROVE StartHolds(starter[b])'
    OBVIOUS
  <2>1. StartHolds(starter'[b])
    BY <1>2 DEF DefinitionInv
  <2>2. QED
    BY <2>1 DEF StartHolds
<1>4. (\A a \in Author : RequestHolds(author[a]))'
  BY DEF DefinitionInv, RequestHolds, Sound
<1>5. (\A r \in runs : RunHolds(r))'
  BY DEF DefinitionInv, RunHolds
<1>6. (\A v \in Version : status[v] \notin Unpublished /\ v \notin late => Sound(v))'
  BY DEF DefinitionInv, Sound
<1>7. VersionsAreRows'
  BY DEF DefinitionInv, VersionsAreRows
<1>8. QED
  BY <1>1, <1>3, <1>4, <1>5, <1>6, <1>7 DEF DefinitionInv

LEMMA FreeHolds ==
  Free \in AuthorRequests /\ Free \in StarterRequests /\ RequestHolds(Free) /\ StartHolds(Free)
BY DEF Free, AuthorRequests, StarterRequests, RequestHolds, StartHolds, Edits

\* The row a request finds, and what a graph of rows is made of.
LEMMA RowsAreTyped ==
  ASSUME VersionsAreRows, NEW v \in Version
  PROVE  /\ graph[v] \in GraphRows /\ IsGraph(graph[v])
         /\ graph[v].nodes \subseteq Node /\ graph[v].edges \subseteq EdgeRows
         /\ graph[v].config \in [Node -> Entry \cup {Nothing}]
         /\ IsFiniteSet(graph[v].edges) /\ Readable(graph[v])
BY DEF VersionsAreRows, IsGraph, GraphRows

LEMMA EditReads ==
  ASSUME DefinitionInv, NEW a \in Author,
         AddNodeRead(a) \/ UpdateNodeRead(a) \/ DeleteNodeRead(a) \/ AddEdgeRead(a) \/ DeleteEdgeRead(a)
  PROVE  DefinitionInv'
<1>0. VersionsAreRows
  BY DEF DefinitionInv
<1> DEFINE Request(x) == x \in EditRequests /\ status[x.v] # "none" /\ Begin(a, x)
<1>1. ASSUME AddNodeRead(a) PROVE \E x : Request(x)
  <2>1. PICK v \in Version, n \in Node, config \in Entry \cup {Nothing} :
           /\ Editable(v)
           /\ Begin(a, [pc |-> "add_node", v |-> v, draft |-> status[v] = "draft", n |-> n, config |-> config])
    BY <1>1 DEF AddNodeRead
  <2> DEFINE x == [pc |-> "add_node", v |-> v, draft |-> status[v] = "draft", n |-> n, config |-> config]
  <2>2. status[v] = "draft" /\ x.v = v
    BY <2>1 DEF Editable
  <2>3. x \in EditRequests
    BY <2>2 DEF EditRequests
  <2> HIDE DEF x
  <2>4. QED
    BY <2>1, <2>2, <2>3 DEF x
<1>2. ASSUME UpdateNodeRead(a) PROVE \E x : Request(x)
  <2>1. PICK v \in Version, config \in Entry :
           \E n \in graph[v].nodes :
             /\ Editable(v)
             /\ Begin(a, [pc |-> "update_node", v |-> v, draft |-> status[v] = "draft", n |-> n, config |-> config])
    BY <1>2 DEF UpdateNodeRead
  <2>2. PICK n \in graph[v].nodes :
           /\ Editable(v)
           /\ Begin(a, [pc |-> "update_node", v |-> v, draft |-> status[v] = "draft", n |-> n, config |-> config])
    BY <2>1
  <2> DEFINE x == [pc |-> "update_node", v |-> v, draft |-> status[v] = "draft", n |-> n, config |-> config]
  <2>3. status[v] = "draft" /\ x.v = v /\ n \in Node
    BY <1>0, <2>2, RowsAreTyped DEF Editable
  <2>4. x \in EditRequests
    BY <2>3 DEF EditRequests
  <2> HIDE DEF x
  <2>5. QED
    BY <2>2, <2>3, <2>4 DEF x
<1>3. ASSUME DeleteNodeRead(a) PROVE \E x : Request(x)
  <2>1. PICK v \in Version :
           \E n \in graph[v].nodes :
             /\ Editable(v)
             /\ Begin(a, [pc |-> "delete_node", v |-> v, draft |-> status[v] = "draft", n |-> n])
    BY <1>3 DEF DeleteNodeRead
  <2>2. PICK n \in graph[v].nodes :
           /\ Editable(v)
           /\ Begin(a, [pc |-> "delete_node", v |-> v, draft |-> status[v] = "draft", n |-> n])
    BY <2>1
  <2> DEFINE x == [pc |-> "delete_node", v |-> v, draft |-> status[v] = "draft", n |-> n]
  <2>3. status[v] = "draft" /\ x.v = v /\ n \in Node
    BY <1>0, <2>2, RowsAreTyped DEF Editable
  <2>4. x \in EditRequests
    BY <2>3 DEF EditRequests
  <2> HIDE DEF x
  <2>5. QED
    BY <2>2, <2>3, <2>4 DEF x
<1>4. ASSUME AddEdgeRead(a) PROVE \E x : Request(x)
  <2>1. PICK v \in Version, cond \in BOOLEAN :
           \E f, t \in graph[v].nodes :
             /\ Editable(v)
             /\ Begin(a, [pc |-> "add_edge", v |-> v, draft |-> status[v] = "draft", e |-> Edge(f, t, a, cond)])
    BY <1>4 DEF AddEdgeRead
  <2>2. PICK f \in graph[v].nodes, t \in graph[v].nodes :
           /\ Editable(v)
           /\ Begin(a, [pc |-> "add_edge", v |-> v, draft |-> status[v] = "draft", e |-> Edge(f, t, a, cond)])
    BY <2>1
  <2> DEFINE x == [pc |-> "add_edge", v |-> v, draft |-> status[v] = "draft", e |-> Edge(f, t, a, cond)]
  <2>3. status[v] = "draft" /\ x.v = v /\ Edge(f, t, a, cond) \in EdgeRows
    BY <1>0, <2>2, RowsAreTyped DEF Editable, Edge, EdgeRows
  <2>4. x \in EditRequests
    BY <2>3 DEF EditRequests
  <2> HIDE DEF x
  <2>5. QED
    BY <2>2, <2>3, <2>4 DEF x
<1>5. ASSUME DeleteEdgeRead(a) PROVE \E x : Request(x)
  <2>1. PICK v \in Version :
           \E e \in graph[v].edges :
             /\ Editable(v)
             /\ Begin(a, [pc |-> "delete_edge", v |-> v, draft |-> status[v] = "draft", e |-> e])
    BY <1>5 DEF DeleteEdgeRead
  <2>2. PICK e \in graph[v].edges :
           /\ Editable(v)
           /\ Begin(a, [pc |-> "delete_edge", v |-> v, draft |-> status[v] = "draft", e |-> e])
    BY <2>1
  <2> DEFINE x == [pc |-> "delete_edge", v |-> v, draft |-> status[v] = "draft", e |-> e]
  <2>3. status[v] = "draft" /\ x.v = v /\ e \in EdgeRows
    BY <1>0, <2>2, RowsAreTyped DEF Editable
  <2>4. x \in EditRequests
    BY <2>3 DEF EditRequests
  <2> HIDE DEF x
  <2>5. QED
    BY <2>2, <2>3, <2>4 DEF x
<1>6. PICK x : x \in EditRequests /\ status[x.v] # "none" /\ Begin(a, x)
  BY <1>1, <1>2, <1>3, <1>4, <1>5
<1>7. x \in AuthorRequests /\ RequestHolds(x)
  BY <1>6 DEF AuthorRequests, EditRequests, RequestHolds, Edits
<1>8. QED
  BY <1>6, <1>7, AuthorKeeps DEF Begin

LEMMA PublishReads ==
  ASSUME DefinitionInv, NEW a \in Author, PublishRead(a)
  PROVE  DefinitionInv'
<1>1. PICK v \in Version : status[v] = "draft" /\ Begin(a, [pc |-> "load_nodes", v |-> v])
  BY DEF PublishRead
<1> DEFINE x == [pc |-> "load_nodes", v |-> v]
<1>2. x \in AuthorRequests /\ RequestHolds(x)
  BY <1>1 DEF AuthorRequests, PublishRequests, RequestHolds, Edits
<1> HIDE DEF x
<1>3. QED
  BY <1>1, <1>2, AuthorKeeps DEF Begin, x

LEMMA CopyReads ==
  ASSUME DefinitionInv, NEW a \in Author, CopyRead(a)
  PROVE  DefinitionInv'
<1>0. VersionsAreRows /\ Latest = made
  BY LatestIsMade DEF DefinitionInv
<1>1. PICK v \in {w \in Version : status[w] # "none"} \cup {0} :
         Latest < MaxVersions /\ Begin(a, [pc |-> "copy", v |-> v, new |-> Latest + 1])
  BY DEF CopyRead
<1> DEFINE x == [pc |-> "copy", v |-> v, new |-> Latest + 1]
<1>2. Latest + 1 \in Version /\ v <= made /\ Latest + 1 <= made + 1
  BY <1>0, <1>1, DefinitionAssumption DEF VersionsAreRows, Version, DefinitionAssumption
<1>3. x \in AuthorRequests /\ RequestHolds(x)
  BY <1>1, <1>2 DEF AuthorRequests, CopyRequests, RequestHolds, Edits
<1> HIDE DEF x
<1>4. QED
  BY <1>1, <1>3, AuthorKeeps DEF Begin, x

LEMMA WithdrawReads ==
  ASSUME DefinitionInv, NEW a \in Author, WithdrawRead(a)
  PROVE  DefinitionInv'
<1>1. PICK v \in Version : status[v] \in DOMAIN Later
                           /\ Begin(a, [pc |-> "withdraw", v |-> v, to |-> Later[status[v]]])
  BY DEF WithdrawRead
<1> DEFINE x == [pc |-> "withdraw", v |-> v, to |-> Later[status[v]]]
<1>2. status[v] \notin Unpublished /\ Later[status[v]] \in {"deprecated", "retired"}
  BY <1>1 DEF Later, Unpublished
<1>3. x \in AuthorRequests /\ RequestHolds(x)
  BY <1>2 DEF AuthorRequests, WithdrawRequests, RequestHolds, Edits
<1> HIDE DEF x
<1>4. QED
  BY <1>1, <1>3, AuthorKeeps DEF Begin, x

(***************************************************************************)
(* A publisher's reads and its verdict                                     *)
(***************************************************************************)
LEMMA RequestsByName ==
  ASSUME NEW r \in AuthorRequests
  PROVE  /\ r.pc \in Edits => r \in EditRequests
         /\ r.pc \in {"load_nodes", "publish"} => r \in PublishRequests
         /\ r.pc \in {"load_edges", "judge"} => r \in LoadRequests
         /\ r.pc = "copy" => r \in CopyRequests
         /\ r.pc = "withdraw" => r \in WithdrawRequests
         /\ r.pc \notin {"idle", "copy"} => r.v \in Version
<1>1. r = Free => r.pc = "idle"
  BY DEF Free
<1>2. r \in EditRequests => r.pc \in Edits /\ r.v \in Version
  BY DEF EditRequests, Edits
<1>3. r \in LoadRequests => r.pc \in {"load_edges", "judge"} /\ r.v \in Version
  BY DEF LoadRequests
<1>4. r \in PublishRequests => r.pc \in {"load_nodes", "publish"} /\ r.v \in Version
  BY DEF PublishRequests
<1>5. r \in CopyRequests => r.pc = "copy"
  BY DEF CopyRequests
<1>6. r \in WithdrawRequests => r.pc = "withdraw" /\ r.v \in Version
  BY DEF WithdrawRequests
<1>7. \/ r = Free \/ r \in EditRequests \/ r \in LoadRequests
      \/ r \in PublishRequests \/ r \in CopyRequests \/ r \in WithdrawRequests
  BY DEF AuthorRequests
<1>8. QED
  BY <1>1, <1>2, <1>3, <1>4, <1>5, <1>6, <1>7 DEF Edits

LEMMA LoadsNodes ==
  ASSUME DefinitionInv, NEW a \in Author, LoadNodes(a)
  PROVE  DefinitionInv'
<1> DEFINE r == author[a]
           x == [pc |-> "load_edges", v |-> r.v, g |-> graph[r.v]]
<1>1. r \in AuthorRequests /\ RequestHolds(r) /\ r.pc = "load_nodes" /\ VersionsAreRows
  BY DEF DefinitionInv, LoadNodes
<1>2. r.v \in Version /\ status[r.v] # "none"
  <2> HIDE DEF r
  <2>1. QED
    BY <1>1, RequestsByName DEF RequestHolds
<1>3. author' = [author EXCEPT ![a] = x]
  BY DEF LoadNodes
<1> HIDE DEF r
<1>4. x \in AuthorRequests
  BY <1>1, <1>2, RowsAreTyped DEF AuthorRequests, LoadRequests
<1>5. RequestHolds(x)
  BY <1>1, <1>2, RowsAreTyped DEF RequestHolds, Edits
<1> HIDE DEF x
<1>6. QED
  BY <1>3, <1>4, <1>5, AuthorKeeps DEF LoadNodes

LEMMA LoadsEdges ==
  ASSUME DefinitionInv, NEW a \in Author, LoadEdges(a)
  PROVE  DefinitionInv'
<1> DEFINE r == author[a]
           E == graph[r.v].edges
           h == [r.g EXCEPT !.edges = E]
           x == [pc |-> "judge", v |-> r.v, g |-> h]
<1>1. r \in AuthorRequests /\ RequestHolds(r) /\ r.pc = "load_edges" /\ VersionsAreRows
  BY DEF DefinitionInv, LoadEdges
<1>2. author' = [author EXCEPT ![a] = [r EXCEPT !.pc = "judge", !.g.edges = E]]
  BY DEF LoadEdges, DefinitionInv
<1> HIDE DEF r
<1>3. r \in LoadRequests /\ r.v \in Version /\ r.g \in GraphRows
      /\ status[r.v] # "none" /\ (r.v \notin late => r.g = graph[r.v])
  <2>1. r \in LoadRequests
    BY <1>1, RequestsByName
  <2>2. QED
    BY <1>1, <2>1 DEF LoadRequests, RequestHolds
<1>4. [r EXCEPT !.pc = "judge", !.g.edges = E] = x
  <2> DEFINE q == [r EXCEPT !.pc = "judge"]
  <2>1. [r EXCEPT !.pc = "judge", !.g.edges = E] = [q EXCEPT !.g = [@ EXCEPT !.edges = E]]
    BY Zenon
  <2>2. q = [pc |-> "judge", v |-> r.v, g |-> r.g]
    BY <1>3 DEF LoadRequests
  <2> HIDE DEF q
  <2>3. [q EXCEPT !.g = [@ EXCEPT !.edges = E]] = x
    BY <2>2
  <2>4. QED
    BY <2>1, <2>3
<1>5. graph[r.v] \in GraphRows /\ IsFiniteSet(E) /\ E \in SUBSET EdgeRows
  BY <1>1, <1>3, RowsAreTyped
<1> HIDE DEF E
<1>6. h \in GraphRows /\ h.edges = E
  BY <1>3, <1>5 DEF GraphRows
<1>7. r.v \notin late => h = graph[r.v]
  BY <1>3 DEF GraphRows, E
<1> HIDE DEF h
<1>8. x \in AuthorRequests
  BY <1>3, <1>6 DEF AuthorRequests, LoadRequests
<1>9. RequestHolds(x)
  BY <1>3, <1>5, <1>6, <1>7 DEF RequestHolds, Edits
<1> HIDE DEF x
<1>10. QED
  BY <1>2, <1>4, <1>8, <1>9, AuthorKeeps DEF LoadEdges

LEMMA Judges ==
  ASSUME DefinitionInv, NEW a \in Author, Judge(a)
  PROVE  DefinitionInv'
<1> DEFINE r == author[a]
           x == IF Readable(r.g) /\ Accepts(r.g, live) THEN [pc |-> "publish", v |-> r.v] ELSE Free
<1>1. r \in AuthorRequests /\ RequestHolds(r) /\ r.pc = "judge" /\ VersionsAreRows
  BY DEF DefinitionInv, Judge
<1>2. author' = [author EXCEPT ![a] = x]
  BY DEF Judge
<1> HIDE DEF r
<1>3. /\ r.v \in Version /\ r.g \in GraphRows /\ IsFiniteSet(r.g.edges)
      /\ status[r.v] # "none" /\ (r.v \notin late => r.g = graph[r.v])
  <2>1. r \in LoadRequests
    BY <1>1, RequestsByName
  <2>2. QED
    BY <1>1, <2>1 DEF LoadRequests, RequestHolds
<1>4. Readable(r.g) /\ Accepts(r.g, live) /\ r.v \notin late => Sound(r.v)
  BY <1>3, AcceptedIsRunnable DEF IsGraph, Sound
<1>5. x \in AuthorRequests
  BY <1>3, FreeHolds DEF AuthorRequests, PublishRequests
<1>6. RequestHolds(x)
  <2>1. CASE Readable(r.g) /\ Accepts(r.g, live)
    <3> DEFINE y == [pc |-> "publish", v |-> r.v]
    <3>1. y.pc = "publish" /\ y.v = r.v
      OBVIOUS
    <3> HIDE DEF y
    <3>2. RequestHolds(y)
      BY <1>3, <1>4, <2>1, <3>1 DEF RequestHolds
    <3>3. QED
      BY <2>1, <3>2 DEF y
  <2>2. CASE ~(Readable(r.g) /\ Accepts(r.g, live))
    BY <2>2, FreeHolds
  <2>3. QED
    BY <2>1, <2>2
<1> HIDE DEF x
<1>7. QED
  BY <1>2, <1>5, <1>6, AuthorKeeps DEF Judge

(***************************************************************************)
(* Writes to the rows                                                      *)
(***************************************************************************)
LEMMA EditedIsGraph ==
  ASSUME NEW r \in EditRequests, NEW g, IsGraph(g)
  PROVE  IsGraph(Edited(r, g))
<1>0. /\ g \in GraphRows /\ IsFiniteSet(g.edges) /\ Readable(g)
      /\ g.nodes \subseteq Node /\ g.edges \subseteq EdgeRows /\ g.gone \subseteq Node
      /\ g.config \in [Node -> Entry \cup {Nothing}]
  BY DEF IsGraph, GraphRows
<1>1. ASSUME NEW n \in Node, NEW config \in Entry \cup {Nothing}
      PROVE  IsGraph(NodeAdded(g, n, config)) /\ IsGraph(NodeUpdated(g, n, config))
  <2> DEFINE c == [g.config EXCEPT ![n] = config]
             h == [g EXCEPT !.nodes = @ \cup {n}, !.config[n] = config]
             k == [g EXCEPT !.config[n] = config]
  <2>1. c \in [Node -> Entry \cup {Nothing}]
    BY <1>0
  <2>2. h = [nodes |-> g.nodes \cup {n}, config |-> c, edges |-> g.edges, gone |-> g.gone]
        /\ k = [nodes |-> g.nodes, config |-> c, edges |-> g.edges, gone |-> g.gone]
    <3> DEFINE q == [g EXCEPT !.nodes = @ \cup {n}]
    <3>1. h = [q EXCEPT !.config = [@ EXCEPT ![n] = config]] /\ k = [g EXCEPT !.config = [@ EXCEPT ![n] = config]]
      BY Zenon
    <3>2. q = [nodes |-> g.nodes \cup {n}, config |-> g.config, edges |-> g.edges, gone |-> g.gone]
      BY <1>0 DEF GraphRows
    <3> HIDE DEF h, k, q
    <3>3. h = [nodes |-> g.nodes \cup {n}, config |-> c, edges |-> g.edges, gone |-> g.gone]
      BY <3>1, <3>2
    <3>4. k = [nodes |-> g.nodes, config |-> c, edges |-> g.edges, gone |-> g.gone]
      BY <1>0, <3>1 DEF GraphRows
    <3>5. QED
      BY <3>3, <3>4
  <2>3. IsGraph(h) /\ IsGraph(k)
    <3> HIDE DEF c
    <3>1. h.edges = g.edges /\ k.edges = g.edges /\ h.nodes = g.nodes \cup {n} /\ k.nodes = g.nodes
      BY <2>2
    <3>2. h \in GraphRows /\ k \in GraphRows
      BY <1>0, <2>1, <2>2 DEF GraphRows
    <3>3. Readable(h) /\ Readable(k)
      BY <1>0, <3>1 DEF Readable
    <3>4. QED
      BY <1>0, <3>1, <3>2, <3>3 DEF IsGraph
  <2> HIDE DEF h, k
  <2>4. QED
    BY <2>3 DEF NodeAdded, NodeUpdated, h, k
<1>2. ASSUME NEW n \in Node PROVE IsGraph(NodeDeleted(g, n))
  <2> DEFINE h == [nodes |-> g.nodes \ {n}, config |-> [g.config EXCEPT ![n] = Nothing],
                   edges |-> g.edges \ (Sources(g, n) \cup Targets(g, n)), gone |-> g.gone \cup {n}]
  <2>1. h \in GraphRows
    BY <1>0 DEF GraphRows
  <2>2. IsFiniteSet(h.edges)
    BY <1>0, FS_Subset
  <2>3. Readable(h)
    BY <1>0 DEF Readable, Sources, Targets
  <2>4. IsGraph(h)
    BY <2>1, <2>2, <2>3 DEF IsGraph
  <2> HIDE DEF h
  <2>5. QED
    BY <2>4 DEF NodeDeleted, h
<1>3. ASSUME NEW e \in EdgeRows PROVE IsGraph(EdgeAdded(g, e)) /\ IsGraph(EdgeDeleted(g, e))
  <2> DEFINE h == [g EXCEPT !.edges = @ \cup {e}]
             k == [g EXCEPT !.edges = @ \ {e}]
  <2>1. /\ h \in GraphRows /\ h.edges = g.edges \cup {e} /\ h.nodes = g.nodes
        /\ k \in GraphRows /\ k.edges = g.edges \ {e} /\ k.nodes = g.nodes
    BY <1>0 DEF GraphRows
  <2> HIDE DEF h, k
  <2>2. IsFiniteSet(h.edges) /\ IsFiniteSet(k.edges)
    BY <1>0, <2>1, FS_AddElement, FS_RemoveElement
  <2>3. EndsExist(g, e) => Readable(h)
    BY <1>0, <2>1 DEF EndsExist, Readable
  <2>4. Readable(k)
    BY <1>0, <2>1 DEF Readable
  <2>5. (EndsExist(g, e) => IsGraph(h)) /\ IsGraph(k)
    BY <2>1, <2>2, <2>3, <2>4 DEF IsGraph
  <2>6. QED
    BY <2>5 DEF EdgeAdded, EdgeDeleted, h, k
<1>4. CASE r.pc = "add_node"
  BY <1>1, <1>4 DEF EditRequests, Edited
<1>5. CASE r.pc = "update_node"
  BY <1>1, <1>5 DEF EditRequests, Edited
<1>6. CASE r.pc = "delete_node"
  BY <1>2, <1>6 DEF EditRequests, Edited
<1>7. CASE r.pc = "add_edge"
  BY <1>3, <1>7 DEF EditRequests, Edited
<1>8. CASE r.pc = "delete_edge"
  BY <1>3, <1>8 DEF EditRequests, Edited
<1>9. QED
  BY <1>4, <1>5, <1>6, <1>7, <1>8 DEF EditRequests

\* An edit that changes what a publisher has read, or what is published, is late.
LEMMA EditWrites ==
  ASSUME DefinitionInv, NEW a \in Author, EditWrite(a)
  PROVE  DefinitionInv'
<1> DEFINE r == author[a]
           g == Edited(r, graph[r.v])
<1>1. r \in AuthorRequests /\ RequestHolds(r) /\ r.pc \in Edits /\ VersionsAreRows
  BY DEF DefinitionInv, EditWrite
<1>2. /\ graph' = [graph EXCEPT ![r.v] = g]
      /\ late' = IF r.draft /\ g # graph[r.v] /\ BeingPublished(r.v) THEN late \cup {r.v} ELSE late
      /\ author' = [author EXCEPT ![a] = Free]
      /\ UNCHANGED <<status, current, live, starter, runs, made, requests>>
  BY DEF EditWrite
<1> HIDE DEF r
<1>3. r \in EditRequests /\ r.v \in Version /\ r.draft = TRUE /\ status[r.v] # "none"
  <2>1. r \in EditRequests
    BY <1>1, RequestsByName
  <2>2. QED
    BY <1>1, <2>1 DEF EditRequests, RequestHolds
<1>4. IsGraph(g)
  BY <1>1, <1>3, RowsAreTyped, EditedIsGraph
<1> HIDE DEF g
<1>5. \A w \in Version : graph'[w] = IF w = r.v THEN g ELSE graph[w]
  BY <1>1, <1>2 DEF VersionsAreRows
<1>6. VersionsAreRows'
  <2>1. graph' \in [Version -> GraphRows]
    BY <1>1, <1>2, <1>4 DEF VersionsAreRows, IsGraph
  <2>2. (\A w \in Version : IsGraph(graph[w]))'
    BY <1>1, <1>4, <1>5 DEF VersionsAreRows
  <2>3. late' \subseteq Version
    BY <1>1, <1>2, <1>3 DEF VersionsAreRows
  <2>4. QED
    BY <1>1, <1>2, <2>1, <2>2, <2>3 DEF VersionsAreRows
<1>7. \A w \in Version : w \notin late' =>
         w \notin late /\ (BeingPublished(w) => graph'[w] = graph[w])
  BY <1>2, <1>3, <1>5
<1>8. \A b \in Author : author'[b] = IF b = a THEN Free ELSE author[b]
  BY <1>2 DEF DefinitionInv
<1>9. (\A b \in Author : RequestHolds(author[b]))'
  <2> SUFFICES ASSUME NEW b \in Author PROVE RequestHolds(author[b])'
    OBVIOUS
  <2>1. CASE b = a
    <3>1. RequestHolds(Free)'
      BY DEF RequestHolds, Free, Edits
    <3>2. author'[b] = Free
      BY <1>8, <2>1
    <3>3. QED
      BY <3>2 DEF RequestHolds, Free, Edits
  <2>2. CASE b # a
    <3> DEFINE q == author[b]
    <3>1. q \in AuthorRequests /\ RequestHolds(q) /\ author'[b] = q
      BY <1>8, <2>2 DEF DefinitionInv
    <3>2. q.pc \notin {"idle", "copy"} => q.v \in Version
      <4> HIDE DEF q
      <4>1. QED
        BY <3>1, RequestsByName
    <3>3. q.pc \in {"load_edges", "judge", "publish"} => BeingPublished(q.v)
      BY DEF BeingPublished
    <3> HIDE DEF q
    <3>4. q.pc \in {"load_edges", "judge", "publish"} /\ q.v \notin late' =>
             q.v \notin late /\ graph'[q.v] = graph[q.v]
      BY <1>7, <3>2, <3>3
    <3>5. QED
      BY <1>2, <3>1, <3>4 DEF RequestHolds, Sound
  <2>3. QED
    BY <2>1, <2>2
<1>10. (\A v \in Version : status[v] \notin Unpublished /\ v \notin late => Sound(v))'
  <2> SUFFICES ASSUME NEW v \in Version, status'[v] \notin Unpublished, v \notin late'
               PROVE  Sound(v)'
    BY DEF Unpublished
  <2>1. BeingPublished(v) /\ status[v] \notin Unpublished
    BY <1>2 DEF BeingPublished, Unpublished
  <2>2. v \notin late /\ graph'[v] = graph[v]
    BY <1>7, <2>1
  <2>3. Sound(v)
    BY <2>1, <2>2 DEF DefinitionInv
  <2>4. QED
    BY <2>2, <2>3 DEF Sound
<1>11. (\A s \in Starter : StartHolds(starter[s]))' /\ (\A q \in runs : RunHolds(q))'
  BY <1>2 DEF DefinitionInv, StartHolds, RunHolds
<1>12. author' \in [Author -> AuthorRequests]
  BY <1>2, FreeHolds DEF DefinitionInv
<1>13. QED
  BY <1>2, <1>6, <1>9, <1>10, <1>11, <1>12 DEF DefinitionInv

\* A published version only moves on to another published status.
LEMMA StatusKeeps ==
  ASSUME DefinitionInv, NEW a \in Author, NEW v \in Version, NEW x \in {"active", "deprecated", "retired"},
         status[v] # "none", v \notin late => Sound(v),
         status' = [status EXCEPT ![v] = x],
         author' = [author EXCEPT ![a] = Free],
         current' \in {"none", "active"},
         UNCHANGED <<graph, live, starter, runs, late, made>>
  PROVE  DefinitionInv'
<1>1. VersionsAreRows
  BY DEF DefinitionInv
<1>2. \A w \in Version : status'[w] = IF w = v THEN x ELSE status[w]
  BY <1>1 DEF VersionsAreRows
<1>3. /\ \A w \in Version : status'[w] # "none" <=> status[w] # "none"
      /\ \A w \in Version : status[w] \notin Unpublished => status'[w] \notin Unpublished
  BY <1>2 DEF Unpublished
<1>4. VersionsAreRows'
  BY <1>1, <1>2, <1>3 DEF VersionsAreRows
<1>5. \A b \in Author : author'[b] = IF b = a THEN Free ELSE author[b]
  BY DEF DefinitionInv
<1>6. (\A b \in Author : RequestHolds(author[b]))'
  <2> SUFFICES ASSUME NEW b \in Author PROVE RequestHolds(author[b])'
    OBVIOUS
  <2>1. CASE b = a
    <3>1. author'[b] = Free
      BY <1>5, <2>1
    <3>2. QED
      BY <3>1 DEF RequestHolds, Free, Edits
  <2>2. CASE b # a
    <3> DEFINE q == author[b]
    <3>1. q \in AuthorRequests /\ RequestHolds(q) /\ author'[b] = q
      BY <1>5, <2>2 DEF DefinitionInv
    <3> HIDE DEF q
    <3>2. q.pc \notin {"idle", "copy"} => q.v \in Version
      BY <3>1, RequestsByName
    <3>3. QED
      BY <1>3, <3>1, <3>2 DEF RequestHolds, Sound, Edits
  <2>3. QED
    BY <2>1, <2>2
<1>7. (\A w \in Version : status[w] \notin Unpublished /\ w \notin late => Sound(w))'
  BY <1>2 DEF DefinitionInv, Sound
<1>8. (\A s \in Starter : StartHolds(starter[s]))'
  <2> SUFFICES ASSUME NEW s \in Starter PROVE StartHolds(starter[s])'
    OBVIOUS
  <2>1. starter[s] \in StarterRequests /\ StartHolds(starter[s])
    BY DEF DefinitionInv
  <2>2. starter[s].pc # "idle" => starter[s].v \in Version
    BY <2>1 DEF StarterRequests, Free
  <2>3. QED
    BY <1>3, <2>1, <2>2 DEF StartHolds
<1>9. (\A r \in runs : RunHolds(r))'
  BY <1>3 DEF DefinitionInv, RunHolds
<1>10. author' \in [Author -> AuthorRequests]
  BY FreeHolds DEF DefinitionInv
<1>11. QED
  BY <1>4, <1>6, <1>7, <1>8, <1>9, <1>10 DEF DefinitionInv

LEMMA PublishWrites ==
  ASSUME DefinitionInv, NEW a \in Author, PublishWrite(a)
  PROVE  DefinitionInv'
<1> DEFINE r == author[a]
<1>1. r \in AuthorRequests /\ RequestHolds(r) /\ r.pc = "publish"
  BY DEF DefinitionInv, PublishWrite
<1>2. status' = [status EXCEPT ![r.v] = "active"]
  BY DEF PublishWrite
<1> HIDE DEF r
<1>3. r.v \in Version /\ status[r.v] # "none" /\ (r.v \notin late => Sound(r.v))
  BY <1>1, RequestsByName DEF RequestHolds
<1>4. QED
  BY <1>2, <1>3, StatusKeeps DEF PublishWrite

LEMMA WithdrawWrites ==
  ASSUME DefinitionInv, NEW a \in Author, WithdrawWrite(a)
  PROVE  DefinitionInv'
<1> DEFINE r == author[a]
<1>1. r \in AuthorRequests /\ RequestHolds(r) /\ r.pc = "withdraw"
  BY DEF DefinitionInv, WithdrawWrite
<1>2. status' = [status EXCEPT ![r.v] = r.to]
  BY DEF WithdrawWrite
<1> HIDE DEF r
<1>3. r \in WithdrawRequests
  BY <1>1, RequestsByName
<1>4. r.v \in Version /\ r.to \in {"active", "deprecated", "retired"} /\ status[r.v] \notin Unpublished
  BY <1>1, <1>3 DEF WithdrawRequests, RequestHolds
<1>5. status[r.v] # "none" /\ (r.v \notin late => Sound(r.v))
  BY <1>4 DEF DefinitionInv, Unpublished
<1>6. current' \in {"none", "active"}
  BY DEF WithdrawWrite, DefinitionInv, VersionsAreRows
<1>7. QED
  BY <1>2, <1>4, <1>5, <1>6, StatusKeeps DEF WithdrawWrite

\* The number of a copy is the next one, or it is refused.
LEMMA CopyWrites ==
  ASSUME DefinitionInv, NEW a \in Author, CopyWrite(a)
  PROVE  DefinitionInv'
<1> DEFINE r == author[a]
<1>1. r \in AuthorRequests /\ RequestHolds(r) /\ r.pc = "copy" /\ VersionsAreRows
  BY DEF DefinitionInv, CopyWrite
<1>2. /\ IF Taken(r.new) THEN UNCHANGED <<status, graph, made>>
         ELSE /\ status' = [status EXCEPT ![r.new] = "draft"]
              /\ graph' = [graph EXCEPT ![r.new] =
                             IF r.v = 0 THEN EmptyGraph ELSE [graph[r.v] EXCEPT !.gone = {}]]
              /\ made' = made + 1
      /\ author' = [author EXCEPT ![a] = Free]
      /\ UNCHANGED <<current, live, starter, runs, late, requests>>
  BY DEF CopyWrite
<1> HIDE DEF r
<1>3. r \in CopyRequests
  BY <1>1, RequestsByName
<1>4. r.new \in Version /\ r.v \in Version \cup {0} /\ r.new <= made + 1
  BY <1>1, <1>3 DEF CopyRequests, RequestHolds
<1>5. CASE Taken(r.new)
  BY <1>2, <1>5, FreeHolds, AuthorKeeps
<1>6. CASE ~Taken(r.new)
  <2> DEFINE new == IF r.v = 0 THEN EmptyGraph ELSE [graph[r.v] EXCEPT !.gone = {}]
  <2>0. made \in Nat /\ r.new \in Nat /\ made \in Version
    BY <1>1, <1>4, DefinitionAssumption DEF VersionsAreRows, Version, DefinitionAssumption
  <2>1. status[r.new] = "none" /\ r.new = made + 1
    BY <1>1, <1>4, <1>6, <2>0 DEF Taken, VersionsAreRows
  <2>2. /\ status' = [status EXCEPT ![r.new] = "draft"]
        /\ graph' = [graph EXCEPT ![r.new] = new]
        /\ made' = made + 1
    BY <1>2, <1>6
  <2>3. IsGraph(new)
    <3>1. IsGraph(EmptyGraph)
      BY FS_EmptySet DEF EmptyGraph, GraphRows, IsGraph, Readable
    <3>2. ASSUME r.v # 0 PROVE IsGraph([graph[r.v] EXCEPT !.gone = {}])
      <4>1. IsGraph(graph[r.v])
        BY <1>1, <1>4, <3>2, RowsAreTyped
      <4>2. \A g : IsGraph(g) => IsGraph([g EXCEPT !.gone = {}])
        BY DEF IsGraph, GraphRows, Readable
      <4>3. QED
        BY <4>1, <4>2
    <3>3. QED
      BY <3>1, <3>2
  <2> HIDE DEF new
  <2>4. /\ \A w \in Version : status'[w] = IF w = r.new THEN "draft" ELSE status[w]
        /\ \A w \in Version : graph'[w] = IF w = r.new THEN new ELSE graph[w]
    BY <1>1, <2>2 DEF VersionsAreRows
  <2>5. VersionsAreRows'
    <3>1. status' \in [Version -> {"none", "draft", "active", "deprecated", "retired"}]
      BY <1>1, <2>2 DEF VersionsAreRows
    <3>2. graph' \in [Version -> GraphRows] /\ (\A w \in Version : IsGraph(graph[w]))'
      BY <1>1, <2>2, <2>3, <2>4 DEF VersionsAreRows, IsGraph
    <3>3. made' \in Version
      BY <1>4, <2>1, <2>2
    <3>4. \A w \in Version : w \in Nat
      BY DEF Version
    <3>5. (\A w \in Version : status[w] # "none" <=> w <= made)'
      <4> SUFFICES ASSUME NEW w \in Version PROVE status'[w] # "none" <=> w <= made'
        BY DEF Version
      <4>1. CASE w = r.new
        BY <2>0, <2>1, <2>2, <2>4, <4>1
      <4>2. CASE w # r.new
        <5>1. status'[w] = status[w] /\ (status[w] # "none" <=> w <= made) /\ w \in Nat
          BY <1>1, <2>4, <3>4, <4>2 DEF VersionsAreRows
        <5>2. w <= made <=> w <= made + 1
          BY <2>0, <2>1, <4>2, <5>1
        <5>3. QED
          BY <2>2, <5>1, <5>2
      <4>3. QED
        BY <4>1, <4>2
    <3>6. QED
      BY <1>1, <1>2, <3>1, <3>2, <3>3, <3>5 DEF VersionsAreRows
  <2>6. \A w \in Version : status[w] # "none" => status'[w] = status[w] /\ graph'[w] = graph[w]
    BY <2>1, <2>4
  <2>7. \A b \in Author : author'[b] = IF b = a THEN Free ELSE author[b]
    BY <1>2 DEF DefinitionInv
  <2>8. (\A b \in Author : RequestHolds(author[b]))'
    <3> SUFFICES ASSUME NEW b \in Author PROVE RequestHolds(author[b])'
      OBVIOUS
    <3>1. CASE b = a
      <4>1. author'[b] = Free
        BY <2>7, <3>1
      <4>2. QED
        BY <4>1 DEF RequestHolds, Free, Edits
    <3>2. CASE b # a
      <4> DEFINE q == author[b]
      <4>1. q \in AuthorRequests /\ RequestHolds(q) /\ author'[b] = q
        BY <2>7, <3>2 DEF DefinitionInv
      <4> HIDE DEF q
      <4>2. q.pc \notin {"idle", "copy"} => q.v \in Version
        BY <4>1, RequestsByName
      <4>3. q.pc = "copy" => q.v \in Nat /\ q.new \in Nat
        BY <4>1, RequestsByName DEF CopyRequests, Version
      <4>4. CASE q.pc = "copy"
        BY <2>0, <2>2, <4>1, <4>3, <4>4 DEF RequestHolds, Edits
      <4>5. CASE q.pc = "withdraw"
        <5>1. status[q.v] # "none" /\ status[q.v] \notin Unpublished
          BY <4>1, <4>5 DEF RequestHolds, Unpublished
        <5>2. status'[q.v] = status[q.v]
          BY <2>6, <4>2, <4>5, <5>1
        <5>3. QED
          BY <4>1, <4>5, <5>1, <5>2 DEF RequestHolds, Edits
      <4>6. CASE q.pc \notin {"copy", "withdraw"}
        BY <1>2, <2>6, <4>1, <4>2, <4>6 DEF RequestHolds, Sound, Edits
      <4>7. QED
        BY <4>4, <4>5, <4>6
    <3>3. QED
      BY <3>1, <3>2
  <2>9. (\A w \in Version : status[w] \notin Unpublished /\ w \notin late => Sound(w))'
    <3> SUFFICES ASSUME NEW w \in Version, status'[w] \notin Unpublished, w \notin late PROVE Sound(w)'
      BY <1>2 DEF Unpublished
    <3>1. w # r.new
      BY <2>4 DEF Unpublished
    <3>2. status[w] \notin Unpublished /\ graph'[w] = graph[w]
      BY <2>4, <3>1
    <3>3. Sound(w)
      BY <3>2 DEF DefinitionInv
    <3>4. QED
      BY <3>2, <3>3 DEF Sound
  <2>10. \A w \in Version : status[w] \notin Unpublished => status'[w] \notin Unpublished
    BY <2>6 DEF Unpublished
  <2>11. (\A s \in Starter : StartHolds(starter[s]))'
    <3> SUFFICES ASSUME NEW s \in Starter PROVE StartHolds(starter[s])'
      OBVIOUS
    <3>1. starter[s] \in StarterRequests /\ StartHolds(starter[s])
      BY DEF DefinitionInv
    <3>2. starter[s].pc # "idle" => starter[s].v \in Version
      BY <3>1 DEF StarterRequests, Free
    <3>3. QED
      BY <1>2, <2>10, <3>1, <3>2 DEF StartHolds
  <2>12. (\A q \in runs : RunHolds(q))'
    BY <1>2, <2>10 DEF DefinitionInv, RunHolds
  <2>13. author' \in [Author -> AuthorRequests]
    BY <1>2, FreeHolds DEF DefinitionInv
  <2>14. QED
    BY <1>2, <2>5, <2>8, <2>9, <2>11, <2>12, <2>13 DEF DefinitionInv
<1>7. QED
  BY <1>5, <1>6

LEMMA EntriesRetire ==
  ASSUME DefinitionInv, RetireEntry
  PROVE  DefinitionInv'
<1>1. live' \subseteq live /\ UNCHANGED <<status, graph, current, author, starter, runs, late, made>>
  BY DEF RetireEntry
<1>2. VersionsAreRows'
  BY <1>1 DEF DefinitionInv, VersionsAreRows
<1>3. (\A a \in Author : RequestHolds(author[a]))'
  BY <1>1 DEF DefinitionInv, RequestHolds, Sound
<1>4. (\A s \in Starter : StartHolds(starter[s]))'
  BY <1>1 DEF DefinitionInv, StartHolds
<1>5. (\A r \in runs : RunHolds(r))' /\ (\A v \in Version : status[v] \notin Unpublished /\ v \notin late => Sound(v))'
  BY <1>1 DEF DefinitionInv, RunHolds, Sound
<1>6. QED
  BY <1>1, <1>2, <1>3, <1>4, <1>5 DEF DefinitionInv

(***************************************************************************)
(* The start of a run                                                      *)
(***************************************************************************)
LEMMA StartReads ==
  ASSUME DefinitionInv, NEW s \in Starter, StartRead(s)
  PROVE  DefinitionInv'
<1>1. PICK v \in Version : status[v] = "active"
                           /\ starter' = [starter EXCEPT ![s] = [pc |-> "nodes", v |-> v, asked |-> live]]
  BY DEF StartRead
<1> DEFINE x == [pc |-> "nodes", v |-> v, asked |-> live]
<1>2. x \in StarterRequests
  BY DEF StarterRequests, DefinitionInv, VersionsAreRows
<1>3. StartHolds(x)
  BY <1>1 DEF StartHolds, Unpublished
<1> HIDE DEF x
<1>4. QED
  BY <1>1, <1>2, <1>3, StarterKeeps DEF StartRead, x

LEMMA StarterByName ==
  ASSUME NEW r \in StarterRequests
  PROVE  /\ r.pc = "nodes" => r \in [pc : {"nodes"}, v : Version, asked : SUBSET Entry]
         /\ r.pc \in {"edges", "preflight", "create"} =>
               r \in [pc : {"edges", "preflight", "create"}, v : Version, asked : SUBSET Entry,
                      nodes : SUBSET Node, needs : Needs]
BY DEF StarterRequests, Free

LEMMA StartsNodes ==
  ASSUME DefinitionInv, NEW s \in Starter, StartNodes(s)
  PROVE  DefinitionInv'
<1> DEFINE r == starter[s]
           g == graph[r.v]
           needs == {g.config[n] : n \in {m \in g.nodes : TypeOf[m] = "evaluation"}}
           y == [pc |-> "edges", v |-> r.v, asked |-> r.asked, nodes |-> g.nodes, needs |-> needs]
           x == IF g.nodes = {} THEN Free ELSE y
<1>1. r \in StarterRequests /\ StartHolds(r) /\ r.pc = "nodes" /\ VersionsAreRows
  BY DEF DefinitionInv, StartNodes
<1>2. starter' = [starter EXCEPT ![s] = x]
  BY DEF StartNodes
<1> HIDE DEF r
<1>3. r.v \in Version /\ r.asked \in SUBSET Entry /\ status[r.v] \notin Unpublished /\ live \subseteq r.asked
  BY <1>1, StarterByName DEF StartHolds
<1>4. g.nodes \in SUBSET Node /\ g.config \in [Node -> Entry \cup {Nothing}]
  BY <1>1, <1>3, RowsAreTyped
<1> HIDE DEF g
<1>5. needs \in Needs
  BY <1>4 DEF Needs
<1> HIDE DEF needs
<1>6. y \in StarterRequests /\ (g.nodes # {} => StartHolds(y))
  BY <1>3, <1>4, <1>5 DEF StarterRequests, StartHolds
<1> HIDE DEF y
<1>7. x \in StarterRequests /\ StartHolds(x)
  BY <1>6, FreeHolds
<1> HIDE DEF x
<1>8. QED
  BY <1>2, <1>7, StarterKeeps DEF StartNodes

LEMMA StartsOn ==
  ASSUME DefinitionInv, NEW s \in Starter, StartEdges(s) \/ StartPreflight(s)
  PROVE  DefinitionInv'
<1> DEFINE r == starter[s]
           On(pc) == [r EXCEPT !.pc = pc]
<1>1. r \in StarterRequests /\ StartHolds(r) /\ r.pc \in {"edges", "preflight"}
  BY DEF DefinitionInv, StartEdges, StartPreflight
<1>2. \/ starter' = [starter EXCEPT ![s] = Free]
      \/ starter' = [starter EXCEPT ![s] = On("preflight")]
      \/ r.needs \subseteq live /\ starter' = [starter EXCEPT ![s] = On("create")]
  <2>1. CASE StartEdges(s)
    BY <2>1 DEF StartEdges
  <2>2. CASE StartPreflight(s)
    BY <2>2 DEF StartPreflight, Preflight
  <2>3. QED
    BY <2>1, <2>2
<1> HIDE DEF r
<1>3. r \in [pc : {"edges", "preflight", "create"}, v : Version, asked : SUBSET Entry,
             nodes : SUBSET Node, needs : Needs]
  BY <1>1, StarterByName
<1>4. On("preflight") \in StarterRequests /\ StartHolds(On("preflight"))
  BY <1>1, <1>3 DEF StarterRequests, StartHolds
<1>5. On("create") \in StarterRequests /\ (r.needs \subseteq live => StartHolds(On("create")))
  BY <1>1, <1>3 DEF StarterRequests, StartHolds
<1>6. UNCHANGED <<status, graph, current, live, author, runs, late, made>>
  BY DEF StartEdges, StartPreflight
<1> HIDE DEF On
<1>7. QED
  BY <1>2, <1>4, <1>5, <1>6, FreeHolds, StarterKeeps

LEMMA StartCreates ==
  ASSUME DefinitionInv, NEW s \in Starter, StartCreate(s)
  PROVE  DefinitionInv'
<1> DEFINE r == starter[s]
           run == [v |-> r.v, asked |-> r.asked, nodes |-> r.nodes, needs |-> r.needs]
<1>1. r \in StarterRequests /\ StartHolds(r) /\ r.pc = "create"
  BY DEF DefinitionInv, StartCreate
<1>2. /\ runs' = runs \cup {run} /\ starter' = [starter EXCEPT ![s] = Free]
      /\ UNCHANGED <<status, graph, current, live, author, late, made>>
  BY DEF StartCreate
<1> HIDE DEF r
<1>3. r \in [pc : {"edges", "preflight", "create"}, v : Version, asked : SUBSET Entry,
             nodes : SUBSET Node, needs : Needs]
  BY <1>1, StarterByName
<1>4. run \in [v : Version, asked : SUBSET Entry, nodes : SUBSET Node, needs : Needs] /\ RunHolds(run)
  BY <1>1, <1>3 DEF StartHolds, RunHolds
<1> HIDE DEF run
<1>5. (\A q \in runs : RunHolds(q))'
  BY <1>2, <1>4 DEF DefinitionInv, RunHolds
<1>6. VersionsAreRows' /\ (\A a \in Author : RequestHolds(author[a]))'
  BY <1>2 DEF DefinitionInv, VersionsAreRows, RequestHolds, Sound
<1>7. \A b \in Starter : starter'[b] = IF b = s THEN Free ELSE starter[b]
  BY <1>2 DEF DefinitionInv
<1>8. (\A b \in Starter : StartHolds(starter[b]))'
  <2> SUFFICES ASSUME NEW b \in Starter PROVE StartHolds(starter[b])'
    OBVIOUS
  <2>1. StartHolds(starter'[b])
    BY <1>7, FreeHolds DEF DefinitionInv
  <2>2. QED
    BY <1>2, <2>1 DEF StartHolds
<1>9. (\A v \in Version : status[v] \notin Unpublished /\ v \notin late => Sound(v))'
  BY <1>2 DEF DefinitionInv, Sound
<1>10. starter' \in [Starter -> StarterRequests]
  BY <1>2, FreeHolds DEF DefinitionInv
<1>11. QED
  BY <1>2, <1>4, <1>5, <1>6, <1>8, <1>9, <1>10 DEF DefinitionInv

-----------------------------------------------------------------------------
(***************************************************************************)
(* Theorems                                                                *)
(***************************************************************************)
LEMMA NextKeeps ==
  ASSUME DefinitionInv, [DefinitionNext]_definitionVars
  PROVE  DefinitionInv'
<1>1. CASE UNCHANGED definitionVars
  <2>1. UNCHANGED <<status, graph, current, live, author, starter, runs, late, made>>
    BY <1>1 DEF definitionVars
  <2>2. VersionsAreRows'
    BY <2>1 DEF DefinitionInv, VersionsAreRows
  <2>3. (\A a \in Author : RequestHolds(author[a]))'
    BY <2>1 DEF DefinitionInv, RequestHolds, Sound
  <2>4. (\A s \in Starter : StartHolds(starter[s]))' /\ (\A r \in runs : RunHolds(r))'
    BY <2>1 DEF DefinitionInv, StartHolds, RunHolds
  <2>5. (\A v \in Version : status[v] \notin Unpublished /\ v \notin late => Sound(v))'
    BY <2>1 DEF DefinitionInv, Sound
  <2>6. QED
    BY <2>1, <2>2, <2>3, <2>4, <2>5 DEF DefinitionInv
<1>2. ASSUME NEW a \in Author,
             \/ AddNodeRead(a) \/ UpdateNodeRead(a) \/ DeleteNodeRead(a)
             \/ AddEdgeRead(a) \/ DeleteEdgeRead(a)
      PROVE  DefinitionInv'
  BY <1>2, EditReads
<1>3. ASSUME NEW a \in Author, EditWrite(a) PROVE DefinitionInv'
  BY <1>3, EditWrites
<1>4. ASSUME NEW a \in Author,
             PublishRead(a) \/ LoadNodes(a) \/ LoadEdges(a) \/ Judge(a) \/ PublishWrite(a)
      PROVE  DefinitionInv'
  BY <1>4, PublishReads, LoadsNodes, LoadsEdges, Judges, PublishWrites
<1>5. ASSUME NEW a \in Author, CopyRead(a) \/ CopyWrite(a) \/ WithdrawRead(a) \/ WithdrawWrite(a)
      PROVE  DefinitionInv'
  BY <1>5, CopyReads, CopyWrites, WithdrawReads, WithdrawWrites
<1>6. CASE RetireEntry
  BY <1>6, EntriesRetire
<1>7. ASSUME NEW s \in Starter,
             StartRead(s) \/ StartNodes(s) \/ StartEdges(s) \/ StartPreflight(s) \/ StartCreate(s)
      PROVE  DefinitionInv'
  BY <1>7, StartReads, StartsNodes, StartsOn, StartCreates
<1>8. QED
  BY <1>1, <1>2, <1>3, <1>4, <1>5, <1>6, <1>7 DEF DefinitionNext

\* The inductive invariant holds of every behaviour of the authoring requests.
THEOREM AuthoringIsConsistent == DefinitionSpec => []DefinitionInv
<1>1. DefinitionInit => DefinitionInv
  BY InitHolds
<1>2. DefinitionInv /\ [DefinitionNext]_definitionVars => DefinitionInv'
  BY NextKeeps
<1>3. QED
  BY <1>1, <1>2, PTL DEF DefinitionSpec

\* Whatever editors, publishers and copiers do between one another's reads and
\* writes, no version is lost and every published one can be run, but for one an
\* edit overtook (workflow_definition_service.py).
THEOREM VersionsAreSound == DefinitionSpec => []VersionInv
<1>1. DefinitionInv => VersionInv
  <2> SUFFICES ASSUME DefinitionInv PROVE VersionInv
    OBVIOUS
  <2>1. VersionsAreRows
    BY DEF DefinitionInv
  <2>2. DefinitionTypeOK
    <3>1. \A v \in Version : graph[v].nodes \subseteq Node /\ Readable(graph[v])
      BY <2>1, RowsAreTyped
    <3>2. \A r \in runs : r.nodes # {} /\ status[r.v] \notin {"none", "draft"}
      BY DEF DefinitionInv, RunHolds, Unpublished
    <3>3. QED
      BY <2>1, <3>1, <3>2 DEF DefinitionTypeOK, VersionsAreRows
  <2>3. PublishedIsRunnable
    BY DEF DefinitionInv, PublishedIsRunnable, Unpublished, Sound
  <2>4. NoVersionIsLost
    <3>1. \A v : v \in Version /\ status[v] # "none" <=> v \in 1 .. made
      BY <2>1, DefinitionAssumption DEF VersionsAreRows, Version, DefinitionAssumption
    <3>2. QED
      BY <3>1 DEF NoVersionIsLost
  <2>5. QED
    BY <2>2, <2>3, <2>4 DEF VersionInv
<1>2. QED
  BY <1>1, AuthoringIsConsistent, PTL

\* Every verdict a publisher reaches is exact: the validator accepts what it
\* loaded just if the engine can run it (workflow_validation_service.py).
THEOREM VerdictsAreExact == DefinitionSpec => []ValidatorIsExact
<1>1. DefinitionInv => ValidatorIsExact
  <2> SUFFICES ASSUME DefinitionInv, NEW a \in Author, author[a].pc = "judge", Readable(author[a].g)
               PROVE  Accepts(author[a].g, live) <=>
                         Runnable(author[a].g) /\ WithinEngine(author[a].g) /\ Configured(author[a].g, live)
    BY DEF ValidatorIsExact
  <2> DEFINE r == author[a]
  <2>1. r \in AuthorRequests /\ RequestHolds(r) /\ r.pc = "judge" /\ Readable(r.g)
    BY DEF DefinitionInv
  <2> HIDE DEF r
  <2>2. IsGraph(r.g)
    BY <2>1, RequestsByName DEF LoadRequests, RequestHolds, IsGraph
  <2>3. QED
    BY <2>2, AcceptedIsRunnable DEF r
<1>2. QED
  BY <1>1, AuthoringIsConsistent, PTL

\* No run starts on an entry that was withdrawn before the start was asked for
\* (workflow_execution_service.py, start_workflow_run).
THEOREM RunsStartOnLiveEntries == DefinitionSpec => []NoRunOnWithdrawnEntry
<1>1. DefinitionInv => NoRunOnWithdrawnEntry
  BY DEF DefinitionInv, RunHolds, NoRunOnWithdrawnEntry
<1>2. QED
  BY <1>1, AuthoringIsConsistent, PTL
=============================================================================
