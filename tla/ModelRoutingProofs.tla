-------------------------- MODULE ModelRoutingProofs --------------------------
(***************************************************************************)
(* Proofs about ModelRouting, for any catalogue, any number of refreshes,  *)
(* switches and decisions at once: what a decision rests on is sound, a    *)
(* decision keeps to the policy it was asked for, and a new model is not   *)
(* penalised.                                                              *)
(***************************************************************************)
EXTENDS ModelRouting, SequenceTheorems, WellFoundedInduction, TLAPS

-----------------------------------------------------------------------------
(***************************************************************************)
(* The order of the candidates                                             *)
(***************************************************************************)
LEMMA LeastNatural ==
  ASSUME NEW S \in SUBSET Nat, S # {}
  PROVE  \E x \in S : \A y \in S : x <= y
<1>1. PICK x \in S : \A y \in S : ~(<<y, x>> \in OpToRel(<, Nat))
  BY NatLessThanWellFounded, WFMin
<1>2. \A y \in S : x <= y
  <2> SUFFICES ASSUME NEW y \in S, y < x PROVE FALSE
    OBVIOUS
  <2>1. <<y, x>> \in OpToRel(<, Nat)
    BY DEF OpToRel
  <2>2. QED
    BY <1>1, <2>1
<1>3. QED
  BY <1>2

\* Induction up to N, on a set in place of a predicate.
LEMMA InductionUpTo ==
  ASSUME NEW N \in Nat, NEW S, 0 \in S, \A k \in 0 .. N - 1 : k \in S => k + 1 \in S
  PROVE  0 .. N \subseteq S
<1> SUFFICES ASSUME 0 .. N \ S # {} PROVE FALSE
  OBVIOUS
<1>1. PICK x \in 0 .. N \ S : \A y \in 0 .. N \ S : x <= y
  BY LeastNatural, 0 .. N \ S \in SUBSET Nat
<1>2. x # 0 /\ x - 1 \in 0 .. N - 1 /\ x - 1 \in S
  BY <1>1
<1>3. QED
  BY <1>1, <1>2

\* Of keys of one length there is a first one in lexicographic order, and if the
\* last component tells the candidates apart, First finds it.
LEMMA FirstIsFirst ==
  ASSUME NEW S, S # {}, NEW L \in Nat \ {0}, NEW key \in [S -> [1 .. L -> Nat]],
         \A o \in S, q \in S : key[o][L] = key[q][L] => o = q
  PROVE  /\ First(S, key) \in S
         /\ \A q \in S \ {First(S, key)} : Precedes(key[First(S, key)], key[q])
<1> DEFINE Agree(o, q, i) == \A j \in 1 .. i : key[o][j] = key[q][j]
           Less(o, q, i) == \E j \in 1 .. i : key[o][j] < key[q][j] /\ Agree(o, q, j - 1)
           Best(o, i) == \A q \in S : Agree(o, q, i) \/ Less(o, q, i)
           P == {i \in 0 .. L : \E o \in S : Best(o, i)}
<1>1. 0 \in P
  <2>1. \A o \in S, q \in S : Agree(o, q, 0)
    OBVIOUS
  <2>2. \A o \in S : Best(o, 0)
    BY <2>1
  <2> HIDE DEF Best
  <2>3. QED
    BY <2>2
<1>2. ASSUME NEW i \in 0 .. L - 1, i \in P PROVE i + 1 \in P
  <2> HIDE DEF Best
  <2>0. PICK o \in S : Best(o, i)
    BY <1>2
  <2> USE DEF Best
  <2> DEFINE T == {q \in S : Agree(o, q, i)}
             V == {key[q][i + 1] : q \in T}
  <2>1. o \in T /\ V \in SUBSET Nat /\ V # {}
    OBVIOUS
  <2>2. PICK b \in T : \A q \in T : key[b][i + 1] <= key[q][i + 1]
    <3> HIDE DEF T
    <3>1. PICK x \in V : \A y \in V : x <= y
      BY <2>1, LeastNatural
    <3>2. PICK b \in T : x = key[b][i + 1]
      BY <3>1
    <3>3. ASSUME NEW q \in T PROVE key[b][i + 1] <= key[q][i + 1]
      <4>1. key[q][i + 1] \in V
        OBVIOUS
      <4>2. QED
        BY <3>1, <3>2, <4>1
    <3>4. QED
      BY <3>3
  <2>3. ASSUME NEW q \in S PROVE Agree(b, q, i + 1) \/ Less(b, q, i + 1)
    <3>1. CASE Agree(o, q, i)
      <4>1. q \in T /\ key[b][i + 1] <= key[q][i + 1] /\ Agree(b, q, i)
        BY <2>2, <3>1
      <4>2. CASE key[b][i + 1] = key[q][i + 1]
        BY <4>1, <4>2, SMTT(40)
      <4>3. CASE key[b][i + 1] # key[q][i + 1]
        <5>1. key[b] \in [1 .. L -> Nat] /\ key[q] \in [1 .. L -> Nat]
          OBVIOUS
        <5>2. key[b][i + 1] < key[q][i + 1] /\ i + 1 \in 1 .. i + 1 /\ Agree(b, q, (i + 1) - 1)
          BY <4>1, <4>3, <5>1
        <5>3. QED
          BY <5>2
      <4>4. QED
        BY <4>2, <4>3
    <3>2. CASE Less(o, q, i)
      <4>1. PICK j \in 1 .. i : key[o][j] < key[q][j] /\ Agree(o, q, j - 1)
        BY <3>2
      <4>2. key[b][j] < key[q][j] /\ Agree(b, q, j - 1) /\ j \in 1 .. i + 1
        BY <4>1, <2>2
      <4>3. QED
        BY <4>2
    <3>3. QED
      BY <2>0, <3>1, <3>2
  <2>4. b \in S /\ Best(b, i + 1)
    BY <2>2, <2>3
  <2> HIDE DEF Best
  <2>5. QED
    BY <2>4
<1>3. PICK o \in S : Best(o, L)
  <2> HIDE DEF P
  <2>1. 0 .. L \subseteq P
    BY <1>1, <1>2, InductionUpTo
  <2>2. L \in P
    BY <2>1
  <2>3. QED
    BY <2>2 DEF P
<1>4. \A q \in S \ {o} : Precedes(key[o], key[q])
  <2> HIDE DEF P
  <2> SUFFICES ASSUME NEW q \in S \ {o} PROVE Precedes(key[o], key[q])
    OBVIOUS
  <2>1. Less(o, q, L)
    <3>1. SUFFICES ASSUME Agree(o, q, L) PROVE FALSE
      BY <1>3
    <3>2. key[o][L] = key[q][L]
      BY <3>1
    <3>3. QED
      BY <3>2
  <2>2. PICK j \in 1 .. L : key[o][j] < key[q][j] /\ Agree(o, q, j - 1)
    BY <2>1
  <2>3. DOMAIN key[o] = 1 .. L
    OBVIOUS
  <2>4. QED
    BY <2>2, <2>3 DEF Precedes
<1>5. QED
  BY <1>4 DEF First

\* What the first component of a key decides.
LEMMA PrecedesByFirst ==
  ASSUME NEW s, NEW t, s[1] \in Nat, t[1] \in Nat, Precedes(s, t), DOMAIN s \subseteq Nat \ {0}
  PROVE  s[1] <= t[1]
BY DEF Precedes

LEMMA PrecedesIsStrict ==
  ASSUME NEW L \in Nat, NEW s \in [1 .. L -> Nat], NEW t \in [1 .. L -> Nat],
         Precedes(s, t)
  PROVE  ~Precedes(t, s)
<1> SUFFICES ASSUME Precedes(t, s) PROVE FALSE
  OBVIOUS
<1>1. PICK i \in 1 .. L : s[i] < t[i] /\ \A j \in 1 .. (i - 1) : s[j] = t[j]
  BY DEF Precedes
<1>2. PICK k \in 1 .. L : t[k] < s[k] /\ \A j \in 1 .. (k - 1) : t[j] = s[j]
  BY DEF Precedes
<1>3. CASE i < k
  BY <1>1, <1>2, <1>3
<1>4. CASE k < i
  BY <1>1, <1>2, <1>4
<1>5. CASE k = i
  BY <1>1, <1>2, <1>5
<1>6. QED
  BY <1>3, <1>4, <1>5

-----------------------------------------------------------------------------
(***************************************************************************)
(* The keys, and what the first candidate is like                          *)
(***************************************************************************)
\* What a routing decision has read of the catalogue.
Snapshot(seen) ==
    /\ DOMAIN seen \subseteq Offering
    /\ \A o \in DOMAIN seen : seen[o].price \in Prices

\* The key of one candidate with evidence.
EvidenceKey(mode, o, p, c, f) == Boundary(mode, Classify(p)) \o SortKey(c, f) \o TieBreakKey(o, p)

LEMMA ClassOfPrice ==
  ASSUME NEW p \in Prices
  PROVE  /\ Classify(p) \in {"free", "paid", "unknown"}
         /\ Tier[Classify(p)] \in 0 .. 2
         /\ Classify(p) = "free" <=> Tier[Classify(p)] = 0
         /\ Classify(p) = "paid" <=> Tier[Classify(p)] = 1
         /\ Classify(p) = "unknown" <=> Tier[Classify(p)] = 2
BY DEF Classify, Tier

LEMMA TieBreakKeyShape ==
  ASSUME NEW o \in Offering, NEW p \in Prices
  PROVE  /\ TieBreakKey(o, p) \in [1 .. 4 -> Nat]
         /\ TieBreakKey(o, p) \in Seq(Nat) /\ Len(TieBreakKey(o, p)) = 4
         /\ TieBreakKey(o, p)[1] = Tier[Classify(p)]
         /\ TieBreakKey(o, p)[4] = Place[o]
<1>1. PICK x \in Nat, y \in Nat : InputCost(p) = <<x, y>>
  <2>1. p[1] \in Nat \cup {Unknown}
    BY RoutingAssumption DEF RoutingAssumption
  <2>2. QED
    BY <2>1 DEF InputCost
<1>2. Tier[Classify(p)] \in Nat /\ Place[o] \in Nat
  BY ClassOfPrice, RoutingAssumption DEF RoutingAssumption
<1> DEFINE t == Tier[Classify(p)]
<1> HIDE DEF t
<1>3. TieBreakKey(o, p) = <<t, x, y, Place[o]>>
  BY <1>1 DEF TieBreakKey, t
<1>4. QED
  BY <1>1, <1>2, <1>3 DEF t

LEMMA SortKeyShape ==
  ASSUME NEW c, NEW f
  PROVE  \E x \in 0 .. 1, y \in 0 .. 2 : /\ SortKey(c, f) = <<x, y>>
                                         /\ x = 1 <=> Reliability(c) = "demoted"
                                         /\ y = 0 <=> Quality(f) = "positive"
                                         /\ y = 2 <=> Quality(f) = "negative"
<1> HIDE DEF Reliability, Quality
<1>1. QED
  BY DEF SortKey

\* Where the evidence may not cross a boundary, the boundary leads the key.
LEMMA BoundaryShape ==
  ASSUME NEW mode \in {"prefer_free", "any"}, NEW p \in Prices
  PROVE  \E b \in 0 .. 1 : /\ Boundary(mode, Classify(p)) = <<b>>
                           /\ mode = "prefer_free" => (b = 0 <=> Classify(p) = "free")
                           /\ mode = "any" => (b = 1 <=> Classify(p) = "unknown")
BY ClassOfPrice DEF Boundary

KeyLength(mode) == IF mode = "free_only" THEN 6 ELSE 7

LEMMA Joined ==
  ASSUME NEW s \in Seq(Nat), NEW t \in Seq(Nat)
  PROVE  /\ s \o t \in Seq(Nat)
         /\ Len(s \o t) = Len(s) + Len(t)
         /\ \A i \in 1 .. Len(s) : (s \o t)[i] = s[i]
         /\ \A i \in 1 .. Len(t) : (s \o t)[Len(s) + i] = t[i]
OBVIOUS

LEMMA EvidenceKeyShape ==
  ASSUME NEW mode \in Mode, NEW o \in Offering, NEW p \in Prices, NEW c, NEW f
  PROVE  /\ EvidenceKey(mode, o, p, c, f) \in [1 .. KeyLength(mode) -> Nat]
         /\ EvidenceKey(mode, o, p, c, f)[KeyLength(mode)] = Place[o]
         /\ mode # "free_only" =>
               EvidenceKey(mode, o, p, c, f)[1] = Boundary(mode, Classify(p))[1]
         /\ \A i \in 1 .. 4 :
               EvidenceKey(mode, o, p, c, f)[KeyLength(mode) - 4 + i] = TieBreakKey(o, p)[i]
         /\ \A i \in 1 .. 2 :
               EvidenceKey(mode, o, p, c, f)[KeyLength(mode) - 6 + i] = SortKey(c, f)[i]
<1>1. PICK x \in Nat, y \in Nat : SortKey(c, f) = <<x, y>>
  BY SortKeyShape
<1> DEFINE T == TieBreakKey(o, p)
<1>2. T \in [1 .. 4 -> Nat] /\ T[4] = Place[o]
  BY TieBreakKeyShape
<1>3. T \in Seq(Nat) /\ Len(T) = 4
  BY TieBreakKeyShape
<1> HIDE DEF T
<1>4. CASE mode = "free_only"
  <2>1. EvidenceKey(mode, o, p, c, f) = <<x, y>> \o T
    BY <1>1, <1>3, <1>4 DEF EvidenceKey, Boundary, T
  <2> DEFINE K == <<x, y>> \o T
  <2>2. K \in [1 .. 6 -> Nat] /\ K[1] = x /\ K[2] = y /\ \A i \in 1 .. 4 : K[2 + i] = T[i]
    <3> DEFINE s == <<x, y>>
    <3>1. s \in Seq(Nat) /\ Len(s) = 2 /\ s[1] = x /\ s[2] = y
      BY <1>1
    <3> HIDE DEF s
    <3>2. /\ s \o T \in Seq(Nat)
          /\ Len(s \o T) = Len(s) + Len(T)
          /\ \A i \in 1 .. Len(s) : (s \o T)[i] = s[i]
          /\ \A i \in 1 .. Len(T) : (s \o T)[Len(s) + i] = T[i]
      BY <1>3, <3>1, Joined
    <3>3. K = s \o T
      BY DEF s
    <3> HIDE DEF K
    <3>4. K \in Seq(Nat) /\ Len(K) = 6
      BY <1>3, <3>1, <3>2, <3>3
    <3>5. K \in [1 .. 6 -> Nat]
      BY <3>4, LenProperties
    <3>6. \A i \in 1 .. 4 : K[2 + i] = T[i]
      BY <1>3, <3>1, <3>2, <3>3
    <3>7. \A i \in 1 .. Len(s) : K[i] = s[i]
      BY <3>2, <3>3
    <3>8. QED
      BY <3>1, <3>5, <3>6, <3>7
  <2> HIDE DEF K
  <2>3. K[6] = T[4]
    BY <2>2
  <2>4. /\ EvidenceKey(mode, o, p, c, f) = K
        /\ KeyLength(mode) = 6 /\ 6 - 4 = 2 /\ 6 - 6 = 0
        /\ SortKey(c, f)[1] = x /\ SortKey(c, f)[2] = y
    BY <1>1, <1>4, <2>1 DEF KeyLength, K
  <2>5. \A i \in 1 .. 2 : K[0 + i] = SortKey(c, f)[i]
    BY <2>2, <2>4
  <2>6. /\ \A i \in 1 .. 4 : K[KeyLength(mode) - 4 + i] = T[i]
        /\ \A i \in 1 .. 2 : K[KeyLength(mode) - 6 + i] = SortKey(c, f)[i]
    BY <2>2, <2>4, <2>5
  <2>7. K[KeyLength(mode)] = Place[o] /\ K \in [1 .. KeyLength(mode) -> Nat]
    BY <1>2, <2>2, <2>3, <2>4
  <2>8. QED
    BY <1>4, <2>4, <2>6, <2>7 DEF T
<1>5. CASE mode # "free_only"
  <2>0. mode \in {"prefer_free", "any"}
    BY <1>5 DEF Mode
  <2>1. PICK b \in Nat : Boundary(mode, Classify(p)) = <<b>>
    BY <2>0, BoundaryShape
  <2>2. EvidenceKey(mode, o, p, c, f) = <<b, x, y>> \o T
    BY <1>1, <1>3, <2>1 DEF EvidenceKey, T
  <2> DEFINE K == <<b, x, y>> \o T
  <2>3. K \in [1 .. 7 -> Nat] /\ K[1] = b /\ K[2] = x /\ K[3] = y /\ \A i \in 1 .. 4 : K[3 + i] = T[i]
    <3> DEFINE s == <<b, x, y>>
    <3>1. s \in Seq(Nat) /\ Len(s) = 3 /\ s[1] = b /\ s[2] = x /\ s[3] = y
      BY <1>1, <2>1
    <3> HIDE DEF s
    <3>2. /\ s \o T \in Seq(Nat)
          /\ Len(s \o T) = Len(s) + Len(T)
          /\ \A i \in 1 .. Len(s) : (s \o T)[i] = s[i]
          /\ \A i \in 1 .. Len(T) : (s \o T)[Len(s) + i] = T[i]
      BY <1>3, <3>1, Joined
    <3>3. K = s \o T
      BY DEF s
    <3> HIDE DEF K
    <3>4. K \in Seq(Nat) /\ Len(K) = 7
      BY <1>3, <3>1, <3>2, <3>3
    <3>5. K \in [1 .. 7 -> Nat]
      BY <3>4, LenProperties
    <3>6. \A i \in 1 .. 4 : K[3 + i] = T[i]
      BY <1>3, <3>1, <3>2, <3>3
    <3>7. \A i \in 1 .. Len(s) : K[i] = s[i]
      BY <3>2, <3>3
    <3>8. QED
      BY <3>1, <3>5, <3>6, <3>7
  <2> HIDE DEF K
  <2>4. K[7] = T[4]
    BY <2>3
  <2>5. /\ EvidenceKey(mode, o, p, c, f) = K
        /\ KeyLength(mode) = 7 /\ 7 - 4 = 3 /\ 7 - 6 = 1
        /\ SortKey(c, f)[1] = x /\ SortKey(c, f)[2] = y
        /\ Boundary(mode, Classify(p))[1] = b
    BY <1>1, <1>5, <2>1, <2>2 DEF KeyLength, K
  <2>6. \A i \in 1 .. 2 : K[1 + i] = SortKey(c, f)[i]
    BY <2>3, <2>5
  <2>7. QED
    BY <1>2, <2>3, <2>4, <2>5, <2>6 DEF T
<1>6. QED
  BY <1>4, <1>5

\* The deterministic order has a first candidate.
LEMMA TieBreakPicks ==
  ASSUME NEW mode, NEW seen, Snapshot(seen), Eligible(mode, seen) # {}
  PROVE  LET S == Eligible(mode, seen)
             t == TieBreakPick(mode, seen)
         IN /\ t \in S
            /\ \A q \in S \ {t} : Precedes(TieBreakKey(t, seen[t].price), TieBreakKey(q, seen[q].price))
<1> DEFINE S == Eligible(mode, seen)
           key == [o \in S |-> TieBreakKey(o, seen[o].price)]
<1> DEFINE L == 4
<1>1. \A o \in S : o \in Offering /\ seen[o].price \in Prices
  BY DEF Snapshot, Eligible
<1>2. TieBreakPick(mode, seen) = First(S, key)
  BY DEF TieBreakPick
<1> HIDE DEF S
<1>3. key \in [S -> [1 .. L -> Nat]]
  BY <1>1, TieBreakKeyShape
<1>4. \A o \in S, q \in S : key[o][L] = key[q][L] => o = q
  <2>1. \A o \in S : key[o][L] = Place[o]
    BY <1>1, TieBreakKeyShape
  <2>2. QED
    BY <1>1, <2>1, RoutingAssumption DEF RoutingAssumption
<1>5. /\ First(S, key) \in S
      /\ \A q \in S \ {First(S, key)} : Precedes(key[First(S, key)], key[q])
  <2> HIDE DEF key
  <2>0. L \in Nat \ {0}
    OBVIOUS
  <2> HIDE DEF L
  <2>1. S # {}
    BY DEF S
  <2>2. QED
    BY <1>3, <1>4, <2>0, <2>1, FirstIsFirst
<1>6. QED
  BY <1>2, <1>5 DEF S

LEMMA EvidencePicks ==
  ASSUME NEW mode \in Mode, NEW seen, NEW c, NEW f, Snapshot(seen), Eligible(mode, seen) # {}
  PROVE  LET S == Eligible(mode, seen)
             t == EvidencePick(mode, seen, c, f)
         IN /\ t \in S
            /\ \A q \in S \ {t} : Precedes(EvidenceKey(mode, t, seen[t].price, c[t], f[t]),
                                           EvidenceKey(mode, q, seen[q].price, c[q], f[q]))
<1> DEFINE S == Eligible(mode, seen)
           key == [o \in S |-> EvidenceKey(mode, o, seen[o].price, c[o], f[o])]
<1>1. \A o \in S : o \in Offering /\ seen[o].price \in Prices
  BY DEF Snapshot, Eligible
<1>2. EvidencePick(mode, seen, c, f) = First(S, key)
  BY DEF EvidencePick, EvidenceKey
<1> HIDE DEF S
<1> DEFINE L == KeyLength(mode)
<1>3. L \in Nat \ {0}
  BY DEF KeyLength
<1> HIDE DEF L
<1>4. key \in [S -> [1 .. L -> Nat]]
  BY <1>1, EvidenceKeyShape DEF L
<1>5. \A o \in S, q \in S : key[o][L] = key[q][L] => o = q
  BY <1>1, EvidenceKeyShape, RoutingAssumption DEF RoutingAssumption, L
<1>6. /\ First(S, key) \in S
      /\ \A q \in S \ {First(S, key)} : Precedes(key[First(S, key)], key[q])
  <2> HIDE DEF key
  <2>1. S # {}
    BY DEF S
  <2>2. QED
    BY <1>3, <1>4, <1>5, <2>1, FirstIsFirst
<1>7. QED
  BY <1>2, <1>6 DEF S

-----------------------------------------------------------------------------
(***************************************************************************)
(* What a decision promises                                                *)
(***************************************************************************)
\* No eligible candidate is of a class the mode puts before that of t.
Foremost(mode, seen, t) ==
    LET S == Eligible(mode, seen)
        class == [o \in S |-> Classify(seen[o].price)]
    IN /\ t \in S
       /\ mode = "prefer_free" => \A q \in S : class[q] = "free" => class[t] = "free"
       /\ mode = "any" => \A q \in S : class[q] # "unknown" => class[t] # "unknown"

LEMMA TieBreakIsForemost ==
  ASSUME NEW mode \in Mode, NEW seen, Snapshot(seen), Eligible(mode, seen) # {}
  PROVE  Foremost(mode, seen, TieBreakPick(mode, seen))
<1> DEFINE S == Eligible(mode, seen)
           t == TieBreakPick(mode, seen)
           tier == [o \in S |-> Tier[Classify(seen[o].price)]]
<1>1. \A o \in S : o \in Offering /\ seen[o].price \in Prices
  BY DEF Snapshot, Eligible
<1>2. t \in S /\ \A q \in S \ {t} : Precedes(TieBreakKey(t, seen[t].price), TieBreakKey(q, seen[q].price))
  BY TieBreakPicks
<1> HIDE DEF S, t
<1>3. \A q \in S : tier[t] <= tier[q]
  <2> SUFFICES ASSUME NEW q \in S \ {t} PROVE tier[t] <= tier[q]
    BY <1>1, <1>2, ClassOfPrice
  <2> DEFINE k == TieBreakKey(t, seen[t].price)
             l == TieBreakKey(q, seen[q].price)
  <2>1. k \in [1 .. 4 -> Nat] /\ l \in [1 .. 4 -> Nat] /\ k[1] = tier[t] /\ l[1] = tier[q]
    BY <1>1, <1>2, TieBreakKeyShape
  <2>2. Precedes(k, l)
    BY <1>2
  <2> HIDE DEF k, l
  <2>3. QED
    BY <2>1, <2>2, PrecedesByFirst
<1>4. \A o \in S : /\ tier[o] \in 0 .. 2
                   /\ Classify(seen[o].price) = "free" <=> tier[o] = 0
                   /\ Classify(seen[o].price) = "unknown" <=> tier[o] = 2
  BY <1>1, ClassOfPrice
<1>5. QED
  BY <1>2, <1>3, <1>4 DEF Foremost, S, t

LEMMA EvidenceIsForemost ==
  ASSUME NEW mode \in Mode, NEW seen, NEW c, NEW f, Snapshot(seen), Eligible(mode, seen) # {}
  PROVE  Foremost(mode, seen, EvidencePick(mode, seen, c, f))
<1> DEFINE S == Eligible(mode, seen)
           t == EvidencePick(mode, seen, c, f)
           key == [o \in S |-> EvidenceKey(mode, o, seen[o].price, c[o], f[o])]
<1>1. \A o \in S : o \in Offering /\ seen[o].price \in Prices
  BY DEF Snapshot, Eligible
<1>2. t \in S /\ \A q \in S \ {t} : Precedes(key[t], key[q])
  BY EvidencePicks
<1>3. CASE mode = "free_only"
  BY <1>2, <1>3 DEF Foremost
<1>4. CASE mode # "free_only"
  <2>0. mode \in {"prefer_free", "any"}
    BY <1>4 DEF Mode
  <2> DEFINE b == [o \in S |-> key[o][1]]
  <2>1. \A o \in S : key[o] \in [1 .. KeyLength(mode) -> Nat] /\ key[o][1] = Boundary(mode, Classify(seen[o].price))[1]
    BY <1>1, <1>4, EvidenceKeyShape
  <2>2. \A o \in S : /\ b[o] \in 0 .. 1
                     /\ mode = "prefer_free" => (b[o] = 0 <=> Classify(seen[o].price) = "free")
                     /\ mode = "any" => (b[o] = 1 <=> Classify(seen[o].price) = "unknown")
    BY <1>1, <2>0, <2>1, BoundaryShape
  <2> HIDE DEF S, t, key
  <2>3. \A q \in S : b[t] <= b[q]
    <3> SUFFICES ASSUME NEW q \in S \ {t} PROVE b[t] <= b[q]
      BY <1>2, <2>2
    <3>1. KeyLength(mode) \in Nat
      BY DEF KeyLength
    <3>2. Precedes(key[t], key[q]) /\ key[t][1] \in Nat /\ key[q][1] \in Nat /\ DOMAIN key[t] \subseteq Nat \ {0}
      BY <1>2, <2>1, <2>2, <3>1
    <3>3. key[t][1] <= key[q][1]
      BY <3>2, PrecedesByFirst
    <3>4. QED
      BY <1>2, <3>3
  <2>4. QED
    BY <1>2, <2>2, <2>3 DEF Foremost, S, t
<1>5. QED
  BY <1>3, <1>4

\* Whoever is foremost, or nobody if nothing is eligible, respects the policy.
LEMMA ForemostRespects ==
  ASSUME NEW d, d.mode \in Mode, Snapshot(d.seen),
         \/ Foremost(d.mode, d.seen, d.pick)
         \/ d.pick = NoPick /\ Eligible(d.mode, d.seen) = {}
  PROVE  RespectsPolicy(d)
<1> DEFINE seen == d.seen
           S == Eligible(d.mode, seen)
           class == [o \in DOMAIN seen |-> Classify(seen[o].price)]
           usable == {o \in DOMAIN seen : CatalogueEligible(seen[o])}
           Has(k) == \E o \in usable : class[o] = k
           picked == IF d.pick = NoPick THEN "nothing" ELSE class[d.pick]
<1>1. \A o \in DOMAIN seen : class[o] \in {"free", "paid", "unknown"} /\ o # NoPick
  BY ClassOfPrice, RoutingAssumption DEF Snapshot, RoutingAssumption, NoPick
<1>2. S = {o \in usable : PolicyEligible(d.mode, class[o])}
  BY DEF Eligible
<1>3. /\ Foremost(d.mode, seen, d.pick) => d.pick \in S
      /\ Foremost(d.mode, seen, d.pick) /\ d.mode = "prefer_free" =>
            \A q \in S : class[q] = "free" => class[d.pick] = "free"
      /\ Foremost(d.mode, seen, d.pick) /\ d.mode = "any" =>
            \A q \in S : class[q] # "unknown" => class[d.pick] # "unknown"
  <2>1. S \subseteq DOMAIN seen
    BY <1>2
  <2>2. \A o \in DOMAIN seen : class[o] = Classify(seen[o].price)
    OBVIOUS
  <2>3. [o \in S |-> Classify(seen[o].price)] = [o \in S |-> class[o]]
    BY <2>1, <2>2
  <2> HIDE DEF class
  <2>4. QED
    BY <2>1, <2>3 DEF Foremost
<1>4. usable \subseteq DOMAIN seen
  OBVIOUS
<1> HIDE DEF class, usable, S, seen
<1>5. /\ d.mode = "free_only" => S = {o \in usable : class[o] = "free"}
      /\ d.mode = "prefer_free" => S = {o \in usable : class[o] # "unknown"}
      /\ d.mode = "any" => S = usable
  BY <1>2 DEF PolicyEligible
<1>6. d.pick \in usable \cup {NoPick}
  BY <1>2, <1>3 DEF seen, S
<1>7. CASE d.pick = NoPick /\ S = {}
  <2>1. CASE d.mode = "free_only"
    BY <1>5, <1>6, <1>7, <2>1
       DEF RespectsPolicy, seen, class, usable
  <2>2. CASE d.mode = "prefer_free"
    BY <1>5, <1>6, <1>7, <2>2 DEF RespectsPolicy, seen, class, usable
  <2>3. CASE d.mode = "any"
    BY <1>5, <1>6, <1>7, <2>3 DEF RespectsPolicy, seen, class, usable
  <2>4. QED
    BY <2>1, <2>2, <2>3 DEF Mode
<1>8. CASE Foremost(d.mode, seen, d.pick)
  <2>0. d.pick \in usable /\ d.pick # NoPick /\ class[d.pick] \in {"free", "paid", "unknown"} /\ picked = class[d.pick]
    BY <1>1, <1>2, <1>3, <1>4, <1>8
  <2>1. CASE d.mode = "free_only"
    <3>1. picked = "free" /\ Has("free")
      BY <1>3, <1>5, <1>8, <2>0, <2>1
    <3>2. QED
      BY <1>6, <2>1, <3>1 DEF RespectsPolicy, seen, class, usable
  <2>2. CASE d.mode = "prefer_free"
    <3>1. /\ picked = IF Has("free") THEN "free" ELSE IF Has("paid") THEN "paid" ELSE "nothing"
      BY <1>3, <1>5, <1>8, <2>0, <2>2
    <3>2. QED
      BY <1>6, <2>2, <3>1 DEF RespectsPolicy, seen, class, usable
  <2>3. CASE d.mode = "any"
    <3>1. IF Has("free") \/ Has("paid") THEN picked \in {"free", "paid"}
          ELSE picked = IF usable # {} THEN "unknown" ELSE "nothing"
      BY <1>3, <1>5, <1>8, <2>0, <2>3
    <3>2. QED
      BY <1>6, <2>3, <3>1 DEF RespectsPolicy, seen, class, usable
  <2>4. QED
    BY <2>1, <2>2, <2>3 DEF Mode
<1>9. QED
  BY <1>7, <1>8 DEF seen, S

\* If the deterministic order would choose a model without evidence, only a
\* positive one comes before it.
LEMMA EvidenceIsFair ==
  ASSUME NEW d, d.mode \in Mode, Snapshot(d.seen), Eligible(d.mode, d.seen) # {},
         d.pick = EvidencePick(d.mode, d.seen, d.calls, d.findings)
  PROVE  FairToNewModels(d)
<1> DEFINE S == Eligible(d.mode, d.seen)
           t == TieBreakPick(d.mode, d.seen)
           K(o) == EvidenceKey(d.mode, o, d.seen[o].price, d.calls[o], d.findings[o])
           T(o) == TieBreakKey(o, d.seen[o].price)
           sort(o) == SortKey(d.calls[o], d.findings[o])
           L == KeyLength(d.mode)
           p == d.pick
<1> SUFFICES ASSUME ~Sufficient(d.calls[t], d.findings[t]), p # t,
                    Quality(d.findings[p]) # "positive"
             PROVE  FALSE
  BY DEF FairToNewModels
<1>1. \A o \in S : o \in Offering /\ d.seen[o].price \in Prices
  BY DEF Snapshot, Eligible
<1>2. t \in S /\ Precedes(T(t), T(p))
  <2>1. p \in S
    BY EvidencePicks
  <2>2. QED
    BY <2>1, TieBreakPicks
<1>3. p \in S /\ Precedes(K(p), K(t))
  BY <1>2, EvidencePicks
<1>4. /\ sort(t)[1] = 0 /\ sort(t)[2] = 1
      /\ sort(p)[1] \in 0 .. 1 /\ sort(p)[2] \in 1 .. 2
  <2>1. Reliability(d.calls[t]) = "insufficient" /\ Quality(d.findings[t]) = "insufficient"
    BY DEF Sufficient
  <2>2. QED
    BY <2>1, SortKeyShape
<1>5. /\ L \in {6, 7}
      /\ K(p) \in [1 .. L -> Nat] /\ K(t) \in [1 .. L -> Nat]
      /\ \A i \in 1 .. 4 : K(p)[L - 4 + i] = T(p)[i] /\ K(t)[L - 4 + i] = T(t)[i]
      /\ \A i \in 1 .. 2 : K(p)[L - 6 + i] = sort(p)[i] /\ K(t)[L - 6 + i] = sort(t)[i]
      /\ T(p) \in [1 .. 4 -> Nat] /\ T(t) \in [1 .. 4 -> Nat]
  <2>1. L \in {6, 7}
    BY DEF KeyLength
  <2>2. \A o \in S : /\ K(o) \in [1 .. L -> Nat]
                     /\ \A i \in 1 .. 4 : K(o)[L - 4 + i] = T(o)[i]
                     /\ \A i \in 1 .. 2 : K(o)[L - 6 + i] = sort(o)[i]
    BY <1>1, EvidenceKeyShape
  <2>3. \A o \in S : T(o) \in [1 .. 4 -> Nat]
    BY <1>1, TieBreakKeyShape
  <2> HIDE DEF L, K, T, sort, S, p, t
  <2>4. QED
    BY <1>2, <1>3, <2>1, <2>2, <2>3
<1>6. L = 7 => K(t)[1] <= K(p)[1]
  <2> SUFFICES ASSUME L = 7 PROVE K(t)[1] <= K(p)[1]
    OBVIOUS
  <2>1. d.mode \in {"prefer_free", "any"}
    BY DEF KeyLength, Mode
  <2>2. \A o \in S : K(o)[1] = Boundary(d.mode, Classify(d.seen[o].price))[1]
    BY <1>1, <2>1, EvidenceKeyShape
  <2>3. \A o \in S : /\ K(o)[1] \in 0 .. 1
                     /\ d.mode = "prefer_free" => (K(o)[1] = 0 <=> Classify(d.seen[o].price) = "free")
                     /\ d.mode = "any" => (K(o)[1] = 1 <=> Classify(d.seen[o].price) = "unknown")
    BY <1>1, <2>1, <2>2, BoundaryShape
  <2>4. Foremost(d.mode, d.seen, t)
    BY TieBreakIsForemost
  <2> HIDE DEF K, t, p, S
  <2>5. /\ d.mode = "prefer_free" => (Classify(d.seen[p].price) = "free" => Classify(d.seen[t].price) = "free")
        /\ d.mode = "any" => (Classify(d.seen[p].price) # "unknown" => Classify(d.seen[t].price) # "unknown")
    BY <1>2, <1>3, <2>4 DEF Foremost, S
  <2>6. QED
    BY <1>2, <1>3, <2>1, <2>3, <2>5
<1> HIDE DEF L, K, T, sort, S, p, t
<1>7. PICK i \in 1 .. L : K(p)[i] < K(t)[i] /\ \A j \in 1 .. (i - 1) : K(p)[j] = K(t)[j]
  <2>1. DOMAIN K(p) = 1 .. L
    BY <1>5
  <2>2. QED
    BY <1>3, <2>1 DEF Precedes
<1>8. i > L - 4
  <2> SUFFICES ASSUME i <= L - 4 PROVE FALSE
    BY <1>5
  <2>1. CASE L = 7 /\ i = 1
    <3>1. K(p)[1] \in Nat /\ K(t)[1] \in Nat /\ K(p)[1] < K(t)[1] /\ K(t)[1] <= K(p)[1]
      BY <1>5, <1>6, <1>7, <2>1
    <3>2. QED
      BY <3>1
  <2>2. CASE i = L - 6 + 1
    <3>1. K(p)[i] = sort(p)[1] /\ K(t)[i] = sort(t)[1]
      BY <1>5, <2>2
    <3>2. QED
      BY <1>4, <1>7, <3>1
  <2>3. CASE i = L - 6 + 2
    <3>1. K(p)[i] = sort(p)[2] /\ K(t)[i] = sort(t)[2]
      BY <1>5, <2>3
    <3>2. QED
      BY <1>4, <1>7, <3>1
  <2>4. QED
    BY <1>5, <2>1, <2>2, <2>3, SMTT(40)
<1>9. Precedes(T(p), T(t))
  <2> DEFINE k == i - (L - 4)
  <2>1. k \in 1 .. 4 /\ L - 4 + k = i
    BY <1>5, <1>8
  <2>2. K(p)[i] = T(p)[k] /\ K(t)[i] = T(t)[k]
    <3> HIDE DEF k
    <3>0. \A j \in 1 .. 4 : K(p)[L - 4 + j] = T(p)[j] /\ K(t)[L - 4 + j] = T(t)[j]
      BY <1>5
    <3>1. K(p)[L - 4 + k] = T(p)[k] /\ K(t)[L - 4 + k] = T(t)[k]
      BY <2>1, <3>0
    <3>2. QED
      BY <2>1, <3>1
  <2>3. ASSUME NEW j \in 1 .. (k - 1) PROVE T(p)[j] = T(t)[j]
    <3>0. L \in {6, 7}
      BY <1>5
    <3>1. j \in 1 .. 4 /\ L - 4 + j \in 1 .. (i - 1)
      BY <2>1, <3>0
    <3>2. K(p)[L - 4 + j] = T(p)[j] /\ K(t)[L - 4 + j] = T(t)[j]
      BY <1>5, <3>1
    <3>3. QED
      BY <1>7, <3>1, <3>2
  <2>4. DOMAIN T(p) = 1 .. 4
    BY <1>5
  <2>5. QED
    BY <1>7, <2>1, <2>2, <2>3, <2>4 DEF Precedes
<1>10. QED
  BY <1>2, <1>5, <1>9, PrecedesIsStrict

-----------------------------------------------------------------------------
(***************************************************************************)
(* The invariant                                                           *)
(***************************************************************************)
IsTable(f, S) == f = [x \in S |-> f[x]]

\* Rows are never taken back: an offering that was listed keeps a price, its model
\* a status, and what the last refresh of a provider listed is still priced.
RowsOK ==
    /\ price \in [Offering -> Prices \cup {Absent}]
    /\ modelStatus \in [Model -> {"absent", "active", "unavailable"}]
    /\ \A o \in Offering : price[o] # Absent => modelStatus[ModelOf[o]] # "absent"
    /\ down \subseteq Provider
    /\ listed \in [Provider -> SUBSET Model]
    /\ \A p \in Provider : \A m \in listed[p] :
          \E o \in Offers(p) : ModelOf[o] = m /\ price[o] # Absent

\* A refresh with the provider's answer, and one that has read the rows: whatever
\* was there then still is.
Answered(f) == f.provider \in Provider /\ f.seen \subseteq Offers(f.provider) /\ f.offer \in [f.seen -> Prices]
HasRead(f) ==
    /\ \A o \in Offering : f.price[o] # Absent => price[o] # Absent
    /\ \A m \in Model : f.status[m] # "absent" => modelStatus[m] # "absent"

RefreshesOK ==
    /\ IsTable(refresh, Refresher)
    /\ \A r \in Refresher :
          /\ refresh[r].pc \in {"idle", "fetched", "read"}
          /\ refresh[r].pc = "idle" => refresh[r] = Idle
          /\ refresh[r].pc # "idle" => Answered(refresh[r])
          /\ refresh[r].pc = "read" => HasRead(refresh[r])

\* As long as no two refreshes were in flight together, the one in flight writes
\* over exactly what it read.
RefreshedAlone ==
    ~overlapped =>
        /\ \A r \in Refresher, s \in Refresher : refresh[r] # Idle /\ refresh[s] # Idle => r = s
        /\ \A r \in Refresher : refresh[r].pc = "read" =>
              refresh[r].price = price /\ refresh[r].status = modelStatus

PolicyOK ==
    /\ policy \in [PolicyVersion -> BOOLEAN]
    /\ IsTable(switch, Switcher)
    /\ \A s \in Switcher : switch[s].pc \in {"idle", "write"}

\* A decision that asks for evidence has something to choose from.
RouterOK ==
    /\ router.pc \in {"idle", "policy", "calls", "findings"}
    /\ router.pc # "idle" => /\ router.mode \in Mode
                             /\ Snapshot(router.seen)
                             /\ Eligible(router.mode, router.seen) # {}

DecisionOK ==
    decided.pc = "decided" =>
        /\ decided.pick \in Offering \cup {NoPick}
        /\ decided.mode \in Mode => RespectsPolicy(decided)
        /\ "calls" \in DOMAIN decided => FairToNewModels(decided)

RoutingInv ==
    /\ RowsOK
    /\ RefreshesOK
    /\ RefreshedAlone
    /\ ActiveIsListed
    /\ PolicyOK
    /\ OneActivePolicy
    /\ RouterOK
    /\ DecisionOK

LEMMA AbsentIsNoPrice == Absent \notin Prices
<1>1. \A x \in (Nat \cup {Unknown}) \X (Nat \cup {Unknown}) : x = <<x[1], x[2]>>
  OBVIOUS
<1>2. \A x, y : <<x, y>> # <<"absent">>
  OBVIOUS
<1>3. QED
  BY <1>1, <1>2, RoutingAssumption DEF Absent, RoutingAssumption

LEMMA RoutingInitially == RoutingInit => RoutingInv
<1> SUFFICES ASSUME EmptyCatalogue PROVE RoutingInv
  BY DEF RoutingInit
<1> USE DEF EmptyCatalogue
<1>1. RowsOK
  BY DEF RowsOK, Model
<1>2. RefreshesOK /\ RefreshedAlone
  BY DEF RefreshesOK, RefreshedAlone, Idle, IsTable
<1>3. ActiveIsListed
  BY DEF ActiveIsListed
<1>4. PolicyOK /\ OneActivePolicy
  BY DEF PolicyOK, OneActivePolicy, Idle, IsTable
<1>5. RouterOK /\ DecisionOK
  BY DEF RouterOK, DecisionOK, NotRouting
<1>6. QED
  BY <1>1, <1>2, <1>3, <1>4, <1>5 DEF RoutingInv

\* The parts of the invariant, by the variables they speak of.
CatalogueOK == RowsOK /\ RefreshesOK /\ RefreshedAlone /\ ActiveIsListed

LEMMA CatalogueStands ==
  ASSUME CatalogueOK, UNCHANGED catalogue
  PROVE  CatalogueOK'
BY DEF CatalogueOK, catalogue, RowsOK, RefreshesOK, RefreshedAlone, ActiveIsListed, Answered, HasRead

LEMMA PolicyStands ==
  ASSUME PolicyOK, OneActivePolicy, UNCHANGED <<policy, switch>>
  PROVE  PolicyOK' /\ OneActivePolicy'
BY DEF PolicyOK, OneActivePolicy

LEMMA RouterStands ==
  ASSUME RouterOK, UNCHANGED router
  PROVE  RouterOK'
BY DEF RouterOK, Snapshot

LEMMA DecisionStands ==
  ASSUME DecisionOK, UNCHANGED decided
  PROVE  DecisionOK'
BY DEF DecisionOK

-----------------------------------------------------------------------------
(***************************************************************************)
(* The steps                                                               *)
(***************************************************************************)
LEMMA FetchKeeps ==
  ASSUME CatalogueOK, NEW r \in Refresher, Fetch(r)
  PROVE  CatalogueOK'
<1>a. PICK p \in Provider : \E seen \in SUBSET Offers(p) : \E offer \in [seen -> Prices] :
      refresh' = [refresh EXCEPT ![r] = [pc |-> "fetched", provider |-> p, seen |-> seen, offer |-> offer]]
  BY DEF Fetch
<1>b. PICK seen \in SUBSET Offers(p) : \E offer \in [seen -> Prices] :
      refresh' = [refresh EXCEPT ![r] = [pc |-> "fetched", provider |-> p, seen |-> seen, offer |-> offer]]
  BY <1>a
<1>c. PICK offer \in [seen -> Prices] :
      refresh' = [refresh EXCEPT ![r] = [pc |-> "fetched", provider |-> p, seen |-> seen, offer |-> offer]]
  BY <1>b
<1> DEFINE f == [pc |-> "fetched", provider |-> p, seen |-> seen, offer |-> offer]
<1>1. /\ refresh[r] = Idle
      /\ overlapped' = (overlapped \/ \E s \in Refresher \ {r} : refresh[s] # Idle)
      /\ UNCHANGED <<price, modelStatus, down, listed>>
  BY DEF Fetch
<1>2. IsTable(refresh', Refresher) /\ \A s \in Refresher : refresh'[s] = IF s = r THEN f ELSE refresh[s]
  BY <1>c DEF CatalogueOK, RefreshesOK, IsTable
<1>3. f.pc = "fetched" /\ Answered(f) /\ f # Idle
  BY DEF Answered, Idle
<1> HIDE DEF f
<1>4. RowsOK' /\ ActiveIsListed'
  BY <1>1 DEF CatalogueOK, RowsOK, ActiveIsListed
<1>5. RefreshesOK'
  BY <1>1, <1>2, <1>3 DEF CatalogueOK, RefreshesOK, HasRead, Answered
<1>6. RefreshedAlone'
  BY <1>1, <1>2, <1>3 DEF CatalogueOK, RefreshedAlone
<1>7. QED
  BY <1>4, <1>5, <1>6 DEF CatalogueOK

LEMMA ReadCatalogueKeeps ==
  ASSUME CatalogueOK, NEW r \in Refresher, ReadCatalogue(r)
  PROVE  CatalogueOK'
<1> DEFINE f == [pc |-> "read", provider |-> refresh[r].provider, seen |-> refresh[r].seen,
                 offer |-> refresh[r].offer, status |-> modelStatus, price |-> price]
<1>1. /\ refresh[r].pc = "fetched"
      /\ UNCHANGED <<price, modelStatus, down, listed, overlapped>>
      /\ refresh' = [refresh EXCEPT ![r] = f]
  BY DEF ReadCatalogue
<1>2. IsTable(refresh', Refresher) /\ \A s \in Refresher : refresh'[s] = IF s = r THEN f ELSE refresh[s]
  BY <1>1 DEF CatalogueOK, RefreshesOK, IsTable
<1>3. /\ f.pc = "read" /\ f.price = price /\ f.status = modelStatus
      /\ f # Idle /\ refresh[r] # Idle
  BY <1>1 DEF Idle
<1>4. Answered(f) /\ HasRead(f)
  <2>1. Answered(refresh[r])
    BY <1>1 DEF CatalogueOK, RefreshesOK
  <2>2. QED
    BY <2>1 DEF Answered, HasRead
<1> HIDE DEF f
<1>5. RowsOK' /\ ActiveIsListed'
  BY <1>1 DEF CatalogueOK, RowsOK, ActiveIsListed
<1>6. RefreshesOK'
  BY <1>1, <1>2, <1>3, <1>4 DEF CatalogueOK, RefreshesOK, HasRead, Answered
<1>7. RefreshedAlone'
  BY <1>1, <1>2, <1>3 DEF CatalogueOK, RefreshedAlone
<1>8. QED
  BY <1>5, <1>6, <1>7 DEF CatalogueOK

LEMMA CommitRefreshKeeps ==
  ASSUME CatalogueOK, NEW r \in Refresher, CommitRefresh(r)
  PROVE  CatalogueOK'
<1> DEFINE f == refresh[r]
<1> USE DEF CatalogueOK
<1>1. /\ f.pc = "read" /\ Answered(f) /\ HasRead(f) /\ f # Idle
      /\ refresh' = [refresh EXCEPT ![r] = Idle]
      /\ UNCHANGED <<down, overlapped>>
  BY DEF CommitRefresh, RefreshesOK, Idle
<1>2. /\ IsTable(refresh', Refresher)
      /\ \A s \in Refresher : refresh'[s] = IF s = r THEN Idle ELSE refresh[s]
  BY <1>1 DEF RefreshesOK, IsTable
<1>3. CASE Collides(f)
  <2>1. UNCHANGED <<price, modelStatus, listed>>
    BY <1>3 DEF CommitRefresh
  <2>2. RowsOK' /\ ActiveIsListed'
    BY <1>1, <2>1 DEF RowsOK, ActiveIsListed
  <2>3. RefreshesOK'
    BY <1>1, <1>2, <2>1 DEF RefreshesOK, HasRead, Answered, Idle
  <2>4. RefreshedAlone'
    BY <1>1, <1>2, <2>1 DEF RefreshedAlone, Idle
  <2>5. QED
    BY <2>2, <2>3, <2>4
<1>4. CASE ~Collides(f)
  <2>1. /\ price' = [o \in Offering |->
              IF o \in f.seen THEN Written(f.offer[o], f.price[o], price[o]) ELSE price[o]]
        /\ modelStatus' = [m \in Model |->
              CASE m \in Seen(f)    -> Written("active", f.status[m], modelStatus[m])
                [] m \in Missing(f) -> Written("unavailable", f.status[m], modelStatus[m])
                [] OTHER            -> modelStatus[m]]
        /\ listed' = [listed EXCEPT ![f.provider] = Seen(f)]
    BY <1>4 DEF CommitRefresh
  <2>2. /\ f.provider \in Provider /\ f.seen \subseteq Offering /\ f.offer \in [f.seen -> Prices]
        /\ \A o \in f.seen : o \in Offers(f.provider)
        /\ Seen(f) \subseteq Model /\ Missing(f) \cap Seen(f) = {}
    BY <1>1 DEF Answered, Offers, Seen, Missing, Model
  \* Nothing that was there is taken back.
  <2>3. \A o \in Offering : /\ price'[o] \in Prices \cup {Absent}
                            /\ price[o] # Absent => price'[o] # Absent
                            /\ o \in f.seen => price'[o] # Absent
                            /\ o \notin f.seen => price'[o] = price[o]
    BY <1>1, <2>1, <2>2, AbsentIsNoPrice DEF RowsOK, HasRead, Written
  <2>4. \A m \in Model : /\ modelStatus'[m] \in {"absent", "active", "unavailable"}
                         /\ modelStatus[m] # "absent" => modelStatus'[m] # "absent"
                         /\ m \in Seen(f) => modelStatus'[m] # "absent"
                         /\ m \notin Seen(f) \cup Missing(f) => modelStatus'[m] = modelStatus[m]
    <3> SUFFICES ASSUME NEW m \in Model
                 PROVE  /\ modelStatus'[m] \in {"absent", "active", "unavailable"}
                        /\ modelStatus[m] # "absent" => modelStatus'[m] # "absent"
                        /\ m \in Seen(f) => modelStatus'[m] # "absent"
                        /\ m \notin Seen(f) \cup Missing(f) => modelStatus'[m] = modelStatus[m]
      OBVIOUS
    <3>1. modelStatus[m] \in {"absent", "active", "unavailable"}
      BY DEF RowsOK
    <3>2. f.status[m] # "absent" => modelStatus[m] # "absent"
      BY <1>1 DEF HasRead
    <3> HIDE DEF f
    <3>3. CASE m \in Seen(f)
      <4>1. modelStatus'[m] = Written("active", f.status[m], modelStatus[m])
        BY <2>1, <2>2, <3>3
      <4>2. QED
        BY <3>1, <3>2, <3>3, <4>1 DEF Written
    <3>4. CASE m \in Missing(f)
      <4>1. m \notin Seen(f)
        BY <2>2, <3>4
      <4>2. modelStatus'[m] = Written("unavailable", f.status[m], modelStatus[m])
        BY <2>1, <3>4, <4>1
      <4>3. QED
        BY <3>1, <3>2, <3>4, <4>1, <4>2 DEF Written
    <3>5. CASE m \notin Seen(f) \cup Missing(f)
      <4>1. modelStatus'[m] = modelStatus[m]
        BY <2>1, <3>5
      <4>2. QED
        BY <3>1, <3>5, <4>1
    <3>6. QED
      BY <3>3, <3>4, <3>5
  <2>5. \A p \in Provider : listed'[p] = IF p = f.provider THEN Seen(f) ELSE listed[p]
    BY <2>1 DEF RowsOK
  <2>6. RowsOK'
    <3>1. price' \in [Offering -> Prices \cup {Absent}]
      <4>1. price' = [o \in Offering |-> price'[o]]
        BY <2>1
      <4>2. QED
        BY <2>3, <4>1
    <3>2. modelStatus' \in [Model -> {"absent", "active", "unavailable"}]
      <4>1. modelStatus' = [m \in Model |-> modelStatus'[m]]
        BY <2>1
      <4>2. QED
        BY <2>4, <4>1
    <3>3. \A o \in Offering : price'[o] # Absent => modelStatus'[ModelOf[o]] # "absent"
      <4> SUFFICES ASSUME NEW o \in Offering, price'[o] # Absent PROVE modelStatus'[ModelOf[o]] # "absent"
        OBVIOUS
      <4>1. ModelOf[o] \in Model
        BY DEF Model
      <4>2. CASE o \in f.seen
        <5>1. ModelOf[o] \in Seen(f)
          BY <4>2 DEF Seen
        <5>2. QED
          BY <2>4, <4>1, <5>1
      <4>3. CASE o \notin f.seen
        <5>1. modelStatus[ModelOf[o]] # "absent"
          BY <2>3, <4>3 DEF RowsOK
        <5>2. QED
          BY <2>4, <4>1, <5>1
      <4>4. QED
        BY <4>2, <4>3
    <3>4. listed' \in [Provider -> SUBSET Model]
      <4>1. listed \in [Provider -> SUBSET Model]
        BY DEF RowsOK
      <4> HIDE DEF f
      <4>2. QED
        BY <2>1, <2>2, <4>1
    <3>5. \A p \in Provider : \A m \in listed'[p] : \E o \in Offers(p) : ModelOf[o] = m /\ price'[o] # Absent
      <4> SUFFICES ASSUME NEW p \in Provider, NEW m \in listed'[p]
                   PROVE  \E o \in Offers(p) : ModelOf[o] = m /\ price'[o] # Absent
        OBVIOUS
      <4>1. CASE p = f.provider
        <5>1. m \in Seen(f)
          BY <2>5, <4>1
        <5>2. PICK o \in f.seen : ModelOf[o] = m
          BY <5>1 DEF Seen
        <5>3. QED
          BY <2>2, <2>3, <4>1, <5>2
      <4>2. CASE p # f.provider
        <5>1. PICK o \in Offers(p) : ModelOf[o] = m /\ price[o] # Absent
          BY <2>5, <4>2 DEF RowsOK
        <5>2. QED
          BY <2>3, <5>1 DEF Offers
      <4>3. QED
        BY <4>1, <4>2
    <3>6. down' \subseteq Provider
      BY <1>1 DEF RowsOK
    <3>7. QED
      BY <3>1, <3>2, <3>3, <3>4, <3>5, <3>6 DEF RowsOK
  <2>7. RefreshesOK'
    <3>1. \A s \in Refresher \ {r} : refresh[s].pc = "read" => HasRead(refresh[s])'
      <4> SUFFICES ASSUME NEW s \in Refresher \ {r}, refresh[s].pc = "read" PROVE HasRead(refresh[s])'
        OBVIOUS
      <4>1. HasRead(refresh[s])
        BY DEF RefreshesOK
      <4>2. refresh'[s] = refresh[s]
        BY <1>2
      <4>3. QED
        BY <2>3, <2>4, <4>1, <4>2 DEF HasRead
    <3>2. \A s \in Refresher \ {r} : refresh'[s] = refresh[s] /\ Answered(refresh[s])' = Answered(refresh[s])
      BY <1>2 DEF Answered
    <3>3. \A s \in Refresher : /\ refresh'[s].pc \in {"idle", "fetched", "read"}
                               /\ refresh'[s].pc = "idle" => refresh'[s] = Idle
      BY <1>2 DEF RefreshesOK, Idle
    <3>4. refresh'[r].pc = "idle"
      BY <1>2 DEF Idle
    <3>5. QED
      BY <1>2, <3>1, <3>2, <3>3, <3>4 DEF RefreshesOK
  <2>8. RefreshedAlone'
    <3> SUFFICES ASSUME ~overlapped, NEW s \in Refresher PROVE refresh'[s] = Idle
      BY <1>1 DEF RefreshedAlone, Idle
    <3>1. s # r => refresh[s] = Idle
      BY <1>1 DEF RefreshedAlone
    <3>2. QED
      BY <1>2, <3>1
  <2>9. ActiveIsListed'
    <3> SUFFICES ASSUME ~overlapped, NEW m \in Model, modelStatus'[m] = "active"
                 PROVE  \E p \in Provider : m \in listed'[p]
      BY <1>1 DEF ActiveIsListed
    <3>1. f.price = price /\ f.status = modelStatus
      BY <1>1 DEF RefreshedAlone
    <3>2. CASE m \in Seen(f)
      BY <2>2, <2>5, <3>2
    <3>3. CASE m \notin Seen(f)
      <4>1. m \notin Missing(f)
        <5> SUFFICES ASSUME m \in Missing(f) PROVE FALSE
          OBVIOUS
        <5>1. modelStatus'[m] = Written("unavailable", f.status[m], modelStatus[m])
          BY <2>1, <3>3
        <5>2. QED
          BY <3>1, <5>1 DEF Written
      <4>2. modelStatus[m] = "active"
        BY <2>4, <3>3, <4>1
      <4>3. PICK p \in Provider : m \in listed[p]
        BY <4>2 DEF ActiveIsListed
      <4>4. CASE p = f.provider
        <5>1. PICK o \in Offers(p) : ModelOf[o] = m /\ price[o] # Absent
          BY <4>3 DEF RowsOK
        <5>2. m \in Missing(f)
          BY <3>1, <3>3, <4>4, <5>1 DEF Missing
        <5>3. QED
          BY <4>1, <5>2
      <4>5. CASE p # f.provider
        BY <2>5, <4>3, <4>5
      <4>6. QED
        BY <4>4, <4>5
    <3>4. QED
      BY <3>2, <3>3
  <2>10. QED
    BY <2>6, <2>7, <2>8, <2>9
<1>5. QED
  BY <1>3, <1>4

LEMMA TestConnectionKeeps ==
  ASSUME CatalogueOK, TestConnection
  PROVE  CatalogueOK'
<1>1. /\ UNCHANGED <<price, modelStatus, refresh, listed, overlapped>>
      /\ CatalogueOK => down' \subseteq Provider
  BY DEF TestConnection, CatalogueOK, RowsOK
<1>2. RowsOK' /\ ActiveIsListed'
  BY <1>1 DEF CatalogueOK, RowsOK, ActiveIsListed
<1>3. RefreshesOK' /\ RefreshedAlone'
  BY <1>1 DEF CatalogueOK, RefreshesOK, RefreshedAlone, Answered, HasRead
<1>4. QED
  BY <1>2, <1>3 DEF CatalogueOK

\* A switch in flight names one version and leaves no other active.
LEMMA SwitchKeeps ==
  ASSUME PolicyOK, OneActivePolicy, NEW s \in Switcher, ReadSwitch(s) \/ WriteSwitch(s)
  PROVE  PolicyOK' /\ OneActivePolicy'
<1>1. CASE ReadSwitch(s)
  <2>1. PICK enabled \in BOOLEAN :
           switch' = [switch EXCEPT ![s] = [pc |-> "write", enabled |-> enabled,
                        target |-> EvidencePolicyRow, active |-> policy[EvidencePolicyRow]]]
    BY <1>1 DEF ReadSwitch
  <2>2. UNCHANGED policy
    BY <1>1 DEF ReadSwitch
  <2>3. IsTable(switch', Switcher) /\ \A q \in Switcher : switch'[q].pc = IF q = s THEN "write" ELSE switch[q].pc
    BY <2>1 DEF PolicyOK, IsTable
  <2>4. QED
    BY <2>2, <2>3 DEF PolicyOK, OneActivePolicy
<1>2. CASE WriteSwitch(s)
  <2>1. policy' = Switched(switch[s]) /\ switch' = [switch EXCEPT ![s] = Idle]
    BY <1>2 DEF WriteSwitch
  <2>2. IsTable(switch', Switcher) /\ \A q \in Switcher : switch'[q].pc = IF q = s THEN "idle" ELSE switch[q].pc
    BY <2>1 DEF PolicyOK, IsTable, Idle
  <2>3. policy' \in [PolicyVersion -> BOOLEAN]
    BY <2>1 DEF Switched, PolicyOK
  <2>4. \A v \in PolicyVersion : policy'[v] => v = switch[s].target
    BY <2>1 DEF Switched
  <2>5. QED
    BY <2>2, <2>3, <2>4 DEF PolicyOK, OneActivePolicy
<1>3. QED
  BY <1>1, <1>2

\* A manual choice, and an auto policy that finds nothing or goes on.
LEMMA RouteManualKeeps ==
  ASSUME RouteManual
  PROVE  DecisionOK'
<1>1. PICK o \in Offering : \E seen :
        decided' = [pc |-> "decided", mode |-> "manual", asked |-> o, seen |-> seen,
                    pick |-> IF price[o] # Absent /\ CatalogueEligible(Candidate(o)) THEN o ELSE NoPick]
  BY DEF RouteManual
<1>2. /\ decided'.mode = "manual" /\ decided'.pick \in Offering \cup {NoPick}
      /\ DOMAIN decided' = {"pc", "mode", "asked", "seen", "pick"}
  BY <1>1
<1>3. QED
  BY <1>2 DEF DecisionOK, Mode

LEMMA RouteAutoKeeps ==
  ASSUME RowsOK, RouterOK, DecisionOK, RouteAuto
  PROVE  RouterOK' /\ DecisionOK'
<1> DEFINE seen == [o \in {q \in Offering : price[q] # Absent} |-> Candidate(o)]
<1>1. PICK mode \in Mode :
        IF Eligible(mode, seen) = {}
        THEN /\ decided' = [pc |-> "decided", mode |-> mode, seen |-> seen, pick |-> NoPick]
             /\ UNCHANGED router
        ELSE /\ router' = [pc |-> "policy", mode |-> mode, seen |-> seen]
             /\ UNCHANGED decided
  BY DEF RouteAuto
<1>2. Snapshot(seen)
  BY DEF Snapshot, Candidate, RowsOK
<1> HIDE DEF seen
<1>3. CASE Eligible(mode, seen) = {}
  <2> DEFINE d == [pc |-> "decided", mode |-> mode, seen |-> seen, pick |-> NoPick]
  <2>1. decided' = d /\ UNCHANGED router
    BY <1>1, <1>3
  <2>2. d.mode = mode /\ d.seen = seen /\ d.pick = NoPick /\ DOMAIN d = {"pc", "mode", "seen", "pick"}
    OBVIOUS
  <2> HIDE DEF d
  <2>3. RespectsPolicy(d)
    BY <1>2, <1>3, <2>2, ForemostRespects
  <2>4. DecisionOK'
    BY <2>1, <2>2, <2>3 DEF DecisionOK
  <2>5. QED
    BY <2>1, <2>4, RouterStands
<1>4. CASE Eligible(mode, seen) # {}
  <2>1. router' = [pc |-> "policy", mode |-> mode, seen |-> seen] /\ UNCHANGED decided
    BY <1>1, <1>4
  <2>2. router'.pc = "policy" /\ router'.mode = mode /\ router'.seen = seen
    BY <2>1
  <2>3. RouterOK'
    BY <1>2, <1>4, <2>2 DEF RouterOK, Snapshot
  <2>4. QED
    BY <2>1, <2>3, DecisionStands
<1>5. QED
  BY <1>3, <1>4

\* The deterministic order decides, at whichever point the evidence is given up.
LEMMA ByTieBreakKeeps ==
  ASSUME RouterOK, router.pc # "idle", ByTieBreak
  PROVE  DecisionOK'
<1> DEFINE d == [pc |-> "decided", mode |-> router.mode, seen |-> router.seen,
                 pick |-> TieBreakPick(router.mode, router.seen)]
<1>1. decided' = d
  BY DEF ByTieBreak
<1>2. /\ d.mode = router.mode /\ d.seen = router.seen /\ d.pick = TieBreakPick(router.mode, router.seen)
      /\ DOMAIN d = {"pc", "mode", "seen", "pick"}
  OBVIOUS
<1> HIDE DEF d
<1>3. router.mode \in Mode /\ Snapshot(router.seen) /\ Eligible(router.mode, router.seen) # {}
  BY DEF RouterOK
<1>4. Foremost(d.mode, d.seen, d.pick)
  BY <1>2, <1>3, TieBreakIsForemost
<1>5. RespectsPolicy(d)
  BY <1>2, <1>3, <1>4, ForemostRespects
<1>6. d.pick \in Offering
  BY <1>2, <1>3, <1>4 DEF Foremost, Eligible, Snapshot
<1>7. QED
  BY <1>1, <1>2, <1>5, <1>6 DEF DecisionOK

LEMMA ReadPolicyKeeps ==
  ASSUME RouterOK, DecisionOK, ReadPolicy
  PROVE  RouterOK' /\ DecisionOK'
<1>1. router.pc = "policy"
  BY DEF ReadPolicy
<1>2. CASE ByTieBreak /\ router' = NotRouting
  <2>1. DecisionOK'
    BY <1>1, <1>2, ByTieBreakKeeps
  <2>2. RouterOK'
    BY <1>2 DEF RouterOK, NotRouting
  <2>3. QED
    BY <2>1, <2>2
<1>3. CASE router' = [router EXCEPT !.pc = "calls"] /\ UNCHANGED decided
  <2>1. router.mode \in Mode /\ Snapshot(router.seen) /\ Eligible(router.mode, router.seen) # {}
    BY <1>1 DEF RouterOK
  <2>2. router'.mode = router.mode /\ router'.seen = router.seen
    BY <1>3
  <2>3. router'.pc \in {"policy", "calls"}
    BY <1>1, <1>3
  <2>4. RouterOK'
    BY <2>1, <2>2, <2>3 DEF RouterOK, Snapshot
  <2>5. QED
    BY <1>3, <2>4, DecisionStands
<1>4. QED
  BY <1>2, <1>3 DEF ReadPolicy

LEMMA ReadCallsKeeps ==
  ASSUME RouterOK, DecisionOK, ReadCalls
  PROVE  RouterOK' /\ DecisionOK'
<1>1. /\ router.pc = "calls" /\ UNCHANGED decided
      /\ router' = [pc |-> "findings", mode |-> router.mode, seen |-> router.seen, calls |-> calls]
  BY DEF ReadCalls
<1>2. router.mode \in Mode /\ Snapshot(router.seen) /\ Eligible(router.mode, router.seen) # {}
  BY <1>1 DEF RouterOK
<1>3. router'.pc = "findings" /\ router'.mode = router.mode /\ router'.seen = router.seen
  BY <1>1
<1>4. RouterOK'
  BY <1>2, <1>3 DEF RouterOK, Snapshot
<1>5. QED
  BY <1>1, <1>4, DecisionStands

LEMMA ReadFindingsKeeps ==
  ASSUME RouterOK, DecisionOK, ReadFindings
  PROVE  RouterOK' /\ DecisionOK'
<1>1. router.pc = "findings" /\ router' = NotRouting
  BY DEF ReadFindings
<1>2. router.mode \in Mode /\ Snapshot(router.seen) /\ Eligible(router.mode, router.seen) # {}
  BY <1>1 DEF RouterOK
<1>3. RouterOK'
  BY <1>1 DEF RouterOK, NotRouting
<1> DEFINE d == [pc |-> "decided", mode |-> router.mode, seen |-> router.seen,
                 pick |-> EvidencePick(router.mode, router.seen, router.calls, findings),
                 calls |-> router.calls, findings |-> findings]
<1>4. CASE decided' = d
  <2>1. /\ d.mode = router.mode /\ d.seen = router.seen
        /\ d.calls = router.calls /\ d.findings = findings
        /\ d.pick = EvidencePick(router.mode, router.seen, router.calls, findings)
    OBVIOUS
  <2> HIDE DEF d
  <2>2. Foremost(d.mode, d.seen, d.pick)
    BY <1>2, <2>1, EvidenceIsForemost
  <2>3. RespectsPolicy(d)
    BY <1>2, <2>1, <2>2, ForemostRespects
  <2>4. d.pick \in Offering
    BY <1>2, <2>1, <2>2 DEF Foremost, Eligible, Snapshot
  <2>5. FairToNewModels(d)
    <3>1. d.mode \in Mode /\ Snapshot(d.seen) /\ Eligible(d.mode, d.seen) # {}
      BY <1>2, <2>1
    <3>2. d.pick = EvidencePick(d.mode, d.seen, d.calls, d.findings)
      BY <2>1
    <3>3. QED
      BY <3>1, <3>2, EvidenceIsFair
  <2>6. DecisionOK'
    BY <1>4, <2>3, <2>4, <2>5 DEF DecisionOK
  <2>7. QED
    BY <1>3, <2>6
<1>5. CASE ByTieBreak
  <2>1. DecisionOK'
    BY <1>1, <1>5, ByTieBreakKeeps
  <2>2. QED
    BY <1>3, <2>1
<1>6. QED
  BY <1>4, <1>5 DEF ReadFindings

LEMMA EvidenceFailsKeeps ==
  ASSUME RouterOK, EvidenceFails
  PROVE  RouterOK' /\ DecisionOK'
<1>1. router.pc # "idle" /\ ByTieBreak /\ router' = NotRouting
  BY DEF EvidenceFails
<1>2. DecisionOK'
  BY <1>1, ByTieBreakKeeps
<1>3. RouterOK'
  BY <1>1 DEF RouterOK, NotRouting
<1>4. QED
  BY <1>2, <1>3

LEMMA RoutingStep == RoutingInv /\ [RoutingNext]_routingVars => RoutingInv'
<1> SUFFICES ASSUME CatalogueOK, PolicyOK, OneActivePolicy, RouterOK, DecisionOK, [RoutingNext]_routingVars
             PROVE  CatalogueOK' /\ (PolicyOK' /\ OneActivePolicy') /\ RouterOK' /\ DecisionOK'
  BY DEF RoutingInv, CatalogueOK
<1>1. CASE \E r \in Refresher : Fetch(r) \/ ReadCatalogue(r) \/ CommitRefresh(r)
  <2>1. UNCHANGED <<policy, switch, router, decided>>
    BY <1>1 DEF Fetch, ReadCatalogue, CommitRefresh, evidence
  <2>2. CatalogueOK'
    BY <1>1, FetchKeeps, ReadCatalogueKeeps, CommitRefreshKeeps
  <2>3. QED
    BY <2>1, <2>2, PolicyStands, RouterStands, DecisionStands
<1>2. CASE TestConnection
  <2>1. UNCHANGED <<policy, switch, router, decided>>
    BY <1>2 DEF TestConnection, evidence
  <2>2. QED
    BY <1>2, <2>1, TestConnectionKeeps, PolicyStands, RouterStands, DecisionStands
<1>3. CASE \E s \in Switcher : ReadSwitch(s) \/ WriteSwitch(s)
  <2>1. UNCHANGED <<catalogue, router, decided>>
    BY <1>3 DEF ReadSwitch, WriteSwitch
  <2>2. PolicyOK' /\ OneActivePolicy'
    BY <1>3, SwitchKeeps
  <2>3. QED
    BY <2>1, <2>2, CatalogueStands, RouterStands, DecisionStands
<1>4. CASE Observe
  <2>1. UNCHANGED <<catalogue, policy, switch, router, decided>>
    BY <1>4 DEF Observe
  <2>2. QED
    BY <2>1, CatalogueStands, PolicyStands, RouterStands, DecisionStands
<1>5. CASE RouteManual
  <2>1. UNCHANGED <<catalogue, policy, switch, router>>
    BY <1>5 DEF RouteManual, evidence
  <2>2. QED
    BY <1>5, <2>1, CatalogueStands, PolicyStands, RouterStands, RouteManualKeeps
<1>6. CASE RouteAuto
  <2>1. UNCHANGED <<catalogue, policy, switch>>
    BY <1>6 DEF RouteAuto, evidence
  <2>2. RowsOK
    BY DEF CatalogueOK
  <2>3. QED
    BY <1>6, <2>1, <2>2, CatalogueStands, PolicyStands, RouteAutoKeeps
<1>7. CASE ReadPolicy \/ ReadCalls \/ ReadFindings \/ EvidenceFails
  <2>1. UNCHANGED <<catalogue, policy, switch>>
    BY <1>7 DEF ReadPolicy, ReadCalls, ReadFindings, EvidenceFails, evidence
  <2>2. RouterOK' /\ DecisionOK'
    BY <1>7, ReadPolicyKeeps, ReadCallsKeeps, ReadFindingsKeeps, EvidenceFailsKeeps
  <2>3. QED
    BY <2>1, <2>2, CatalogueStands, PolicyStands
<1>8. CASE UNCHANGED routingVars
  <2>1. UNCHANGED <<catalogue, policy, switch, router, decided>>
    BY <1>8 DEF routingVars, catalogue
  <2>2. QED
    BY <2>1, CatalogueStands, PolicyStands, RouterStands, DecisionStands
<1>9. QED
  BY <1>1, <1>2, <1>3, <1>4, <1>5, <1>6, <1>7, <1>8 DEF RoutingNext

\* The rows, the refreshes, the switches and the decision in the making agree
\* with one another at every moment (RoutingInv).
THEOREM RoutingIsConsistent == RoutingSpec => []RoutingInv
<1>1. RoutingInit => RoutingInv
  BY RoutingInitially
<1>2. RoutingInv /\ [RoutingNext]_routingVars => RoutingInv'
  BY RoutingStep
<1>3. QED
  BY <1>1, <1>2, PTL DEF RoutingSpec

\* What a decision rests on is sound, however many refreshes and switches
\* interleave: at most one policy version is active, and unless two refreshes
\* overlapped, an active model was in some provider's last list
\* (refresh_catalog, set_evidence_routing).
THEOREM CatalogueIsSound == RoutingSpec => []CatalogueInv
<1>1. RoutingInv => CatalogueInv
  BY DEF RoutingInv, CatalogueInv, RoutingTypeOK, RowsOK, RefreshesOK, PolicyOK, RouterOK, DecisionOK
<1>2. QED
  BY <1>1, RoutingIsConsistent, PTL

\* Whatever the evidence says and whatever changes while a decision is being
\* made, it keeps to the mode it was asked for (route, _evidence_key).
THEOREM DecisionsKeepToPolicy == RoutingSpec => []PolicyIsRespected
<1>1. RoutingInv => PolicyIsRespected
  BY DEF RoutingInv, DecisionOK, PolicyIsRespected
<1>2. QED
  BY <1>1, RoutingIsConsistent, PTL

\* A model that lacks evidence gives way only to one whose evaluations are
\* positive (routing_evidence.py, sort_key).
THEOREM NewModelsAreNotPenalised == RoutingSpec => []ColdStartIsNeutral
<1>1. RoutingInv => ColdStartIsNeutral
  BY DEF RoutingInv, DecisionOK, ColdStartIsNeutral
<1>2. QED
  BY <1>1, RoutingIsConsistent, PTL
=============================================================================
