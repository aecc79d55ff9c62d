----------------------------- MODULE FoldLemmas -----------------------------
(***************************************************************************)
(* Folds over the positions of a sequence, from the first to the last: that *)
(* they exist, and that two of them that start and continue alike are       *)
(* equal.  FoldLeft takes the last position out of a set of positions,      *)
(* folds the rest and goes on with the element at that position, so that a  *)
(* fold is a function of sets of positions.                                 *)
(***************************************************************************)
EXTENDS Integers, SequencesExt, SequenceTheorems, FiniteSetTheorems,
        WellFoundedInduction, TLAPS

(* Every set of numbers that is not empty has a least one. *)
LEMMA Least ==
  ASSUME NEW S \in SUBSET Nat, S # {}
  PROVE  \E i \in S : \A j \in S : i <= j
<1>. DEFINE R == {ss \in Nat \X Nat : ss[1] < ss[2]}
<1>1. IsWellFoundedOn(R, Nat)
  BY NatLessThanWellFounded, Zenon DEF OpToRel
<1>2. \A i, j \in Nat : j < i => <<j, i>> \in R
  OBVIOUS
<1>. HIDE DEF R
<1>3. \E i \in S : \A j \in S : <<j, i>> \notin R
  BY <1>1, WFMin
<1>4. \A i, j \in Nat : ~(j < i) => i <= j
  OBVIOUS
<1>. QED
  BY <1>2, <1>3, <1>4

(* A set of positions that is not empty has a last one. *)
LEMMA Greatest ==
  ASSUME NEW n \in Nat, NEW S \in SUBSET (1..n), S # {}
  PROVE  /\ Max(S) \in S /\ \A j \in S : j <= Max(S)
         /\ Max(S) \in 1..n /\ S \ {Max(S)} \in SUBSET (1..(Max(S) - 1))
<1>. DEFINE T == {k \in Nat : n - k \in S}
<1>1. T \in SUBSET Nat /\ T # {}
  <2>1. PICK i \in S : TRUE
    OBVIOUS
  <2>2. n - i \in Nat /\ n - (n - i) = i
    BY <2>1
  <2>. QED
    BY <2>1, <2>2
<1>2. PICK k \in T : \A j \in T : k <= j
  BY <1>1, Least, Zenon
<1>3. n - k \in S /\ \A j \in S : n - j \in T
  OBVIOUS
<1>4. \A j \in S : j <= n - k
  BY <1>2, <1>3
<1>5. \E x \in S : \A y \in S : x >= y
  BY <1>3, <1>4
<1>. DEFINE m == Max(S)
<1>6. m \in S /\ \A y \in S : m >= y
  BY <1>5 DEF Max
<1>. HIDE DEF m
<1>7. m \in 1..n /\ \A y \in S : y \in Int /\ y <= m
  BY <1>6
<1>8. S \ {m} \in SUBSET (1..(m - 1))
  BY <1>7
<1>. QED
  BY <1>6, <1>7, <1>8 DEF m

(* Two folds over the positions 1..n that start and continue alike are equal. *)
FoldAlike(n, f, g) ==
  /\ f[{}] = g[{}]
  /\ \A S \in SUBSET (1..n) :
       S # {} /\ f[S \ {Max(S)}] = g[S \ {Max(S)}] => f[S] = g[S]

LEMMA FoldsAgree ==
  ASSUME NEW n \in Nat, NEW f, NEW g, FoldAlike(n, f, g)
  PROVE  \A S \in SUBSET (1..n) : f[S] = g[S]
<1>. DEFINE Differs(k) == \E S \in SUBSET (1..n) : S \subseteq 1..k /\ f[S] # g[S]
            Bad == {k \in Nat : Differs(k)}
<1>1. ASSUME NEW k \in Nat, Differs(k) PROVE \E j \in Nat : j < k /\ Differs(j)
  <2>1. PICK S \in SUBSET (1..n) : S \subseteq 1..k /\ f[S] # g[S]
    BY <1>1
  <2>2. S # {}
    BY <2>1 DEF FoldAlike
  <2>3. Max(S) \in S /\ Max(S) \in 1..n /\ S \ {Max(S)} \in SUBSET (1..(Max(S) - 1))
    BY <2>2, Greatest
  <2>4. Max(S) - 1 \in Nat /\ Max(S) - 1 < k
    BY <2>1, <2>3
  <2>5. f[S \ {Max(S)}] # g[S \ {Max(S)}]
    BY <2>1, <2>2 DEF FoldAlike
  <2>6. Differs(Max(S) - 1)
    BY <2>3, <2>4, <2>5
  <2>. QED
    BY <2>4, <2>6
<1>2. \A S \in SUBSET (1..n) : f[S] # g[S] => Differs(n)
  OBVIOUS
<1>. HIDE DEF Differs
<1>3. Bad = {}
  <2>1. SUFFICES ASSUME Bad # {} PROVE FALSE
    OBVIOUS
  <2>2. PICK k \in Bad : \A j \in Bad : k <= j
    BY <2>1, Least
  <2>3. PICK j \in Nat : j < k /\ Differs(j)
    BY <1>1
  <2>. QED
    BY <2>2, <2>3
<1>. QED
  BY <1>2, <1>3

(* A fold over the positions 1..n whose values stay in V exists. *)
FoldOf(n, V, b, h, g) ==
  /\ g \in [SUBSET (1..n) -> V]
  /\ \A S \in SUBSET (1..n) :
       g[S] = IF S = {} THEN b ELSE h[<<g[S \ {Max(S)}], Max(S)>>]

LEMMA FoldExists ==
  ASSUME NEW n \in Nat, NEW V, NEW b \in V, NEW h \in [V \X (1..n) -> V]
  PROVE  \E g : FoldOf(n, V, b, h, g)
<1>. DEFINE Fold(k, g) ==
              \A S \in SUBSET (1..k) :
                g[S] = IF S = {} THEN b ELSE h[<<g[S \ {Max(S)}], Max(S)>>]
            Exists(k) == \E g \in [SUBSET (1..k) -> V] : Fold(k, g)
            Bad == {k \in 0..n : ~Exists(k)}
<1>1. Exists(0)
  <2>1. [S \in SUBSET (1..0) |-> b] \in [SUBSET (1..0) -> V]
    OBVIOUS
  <2>2. Fold(0, [S \in SUBSET (1..0) |-> b])
    OBVIOUS
  <2>. QED
    BY <2>1, <2>2
<1>2. ASSUME NEW k \in 1..n, Exists(k - 1) PROVE Exists(k)
  <2>1. PICK g \in [SUBSET (1..(k - 1)) -> V] : Fold(k - 1, g)
    BY <1>2
  <2>. DEFINE e == [S \in SUBSET (1..k) |-> IF k \in S THEN h[<<g[S \ {k}], k>>] ELSE g[S]]
  <2>2. \A S \in SUBSET (1..k) : S \ {k} \in SUBSET (1..(k - 1))
    OBVIOUS
  <2>3. e \in [SUBSET (1..k) -> V]
    <3>. SUFFICES ASSUME NEW S \in SUBSET (1..k) PROVE e[S] \in V
      OBVIOUS
    <3>1. g[S \ {k}] \in V
      BY <2>2
    <3>2. k \notin S => S \ {k} = S
      OBVIOUS
    <3>. QED
      BY <3>1, <3>2
  <2>4. Fold(k, e)
    <3>. SUFFICES ASSUME NEW S \in SUBSET (1..k)
                  PROVE  e[S] = IF S = {} THEN b ELSE h[<<e[S \ {Max(S)}], Max(S)>>]
      OBVIOUS
    <3>1. CASE k \in S
      <4>1. Max(S) = k
        <5>1. S # {} /\ k \in Nat
          BY <3>1
        <5>2. Max(S) \in 1..k /\ k <= Max(S)
          BY <3>1, <5>1, Greatest
        <5>. QED
          BY <5>2
      <4>2. e[S \ {k}] = g[S \ {k}]
        BY <2>2
      <4>. QED
        BY <3>1, <4>1, <4>2
    <3>2. CASE k \notin S
      <4>1. S \in SUBSET (1..(k - 1))
        BY <3>2
      <4>2. S \ {Max(S)} \in SUBSET (1..(k - 1)) /\ k \notin S \ {Max(S)}
        BY <3>2, <4>1
      <4>3. e[S] = g[S] /\ e[S \ {Max(S)}] = g[S \ {Max(S)}]
        BY <3>2, <4>1, <4>2
      <4>. QED
        BY <2>1, <4>1, <4>3
    <3>. QED
      BY <3>1, <3>2
  <2>. QED
    BY <2>3, <2>4
<1>. HIDE DEF Exists
<1>3. Bad = {}
  <2>1. SUFFICES ASSUME Bad # {} PROVE FALSE
    OBVIOUS
  <2>. Bad \in SUBSET Nat
    OBVIOUS
  <2>2. PICK k \in Bad : \A j \in Bad : k <= j
    BY <2>1, Least, Zenon
  <2>3. k \in 1..n /\ k - 1 \in 0..n /\ k - 1 < k
    BY <1>1
  <2>. QED
    BY <1>2, <2>2, <2>3
<1>4. Exists(n)
  BY <1>3
<1>. QED
  BY <1>4 DEF Exists, FoldOf
=============================================================================
