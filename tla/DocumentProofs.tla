--------------------------- MODULE DocumentProofs ---------------------------
(***************************************************************************)
(* The evaluation library answers every request as the document it was     *)
(* given says, for every document, request and hash function: what         *)
(* Snapshot::build makes of a document (snapshot.rs), what the rules and    *)
(* the rollouts of a flag decide of a request, which distribution a bucket  *)
(* falls to, and the properties of EvaluationProperties, which follow.      *)
(*                                                                          *)
(* The loops of the code are folds over sequences.  FoldLemmas has what     *)
(* they need; an induction over a length is a search for the least          *)
(* counterexample (Least).                                                  *)
(***************************************************************************)
EXTENDS EvaluationProofs

-----------------------------------------------------------------------------
(* Merging maps *)

(* The maps of the positions S, the later ones over the earlier ones. *)
Latest(maps, S) ==
  [k \in UNION {DOMAIN maps[i] : i \in S} |->
     maps[Max({i \in S : k \in DOMAIN maps[i]})][k]]

(* A map has the keys of some maps, and what the last one that has a key has
   under it. *)
KeepsLast(map, maps) ==
  /\ DOMAIN map = UNION {DOMAIN maps[i] : i \in DOMAIN maps}
  /\ \A k \in DOMAIN map : \E i \in DOMAIN maps :
       /\ k \in DOMAIN maps[i]
       /\ \A j \in DOMAIN maps : k \in DOMAIN maps[j] => j <= i
       /\ map[k] = maps[i][k]

(* That is what the loops of snapshot.rs, which insert into one map, build. *)
LEMMA MergedKeepsLast ==
  ASSUME NEW n \in Nat, NEW maps, DOMAIN maps = 1..n
  PROVE  KeepsLast(Merged(maps), maps)
<1>. DEFINE Step(g) == [S \in SUBSET DOMAIN maps |->
                          IF S = {} THEN <<>> ELSE Inserted(g[S \ {Max(S)}], maps[Max(S)])]
            fold == CHOOSE g : g = Step(g)
            latest == [S \in SUBSET DOMAIN maps |-> IF S = {} THEN <<>> ELSE Latest(maps, S)]
<1>3. Merged(maps) = fold[DOMAIN maps]
  BY DEF Merged, FoldLeft, MapThenFoldSet
<1>4. ASSUME NEW S \in SUBSET (1..n), S # {}
      PROVE  Latest(maps, S) = Inserted(latest[S \ {Max(S)}], maps[Max(S)])
  <2>. DEFINE m == Max(S)
              rest == S \ {m}
              before == latest[rest]
  <2>1. m \in S /\ (\A j \in S : j <= m) /\ m \in 1..n /\ rest \in SUBSET (1..(m - 1))
    BY <1>4, Greatest
  <2>2. rest \in SUBSET DOMAIN maps
    OBVIOUS
  <2>3. before = IF rest = {} THEN <<>> ELSE Latest(maps, rest)
    BY <2>2
  <2>4. DOMAIN before = UNION {DOMAIN maps[i] : i \in rest}
    <3>1. DOMAIN <<>> = {}
      OBVIOUS
    <3>2. DOMAIN Latest(maps, rest) = UNION {DOMAIN maps[i] : i \in rest}
      BY DEF Latest
    <3>. QED
      BY <2>3, <3>1, <3>2
  <2>5. DOMAIN before \cup DOMAIN maps[m] = UNION {DOMAIN maps[i] : i \in S}
    BY <2>1, <2>4
  <2>6. ASSUME NEW k \in UNION {DOMAIN maps[i] : i \in S}
        PROVE  maps[Max({i \in S : k \in DOMAIN maps[i]})][k]
                 = IF k \in DOMAIN maps[m] THEN maps[m][k] ELSE before[k]
    <3>. DEFINE having == {i \in S : k \in DOMAIN maps[i]}
    <3>1. CASE k \in DOMAIN maps[m]
      <4>1. m \in having /\ having \in SUBSET (1..n) /\ having # {}
        BY <2>1, <3>1
      <4>2. Max(having) \in having /\ m <= Max(having) /\ Max(having) \in 1..n
        BY <4>1, Greatest
      <4>3. Max(having) = m
        BY <2>1, <4>2
      <4>. QED
        BY <3>1, <4>3
    <3>2. CASE k \notin DOMAIN maps[m]
      <4>1. having = {i \in rest : k \in DOMAIN maps[i]} /\ rest # {}
        BY <3>2
      <4>2. k \in UNION {DOMAIN maps[i] : i \in rest}
        BY <3>2
      <4>3. before[k] = maps[Max(having)][k]
        BY <2>3, <4>1, <4>2 DEF Latest
      <4>. QED
        BY <3>2, <4>3
    <3>. QED
      BY <3>1, <3>2
  <2>. HIDE DEF before, m
  <2>7. Inserted(before, maps[m]) =
          [k \in UNION {DOMAIN maps[i] : i \in S} |->
             IF k \in DOMAIN maps[m] THEN maps[m][k] ELSE before[k]]
    BY <2>5 DEF Inserted
  <2>8. Inserted(before, maps[m]) = Latest(maps, S)
    BY <2>6, <2>7 DEF Latest
  <2>. QED
    BY <2>8 DEF before, m
<1>5. latest = Step(latest)
  BY <1>4
<1>6. fold = Step(fold)
  BY <1>5
<1>. HIDE DEF fold, latest
<1>7. FoldAlike(n, fold, latest)
  <2>1. fold[{}] = latest[{}]
    BY <1>5, <1>6
  <2>2. \A S \in SUBSET (1..n) :
          S # {} /\ fold[S \ {Max(S)}] = latest[S \ {Max(S)}] => fold[S] = latest[S]
    BY <1>5, <1>6
  <2>. QED
    BY <2>1, <2>2 DEF FoldAlike
<1>8. Merged(maps) = latest[DOMAIN maps]
  BY <1>3, <1>7, FoldsAgree
<1>9. CASE DOMAIN maps = {}
  <2>1. latest[DOMAIN maps] = <<>> /\ DOMAIN <<>> = {}
    BY <1>9 DEF latest
  <2>. QED
    BY <1>8, <1>9, <2>1 DEF KeepsLast
<1>10. CASE DOMAIN maps # {}
  <2>1. Merged(maps) = Latest(maps, DOMAIN maps)
    BY <1>8, <1>10 DEF latest
  <2>2. DOMAIN Merged(maps) = UNION {DOMAIN maps[i] : i \in DOMAIN maps}
    BY <2>1 DEF Latest
  <2>3. ASSUME NEW k \in DOMAIN Merged(maps)
        PROVE  \E i \in DOMAIN maps :
                 /\ k \in DOMAIN maps[i]
                 /\ \A j \in DOMAIN maps : k \in DOMAIN maps[j] => j <= i
                 /\ Merged(maps)[k] = maps[i][k]
    <3>. DEFINE having == {i \in DOMAIN maps : k \in DOMAIN maps[i]}
    <3>1. having \in SUBSET (1..n) /\ having # {}
      BY <2>2
    <3>2. Max(having) \in having /\ \A j \in having : j <= Max(having)
      BY <3>1, Greatest
    <3>3. Merged(maps)[k] = maps[Max(having)][k]
      BY <2>1, <2>2 DEF Latest
    <3>. QED
      BY <3>2, <3>3
  <2>. QED
    BY <2>2, <2>3 DEF KeepsLast
<1>. QED
  BY <1>9, <1>10

-----------------------------------------------------------------------------
(* The first distributions *)

(* The first i elements of a sequence. *)
LEMMA Prefix ==
  ASSUME NEW E, NEW s \in Seq(E), NEW i \in 0..Len(s)
  PROVE  /\ SubSeq(s, 1, i) \in Seq(E)
         /\ Len(SubSeq(s, 1, i)) = i
         /\ DOMAIN SubSeq(s, 1, i) = 1..i
         /\ \A j \in 1..i : SubSeq(s, 1, i)[j] = s[j] /\ j \in 1..Len(s)
<1>1. Len(s) \in Nat /\ i \in Nat /\ \A j \in 1..i : j \in 1..Len(s)
  BY LenProperties
<1>2. \A j \in 1..i : s[j] \in E
  BY <1>1, ElementOfSeq
<1>3. 1 \in Int /\ i \in Int /\ i - 1 + 1 = i /\ (~(1 <= i) => i = 0)
  BY <1>1
<1>4. /\ SubSeq(s, 1, i) \in Seq(E)
      /\ Len(SubSeq(s, 1, i)) = IF 1 <= i THEN i - 1 + 1 ELSE 0
      /\ \A j \in 1..(i - 1 + 1) : SubSeq(s, 1, i)[j] = s[1 + j - 1]
  BY <1>2, <1>3, SubSeqProperties
<1>5. Len(SubSeq(s, 1, i)) = i /\ \A j \in 1..i : SubSeq(s, 1, i)[j] = s[j]
  BY <1>3, <1>4
<1>. QED
  BY <1>1, <1>4, <1>5, LenProperties

(* They are the same when an element is added behind the last. *)
LEMMA PrefixOfAppend ==
  ASSUME NEW E, NEW s \in Seq(E), NEW e \in E, NEW i \in 0..Len(s)
  PROVE  SubSeq(Append(s, e), 1, i) = SubSeq(s, 1, i)
<1>. DEFINE t == Append(s, e)
<1>1. t \in Seq(E) /\ Len(t) = Len(s) + 1 /\ \A j \in 1..Len(s) : t[j] = s[j]
  BY AppendProperties
<1>2. Len(s) \in Nat
  BY LenProperties
<1>. HIDE DEF t
<1>3. i \in 0..Len(t)
  BY <1>1, <1>2
<1>4. SubSeq(t, 1, i) \in Seq(E) /\ Len(SubSeq(t, 1, i)) = i
      /\ \A j \in 1..i : SubSeq(t, 1, i)[j] = t[j]
  BY <1>1, <1>3, Prefix
<1>5. SubSeq(s, 1, i) \in Seq(E) /\ Len(SubSeq(s, 1, i)) = i
      /\ \A j \in 1..i : SubSeq(s, 1, i)[j] = s[j] /\ j \in 1..Len(s)
  BY Prefix
<1>6. \A j \in 1..i : SubSeq(t, 1, i)[j] = SubSeq(s, 1, i)[j]
  BY <1>1, <1>4, <1>5
<1>. QED
  BY <1>4, <1>5, <1>6, SeqEqual DEF t

(* The weight of the first i of some distributions is a running sum. *)
LEMMA RunningWeight ==
  ASSUME NEW ds \in Seq(SourceDistributions)
  PROVE  /\ Weight(SubSeq(ds, 1, 0)) = 0
         /\ \A i \in 0..Len(ds) : Weight(SubSeq(ds, 1, i)) \in Int
         /\ \A i \in 1..Len(ds) :
              Weight(SubSeq(ds, 1, i)) = Weight(SubSeq(ds, 1, i - 1)) + ds[i].rollout
<1>. DEFINE n == Len(ds)
            h == [vi \in Int \X (1..n) |-> vi[1] + ds[vi[2]].rollout]
<1>1. n \in Nat /\ DOMAIN ds = 1..n /\ \A i \in 1..n : ds[i].rollout \in Int
  <2>1. n \in Nat /\ DOMAIN ds = 1..n
    BY LenProperties
  <2>2. \A i \in 1..n : ds[i] \in SourceDistributions
    BY ElementOfSeq
  <2>. QED
    BY <2>1, <2>2 DEF SourceDistributions
<1>2. h \in [Int \X (1..n) -> Int]
  BY <1>1
<1>3. \A v \in Int, i \in 1..n : h[<<v, i>>] = v + ds[i].rollout
  OBVIOUS
<1>. HIDE DEF h, n
<1>4. PICK w : FoldOf(n, Int, 0, h, w)
  <2>1. 0 \in Int
    OBVIOUS
  <2>. QED
    BY <1>1, <1>2, <2>1, FoldExists, Zenon
<1>. DEFINE Sum(S) == IF S = {} THEN 0 ELSE w[S \ {Max(S)}] + ds[Max(S)].rollout
<1>5. w \in [SUBSET (1..n) -> Int] /\ \A S \in SUBSET (1..n) : w[S] = Sum(S)
  <2>. SUFFICES ASSUME NEW S \in SUBSET (1..n), S # {}
                PROVE  w[S] = w[S \ {Max(S)}] + ds[Max(S)].rollout
    BY <1>4 DEF FoldOf
  <2>1. Max(S) \in 1..n /\ S \ {Max(S)} \in SUBSET (1..n)
    BY <1>1, Greatest
  <2>2. w[S] = h[<<w[S \ {Max(S)}], Max(S)>>] /\ w[S \ {Max(S)}] \in Int
    BY <1>4, <2>1 DEF FoldOf
  <2>. QED
    BY <1>3, <2>1, <2>2
<1>6. ASSUME NEW i \in 0..n
      PROVE  Weight(SubSeq(ds, 1, i)) = w[1..i]
  <2>. DEFINE s == SubSeq(ds, 1, i)
              Step(g) == [S \in SUBSET DOMAIN s |->
                            IF S = {} THEN 0 ELSE g[S \ {Max(S)}] + s[Max(S)].rollout]
              fold == CHOOSE g : g = Step(g)
              upto == [S \in SUBSET (1..i) |-> w[S]]
  <2>1. DOMAIN s = 1..i /\ i \in Nat /\ \A j \in 1..i : s[j] = ds[j] /\ j \in 1..n
    <3>1. i \in Nat
      BY <1>1
    <3>2. DOMAIN s = 1..i /\ \A j \in 1..i : s[j] = ds[j] /\ j \in 1..n
      BY Prefix DEF n
    <3>. QED
      BY <3>1, <3>2
  <2>2. Weight(s) = fold[DOMAIN s]
    BY DEF Weight, FoldLeft, MapThenFoldSet
  <2>. HIDE DEF s
  <2>3. \A S \in SUBSET (1..i) : S # {} =>
          Max(S) \in 1..i /\ S \ {Max(S)} \in SUBSET (1..i) /\ S \in SUBSET (1..n)
    BY <2>1, Greatest
  <2>4. upto = Step(upto)
    BY <1>5, <2>1, <2>3
  <2>5. fold = Step(fold)
    BY <2>4
  <2>. HIDE DEF fold, upto
  <2>6. FoldAlike(i, fold, upto)
    <3>1. \A S \in SUBSET (1..i) : S # {} =>
            /\ fold[S] = fold[S \ {Max(S)}] + s[Max(S)].rollout
            /\ upto[S] = upto[S \ {Max(S)}] + s[Max(S)].rollout
      BY <2>1, <2>4, <2>5
    <3>2. fold[{}] = upto[{}]
      BY <2>1, <2>4, <2>5
    <3>. QED
      BY <3>1, <3>2 DEF FoldAlike
  <2>7. fold[1..i] = upto[1..i]
    BY <2>1, <2>6, FoldsAgree
  <2>. QED
    BY <2>1, <2>2, <2>7 DEF s, upto
<1>7. ASSUME NEW i \in 1..n PROVE w[1..i] = w[1..(i - 1)] + ds[i].rollout
  <2>1. i \in Nat /\ i \in 1..i /\ 1..i \in SUBSET (1..n)
    BY <1>1
  <2>2. Max(1..i) = i
    <3>1. 1..i # {} /\ 1..i \in SUBSET (1..i)
      BY <2>1
    <3>2. Max(1..i) \in 1..i /\ i <= Max(1..i)
      BY <2>1, <3>1, Greatest
    <3>. QED
      BY <2>1, <3>2
  <2>3. (1..i) \ {i} = 1..(i - 1) /\ 1..i # {}
    BY <2>1
  <2>4. w[1..i] = w[(1..i) \ {Max(1..i)}] + ds[Max(1..i)].rollout
    BY <1>5, <2>1, <2>3, Zenon
  <2>. QED
    BY <2>2, <2>3, <2>4
<1>8. w[1..0] = 0
  <2>1. 1..0 = {} /\ 1..0 \in SUBSET (1..n)
    BY <1>1
  <2>. QED
    BY <1>5, <2>1
<1>9. \A i \in 0..n : w[1..i] \in Int
  <2>1. \A i \in 0..n : 1..i \in SUBSET (1..n)
    BY <1>1
  <2>. QED
    BY <1>5, <2>1
<1>10. 0 \in 0..n /\ \A i \in 1..n : i \in 0..n /\ i - 1 \in 0..n
  BY <1>1
<1>. QED
  <2>1. Weight(SubSeq(ds, 1, 0)) = 0
    BY <1>6, <1>8, <1>10
  <2>2. \A i \in 0..n : Weight(SubSeq(ds, 1, i)) \in Int
    BY <1>6, <1>9
  <2>3. \A i \in 1..n : Weight(SubSeq(ds, 1, i)) = Weight(SubSeq(ds, 1, i - 1)) + ds[i].rollout
    BY <1>6, <1>7, <1>10
  <2>. QED
    BY <2>1, <2>2, <2>3 DEF n

(* What keeping a distribution does to those that are kept. *)
Kept(v, d) == IF d.rollout > 0 THEN Append(v, d) ELSE v

(* The loop over some distributions keeps those with a share one after the
   other (lib.rs:205-229). *)
LEMMA RunningKept ==
  ASSUME NEW ds \in Seq(SourceDistributions)
  PROVE  /\ PositiveRollouts(SubSeq(ds, 1, 0)) = <<>>
         /\ \A i \in 0..Len(ds) :
              PositiveRollouts(SubSeq(ds, 1, i)) \in Seq(SourceDistributions)
         /\ \A i \in 1..Len(ds) :
              PositiveRollouts(SubSeq(ds, 1, i)) =
                Kept(PositiveRollouts(SubSeq(ds, 1, i - 1)), ds[i])
<1>. DEFINE n == Len(ds)
            V == Seq(SourceDistributions)
            h == [vi \in V \X (1..n) |-> Kept(vi[1], ds[vi[2]])]
<1>1. n \in Nat /\ DOMAIN ds = 1..n /\ \A i \in 1..n : ds[i] \in SourceDistributions
  BY LenProperties, ElementOfSeq
<1>keeps. <<>> \in V /\ \A v \in V, d \in SourceDistributions : Kept(v, d) \in V
  BY EmptySeq, AppendProperties DEF Kept
<1>2. h \in [V \X (1..n) -> V]
  BY <1>1, <1>keeps
<1>3. \A v \in V, i \in 1..n : h[<<v, i>>] = Kept(v, ds[i])
  OBVIOUS
<1>. HIDE DEF h, n, V
<1>4. PICK w : FoldOf(n, V, <<>>, h, w)
  BY <1>1, <1>2, <1>keeps, FoldExists, Zenon
<1>. DEFINE Fold(S) == IF S = {} THEN <<>> ELSE Kept(w[S \ {Max(S)}], ds[Max(S)])
<1>5. w \in [SUBSET (1..n) -> V] /\ \A S \in SUBSET (1..n) : w[S] = Fold(S)
  <2>. SUFFICES ASSUME NEW S \in SUBSET (1..n), S # {}
                PROVE  w[S] = Kept(w[S \ {Max(S)}], ds[Max(S)])
    BY <1>4 DEF FoldOf
  <2>1. Max(S) \in 1..n /\ S \ {Max(S)} \in SUBSET (1..n)
    BY <1>1, Greatest
  <2>2. w[S] = h[<<w[S \ {Max(S)}], Max(S)>>] /\ w[S \ {Max(S)}] \in V
    BY <1>4, <2>1 DEF FoldOf
  <2>. QED
    BY <1>3, <2>1, <2>2
<1>6. ASSUME NEW i \in 0..n
      PROVE  PositiveRollouts(SubSeq(ds, 1, i)) = w[1..i]
  <2>. DEFINE s == SubSeq(ds, 1, i)
              Step(g) == [S \in SUBSET DOMAIN s |->
                            IF S = {} THEN <<>>
                            ELSE IF s[Max(S)].rollout > 0
                                 THEN Append(g[S \ {Max(S)}], s[Max(S)])
                                 ELSE g[S \ {Max(S)}]]
              fold == CHOOSE g : g = Step(g)
              upto == [S \in SUBSET (1..i) |-> w[S]]
  <2>1. DOMAIN s = 1..i /\ i \in Nat /\ \A j \in 1..i : s[j] = ds[j] /\ j \in 1..n
    <3>1. i \in Nat
      BY <1>1
    <3>2. DOMAIN s = 1..i /\ \A j \in 1..i : s[j] = ds[j] /\ j \in 1..n
      BY Prefix DEF n
    <3>. QED
      BY <3>1, <3>2
  <2>2. PositiveRollouts(s) = fold[DOMAIN s]
    BY DEF PositiveRollouts, FoldLeft, MapThenFoldSet
  <2>. HIDE DEF s
  <2>3. \A S \in SUBSET (1..i) : S # {} =>
          Max(S) \in 1..i /\ S \ {Max(S)} \in SUBSET (1..i) /\ S \in SUBSET (1..n)
    BY <2>1, Greatest
  <2>4. upto = Step(upto)
    BY <1>5, <2>1, <2>3 DEF Kept
  <2>5. fold = Step(fold)
    BY <2>4
  <2>. HIDE DEF fold, upto
  <2>6. FoldAlike(i, fold, upto)
    <3>1. \A S \in SUBSET (1..i) : S # {} =>
            /\ fold[S] = Kept(fold[S \ {Max(S)}], s[Max(S)])
            /\ upto[S] = Kept(upto[S \ {Max(S)}], s[Max(S)])
      BY <2>1, <2>4, <2>5 DEF Kept
    <3>2. fold[{}] = upto[{}]
      BY <2>1, <2>4, <2>5
    <3>. QED
      BY <3>1, <3>2 DEF FoldAlike
  <2>7. fold[1..i] = upto[1..i]
    BY <2>1, <2>6, FoldsAgree
  <2>. QED
    BY <2>1, <2>2, <2>7 DEF s, upto
<1>7. ASSUME NEW i \in 1..n PROVE w[1..i] = Kept(w[1..(i - 1)], ds[i])
  <2>1. i \in Nat /\ i \in 1..i /\ 1..i \in SUBSET (1..n)
    BY <1>1
  <2>2. Max(1..i) = i
    <3>1. 1..i # {} /\ 1..i \in SUBSET (1..i)
      BY <2>1
    <3>2. Max(1..i) \in 1..i /\ i <= Max(1..i)
      BY <2>1, <3>1, Greatest
    <3>. QED
      BY <2>1, <3>2
  <2>3. (1..i) \ {i} = 1..(i - 1) /\ 1..i # {}
    BY <2>1
  <2>4. w[1..i] = Kept(w[(1..i) \ {Max(1..i)}], ds[Max(1..i)])
    BY <1>5, <2>1, <2>3, Zenon
  <2>. QED
    BY <2>2, <2>3, <2>4
<1>8. w[1..0] = <<>>
  <2>1. 1..0 = {} /\ 1..0 \in SUBSET (1..n)
    BY <1>1
  <2>. QED
    BY <1>5, <2>1
<1>9. \A i \in 0..n : w[1..i] \in V
  <2>1. \A i \in 0..n : 1..i \in SUBSET (1..n)
    BY <1>1
  <2>. QED
    BY <1>5, <2>1
<1>10. 0 \in 0..n /\ \A i \in 1..n : i \in 0..n /\ i - 1 \in 0..n
  BY <1>1
<1>. QED
  <2>1. PositiveRollouts(SubSeq(ds, 1, 0)) = <<>>
    BY <1>6, <1>8, <1>10
  <2>2. \A i \in 0..n : PositiveRollouts(SubSeq(ds, 1, i)) \in V
    BY <1>6, <1>9
  <2>3. \A i \in 1..n : PositiveRollouts(SubSeq(ds, 1, i)) =
                          Kept(PositiveRollouts(SubSeq(ds, 1, i - 1)), ds[i])
    BY <1>6, <1>7, <1>10
  <2>. QED
    BY <2>1, <2>2, <2>3 DEF n, V

(* The distributions ps are those of ds that have a share, each from the
   position at[j]. *)
KeptAt(ds, ps, at) ==
  /\ at \in [1..Len(ps) -> 1..Len(ds)]
  /\ \A j \in 1..Len(ps) : ps[j] = ds[at[j]] /\ ds[at[j]].rollout > 0
  /\ \A k \in 1..Len(ds) : ds[k].rollout > 0 => \E j \in 1..Len(ps) : at[j] = k

(* What each distribution that is kept claims is what it weighs. *)
SameWeights(ds, ps, at) ==
  /\ \A j \in 1..Len(ps) :
       /\ Weight(SubSeq(ps, 1, j)) = Weight(SubSeq(Claims(ds), 1, at[j]))
       /\ Weight(SubSeq(ps, 1, j - 1)) = Weight(SubSeq(Claims(ds), 1, at[j] - 1))
  /\ Weight(ps) = Weight(Claims(ds))

(* Claims are distributions. *)
LEMMA ClaimsOfDistributions ==
  ASSUME NEW ds \in Seq(SourceDistributions)
  PROVE  /\ Claims(ds) \in Seq(SourceDistributions) /\ Len(Claims(ds)) = Len(ds)
         /\ \A i \in 1..Len(ds) :
              /\ Claims(ds)[i].rollout = IF ds[i].rollout > 0 THEN ds[i].rollout ELSE 0
              /\ Claims(ds)[i].variant = ds[i].variant
<1>. DEFINE claim(i) == [ds[i] EXCEPT !.rollout = IF @ > 0 THEN @ ELSE 0]
<1>1. /\ Len(ds) \in Nat /\ DOMAIN ds = 1..Len(ds)
      /\ \A i \in 1..Len(ds) : ds[i] \in SourceDistributions
  BY LenProperties, ElementOfSeq
<1>2. ASSUME NEW i \in 1..Len(ds)
      PROVE  /\ claim(i) \in SourceDistributions
             /\ claim(i).rollout = IF ds[i].rollout > 0 THEN ds[i].rollout ELSE 0
             /\ claim(i).variant = ds[i].variant
  <2>1. ds[i] \in [variant : STRING, rollout : Int]
    BY <1>1 DEF SourceDistributions
  <2>. QED
    BY <2>1 DEF SourceDistributions
<1>3. Claims(ds) = [i \in 1..Len(ds) |-> claim(i)]
  BY <1>1 DEF Claims
<1>. HIDE DEF claim
<1>4. Claims(ds) \in [1..Len(ds) -> SourceDistributions]
  BY <1>2, <1>3
<1>5. Claims(ds) \in Seq(SourceDistributions)
  BY <1>1, <1>4, SeqDef
<1>6. Len(Claims(ds)) = Len(ds)
  <2>1. Len(Claims(ds)) \in Nat /\ 1..Len(Claims(ds)) = 1..Len(ds)
    BY <1>3, <1>5, LenProperties
  <2>. QED
    BY <1>1, <2>1
<1>. QED
  BY <1>2, <1>3, <1>5, <1>6

(* The distributions that are kept are those that have a share, and each ends
   where its claim ends among all of them, as the others claim nothing. *)
LEMMA SharesKept ==
  ASSUME NEW ds \in Seq(SourceDistributions)
  PROVE  /\ PositiveRollouts(ds) \in Seq(SourceDistributions)
         /\ \E at : /\ KeptAt(ds, PositiveRollouts(ds), at)
                    /\ SameWeights(ds, PositiveRollouts(ds), at)
<1>. DEFINE n == Len(ds)
            K(i) == PositiveRollouts(SubSeq(ds, 1, i))
            W(s, i) == Weight(SubSeq(s, 1, i))
            Positive(i) == ds[i].rollout > 0
            cs == Claims(ds)
            At(i, at) ==
              /\ at \in [1..Len(K(i)) -> 1..i]
              /\ \A j \in 1..Len(K(i)) : K(i)[j] = ds[at[j]] /\ Positive(at[j])
              /\ \A k \in 1..i : Positive(k) => \E j \in 1..Len(K(i)) : at[j] = k
            Same(i, at) ==
              /\ \A j \in 1..Len(K(i)) :
                   W(K(i), j) = W(cs, at[j]) /\ W(K(i), j - 1) = W(cs, at[j] - 1)
              /\ W(K(i), Len(K(i))) = W(cs, i)
            Good(i) == \E at : At(i, at) /\ Same(i, at)
<1>1. n \in Nat /\ \A i \in 1..n : ds[i] \in SourceDistributions /\ ds[i].rollout \in Int
  <2>1. n \in Nat
    BY LenProperties
  <2>2. \A i \in 1..n : ds[i] \in SourceDistributions
    BY ElementOfSeq
  <2>. QED
    BY <2>1, <2>2 DEF SourceDistributions
<1>2. /\ K(0) = <<>>
      /\ \A i \in 0..n : K(i) \in Seq(SourceDistributions)
      /\ \A i \in 1..n : K(i) = Kept(K(i - 1), ds[i])
  BY RunningKept
<1>claims. /\ cs \in Seq(SourceDistributions) /\ Len(cs) = n
      /\ \A i \in 1..n : cs[i].rollout = IF ds[i].rollout > 0 THEN ds[i].rollout ELSE 0
  BY ClaimsOfDistributions
<1>3. /\ W(cs, 0) = 0
      /\ \A i \in 0..n : W(cs, i) \in Int
      /\ \A i \in 1..n : W(cs, i) = W(cs, i - 1) + cs[i].rollout
  BY <1>claims, RunningWeight
<1>4. ASSUME NEW s \in Seq(SourceDistributions)
      PROVE  /\ W(s, 0) = 0
             /\ \A i \in 0..Len(s) : W(s, i) \in Int
             /\ \A i \in 1..Len(s) : W(s, i) = W(s, i - 1) + s[i].rollout
  BY RunningWeight
<1>5. Len(<<>>) = 0
  OBVIOUS
<1>. HIDE DEF K, W, n, cs
<1>6. Good(0)
  <2>. DEFINE at == [j \in {} |-> 0]
  <2>1. Len(K(0)) = 0 /\ 1..0 = {}
    BY <1>2, <1>5
  <2>2. At(0, at)
    BY <2>1
  <2>3. Same(0, at)
    <3>1. K(0) \in Seq(SourceDistributions)
      BY <1>1, <1>2
    <3>. QED
      BY <1>3, <1>4, <2>1, <3>1
  <2>. QED
    BY <2>2, <2>3
<1>7. ASSUME NEW i \in 1..n, Good(i - 1) PROVE Good(i)
  <2>. DEFINE s == K(i - 1)
              t == K(i)
              d == ds[i]
  <2>1. PICK at : At(i - 1, at) /\ Same(i - 1, at)
    BY <1>7
  <2>2. /\ i \in Nat \ {0} /\ i - 1 \in 0..n /\ i \in 0..n /\ d \in SourceDistributions
        /\ d.rollout \in Int
        /\ s \in Seq(SourceDistributions) /\ t \in Seq(SourceDistributions)
        /\ t = Kept(s, d)
        /\ W(cs, i) = W(cs, i - 1) + (IF d.rollout > 0 THEN d.rollout ELSE 0)
        /\ W(cs, i - 1) \in Int
    <3>1. /\ i \in Nat \ {0} /\ i - 1 \in 0..n /\ i \in 0..n /\ d \in SourceDistributions
          /\ d.rollout \in Int
      BY <1>1
    <3>2. s \in Seq(SourceDistributions) /\ t \in Seq(SourceDistributions) /\ t = Kept(s, d)
      BY <1>2, <3>1
    <3>3. cs[i].rollout = (IF d.rollout > 0 THEN d.rollout ELSE 0)
      BY <1>claims
    <3>4. W(cs, i) = W(cs, i - 1) + cs[i].rollout /\ W(cs, i - 1) \in Int
      BY <1>3, <3>1
    <3>. QED
      BY <3>1, <3>2, <3>3, <3>4
  <2>. HIDE DEF s, t, d
  <2>3. CASE ~(d.rollout > 0)
    <3>1. t = s
      BY <2>2, <2>3 DEF Kept
    <3>2. K(i) = K(i - 1)
      BY <3>1 DEF s, t
    <3>3. \A k \in 1..i : k = i \/ k \in 1..(i - 1)
      BY <2>2
    <3>4. ~Positive(i)
      BY <2>3 DEF d
    <3>. HIDE DEF Positive
    <3>5. At(i, at)
      <4>1. at \in [1..Len(K(i)) -> 1..i]
        BY <2>1, <2>2, <3>2
      <4>. QED
        BY <2>1, <3>2, <3>3, <3>4, <4>1
    <3>6. W(cs, i) = W(cs, i - 1)
      BY <2>2, <2>3
    <3>7. Same(i, at)
      BY <2>1, <3>2, <3>6
    <3>. QED
      BY <3>5, <3>7
  <2>4. CASE d.rollout > 0
    <3>. DEFINE L == Len(s)
                to == [j \in 1..(L + 1) |-> IF j = L + 1 THEN i ELSE at[j]]
    <3>1. /\ L \in Nat /\ t = Append(s, d) /\ Len(t) = L + 1
          /\ \A j \in 1..L : t[j] = s[j]
          /\ t[L + 1] = d
      <4>1. t = Append(s, d)
        BY <2>2, <2>4 DEF Kept
      <4>. QED
        BY <2>2, <4>1, AppendProperties, LenProperties
    <3>2. /\ at \in [1..L -> 1..(i - 1)]
          /\ \A j \in 1..L : s[j] = ds[at[j]] /\ Positive(at[j])
          /\ \A k \in 1..(i - 1) : Positive(k) => \E j \in 1..L : at[j] = k
      BY <2>1 DEF s
    <3>3. \A j \in 1..(L + 1) : j \in 1..L \/ j = L + 1
      BY <3>1
    <3>4. \A j \in 1..L : to[j] = at[j] /\ j # L + 1 /\ j \in 1..(L + 1)
      BY <3>1
    <3>5. to[L + 1] = i /\ L + 1 \in 1..(L + 1)
      BY <3>1
    <3>6. to \in [1..(L + 1) -> 1..i]
      BY <2>2, <3>1, <3>2
    <3>7. Positive(i) /\ t[L + 1] = ds[i]
      BY <2>4, <3>1 DEF d
    <3>. HIDE DEF to, L, Positive
    <3>8. At(i, to)
      <4>1. \A j \in 1..(L + 1) : t[j] = ds[to[j]] /\ Positive(to[j])
        BY <3>1, <3>2, <3>3, <3>4, <3>5, <3>7
      <4>2. \A k \in 1..i : k = i \/ k \in 1..(i - 1)
        BY <2>2
      <4>3. \A k \in 1..i : Positive(k) => \E j \in 1..(L + 1) : to[j] = k
        BY <3>2, <3>4, <3>5, <4>2
      <4>. QED
        BY <3>1, <3>6, <4>1, <4>3 DEF t
    <3>9. Same(i, to)
      <4>1. /\ \A j \in 1..L : W(s, j) = W(cs, at[j]) /\ W(s, j - 1) = W(cs, at[j] - 1)
            /\ W(s, L) = W(cs, i - 1)
        BY <2>1 DEF s, L
      <4>2. ASSUME NEW j \in 0..L PROVE W(t, j) = W(s, j)
        <5>1. j \in 0..Len(s)
          BY DEF L
        <5>2. SubSeq(Append(s, d), 1, j) = SubSeq(s, 1, j)
          BY <2>2, <5>1, PrefixOfAppend
        <5>. QED
          BY <3>1, <5>2 DEF W
      <4>3. W(t, L + 1) = W(t, L) + t[L + 1].rollout
        <5>. DEFINE k == L + 1
        <5>1. k \in 1..Len(t) /\ k - 1 = L
          BY <3>1
        <5>2. \A m \in 1..Len(t) : W(t, m) = W(t, m - 1) + t[m].rollout
          BY <1>4, <2>2
        <5>. HIDE DEF k
        <5>3. W(t, k) = W(t, k - 1) + t[k].rollout
          BY <5>1, <5>2, Zenon
        <5>. QED
          BY <5>1, <5>3, Zenon DEF k
      <4>4. L \in 0..L /\ \A j \in 1..L : j \in 0..L /\ j - 1 \in 0..L
        BY <3>1
      <4>5. W(t, L + 1) = W(cs, i) /\ W(t, L) = W(cs, i - 1)
        BY <2>2, <2>4, <3>1, <4>1, <4>2, <4>3, <4>4
      <4>6. ASSUME NEW j \in 1..(L + 1)
            PROVE  W(t, j) = W(cs, to[j]) /\ W(t, j - 1) = W(cs, to[j] - 1)
        <5>1. CASE j = L + 1
          <6>1. j - 1 = L
            BY <3>1, <5>1
          <6>. QED
            BY <3>5, <4>5, <5>1, <6>1
        <5>2. CASE j \in 1..L
          BY <3>4, <4>1, <4>2, <4>4, <5>2
        <5>. QED
          BY <3>3, <5>1, <5>2
      <4>. QED
        BY <3>1, <4>5, <4>6 DEF t
    <3>. QED
      BY <3>8, <3>9
  <2>. QED
    BY <2>3, <2>4
<1>. HIDE DEF Good
<1>8. Good(n)
  <2>. DEFINE Bad == {i \in 0..n : ~Good(i)}
  <2>1. Bad = {}
    <3>. SUFFICES ASSUME Bad # {} PROVE FALSE
      OBVIOUS
    <3>. Bad \in SUBSET Nat
      BY <1>1
    <3>1. PICK i \in Bad : \A j \in Bad : i <= j
      BY Least, Zenon
    <3>2. i \in 1..n /\ i - 1 \in 0..n /\ ~(i <= i - 1) /\ ~Good(i)
      BY <1>1, <1>6
    <3>. QED
      BY <1>7, <3>1, <3>2
  <2>. QED
    BY <1>1, <2>1
<1>9. K(n) = PositiveRollouts(ds) /\ SubSeq(ds, 1, n) = ds /\ n \in 0..n
  <2>1. SubSeq(ds, 1, n) = ds
    BY SubSeqFull DEF n
  <2>2. n \in 0..n
    BY <1>1
  <2>. QED
    BY <2>1, <2>2 DEF K
<1>10. PICK at : At(n, at) /\ Same(n, at)
  BY <1>8 DEF Good
<1>11. KeptAt(ds, K(n), at)
  BY <1>10 DEF KeptAt, n
<1>12. K(n) \in Seq(SourceDistributions)
  BY <1>2, <1>9
<1>13. SubSeq(K(n), 1, Len(K(n))) = K(n)
  BY <1>12, SubSeqFull
<1>14. SameWeights(ds, K(n), at)
  <2>1. W(cs, n) = Weight(cs)
    BY <1>claims, SubSeqFull DEF W
  <2>2. Weight(K(n)) = Weight(cs)
    BY <1>9, <1>10, <1>13, <2>1 DEF W
  <2>. QED
    BY <1>10, <2>2 DEF SameWeights, W, cs
<1>. QED
  BY <1>9, <1>11, <1>12, <1>14 DEF n

-----------------------------------------------------------------------------
(* Segments *)

(* Of the segments with one key the last is in the map (snapshot.rs:70-95). *)
LEMMA SegmentMapKeepsLast ==
  ASSUME NEW segments \in Seq(SourceSegments)
  PROVE  /\ IsFiniteSet(DOMAIN SegmentMap(segments))
         /\ DOMAIN SegmentMap(segments) = {s.key : s \in Effective(segments)}
         /\ \A s \in Effective(segments) :
              SegmentMap(segments)[s.key] = [matchType |-> s.matchType,
                                             constraints |-> s.constraints]
<1>. DEFINE n == Len(segments)
            maps == [i \in DOMAIN segments |->
                       Entry(segments[i].key, [matchType |-> segments[i].matchType,
                                               constraints |-> segments[i].constraints])]
            m == SegmentMap(segments)
            key(i) == segments[i].key
            value(i) == [matchType |-> segments[i].matchType,
                         constraints |-> segments[i].constraints]
            IsLast(i) == \A j \in DOMAIN segments : key(j) = key(i) => j <= i
<1>1. n \in Nat /\ DOMAIN segments = 1..n
  BY LenProperties
<1>2. DOMAIN maps = DOMAIN segments
      /\ \A i \in DOMAIN segments : DOMAIN maps[i] = {key(i)} /\ maps[i][key(i)] = value(i)
  BY DEF Entry
<1>3. m = Merged(maps)
  BY DEF SegmentMap
<1>4. Effective(segments) = {segments[i] : i \in {k \in DOMAIN segments : IsLast(k)}}
  BY DEF Effective
<1>. HIDE DEF maps, m, n
<1>5. KeepsLast(m, maps)
  <2>1. DOMAIN maps = 1..n
    BY <1>1, <1>2
  <2>. QED
    BY <1>1, <1>3, <2>1, MergedKeepsLast
<1>. HIDE DEF value
<1>6. DOMAIN m = {key(i) : i \in DOMAIN segments}
  BY <1>2, <1>5 DEF KeepsLast
<1>7. ASSUME NEW k \in DOMAIN m
      PROVE  \E i \in DOMAIN segments : IsLast(i) /\ key(i) = k /\ m[k] = value(i)
  <2>1. PICK i \in DOMAIN maps :
           /\ k \in DOMAIN maps[i]
           /\ \A j \in DOMAIN maps : k \in DOMAIN maps[j] => j <= i
           /\ m[k] = maps[i][k]
    BY <1>5 DEF KeepsLast
  <2>2. i \in DOMAIN segments /\ key(i) = k
    BY <1>2, <2>1
  <2>3. IsLast(i)
    BY <1>2, <2>1, <2>2
  <2>. QED
    BY <1>2, <2>1, <2>2, <2>3
<1>8. IsFiniteSet(DOMAIN m)
  <2>. DEFINE f == [i \in DOMAIN segments |-> key(i)]
  <2>1. IsFiniteSet(DOMAIN segments)
    BY Positions
  <2>2. f \in Surjection(DOMAIN segments, DOMAIN m)
    BY <1>6 DEF Surjection
  <2>. QED
    BY <2>1, <2>2, FS_Surjection
<1>9. DOMAIN m = {s.key : s \in Effective(segments)}
  <2>1. ASSUME NEW k \in DOMAIN m PROVE k \in {s.key : s \in Effective(segments)}
    BY <1>4, <1>7
  <2>2. ASSUME NEW s \in Effective(segments) PROVE s.key \in DOMAIN m
    BY <1>4, <1>6
  <2>. QED
    BY <2>1, <2>2
<1>10. ASSUME NEW s \in Effective(segments)
       PROVE  m[s.key] = [matchType |-> s.matchType, constraints |-> s.constraints]
  <2>1. PICK i \in DOMAIN segments : IsLast(i) /\ s = segments[i]
    BY <1>4
  <2>2. PICK j \in DOMAIN segments : IsLast(j) /\ key(j) = key(i) /\ m[s.key] = value(j)
    BY <1>6, <1>7, <2>1
  <2>3. i <= j /\ j <= i
    BY <2>1, <2>2
  <2>4. i = j
    BY <1>1, <2>3
  <2>. QED
    BY <2>1, <2>2, <2>4 DEF value
<1>. QED
  BY <1>8, <1>9, <1>10 DEF m

(* What is built of the segments of a rule or a rollout decides as the
   segments do. *)
LEMMA SegmentsDecide ==
  ASSUME NEW segments \in Seq(SourceSegments), NEW r
  PROVE  /\ MatchedSegments(SegmentMap(segments), r) = SegmentsOf(segments, r)
         /\ SegmentsMatch(SegmentMap(segments), "and", r) <=> Concerns(segments, "and", r)
         /\ \A op : op # "and" =>
              (SegmentsMatch(SegmentMap(segments), "or", r) <=> Concerns(segments, op, r))
<1>. DEFINE m == SegmentMap(segments)
            matched(k) == MatchesConstraints(m[k].constraints, m[k].matchType, r)
<1>1. /\ IsFiniteSet(DOMAIN m)
      /\ DOMAIN m = {s.key : s \in Effective(segments)}
      /\ \A s \in Effective(segments) :
           m[s.key] = [matchType |-> s.matchType, constraints |-> s.constraints]
  BY SegmentMapKeepsLast
<1>2. Effective(segments) \subseteq SourceSegments
  <2>1. \A i \in DOMAIN segments : segments[i] \in SourceSegments
    BY LenProperties, ElementOfSeq
  <2>. QED
    BY <2>1 DEF Effective
<1>. HIDE DEF m
<1>3. ASSUME NEW s \in Effective(segments) PROVE matched(s.key) <=> InSegment(s, r)
  <2>1. s.constraints \in Seq(SourceConstraints) /\ s.matchType \in {"all", "any"}
    BY <1>2 DEF SourceSegments
  <2>2. m[s.key] = [matchType |-> s.matchType, constraints |-> s.constraints]
    BY <1>1, Zenon
  <2>4. m[s.key].constraints = s.constraints /\ m[s.key].matchType = s.matchType
    BY <2>2
  <2>3. MatchesConstraints(s.constraints, s.matchType, r) <=> InSegment(s, r)
    BY <2>1, LoopDecidesSegment
  <2>. QED
    BY <2>3, <2>4
<1>4. MatchedSegments(m, r) = {k \in DOMAIN m : matched(k)}
  BY DEF MatchedSegments
<1>5. /\ SegmentsMatch(m, "and", r) <=> \A k \in DOMAIN m : matched(k)
      /\ SegmentsMatch(m, "or", r) <=> \E k \in DOMAIN m : matched(k)
  BY <1>1, CountDecidesSegments
<1>. HIDE DEF matched
<1>6. MatchedSegments(m, r) = SegmentsOf(segments, r)
  BY <1>1, <1>3, <1>4 DEF SegmentsOf
<1>7. Concerns(segments, "and", r) <=> \A s \in Effective(segments) : InSegment(s, r)
  BY DEF Concerns
<1>8. \A op : op # "and" =>
        (Concerns(segments, op, r) <=> \E s \in Effective(segments) : InSegment(s, r))
  BY DEF Concerns
<1>9. (\A k \in DOMAIN m : matched(k)) <=> \A s \in Effective(segments) : InSegment(s, r)
  BY <1>1, <1>3
<1>10. (\E k \in DOMAIN m : matched(k)) <=> \E s \in Effective(segments) : InSegment(s, r)
  BY <1>1, <1>3
<1>. QED
  BY <1>5, <1>6, <1>7, <1>8, <1>9, <1>10 DEF m

-----------------------------------------------------------------------------
(* The store of a document *)

(* The flags of a document that have a key. *)
Named(d, key) == {i \in DOMAIN d.flags : d.flags[i].key = key}

(* Maps of one entry each. *)
Entries(n, maps, keys, values) ==
  /\ DOMAIN maps = 1..n
  /\ \A i \in 1..n : maps[i] = Entry(keys[i], values[i])

LastEntries(n, map, keys, values) ==
  /\ \A i \in 1..n : keys[i] \in DOMAIN map
  /\ \A k \in DOMAIN map : \E i \in 1..n :
       /\ keys[i] = k
       /\ \A j \in 1..n : keys[j] = k => j <= i
       /\ map[k] = values[i]

(* Merged, the last entry of a key counts. *)
LEMMA MergedEntries ==
  ASSUME NEW n \in Nat, NEW maps, NEW keys, NEW values, Entries(n, maps, keys, values)
  PROVE  LastEntries(n, Merged(maps), keys, values)
<1>. DEFINE m == Merged(maps)
<1>1. /\ DOMAIN maps = 1..n
      /\ \A i \in 1..n : DOMAIN maps[i] = {keys[i]} /\ maps[i][keys[i]] = values[i]
  <2>1. \A k, v : DOMAIN Entry(k, v) = {k} /\ Entry(k, v)[k] = v
    BY DEF Entry
  <2>2. DOMAIN maps = 1..n /\ \A i \in 1..n : maps[i] = Entry(keys[i], values[i])
    BY DEF Entries
  <2>. QED
    BY <2>1, <2>2
<1>2. KeepsLast(m, maps)
  BY <1>1, MergedKeepsLast
<1>. HIDE DEF m
<1>3. \A i \in 1..n : keys[i] \in DOMAIN m
  BY <1>1, <1>2 DEF KeepsLast
<1>4. ASSUME NEW k \in DOMAIN m
      PROVE  \E i \in 1..n : /\ keys[i] = k
                             /\ \A j \in 1..n : keys[j] = k => j <= i
                             /\ m[k] = values[i]
  <2>1. PICK i \in DOMAIN maps :
           /\ k \in DOMAIN maps[i]
           /\ \A j \in DOMAIN maps : k \in DOMAIN maps[j] => j <= i
           /\ m[k] = maps[i][k]
    BY <1>2 DEF KeepsLast
  <2>2. i \in 1..n /\ keys[i] = k /\ m[k] = values[i]
    BY <1>1, <2>1
  <2>3. \A j \in 1..n : keys[j] = k => j <= i
    BY <1>1, <2>1
  <2>. QED
    BY <2>2, <2>3
<1>. QED
  BY <1>3, <1>4 DEF m, LastEntries

(* The last flag of a key is in the maps of the store with its rules, its
   rollouts and the distributions of its rules, whatever flags of that key come
   before it; a key no flag has is in none (snapshot.rs:48-196). *)
LastBuilt(d, key, i) ==
  /\ i \in Named(d, key) /\ \A j \in Named(d, key) : j <= i
  /\ key \in DOMAIN Build(d).flags /\ Build(d).flags[key] = Header(d.flags[i])
  /\ key \in DOMAIN Build(d).rules /\ Build(d).rules[key] = BuildRules(d.flags[i])
  /\ key \in DOMAIN Build(d).rollouts /\ Build(d).rollouts[key] = BuildRollouts(d.flags[i])
  /\ \A k \in DOMAIN d.flags[i].rules :
       /\ <<key, k>> \in DOMAIN Build(d).distributions
       /\ Build(d).distributions[<<key, k>>] = d.flags[i].rules[k].distributions

(* That is so of any document, for any key. *)
LEMMA BuildKeepsLast ==
  ASSUME NEW d \in SourceDocuments, NEW key
  PROVE  /\ Build(d).namespace = d.namespace
         /\ Named(d, key) = {} <=> key \notin DOMAIN Build(d).flags
         /\ Named(d, key) # {} => \E i \in Named(d, key) : LastBuilt(d, key, i)
<1>. DEFINE flags == d.flags
            n == Len(flags)
            keys == [i \in 1..n |-> flags[i].key]
            headers == [i \in 1..n |-> Header(flags[i])]
            rules == [i \in 1..n |-> BuildRules(flags[i])]
            rollouts == [i \in 1..n |-> BuildRollouts(flags[i])]
            hmaps == [i \in DOMAIN flags |-> Entry(flags[i].key, Header(flags[i]))]
            rmaps == [i \in DOMAIN flags |-> Entry(flags[i].key, BuildRules(flags[i]))]
            omaps == [i \in DOMAIN flags |-> Entry(flags[i].key, BuildRollouts(flags[i]))]
            dmaps == [i \in DOMAIN flags |-> BuildDistributions(flags[i])]
<1>1. flags \in Seq(SourceFlags) /\ n \in Nat /\ DOMAIN flags = 1..n
  <2>1. flags \in Seq(SourceFlags)
    BY DEF SourceDocuments
  <2>. QED
    BY <2>1, LenProperties
<1>2. /\ Build(d).namespace = d.namespace
      /\ Build(d).flags = Merged(hmaps)
      /\ Build(d).rules = Merged(rmaps)
      /\ Build(d).rollouts = Merged(omaps)
      /\ Build(d).distributions = Merged(dmaps)
  BY DEF Build
<1>3. Entries(n, hmaps, keys, headers)
  BY <1>1 DEF Entries
<1>4. Entries(n, rmaps, keys, rules)
  BY <1>1 DEF Entries
<1>5. Entries(n, omaps, keys, rollouts)
  BY <1>1 DEF Entries
<1>6. /\ DOMAIN dmaps = 1..n
      /\ \A i \in 1..n :
           /\ DOMAIN dmaps[i] = {<<keys[i], k>> : k \in DOMAIN flags[i].rules}
           /\ \A k \in DOMAIN flags[i].rules :
                dmaps[i][<<keys[i], k>>] = flags[i].rules[k].distributions
  BY <1>1 DEF BuildDistributions
<1>7. \A i \in 1..n : keys[i] = flags[i].key /\ headers[i] = Header(flags[i])
        /\ rules[i] = BuildRules(flags[i]) /\ rollouts[i] = BuildRollouts(flags[i])
  OBVIOUS
<1>8. Named(d, key) = {i \in 1..n : keys[i] = key}
  BY <1>1 DEF Named
<1>. HIDE DEF hmaps, rmaps, omaps, dmaps, keys, headers, rules, rollouts, n
<1>9. /\ LastEntries(n, Merged(hmaps), keys, headers)
      /\ LastEntries(n, Merged(rmaps), keys, rules)
      /\ LastEntries(n, Merged(omaps), keys, rollouts)
  BY <1>1, <1>3, <1>4, <1>5, MergedEntries
<1>10. Named(d, key) = {} <=> key \notin DOMAIN Build(d).flags
  BY <1>2, <1>8, <1>9 DEF LastEntries
<1>11. ASSUME Named(d, key) # {} PROVE \E i \in Named(d, key) : LastBuilt(d, key, i)
  <2>1. /\ key \in DOMAIN Merged(hmaps) /\ key \in DOMAIN Merged(rmaps)
        /\ key \in DOMAIN Merged(omaps)
    BY <1>8, <1>9, <1>11 DEF LastEntries
  <2>2. PICK i \in 1..n : /\ keys[i] = key
                          /\ \A j \in 1..n : keys[j] = key => j <= i
                          /\ Merged(hmaps)[key] = headers[i]
    BY <1>9, <2>1 DEF LastEntries
  <2>3. PICK i2 \in 1..n : /\ keys[i2] = key
                           /\ \A j \in 1..n : keys[j] = key => j <= i2
                           /\ Merged(rmaps)[key] = rules[i2]
    BY <1>9, <2>1 DEF LastEntries
  <2>4. PICK i3 \in 1..n : /\ keys[i3] = key
                           /\ \A j \in 1..n : keys[j] = key => j <= i3
                           /\ Merged(omaps)[key] = rollouts[i3]
    BY <1>9, <2>1 DEF LastEntries
  <2>5. i2 = i /\ i3 = i
    BY <1>1, <2>2, <2>3, <2>4
  <2>6. ASSUME NEW k \in DOMAIN flags[i].rules
        PROVE  /\ <<key, k>> \in DOMAIN Merged(dmaps)
               /\ Merged(dmaps)[<<key, k>>] = flags[i].rules[k].distributions
    <3>. DEFINE id == <<key, k>>
    <3>1. id \in DOMAIN dmaps[i] /\ dmaps[i][id] = flags[i].rules[k].distributions
      BY <1>6, <2>2
    <3>2. \A j \in 1..n : id \in DOMAIN dmaps[j] => keys[j] = key
      BY <1>6
    <3>. HIDE DEF id
    <3>3. KeepsLast(Merged(dmaps), dmaps)
      BY <1>1, <1>6, MergedKeepsLast
    <3>4. id \in DOMAIN Merged(dmaps)
      <4>1. i \in DOMAIN dmaps
        BY <1>6
      <4>. QED
        BY <3>1, <3>3, <4>1 DEF KeepsLast
    <3>5. PICK j \in 1..n : /\ id \in DOMAIN dmaps[j]
                            /\ \A l \in 1..n : id \in DOMAIN dmaps[l] => l <= j
                            /\ Merged(dmaps)[id] = dmaps[j][id]
      BY <1>6, <3>3, <3>4 DEF KeepsLast
    <3>6. i <= j /\ j <= i
      BY <2>2, <3>1, <3>2, <3>5
    <3>7. i = j
      BY <1>1, <3>6
    <3>. QED
      BY <3>1, <3>4, <3>5, <3>7 DEF id
  <2>7. i \in Named(d, key) /\ \A j \in Named(d, key) : j <= i
    BY <1>8, <2>2
  <2>8. /\ key \in DOMAIN Build(d).flags /\ Build(d).flags[key] = Header(flags[i])
        /\ key \in DOMAIN Build(d).rules /\ Build(d).rules[key] = BuildRules(flags[i])
        /\ key \in DOMAIN Build(d).rollouts /\ Build(d).rollouts[key] = BuildRollouts(flags[i])
    BY <1>2, <1>7, <1>9, <2>1, <2>2, <2>3, <2>4, <2>5
  <2>9. \A k \in DOMAIN flags[i].rules :
          /\ <<key, k>> \in DOMAIN Build(d).distributions
          /\ Build(d).distributions[<<key, k>>] = flags[i].rules[k].distributions
    BY <1>2, <2>6
  <2>. QED
    BY <2>7, <2>8, <2>9 DEF LastBuilt
<1>. QED
  BY <1>2, <1>10, <1>11

-----------------------------------------------------------------------------
(* The answer of a rule *)

(* The search for a bucket ends at the interval of a distribution, never
   behind the last (lib.rs:249-262). *)
LEMMA SearchStays ==
  ASSUME NEW ds \in Seq(SourceDistributions), ds # <<>>, NEW b \in 0..(TotalBuckets - 1)
  PROVE  SearchResults(CutPoints(ds), b + 1) \subseteq 1..Len(ds)
<1>. DEFINE cuts == CutPoints(ds)
            n == Len(ds)
            B == Below(cuts, b + 1)
            E == Equal(cuts, b + 1)
<1>1. n \in Nat \ {0} /\ DOMAIN ds = 1..n /\ b + 1 \in 1..1000 /\ b \in Nat
  <2>1. n \in Nat /\ DOMAIN ds = 1..n /\ n # 0
    BY LenProperties, EmptySeq
  <2>. QED
    BY <2>1 DEF TotalBuckets
<1>2. DOMAIN cuts = 1..n /\ cuts[n] = 1000
  BY <1>1 DEF CutPoints, TotalBuckets
<1>3. /\ B = {i \in 1..n : cuts[i] < b + 1}
      /\ E = {i \in 1..n : cuts[i] = b + 1}
      /\ SearchResults(cuts, b + 1) =
           (Cardinality(B) + 1)..
             (Cardinality(B) + (IF Cardinality(E) = 0 THEN 1 ELSE Cardinality(E)))
  BY <1>2 DEF Below, Equal, SearchResults
<1>. HIDE DEF B, E, cuts, n
<1>4. B \in SUBSET (1..(n - 1)) /\ E \in SUBSET (1..n)
  <2>1. n \notin B
    BY <1>1, <1>2, <1>3
  <2>. QED
    BY <1>1, <1>3, <2>1
<1>5. B \cap E = {}
  BY <1>1, <1>3
<1>6. /\ IsFiniteSet(1..n) /\ Cardinality(1..n) = n
      /\ IsFiniteSet(1..(n - 1)) /\ Cardinality(1..(n - 1)) = n - 1
  <2>1. /\ IsFiniteSet(1..n) /\ Cardinality(1..n) = IF 1 > n THEN 0 ELSE n - 1 + 1
        /\ IsFiniteSet(1..(n - 1))
        /\ Cardinality(1..(n - 1)) = IF 1 > n - 1 THEN 0 ELSE n - 1 - 1 + 1
    <3>1. 1 \in Int /\ n \in Int /\ n - 1 \in Int
      BY <1>1
    <3>. QED
      BY <3>1, FS_Interval
  <2>. QED
    BY <1>1, <2>1
<1>7. IsFiniteSet(B) /\ Cardinality(B) \in Nat /\ Cardinality(B) <= n - 1
  <2>1. IsFiniteSet(B) /\ Cardinality(B) <= Cardinality(1..(n - 1))
    BY <1>4, <1>6, FS_Subset
  <2>. QED
    BY <1>6, <2>1, FS_CardinalityType
<1>8. IsFiniteSet(E) /\ Cardinality(E) \in Nat
  BY <1>4, <1>6, FS_Subset, FS_CardinalityType
<1>9. Cardinality(B) + Cardinality(E) <= n
  <2>1. Cardinality(B \cup E) = Cardinality(B) + Cardinality(E) - Cardinality(B \cap E)
    BY <1>7, <1>8, FS_Union
  <2>2. Cardinality(B \cap E) = 0
    BY <1>5, FS_EmptySet
  <2>3. B \cup E \in SUBSET (1..n)
    BY <1>1, <1>4
  <2>4. Cardinality(B \cup E) <= n
    BY <1>6, <2>3, FS_Subset
  <2>. QED
    BY <1>7, <1>8, <2>1, <2>2, <2>4
<1>10. SearchResults(cuts, b + 1) \subseteq 1..n
  BY <1>1, <1>3, <1>7, <1>8, <1>9
<1>. QED
  BY <1>10 DEF cuts, n

(* The answer is a match for some of the segments, with the default variant or
   with that of a distribution the bucket b is in. *)
RuleAnswer(flag, ds, segments, b, a) ==
  /\ a.ok /\ a.match /\ a.segments = segments
  /\ PositiveRollouts(ds) = <<>> => a.variant = flag.default
  /\ PositiveRollouts(ds) # <<>> =>
       \E i \in SearchResults(CutPoints(PositiveRollouts(ds)), b + 1) :
         i \in 1..Len(PositiveRollouts(ds)) /\ a.variant = PositiveRollouts(ds)[i].variant

(* A rule that applies answers with one of its distributions that have a
   share, or with the default if it has none (lib.rs:205-276). *)
LEMMA RuleAnswers ==
  ASSUME NEW flag, NEW ds \in Seq(SourceDistributions), NEW segments,
         NEW b \in 0..(TotalBuckets - 1),
         NEW a \in Distribute(flag, PositiveRollouts(ds), segments, b)
  PROVE  RuleAnswer(flag, ds, segments, b, a)
<1>. DEFINE ps == PositiveRollouts(ds)
            matched == [DefaultAnswer(flag) EXCEPT !.segments = segments]
            taken == [matched EXCEPT !.match = TRUE, !.reason = "match"]
            chosen(i) == [matched EXCEPT !.match = TRUE, !.reason = "match",
                                         !.variant = ps[i].variant]
            Fits(x) == x.ok /\ x.match /\ x.segments = segments
<1>1. ps \in Seq(SourceDistributions)
  BY SharesKept
<1>2. /\ Fits(taken) /\ taken.variant = flag.default
      /\ \A i : Fits(chosen(i)) /\ chosen(i).variant = ps[i].variant
  BY DEF DefaultAnswer
<1>3. ps = <<>> => a = taken
  BY DEF Distribute
<1>4. ps # <<>> => \E i \in SearchResults(CutPoints(ps), b + 1) :
                     a = IF i > Len(ps) THEN [matched EXCEPT !.reason = "default"] ELSE chosen(i)
  BY DEF Distribute
<1>. HIDE DEF taken, chosen, matched, ps
<1>5. CASE ps = <<>>
  BY <1>2, <1>3, <1>5 DEF ps, RuleAnswer
<1>6. CASE ps # <<>>
  <2>1. PICK i \in SearchResults(CutPoints(ps), b + 1) :
               a = IF i > Len(ps) THEN [matched EXCEPT !.reason = "default"] ELSE chosen(i)
    BY <1>4, <1>6
  <2>2. i \in 1..Len(ps) /\ Len(ps) \in Nat
    BY <1>1, <1>6, SearchStays, LenProperties
  <2>3. a = chosen(i)
    BY <2>1, <2>2
  <2>4. Fits(a) /\ a.variant = ps[i].variant
    BY <1>2, <2>3
  <2>. QED
    BY <1>6, <2>1, <2>2, <2>4 DEF ps, RuleAnswer
<1>. QED
  BY <1>5, <1>6

-----------------------------------------------------------------------------
(* Variant flags *)

(* Those of some positions that none of them comes before. *)
Firsts(A) == {k \in A : \A j \in 1..(k - 1) : j \notin A}

(* The least of them is the only one. *)
LEMMA LeastIsFirst ==
  ASSUME NEW A \in SUBSET (Nat \ {0}), NEW i \in A, \A j \in A : i <= j
  PROVE  Firsts(A) = {i}
<1>1. i \in Firsts(A)
  <2>. SUFFICES ASSUME NEW j \in 1..(i - 1), j \in A PROVE FALSE
    BY DEF Firsts
  <2>. QED
    OBVIOUS
<1>2. ASSUME NEW k \in Firsts(A) PROVE k = i
  <2>1. k \in A /\ k \in Nat \ {0} /\ i <= k /\ i \in Nat \ {0} /\ \A j \in 1..(k - 1) : j # i
    BY DEF Firsts
  <2>2. ~(i < k)
    <3>1. i < k => i \in 1..(k - 1)
      BY <2>1
    <3>. QED
      BY <2>1, <3>1
  <2>. QED
    BY <2>1, <2>2
<1>. QED
  BY <1>1, <1>2

(* The rules of a flag that concern a request, and its rollouts. *)
Concerning(f, r) ==
  {k \in DOMAIN f.rules : Concerns(f.rules[k].segments, f.rules[k].operator, r)}
ConcerningRollouts(f, r) == {k \in DOMAIN f.rollouts : RolloutConcerns(f.rollouts[k], r)}

(* The positions the properties take as decisive are those. *)
LEMMA FirstsAreDecisive ==
  ASSUME NEW f \in SourceFlags, NEW r
  PROVE  /\ Decisive(f, r) = Firsts(Concerning(f, r))
         /\ First(f.rollouts, LAMBDA rollout : RolloutConcerns(rollout, r)) =
              Firsts(ConcerningRollouts(f, r))
         /\ Concerning(f, r) \in SUBSET (Nat \ {0})
         /\ ConcerningRollouts(f, r) \in SUBSET (Nat \ {0})
<1>. DEFINE C(k) == Concerns(f.rules[k].segments, f.rules[k].operator, r)
            R(k) == RolloutConcerns(f.rollouts[k], r)
<1>1. f.rules \in Seq(SourceRules) /\ f.rollouts \in Seq(SourceRollouts)
  BY DEF SourceFlags
<1>2. /\ DOMAIN f.rules \subseteq Nat \ {0}
      /\ \A i \in DOMAIN f.rules : \A j \in 1..(i - 1) : j \in DOMAIN f.rules
  BY <1>1, Positions
<1>3. /\ DOMAIN f.rollouts \subseteq Nat \ {0}
      /\ \A i \in DOMAIN f.rollouts : \A j \in 1..(i - 1) : j \in DOMAIN f.rollouts
  BY <1>1, Positions
<1>4. Decisive(f, r) = {k \in DOMAIN f.rules : C(k) /\ \A j \in 1..(k - 1) : ~C(j)}
  BY DEF Decisive, First
<1>5. First(f.rollouts, LAMBDA rollout : RolloutConcerns(rollout, r)) =
        {k \in DOMAIN f.rollouts : R(k) /\ \A j \in 1..(k - 1) : ~R(j)}
  BY DEF First
<1>6. /\ Concerning(f, r) = {k \in DOMAIN f.rules : C(k)}
      /\ ConcerningRollouts(f, r) = {k \in DOMAIN f.rollouts : R(k)}
  BY DEF Concerning, ConcerningRollouts
<1>. HIDE DEF C, R
<1>7. Decisive(f, r) = Firsts(Concerning(f, r))
  BY <1>2, <1>4, <1>6 DEF Firsts
<1>8. First(f.rollouts, LAMBDA rollout : RolloutConcerns(rollout, r)) =
        Firsts(ConcerningRollouts(f, r))
  BY <1>3, <1>5, <1>6 DEF Firsts
<1>. QED
  BY <1>2, <1>3, <1>6, <1>7, <1>8

(* A variant flag that is enabled is answered by its first rule that concerns
   the request, from the distributions of that rule (lib.rs:108-276). *)
VariantDecidedBy(d, f, r) ==
  \/ /\ Decisive(f, r) = {}
     /\ VariantAnswers(Build(d), r) = {DefaultAnswer(Header(f))}
  \/ \E k \in DOMAIN f.rules :
       /\ Decisive(f, r) = {k}
       /\ VariantAnswers(Build(d), r) =
            Distribute(Header(f), PositiveRollouts(f.rules[k].distributions),
                       SegmentsOf(f.rules[k].segments, r),
                       Crc32(r.flag, r.entity) % TotalBuckets)

(* That is so of the last flag that has the key of the request. *)
LEMMA VariantDecided ==
  ASSUME NEW d \in SourceDocuments, d.namespace = Namespace, NEW r, NEW i,
         LastBuilt(d, r.flag, i), NEW f \in SourceFlags, f = d.flags[i],
         f.type # "boolean", f.enabled
  PROVE  VariantDecidedBy(d, f, r)
<1>. DEFINE s == Build(d)
            rules == BuildRules(f)
            applying == {j \in DOMAIN rules :
                           SegmentsMatch(rules[j].segments, rules[j].operator, r)}
            flag == Header(f)
<1>1. /\ s.namespace = Namespace
      /\ r.flag \in DOMAIN s.flags /\ s.flags[r.flag] = flag
      /\ r.flag \in DOMAIN s.rules /\ s.rules[r.flag] = rules
      /\ \A k \in DOMAIN f.rules :
           /\ <<r.flag, k>> \in DOMAIN s.distributions
           /\ s.distributions[<<r.flag, k>>] = f.rules[k].distributions
  <2>1. s.namespace = Namespace
    BY BuildKeepsLast
  <2>. QED
    BY <2>1 DEF LastBuilt
<1>2. f.key = r.flag
  BY DEF LastBuilt, Named
<1>3. f.rules \in Seq(SourceRules)
      /\ \A k \in DOMAIN f.rules : /\ f.rules[k].segments \in Seq(SourceSegments)
                                   /\ f.rules[k].operator \in {"and", "or"}
  <2>1. f.rules \in Seq(SourceRules)
    BY DEF SourceFlags
  <2>2. \A k \in DOMAIN f.rules : f.rules[k] \in SourceRules
    BY <2>1, LenProperties, ElementOfSeq
  <2>. QED
    BY <2>1, <2>2 DEF SourceRules
<1>4. DOMAIN rules = DOMAIN f.rules
      /\ \A k \in DOMAIN f.rules :
           /\ rules[k].segments = SegmentMap(f.rules[k].segments)
           /\ rules[k].operator = f.rules[k].operator
           /\ rules[k].id = <<r.flag, k>>
  BY <1>2 DEF BuildRules, BuildRule
<1>5. rules \in Seq({rules[k] : k \in DOMAIN rules}) /\ Ranked(rules)
  <2>1. Ranked(rules)
    BY BuiltRanks DEF BuildRules
  <2>2. Len(f.rules) \in Nat /\ DOMAIN f.rules = 1..Len(f.rules)
    BY <1>3, LenProperties
  <2>3. rules \in [1..Len(f.rules) -> {rules[k] : k \in DOMAIN rules}]
    BY <1>4, <2>2 DEF BuildRules
  <2>. QED
    BY <2>1, <2>2, <2>3, SeqDef
<1>6. flag.type = "variant" /\ flag.enabled
  BY DEF Header, FlagType
<1>. HIDE DEF rules, s, flag
<1>7. applying = Concerning(f, r)
  <2>1. ASSUME NEW k \in DOMAIN f.rules
        PROVE  SegmentsMatch(rules[k].segments, rules[k].operator, r)
                 <=> Concerns(f.rules[k].segments, f.rules[k].operator, r)
    <3>1. /\ SegmentsMatch(SegmentMap(f.rules[k].segments), "and", r)
               <=> Concerns(f.rules[k].segments, "and", r)
          /\ SegmentsMatch(SegmentMap(f.rules[k].segments), "or", r)
               <=> Concerns(f.rules[k].segments, "or", r)
      BY <1>3, SegmentsDecide
    <3>. QED
      BY <1>3, <1>4, <3>1
  <2>. QED
    BY <1>4, <2>1 DEF Concerning
<1>8. \/ applying = {} /\ VariantAnswers(s, r) = {DefaultAnswer(flag)}
      \/ \E k \in applying :
           (\A j \in applying : k <= j) /\ VariantAnswers(s, r) = VariantRule(s, rules[k], flag, r)
  <2>1. Has(s, s.flags, r.flag) /\ Has(s, s.rules, r.flag)
    BY <1>1 DEF Has
  <2>2. /\ s.flags[r.flag].type = "variant" /\ s.flags[r.flag].enabled
        /\ s.rules[r.flag] \in Seq({rules[k] : k \in DOMAIN rules}) /\ Ranked(s.rules[r.flag])
    BY <1>1, <1>5, <1>6
  <2>3. LET ru == s.rules[r.flag]
            fl == s.flags[r.flag]
            ap == {j \in DOMAIN ru : SegmentsMatch(ru[j].segments, ru[j].operator, r)}
        IN \/ ap = {} /\ VariantAnswers(s, r) = {DefaultAnswer(fl)}
           \/ \E k \in ap :
                (\A j \in ap : k <= j) /\ VariantAnswers(s, r) = VariantRule(s, ru[k], fl, r)
    BY <2>1, <2>2, FirstRuleDecides
  <2>. QED
    BY <1>1, <2>3
<1>. HIDE DEF applying
<1>9. /\ Decisive(f, r) = Firsts(applying)
      /\ applying \in SUBSET (Nat \ {0})
  BY <1>7, FirstsAreDecisive
<1>10. CASE applying = {} /\ VariantAnswers(s, r) = {DefaultAnswer(flag)}
  <2>1. Decisive(f, r) = {}
    BY <1>9, <1>10 DEF Firsts
  <2>. QED
    BY <1>10, <2>1 DEF VariantDecidedBy, s, flag
<1>11. ASSUME NEW k \in applying, \A j \in applying : k <= j,
              VariantAnswers(s, r) = VariantRule(s, rules[k], flag, r)
       PROVE  VariantDecidedBy(d, f, r)
  <2>1. k \in DOMAIN f.rules
    BY <1>7 DEF Concerning
  <2>2. Decisive(f, r) = {k}
    BY <1>9, <1>11, LeastIsFirst
  <2>3. MatchedSegments(rules[k].segments, r) = SegmentsOf(f.rules[k].segments, r)
    BY <1>3, <1>4, <2>1, SegmentsDecide
  <2>4. /\ Has(s, s.distributions, rules[k].id)
        /\ s.distributions[rules[k].id] = f.rules[k].distributions
    BY <1>1, <1>4, <2>1 DEF Has
  <2>5. VariantRule(s, rules[k], flag, r) =
          Distribute(flag, PositiveRollouts(f.rules[k].distributions),
                     SegmentsOf(f.rules[k].segments, r),
                     Crc32(r.flag, r.entity) % TotalBuckets)
    BY <2>3, <2>4, Zenon DEF VariantRule
  <2>. QED
    BY <1>11, <2>1, <2>2, <2>5 DEF VariantDecidedBy, s, flag
<1>. QED
  BY <1>8, <1>10, <1>11

(* The variant of a rule's answer has a share in it, or is the default of the
   flag if nothing has one. *)
LEMMA RuleAnswersShares ==
  ASSUME NEW rule, rule.distributions \in Seq(SourceDistributions),
         NEW flag, NEW segments, NEW b \in 0..(TotalBuckets - 1),
         NEW a \in Distribute(flag, PositiveRollouts(rule.distributions), segments, b)
  PROVE  /\ a.ok /\ a.match /\ a.segments = segments
         /\ IF Shares(rule) = {} THEN a.variant = flag.default
            ELSE a.variant \in {rule.distributions[k].variant : k \in Shares(rule)}
<1>. DEFINE ds == rule.distributions
            ps == PositiveRollouts(ds)
<1>1. PICK at : KeptAt(ds, ps, at)
  BY SharesKept
<1>2. ps \in Seq(SourceDistributions) /\ DOMAIN ds = 1..Len(ds) /\ Len(ds) \in Nat
  BY SharesKept, LenProperties
<1>3. Shares(rule) = {k \in 1..Len(ds) : ds[k].rollout > 0}
  BY <1>2 DEF Shares
<1>4. /\ a.ok /\ a.match /\ a.segments = segments
      /\ ps = <<>> => a.variant = flag.default
      /\ ps # <<>> => \E i \in 1..Len(ps) : a.variant = ps[i].variant
  <2>1. RuleAnswer(flag, ds, segments, b, a)
    BY RuleAnswers
  <2>. QED
    BY <2>1 DEF RuleAnswer
<1>. HIDE DEF ps
<1>5. CASE ps = <<>>
  <2>1. 1..Len(ps) = {}
    BY <1>5
  <2>2. Shares(rule) = {}
    BY <1>1, <1>3, <2>1 DEF KeptAt
  <2>. QED
    BY <1>4, <1>5, <2>2
<1>6. CASE ps # <<>>
  <2>1. PICK i \in 1..Len(ps) : a.variant = ps[i].variant
    BY <1>4, <1>6
  <2>2. at[i] \in 1..Len(ds) /\ ps[i] = ds[at[i]] /\ ds[at[i]].rollout > 0
    BY <1>1 DEF KeptAt
  <2>3. at[i] \in Shares(rule)
    BY <1>3, <2>2
  <2>. QED
    BY <1>4, <2>1, <2>2, <2>3
<1>. QED
  BY <1>5, <1>6

(* What FlagOf finds in the document is what the store has under the key. *)
LEMMA ListedIsBuilt ==
  ASSUME doc \in SourceDocuments, NEW r
  PROVE  /\ Listed(r.flag) = {} <=> ~Has(Build(doc), Build(doc).flags, r.flag)
         /\ Listed(r.flag) # {} =>
              /\ doc.namespace = Namespace
              /\ FlagOf(r) \in SourceFlags
              /\ \E i \in DOMAIN doc.flags :
                   FlagOf(r) = doc.flags[i] /\ LastBuilt(doc, r.flag, i)
<1>. DEFINE s == Build(doc)
            S == Named(doc, r.flag)
<1>1. /\ s.namespace = doc.namespace
      /\ S = {} <=> r.flag \notin DOMAIN s.flags
      /\ S # {} => \E i \in S : LastBuilt(doc, r.flag, i)
  BY BuildKeepsLast
<1>2. Listed(r.flag) = IF doc.namespace # Namespace THEN {} ELSE S
  BY DEF Listed, Named
<1>. HIDE DEF s, S
<1>3. Listed(r.flag) = {} <=> ~Has(s, s.flags, r.flag)
  BY <1>1, <1>2 DEF Has
<1>4. ASSUME Listed(r.flag) # {}
      PROVE  /\ doc.namespace = Namespace
             /\ FlagOf(r) \in SourceFlags
             /\ \E i \in DOMAIN doc.flags :
                  FlagOf(r) = doc.flags[i] /\ LastBuilt(doc, r.flag, i)
  <2>1. doc.namespace = Namespace /\ Listed(r.flag) = S
    BY <1>2, <1>4
  <2>2. PICK i \in S : LastBuilt(doc, r.flag, i)
    BY <1>1, <1>4, <2>1
  <2>3. /\ doc.flags \in Seq(SourceFlags) /\ DOMAIN doc.flags \subseteq Nat
        /\ S \subseteq DOMAIN doc.flags
    <3>1. doc.flags \in Seq(SourceFlags)
      BY DEF SourceDocuments
    <3>. QED
      BY <3>1, LenProperties DEF S, Named
  <2>4. i \in S /\ \A j \in S : j <= i
    BY <2>2 DEF LastBuilt, S
  <2>5. \A k \in S : (\A j \in S : j <= k) => k = i
    BY <2>3, <2>4
  <2>6. (CHOOSE k \in S : \A j \in S : j <= k) = i
    BY <2>4, <2>5
  <2>7. FlagOf(r) = doc.flags[i]
    BY <2>1, <2>6 DEF FlagOf
  <2>8. doc.flags[i] \in SourceFlags
    BY <2>3, LenProperties, ElementOfSeq
  <2>. QED
    BY <2>1, <2>2, <2>3, <2>7, <2>8
<1>. QED
  BY <1>3, <1>4 DEF s

(* So every answer to a variant request is right, for any document. *)
LEMMA VariantIsRight ==
  ASSUME doc \in SourceDocuments, NEW r \in Requests, NEW a \in VariantAnswers(Build(doc), r)
  PROVE  RightVariant(r, a)
<1>. DEFINE s == Build(doc)
            f == FlagOf(r)
<1>1. CASE Listed(r.flag) = {}
  <2>1. VariantAnswers(s, r) = {Refusal("unknown flag")}
    BY <1>1, ListedIsBuilt DEF VariantAnswers
  <2>2. a = Refusal("unknown flag")
    BY <2>1
  <2>. QED
    BY <1>1, <2>2 DEF RightVariant, Refusal
<1>2. CASE Listed(r.flag) # {}
  <2>1. doc.namespace = Namespace /\ f \in SourceFlags /\ Has(s, s.flags, r.flag)
    BY <1>2, ListedIsBuilt
  <2>2. PICK i \in DOMAIN doc.flags : f = doc.flags[i] /\ LastBuilt(doc, r.flag, i)
    BY <1>2, ListedIsBuilt
  <2>3. s.flags[r.flag] = Header(f)
    BY <2>2 DEF LastBuilt
  <2>. HIDE DEF s, f
  <2>4. /\ Header(f).type = IF f.type = "boolean" THEN "boolean" ELSE "variant"
        /\ Header(f).enabled = f.enabled /\ Header(f).default = f.default
    BY DEF Header, FlagType
  <2>5. CASE f.type = "boolean"
    <3>1. VariantAnswers(s, r) = {Refusal("wrong type")}
      BY <2>1, <2>3, <2>4, <2>5 DEF VariantAnswers
    <3>2. a = Refusal("wrong type")
      BY <3>1 DEF s
    <3>. QED
      BY <2>5, <3>2 DEF RightVariant, Refusal, f
  <2>6. CASE f.type # "boolean" /\ ~f.enabled
    <3>1. VariantAnswers(s, r) = {[DefaultAnswer(Header(f)) EXCEPT !.reason = "disabled"]}
      BY <2>1, <2>3, <2>4, <2>6 DEF VariantAnswers
    <3>2. a = [DefaultAnswer(Header(f)) EXCEPT !.reason = "disabled"]
      BY <3>1 DEF s
    <3>3. a.ok /\ ~a.match /\ a.variant = f.default /\ a.reason # "match"
      BY <2>4, <3>2 DEF DefaultAnswer
    <3>. QED
      BY <1>2, <2>6, <3>3 DEF RightVariant, f
  <2>7. CASE f.type # "boolean" /\ f.enabled
    <3>1. VariantDecidedBy(doc, f, r)
      BY <2>1, <2>2, <2>7, VariantDecided
    <3>2. CASE Decisive(f, r) = {} /\ VariantAnswers(s, r) = {DefaultAnswer(Header(f))}
      <4>1. a = DefaultAnswer(Header(f))
        BY <3>2 DEF s
      <4>2. a.ok /\ ~a.match /\ a.variant = f.default /\ a.reason # "match"
        BY <2>4, <4>1 DEF DefaultAnswer
      <4>. QED
        BY <1>2, <2>7, <3>2, <4>2 DEF RightVariant, f
    <3>3. ASSUME NEW k \in DOMAIN f.rules, Decisive(f, r) = {k},
                 VariantAnswers(s, r) =
                   Distribute(Header(f), PositiveRollouts(f.rules[k].distributions),
                              SegmentsOf(f.rules[k].segments, r),
                              Crc32(r.flag, r.entity) % TotalBuckets)
          PROVE  RightVariant(r, a)
      <4>1. f.rules[k].distributions \in Seq(SourceDistributions)
        <5>1. f.rules \in Seq(SourceRules)
          BY <2>1 DEF SourceFlags
        <5>2. f.rules[k] \in SourceRules
          BY <5>1, LenProperties, ElementOfSeq
        <5>. QED
          BY <5>2 DEF SourceRules
      <4>2. Crc32(r.flag, r.entity) % TotalBuckets \in 0..(TotalBuckets - 1)
        <5>1. Crc32(r.flag, r.entity) \in Nat
          BY RequestsAssumption
        <5>2. \A n \in Nat : n % 1000 \in 0..999
          OBVIOUS
        <5>. QED
          BY <5>1, <5>2 DEF TotalBuckets
      <4>3. a \in Distribute(Header(f), PositiveRollouts(f.rules[k].distributions),
                             SegmentsOf(f.rules[k].segments, r),
                             Crc32(r.flag, r.entity) % TotalBuckets)
        BY <3>3 DEF s
      <4>4. /\ a.ok /\ a.match /\ a.segments = SegmentsOf(f.rules[k].segments, r)
            /\ IF Shares(f.rules[k]) = {} THEN a.variant = Header(f).default
               ELSE a.variant \in {f.rules[k].distributions[l].variant : l \in Shares(f.rules[k])}
        BY <4>1, <4>2, <4>3, RuleAnswersShares
      <4>5. /\ a.ok /\ a.match
            /\ \E i1 \in Decisive(f, r) :
                 /\ a.segments = SegmentsOf(f.rules[i1].segments, r)
                 /\ IF Shares(f.rules[i1]) = {} THEN a.variant = f.default
                    ELSE a.variant \in {f.rules[i1].distributions[l].variant :
                                           l \in Shares(f.rules[i1])}
        BY <2>4, <3>3, <4>4
      <4>. QED
        BY <1>2, <2>7, <3>3, <4>5 DEF RightVariant, f
    <3>. QED
      BY <3>1, <3>2, <3>3 DEF VariantDecidedBy, s
  <2>. QED
    BY <2>1, <2>5, <2>6, <2>7 DEF SourceFlags
<1>. QED
  BY <1>1, <1>2

-----------------------------------------------------------------------------
(* Boolean flags *)

(* A rollout is built so that it applies to the requests it concerns
   (snapshot.rs:119-185, lib.rs:320-378). *)
LEMMA RolloutsApply ==
  ASSUME NEW f \in SourceFlags, NEW k \in DOMAIN f.rollouts, NEW r,
         Crc32(r.entity, r.flag) \in Nat
  PROVE  /\ RolloutApplies(BuildRollout(f, k), r) <=> RolloutConcerns(f.rollouts[k], r)
         /\ RolloutConcerns(f.rollouts[k], r) =>
              LET m == BooleanMatch(BuildRollout(f, k), r)
              IN /\ m.ok /\ m.reason = "match"
                 /\ m.enabled = IF f.rollouts[k].threshold # <<>>
                                THEN f.rollouts[k].threshold[1].value
                                ELSE f.rollouts[k].segment[1].value
<1>. DEFINE o == f.rollouts[k]
            built == BuildRollout(f, k)
            bucket == 100 * (Crc32(r.entity, r.flag) % 100)
            m == BooleanMatch(built, r)
<1>1. o \in SourceRollouts
  <2>1. f.rollouts \in Seq(SourceRollouts)
    BY DEF SourceFlags
  <2>. QED
    BY <2>1, LenProperties, ElementOfSeq
<1>2. bucket \in Int
  <2>1. \A n \in Nat : 100 * (n % 100) \in Int
    OBVIOUS
  <2>. QED
    BY <2>1
<1>3. /\ built.threshold = o.threshold
      /\ o.threshold = <<>> /\ o.segment = <<>> => built.segment = <<>>
      /\ o.threshold = <<>> /\ o.segment # <<>> =>
           built.segment = << [o.segment[1] EXCEPT !.segments = SegmentMap(@),
                                                   !.operator = IF @ = "none" THEN "or" ELSE @] >>
  BY DEF BuildRollout
<1>. HIDE DEF built, o, bucket
<1>4. RolloutApplies(built, r) <=>
        \/ built.threshold # <<>> /\ bucket < built.threshold[1].percentage
        \/ /\ built.threshold = <<>> /\ built.segment # <<>>
           /\ SegmentsMatch(built.segment[1].segments, built.segment[1].operator, r)
  BY DEF RolloutApplies, bucket
<1>5. RolloutConcerns(o, r) <=>
        IF o.threshold # <<>> THEN o.threshold[1].percentage > bucket
        ELSE o.segment # <<>> /\ Concerns(o.segment[1].segments, o.segment[1].operator, r)
  BY DEF RolloutConcerns, bucket
<1>6. m = IF built.threshold # <<>>
          THEN [ok |-> TRUE, enabled |-> built.threshold[1].value, reason |-> "match",
                segments |-> {}]
          ELSE [ok |-> TRUE, enabled |-> built.segment[1].value, reason |-> "match",
                segments |-> MatchedSegments(built.segment[1].segments, r)]
  BY DEF BooleanMatch
<1>7. CASE o.threshold # <<>>
  <2>1. o.threshold[1].percentage \in Int
    <3>1. o.threshold \in AtMostOne([percentage : Int, value : BOOLEAN])
      BY <1>1 DEF SourceRollouts
    <3>2. o.threshold \in Seq([percentage : Int, value : BOOLEAN])
      BY <3>1 DEF AtMostOne
    <3>3. 1 \in 1..Len(o.threshold)
      BY <1>7, <3>2, LenProperties, EmptySeq
    <3>4. o.threshold[1] \in [percentage : Int, value : BOOLEAN]
      BY <3>2, <3>3, ElementOfSeq
    <3>. QED
      BY <3>4
  <2>2. RolloutApplies(built, r) <=> RolloutConcerns(o, r)
    BY <1>2, <1>3, <1>4, <1>5, <1>7, <2>1
  <2>3. m.ok /\ m.reason = "match" /\ m.enabled = o.threshold[1].value
    BY <1>3, <1>6, <1>7
  <2>. QED
    BY <1>7, <2>2, <2>3 DEF built, o
<1>8. CASE o.threshold = <<>> /\ o.segment = <<>>
  BY <1>3, <1>4, <1>5, <1>8 DEF built, o
<1>9. CASE o.threshold = <<>> /\ o.segment # <<>>
  <2>. DEFINE seg == o.segment[1]
  <2>1. seg.segments \in Seq(SourceSegments) /\ seg.operator \in {"and", "or", "none"}
        /\ seg \in [segments : Seq(SourceSegments), value : BOOLEAN,
                    operator : {"and", "or", "none"}]
    <3>. DEFINE R == [segments : Seq(SourceSegments), value : BOOLEAN,
                      operator : {"and", "or", "none"}]
    <3>1. o.segment \in AtMostOne(R)
      BY <1>1 DEF SourceRollouts
    <3>2. o.segment \in Seq(R)
      BY <3>1 DEF AtMostOne
    <3>. HIDE DEF R
    <3>3. 1 \in 1..Len(o.segment)
      BY <1>9, <3>2, LenProperties, EmptySeq
    <3>4. seg \in R
      BY <3>2, <3>3, ElementOfSeq
    <3>. QED
      BY <3>4 DEF R
  <2>. HIDE DEF seg
  <2>2. built.segment = << [seg EXCEPT !.segments = SegmentMap(@),
                                       !.operator = IF @ = "none" THEN "or" ELSE @] >>
    BY <1>3, <1>9 DEF seg
  <2>3. /\ built.segment # <<>>
        /\ built.segment[1].segments = SegmentMap(seg.segments)
        /\ built.segment[1].operator = (IF seg.operator = "none" THEN "or" ELSE seg.operator)
        /\ built.segment[1].value = seg.value
    <3>. DEFINE x == [seg EXCEPT !.segments = SegmentMap(@),
                                 !.operator = IF @ = "none" THEN "or" ELSE @]
    <3>1. /\ x.segments = SegmentMap(seg.segments)
          /\ x.operator = (IF seg.operator = "none" THEN "or" ELSE seg.operator)
          /\ x.value = seg.value
      BY <2>1
    <3>2. built.segment = <<x>>
      BY <2>2
    <3>. HIDE DEF x
    <3>3. built.segment # <<>> /\ built.segment[1] = x
      BY <3>2
    <3>. QED
      BY <3>1, <3>3
  <2>4. /\ SegmentsMatch(SegmentMap(seg.segments), "and", r) <=> Concerns(seg.segments, "and", r)
        /\ SegmentsMatch(SegmentMap(seg.segments), "or", r) <=> Concerns(seg.segments, "or", r)
        /\ SegmentsMatch(SegmentMap(seg.segments), "or", r) <=> Concerns(seg.segments, "none", r)
    BY <2>1, SegmentsDecide
  <2>5. SegmentsMatch(built.segment[1].segments, built.segment[1].operator, r)
          <=> Concerns(seg.segments, seg.operator, r)
    BY <2>1, <2>3, <2>4
  <2>6. RolloutApplies(built, r) <=> RolloutConcerns(o, r)
    BY <1>3, <1>4, <1>5, <1>9, <2>3, <2>5 DEF seg
  <2>7. m.ok /\ m.reason = "match" /\ m.enabled = seg.value
    BY <1>3, <1>6, <1>9, <2>3
  <2>. QED
    BY <1>9, <2>6, <2>7 DEF built, o, seg
<1>. QED
  BY <1>7, <1>8, <1>9

(* A boolean flag is answered by its first rollout that concerns the request,
   and by "enabled" if none does (lib.rs:278-384). *)
BooleanDecidedBy(d, f, r) ==
  \/ /\ ConcerningRollouts(f, r) = {}
     /\ BooleanAnswer(Build(d), r) = [ok |-> TRUE, enabled |-> f.enabled, reason |-> "default",
                                      segments |-> {}]
  \/ \E k \in ConcerningRollouts(f, r) :
       /\ \A j \in ConcerningRollouts(f, r) : k <= j
       /\ BooleanAnswer(Build(d), r) = BooleanMatch(BuildRollout(f, k), r)

(* That is so of the last flag that has the key of the request. *)
LEMMA BooleanDecided ==
  ASSUME NEW d \in SourceDocuments, d.namespace = Namespace, NEW r,
         Crc32(r.entity, r.flag) \in Nat, NEW i,
         LastBuilt(d, r.flag, i), NEW f \in SourceFlags, f = d.flags[i], f.type = "boolean"
  PROVE  BooleanDecidedBy(d, f, r)
<1>. DEFINE s == Build(d)
            rollouts == BuildRollouts(f)
            applying == {j \in DOMAIN rollouts : RolloutApplies(rollouts[j], r)}
<1>1. /\ s.namespace = Namespace
      /\ r.flag \in DOMAIN s.flags /\ s.flags[r.flag] = Header(f)
      /\ r.flag \in DOMAIN s.rollouts /\ s.rollouts[r.flag] = rollouts
  <2>1. s.namespace = Namespace
    BY BuildKeepsLast
  <2>. QED
    BY <2>1 DEF LastBuilt
<1>2. f.rollouts \in Seq(SourceRollouts)
  BY DEF SourceFlags
<1>3. DOMAIN rollouts = DOMAIN f.rollouts
      /\ \A k \in DOMAIN f.rollouts : rollouts[k] = BuildRollout(f, k)
  BY DEF BuildRollouts
<1>4. rollouts \in Seq({rollouts[k] : k \in DOMAIN rollouts}) /\ Ranked(rollouts)
  <2>1. Ranked(rollouts)
    BY BuiltRanks DEF BuildRollouts
  <2>2. Len(f.rollouts) \in Nat /\ DOMAIN f.rollouts = 1..Len(f.rollouts)
    BY <1>2, LenProperties
  <2>3. rollouts \in [1..Len(f.rollouts) -> {rollouts[k] : k \in DOMAIN rollouts}]
    BY <1>3, <2>2 DEF BuildRollouts
  <2>. QED
    BY <2>1, <2>2, <2>3, SeqDef
<1>5. Header(f).type = "boolean" /\ Header(f).enabled = f.enabled
  BY DEF Header, FlagType
<1>. HIDE DEF rollouts, s
<1>6. applying = ConcerningRollouts(f, r)
  <2>1. \A k \in DOMAIN f.rollouts :
          RolloutApplies(rollouts[k], r) <=> RolloutConcerns(f.rollouts[k], r)
    BY <1>3, RolloutsApply
  <2>. QED
    BY <1>3, <2>1 DEF ConcerningRollouts
<1>7. \/ applying = {} /\ BooleanAnswer(s, r) =
                            [ok |-> TRUE, enabled |-> f.enabled, reason |-> "default",
                             segments |-> {}]
      \/ \E k \in applying :
           (\A j \in applying : k <= j) /\ BooleanAnswer(s, r) = BooleanMatch(rollouts[k], r)
  <2>1. Has(s, s.flags, r.flag) /\ Has(s, s.rollouts, r.flag)
    BY <1>1 DEF Has
  <2>2. /\ s.flags[r.flag].type = "boolean"
        /\ s.rollouts[r.flag] \in Seq({rollouts[k] : k \in DOMAIN rollouts})
        /\ Ranked(s.rollouts[r.flag])
    BY <1>1, <1>4, <1>5
  <2>3. LET ro == s.rollouts[r.flag]
            ap == {j \in DOMAIN ro : RolloutApplies(ro[j], r)}
        IN \/ ap = {} /\ BooleanAnswer(s, r) =
                 [ok |-> TRUE, enabled |-> s.flags[r.flag].enabled, reason |-> "default",
                  segments |-> {}]
           \/ \E k \in ap : (\A j \in ap : k <= j) /\ BooleanAnswer(s, r) = BooleanMatch(ro[k], r)
    BY <2>1, <2>2, FirstRolloutDecides
  <2>. QED
    BY <1>1, <1>5, <2>3
<1>8. \A k \in applying : rollouts[k] = BuildRollout(f, k)
  BY <1>3
<1>. HIDE DEF applying
<1>. QED
  BY <1>6, <1>7, <1>8 DEF BooleanDecidedBy, s

(* So the answer to a boolean request is right, for any document. *)
LEMMA BooleanIsRight ==
  ASSUME doc \in SourceDocuments, NEW r \in Requests, NEW a \in {BooleanAnswer(Build(doc), r)}
  PROVE  RightBoolean(r, a)
<1>. DEFINE s == Build(doc)
            f == FlagOf(r)
            first == First(f.rollouts, LAMBDA rollout : RolloutConcerns(rollout, r))
<1>1. CASE Listed(r.flag) = {}
  <2>1. a = Refusal("unknown flag")
    BY <1>1, ListedIsBuilt DEF BooleanAnswer
  <2>. QED
    BY <1>1, <2>1 DEF RightBoolean, Refusal
<1>2. CASE Listed(r.flag) # {}
  <2>1. doc.namespace = Namespace /\ f \in SourceFlags /\ Has(s, s.flags, r.flag)
    BY <1>2, ListedIsBuilt
  <2>2. PICK i \in DOMAIN doc.flags : f = doc.flags[i] /\ LastBuilt(doc, r.flag, i)
    BY <1>2, ListedIsBuilt
  <2>3. s.flags[r.flag] = Header(f)
    BY <2>2 DEF LastBuilt
  <2>4. RightBoolean(r, a) <=>
          IF f.type # "boolean" THEN ~a.ok
          ELSE /\ a.ok
               /\ first = {} => a.enabled = f.enabled /\ a.reason = "default"
               /\ \A k \in first :
                    /\ a.reason = "match"
                    /\ a.enabled = IF f.rollouts[k].threshold # <<>>
                                   THEN f.rollouts[k].threshold[1].value
                                   ELSE f.rollouts[k].segment[1].value
    BY <1>2 DEF RightBoolean
  <2>5. first = Firsts(ConcerningRollouts(f, r))
        /\ ConcerningRollouts(f, r) \in SUBSET (Nat \ {0})
    BY <2>1, FirstsAreDecisive
  <2>. HIDE DEF s, f, first
  <2>6. CASE f.type # "boolean"
    <3>1. Header(f).type = "variant"
      BY <2>6 DEF Header, FlagType
    <3>2. a = Refusal("wrong type")
      BY <2>1, <2>3, <3>1 DEF BooleanAnswer, s
    <3>. QED
      BY <2>4, <2>6, <3>2 DEF Refusal
  <2>7. CASE f.type = "boolean"
    <3>0. Crc32(r.entity, r.flag) \in Nat
      BY RequestsAssumption
    <3>1. BooleanDecidedBy(doc, f, r)
      BY <2>1, <2>2, <2>7, <3>0, BooleanDecided
    <3>2. CASE /\ ConcerningRollouts(f, r) = {}
               /\ a = [ok |-> TRUE, enabled |-> f.enabled, reason |-> "default",
                       segments |-> {}]
      <4>1. first = {}
        BY <2>5, <3>2 DEF Firsts
      <4>2. a.ok /\ a.enabled = f.enabled /\ a.reason = "default"
        BY <3>2
      <4>. QED
        BY <2>4, <2>7, <4>1, <4>2
    <3>3. ASSUME NEW k \in ConcerningRollouts(f, r), \A j \in ConcerningRollouts(f, r) : k <= j,
                 a = BooleanMatch(BuildRollout(f, k), r)
          PROVE  RightBoolean(r, a)
      <4>1. first = {k}
        BY <2>5, <3>3, LeastIsFirst
      <4>2. k \in DOMAIN f.rollouts /\ RolloutConcerns(f.rollouts[k], r)
        BY DEF ConcerningRollouts
      <4>3. /\ a.ok /\ a.reason = "match"
            /\ a.enabled = IF f.rollouts[k].threshold # <<>>
                           THEN f.rollouts[k].threshold[1].value
                           ELSE f.rollouts[k].segment[1].value
        BY <2>1, <3>0, <3>3, <4>2, RolloutsApply
      <4>. QED
        BY <2>4, <2>7, <4>1, <4>3
    <3>. QED
      BY <3>1, <3>2, <3>3 DEF BooleanDecidedBy, s
  <2>. QED
    BY <2>6, <2>7
<1>. QED
  BY <1>1, <1>2

-----------------------------------------------------------------------------
(* The state *)

(* The store is what is built of a document, and an answer is one of those
   the store has for what was asked. *)
Answered ==
  \/ asked.call = "none" /\ answer = NoAnswer
  \/ \E r \in Requests : /\ asked = [call |-> "variant", requests |-> <<r>>]
                         /\ answer \in VariantAnswers(Build(doc), r)
  \/ \E r \in Requests : /\ asked = [call |-> "boolean", requests |-> <<r>>]
                         /\ answer \in {BooleanAnswer(Build(doc), r)}
  \/ \E b \in Batches : /\ asked = [call |-> "batch", requests |-> b]
                        /\ answer \in BatchAnswers(Build(doc), b)

EvaluationInv ==
  /\ doc \in SourceDocuments
  /\ store = Build(doc)
  /\ Answered

(* The store and the answers are those of the document, all along. *)
THEOREM AlwaysAnswered == Spec => []EvaluationInv
<1>1. Init => EvaluationInv
  BY DocumentsAssumption DEF Init, EvaluationInv, Answered
<1>2. EvaluationInv /\ [Next]_vars => EvaluationInv'
  <2>. SUFFICES ASSUME EvaluationInv, [Next]_vars PROVE EvaluationInv'
    OBVIOUS
  <2>. USE DEF EvaluationInv
  <2>1. CASE EvaluateVariant
    BY <2>1 DEF EvaluateVariant, Ask, Answered
  <2>2. CASE EvaluateBoolean
    BY <2>2 DEF EvaluateBoolean, Ask, Answered
  <2>3. CASE EvaluateBatch
    BY <2>3 DEF EvaluateBatch, Ask, Answered
  <2>4. CASE UNCHANGED vars
    BY <2>4 DEF vars, Answered
  <2>. QED
    BY <2>1, <2>2, <2>3, <2>4 DEF Next
<1>. QED
  BY <1>1, <1>2, PTL DEF Spec

(* Every answer says whether it is one. *)
LEMMA AnswersSayWhether ==
  ASSUME NEW s, NEW r
  PROVE  /\ \A a \in VariantAnswers(s, r) : a.ok \in BOOLEAN
         /\ BooleanAnswer(s, r).ok \in BOOLEAN
<1>1. \A e : Refusal(e).ok \in BOOLEAN
  BY DEF Refusal
<1>2. \A f : /\ DefaultAnswer(f).ok \in BOOLEAN
            /\ [DefaultAnswer(f) EXCEPT !.reason = "disabled"].ok \in BOOLEAN
  BY DEF DefaultAnswer
<1>3. ASSUME NEW f, NEW ds, NEW segments, NEW b, NEW a \in Distribute(f, ds, segments, b)
      PROVE  a.ok \in BOOLEAN
  <2>. DEFINE matched == [DefaultAnswer(f) EXCEPT !.segments = segments]
              taken == [matched EXCEPT !.match = TRUE, !.reason = "match"]
              missed == [matched EXCEPT !.reason = "default"]
              chosen(i) == [matched EXCEPT !.match = TRUE, !.reason = "match",
                                           !.variant = ds[i].variant]
  <2>1. taken.ok = TRUE /\ missed.ok = TRUE /\ \A i : chosen(i).ok = TRUE
    BY DEF DefaultAnswer
  <2>2. a = taken \/ a = missed \/ \E i : a = chosen(i)
    BY DEF Distribute
  <2>. HIDE DEF taken, missed, chosen
  <2>. QED
    BY <2>1, <2>2
<1>4. \A rule, f : \A a \in VariantRule(s, rule, f, r) : a.ok \in BOOLEAN
  BY <1>1, <1>3 DEF VariantRule
<1>5. \A o : BooleanMatch(o, r).ok \in BOOLEAN
  BY DEF BooleanMatch
<1>6. \A a \in VariantAnswers(s, r) : a.ok \in BOOLEAN
  BY <1>1, <1>2, <1>4 DEF VariantAnswers
<1>7. BooleanAnswer(s, r).ok \in BOOLEAN
  BY <1>1, <1>5 DEF BooleanAnswer
<1>. QED
  BY <1>6, <1>7

(* The maps of the store belong together. *)
LEMMA StoreIsComplete ==
  ASSUME NEW d \in SourceDocuments, NEW key \in DOMAIN Build(d).flags
  PROVE  /\ Build(d).flags[key].type \in {"variant", "boolean"}
         /\ Build(d).flags[key].enabled \in BOOLEAN
         /\ key \in DOMAIN Build(d).rules \cap DOMAIN Build(d).rollouts
         /\ \A k \in DOMAIN Build(d).rules[key] :
              Build(d).rules[key][k].id \in DOMAIN Build(d).distributions
<1>1. PICK i \in Named(d, key) : LastBuilt(d, key, i)
  BY BuildKeepsLast
<1>. DEFINE f == d.flags[i]
<1>2. f \in SourceFlags /\ f.key = key
  <2>1. d.flags \in Seq(SourceFlags) /\ i \in DOMAIN d.flags
    BY DEF SourceDocuments, Named
  <2>. QED
    BY <2>1, LenProperties, ElementOfSeq DEF Named
<1>3. /\ Build(d).flags[key] = Header(f)
      /\ key \in DOMAIN Build(d).rules /\ Build(d).rules[key] = BuildRules(f)
      /\ key \in DOMAIN Build(d).rollouts
      /\ \A k \in DOMAIN f.rules : <<key, k>> \in DOMAIN Build(d).distributions
  BY <1>1 DEF LastBuilt
<1>4. Header(f).type \in {"variant", "boolean"} /\ Header(f).enabled \in BOOLEAN
  BY <1>2 DEF Header, FlagType, SourceFlags
<1>5. DOMAIN BuildRules(f) = DOMAIN f.rules
      /\ \A k \in DOMAIN f.rules : BuildRules(f)[k].id = <<key, k>>
  BY <1>2 DEF BuildRules, BuildRule
<1>. QED
  BY <1>3, <1>4, <1>5

(* Whatever flag the store has, it has the rules, the rollouts and the
   distributions of (snapshot.rs:42-196), and an answer says whether it is
   one. *)
THEOREM StoreAlwaysComplete == Spec => []TypeOK
<1>1. EvaluationInv => TypeOK
  <2>. SUFFICES ASSUME EvaluationInv PROVE TypeOK
    OBVIOUS
  <2>1. store = Build(doc) /\ doc \in SourceDocuments /\ Answered
    BY DEF EvaluationInv
  <2>2. store.namespace = doc.namespace
    BY <2>1, BuildKeepsLast
  <2>3. \A key \in DOMAIN store.flags :
          /\ store.flags[key].type \in {"variant", "boolean"}
          /\ store.flags[key].enabled \in BOOLEAN
          /\ key \in DOMAIN store.rules \cap DOMAIN store.rollouts
          /\ \A k \in DOMAIN store.rules[key] :
               store.rules[key][k].id \in DOMAIN store.distributions
    BY <2>1, StoreIsComplete
  <2>4. asked.call \in {"none", "variant", "boolean", "batch"} /\ answer.ok \in BOOLEAN
    <3>1. CASE asked.call = "none" /\ answer = NoAnswer
      BY <3>1 DEF NoAnswer
    <3>2. ASSUME NEW r \in Requests, asked = [call |-> "variant", requests |-> <<r>>],
                 answer \in VariantAnswers(Build(doc), r)
          PROVE  asked.call = "variant" /\ answer.ok \in BOOLEAN
      BY <3>2, AnswersSayWhether
    <3>3. ASSUME NEW r \in Requests, asked = [call |-> "boolean", requests |-> <<r>>],
                 answer \in {BooleanAnswer(Build(doc), r)}
          PROVE  asked.call = "boolean" /\ answer.ok \in BOOLEAN
      BY <3>3, AnswersSayWhether
    <3>4. ASSUME NEW b \in Batches, asked = [call |-> "batch", requests |-> b],
                 answer \in BatchAnswers(Build(doc), b)
          PROVE  asked.call = "batch" /\ answer.ok \in BOOLEAN
      <4>1. PICK c : answer = IF \E i \in DOMAIN c : Refused(c[i]) THEN Refusal("batch")
                              ELSE [ok |-> TRUE, responses |-> c]
        BY <3>4 DEF BatchAnswers
      <4>2. Refusal("batch").ok = FALSE
        BY DEF Refusal
      <4>. QED
        BY <3>4, <4>1, <4>2
    <3>. QED
      BY <2>1, <3>1, <3>2, <3>3, <3>4 DEF Answered
  <2>. QED
    BY <2>2, <2>3, <2>4 DEF TypeOK
<1>. QED
  BY <1>1, AlwaysAnswered, PTL

(* A variant request is answered as the document says, for all documents. *)
THEOREM VariantAlwaysFollows == Spec => []VariantFollowsDocument
<1>1. EvaluationInv => VariantFollowsDocument
  <2>. SUFFICES ASSUME EvaluationInv, asked.call = "variant"
                PROVE  RightVariant(asked.requests[1], answer)
    BY DEF VariantFollowsDocument
  <2>1. doc \in SourceDocuments /\ Answered
    BY DEF EvaluationInv
  <2>2. PICK r \in Requests : /\ asked = [call |-> "variant", requests |-> <<r>>]
                              /\ answer \in VariantAnswers(Build(doc), r)
    BY <2>1 DEF Answered
  <2>3. asked.requests[1] = r
    BY <2>2
  <2>4. RightVariant(r, answer)
    BY <2>1, <2>2, VariantIsRight
  <2>. QED
    BY <2>3, <2>4
<1>. QED
  BY <1>1, AlwaysAnswered, PTL

(* The same for boolean requests. *)
THEOREM BooleanAlwaysFollows == Spec => []BooleanFollowsDocument
<1>1. EvaluationInv => BooleanFollowsDocument
  <2>. SUFFICES ASSUME EvaluationInv, asked.call = "boolean"
                PROVE  RightBoolean(asked.requests[1], answer)
    BY DEF BooleanFollowsDocument
  <2>1. doc \in SourceDocuments /\ Answered
    BY DEF EvaluationInv
  <2>2. PICK r \in Requests : /\ asked = [call |-> "boolean", requests |-> <<r>>]
                              /\ answer \in {BooleanAnswer(Build(doc), r)}
    BY <2>1 DEF Answered
  <2>3. asked.requests[1] = r
    BY <2>2
  <2>4. RightBoolean(r, answer)
    BY <2>1, <2>2, BooleanIsRight
  <2>. QED
    BY <2>3, <2>4
<1>. QED
  BY <1>1, AlwaysAnswered, PTL

(* A response of a batch is the right one for its request. *)
RightResponse(r, a) ==
  IF Listed(r.flag) = {} THEN a.type = "error"
  ELSE IF FlagOf(r).type = "boolean"
       THEN a.type = "boolean" /\ RightBoolean(r, a.response)
       ELSE a.type = "variant" /\ RightVariant(r, a.response)

(* That is what every request gets, and none has the batch refused. *)
LEMMA ResponseIsRight ==
  ASSUME doc \in SourceDocuments, NEW r \in Requests, NEW a \in Responses(Build(doc), r)
  PROVE  RightResponse(r, a) /\ ~Refused(a)
<1>. DEFINE s == Build(doc)
<1>1. Listed(r.flag) = {} <=> ~Has(s, s.flags, r.flag)
  BY ListedIsBuilt
<1>2. CASE Listed(r.flag) = {}
  BY <1>1, <1>2 DEF Responses, RightResponse, Refused
<1>3. CASE Listed(r.flag) # {}
  <2>1. s.flags[r.flag].type = IF FlagOf(r).type = "boolean" THEN "boolean" ELSE "variant"
    <3>1. PICK i \in DOMAIN doc.flags : FlagOf(r) = doc.flags[i] /\ LastBuilt(doc, r.flag, i)
      BY <1>3, ListedIsBuilt
    <3>2. s.flags[r.flag] = Header(FlagOf(r))
      BY <3>1 DEF LastBuilt
    <3>. QED
      BY <3>2 DEF Header, FlagType
  <2>2. CASE FlagOf(r).type = "boolean"
    <3>1. Responses(s, r) = {[type |-> "boolean", response |-> BooleanAnswer(s, r)]}
      BY <1>1, <1>3, <2>1, <2>2 DEF Responses
    <3>2. a.type = "boolean" /\ a.response \in {BooleanAnswer(s, r)}
      BY <3>1
    <3>3. RightBoolean(r, a.response)
      BY <3>2, BooleanIsRight
    <3>4. a.response.ok
      BY <1>3, <2>2, <3>3 DEF RightBoolean
    <3>. QED
      BY <1>3, <2>2, <3>2, <3>3, <3>4 DEF RightResponse, Refused
  <2>3. CASE FlagOf(r).type # "boolean"
    <3>1. Responses(s, r) = {[type |-> "variant", response |-> x] : x \in VariantAnswers(s, r)}
      BY <1>1, <1>3, <2>1, <2>3 DEF Responses
    <3>2. a.type = "variant" /\ a.response \in VariantAnswers(s, r)
      BY <3>1
    <3>3. RightVariant(r, a.response)
      BY <3>2, VariantIsRight
    <3>4. a.response.ok
      BY <1>3, <2>3, <3>3 DEF RightVariant
    <3>. QED
      BY <1>3, <2>3, <3>2, <3>3, <3>4 DEF RightResponse, Refused
  <2>. QED
    BY <2>2, <2>3
<1>. QED
  BY <1>2, <1>3

(* A batch is never refused, and each of its requests has the answer it would
   have alone. *)
THEOREM BatchAlwaysFollows == Spec => []BatchFollowsDocument
<1>1. EvaluationInv => BatchFollowsDocument
  <2>. SUFFICES ASSUME EvaluationInv, asked.call = "batch"
                PROVE  /\ answer.ok
                       /\ Len(answer.responses) = Len(asked.requests)
                       /\ \A i \in DOMAIN asked.requests :
                            RightResponse(asked.requests[i], answer.responses[i])
    BY DEF BatchFollowsDocument, RightResponse
  <2>1. doc \in SourceDocuments /\ Answered
    BY DEF EvaluationInv
  <2>2. PICK b \in Batches : /\ asked = [call |-> "batch", requests |-> b]
                             /\ answer \in BatchAnswers(Build(doc), b)
    BY <2>1 DEF Answered
  <2>3. asked.requests = b
    BY <2>2
  <2>4. b \in Seq(Requests) /\ DOMAIN b = 1..Len(b) /\ Len(b) \in Nat
        /\ \A i \in DOMAIN b : b[i] \in Requests
    <3>1. b \in Seq(Requests)
      BY RequestsAssumption
    <3>. QED
      BY <3>1, LenProperties, ElementOfSeq
  <2>. DEFINE U == UNION {Responses(Build(doc), b[i]) : i \in DOMAIN b}
              all == {c \in [DOMAIN b -> U] :
                        \A i \in DOMAIN b : c[i] \in Responses(Build(doc), b[i])}
  <2>5. PICK c \in all : answer = IF \E i \in DOMAIN c : Refused(c[i]) THEN Refusal("batch")
                                  ELSE [ok |-> TRUE, responses |-> c]
    BY <2>2 DEF BatchAnswers
  <2>6. c \in [DOMAIN b -> U] /\ \A i \in DOMAIN b : c[i] \in Responses(Build(doc), b[i])
    BY <2>5
  <2>. HIDE DEF U, all
  <2>7. \A i \in DOMAIN b : RightResponse(b[i], c[i]) /\ ~Refused(c[i])
    BY <2>1, <2>4, <2>6, ResponseIsRight
  <2>8. DOMAIN c = DOMAIN b
    BY <2>6
  <2>9. answer = [ok |-> TRUE, responses |-> c]
    BY <2>5, <2>7, <2>8
  <2>10. Len(c) = Len(b)
    <3>1. c \in [1..Len(b) -> U]
      BY <2>4, <2>6
    <3>2. c \in Seq(U)
      BY <2>4, <3>1, SeqDef
    <3>3. Len(c) \in Nat /\ 1..Len(c) = 1..Len(b)
      BY <2>4, <2>8, <3>2, LenProperties
    <3>. QED
      BY <2>4, <3>3
  <2>11. answer.ok /\ answer.responses = c
    BY <2>9
  <2>. QED
    BY <2>3, <2>7, <2>10, <2>11
<1>. QED
  BY <1>1, AlwaysAnswered, PTL

-----------------------------------------------------------------------------
(* Opposite operators and raised percentages *)

(* What a constraint of the document may be. *)
LEMMA SourceOfConstraints ==
  ASSUME NEW f \in SourceFlags
  PROVE  ConstraintsOf(f) \subseteq SourceConstraints
<1>1. ASSUME NEW i \in DOMAIN f.rules, NEW j \in DOMAIN f.rules[i].segments,
             NEW c \in ToSet(f.rules[i].segments[j].constraints)
      PROVE  c \in SourceConstraints
  <2>1. f.rules \in Seq(SourceRules)
    BY DEF SourceFlags
  <2>2. f.rules[i] \in SourceRules
    BY <2>1, LenProperties, ElementOfSeq
  <2>3. f.rules[i].segments \in Seq(SourceSegments)
    BY <2>2 DEF SourceRules
  <2>4. f.rules[i].segments[j] \in SourceSegments
    BY <2>3, LenProperties, ElementOfSeq
  <2>. DEFINE cs == f.rules[i].segments[j].constraints
  <2>5. cs \in Seq(SourceConstraints)
    BY <2>4 DEF SourceSegments
  <2>6. \A k \in DOMAIN cs : cs[k] \in SourceConstraints
    BY <2>5, LenProperties, ElementOfSeq
  <2>. QED
    BY <2>6 DEF ToSet
<1>. QED
  BY <1>1 DEF ConstraintsOf

(* Constraints of the document with opposite operators exclude each other. *)
THEOREM OppositesAlwaysExclude == Spec => []OppositesExclude
<1>1. EvaluationInv => OppositesExclude
  <2>. SUFFICES ASSUME EvaluationInv, asked.call = "variant", answer.ok,
                       NEW c \in ConstraintsOf(FlagOf(asked.requests[1])),
                       NEW pair \in OppositesOf(c.type), c.operator = pair[1]
                PROVE  LET r == asked.requests[1]
                           v == ContextValue(r.context, c.property)
                           one == MatchesConstraint(c, r)
                           other == MatchesConstraint([c EXCEPT !.operator = pair[2]], r)
                       IN IF Reads(c, v) THEN one # other ELSE ~one /\ ~other
    BY DEF OppositesExclude
  <2>1. doc \in SourceDocuments /\ Answered
    BY DEF EvaluationInv
  <2>2. PICK r \in Requests : /\ asked = [call |-> "variant", requests |-> <<r>>]
                              /\ answer \in VariantAnswers(Build(doc), r)
    BY <2>1 DEF Answered
  <2>3. asked.requests[1] = r
    BY <2>2
  <2>4. RightVariant(r, answer)
    BY <2>1, <2>2, VariantIsRight
  <2>5. FlagOf(r) \in SourceFlags
    BY <2>1, <2>4, ListedIsBuilt DEF RightVariant
  <2>6. c \in SourceConstraints
    BY <2>3, <2>5, SourceOfConstraints
  <2>7. c.type \in {"string", "number", "boolean", "datetime"}
    BY DEF OppositesOf
  <2>8. c \in ConstraintRecords
    BY <2>6, <2>7 DEF SourceConstraints, ConstraintRecords, Types
  <2>. DEFINE one == MatchesConstraint(c, r)
              other == MatchesConstraint([c EXCEPT !.operator = pair[2]], r)
  <2>9. IF Reads(c, ContextValue(r.context, c.property)) THEN one <=> ~other ELSE ~one /\ ~other
    BY <2>8, OppositesExcludeAlways
  <2>. HIDE DEF one, other
  <2>10. IF Reads(c, ContextValue(r.context, c.property)) THEN one # other ELSE ~one /\ ~other
    BY <2>9
  <2>. QED
    BY <2>3, <2>10 DEF one, other
<1>. QED
  BY <1>1, AlwaysAnswered, PTL

(* A flag whose first rollout has a threshold, with its percentage raised. *)
LEMMA RaisedFlag ==
  ASSUME NEW f \in SourceFlags, f.rollouts # <<>>, f.rollouts[1].threshold # <<>>,
         NEW p \in Int
  PROVE  LET g == Raise(f, p) IN
         /\ g \in SourceFlags /\ g.key = f.key /\ g.type = f.type
         /\ DOMAIN g.rollouts = DOMAIN f.rollouts
         /\ 1 \in DOMAIN f.rollouts
         /\ \A j \in DOMAIN f.rollouts : j # 1 => g.rollouts[j] = f.rollouts[j]
         /\ g.rollouts[1].threshold # <<>>
         /\ g.rollouts[1].threshold[1].percentage = p
         /\ g.rollouts[1].threshold[1].value = f.rollouts[1].threshold[1].value
<1>. DEFINE T == [percentage : Int, value : BOOLEAN]
            o == f.rollouts[1]
            th == o.threshold
            e == [th[1] EXCEPT !.percentage = p]
            th2 == [th EXCEPT ![1] = e]
            o2 == [o EXCEPT !.threshold = th2]
            ro == f.rollouts
            ro2 == [ro EXCEPT ![1] = o2]
            g == [f EXCEPT !.rollouts = ro2]
<1>1. Raise(f, p) = g
  BY DEF Raise
<1>2. ro \in Seq(SourceRollouts) /\ 1 \in 1..Len(ro) /\ DOMAIN ro = 1..Len(ro)
  <2>1. ro \in Seq(SourceRollouts)
    BY DEF SourceFlags
  <2>. QED
    BY <2>1, LenProperties, EmptySeq
<1>3. o \in SourceRollouts
  BY <1>2, ElementOfSeq
<1>4. th \in Seq(T) /\ Len(th) <= 1 /\ 1 \in 1..Len(th) /\ DOMAIN th = 1..Len(th)
  <2>1. th \in AtMostOne(T)
    BY <1>3 DEF SourceRollouts
  <2>2. th \in Seq(T) /\ Len(th) <= 1
    BY <2>1 DEF AtMostOne
  <2>. HIDE DEF T
  <2>. QED
    BY <2>2, LenProperties, EmptySeq
<1>5. th[1] \in T
  <2>. HIDE DEF T, th
  <2>. QED
    BY <1>4, ElementOfSeq
<1>6. e \in T /\ e.percentage = p /\ e.value = th[1].value
  BY <1>5
<1>. HIDE DEF e, T
<1>7. th2 \in Seq(T) /\ Len(th2) = Len(th) /\ th2[1] = e
  <2>. HIDE DEF th
  <2>. QED
    BY <1>4, <1>6, ExceptSeq
<1>8. th2 \in AtMostOne(T) /\ th2 # <<>>
  <2>. HIDE DEF th, th2
  <2>1. Len(th2) <= 1 /\ Len(th2) # 0
    BY <1>4, <1>7
  <2>. QED
    BY <1>7, <2>1 DEF AtMostOne
<1>. HIDE DEF th2
<1>9. o2 \in SourceRollouts /\ o2.threshold = th2
  <2>. HIDE DEF o
  <2>. QED
    BY <1>3, <1>8 DEF SourceRollouts, T
<1>. HIDE DEF o2
<1>10. ro2 \in Seq(SourceRollouts) /\ Len(ro2) = Len(ro) /\ ro2[1] = o2
       /\ \A j \in 1..Len(ro) : j # 1 => ro2[j] = ro[j]
  <2>. HIDE DEF ro
  <2>. QED
    BY <1>2, <1>9, ExceptSeq
<1>. HIDE DEF ro2
<1>11. g \in SourceFlags /\ g.key = f.key /\ g.type = f.type /\ g.rollouts = ro2
  BY <1>10 DEF SourceFlags
<1>12. DOMAIN ro2 = DOMAIN ro
  BY <1>2, <1>10, LenProperties
<1>. HIDE DEF g
<1>13. /\ DOMAIN g.rollouts = DOMAIN f.rollouts
       /\ 1 \in DOMAIN f.rollouts
       /\ \A j \in DOMAIN f.rollouts : j # 1 => g.rollouts[j] = f.rollouts[j]
  BY <1>2, <1>10, <1>11, <1>12
<1>14. /\ g.rollouts[1].threshold # <<>>
       /\ g.rollouts[1].threshold[1].percentage = p
       /\ g.rollouts[1].threshold[1].value = f.rollouts[1].threshold[1].value
  BY <1>6, <1>7, <1>8, <1>9, <1>10, <1>11
<1>. QED
  BY <1>1, <1>11, <1>13, <1>14

(* Of the rollouts of that flag the first concerns whom it concerned, and the
   others are the same. *)
LEMMA RaisedConcerns ==
  ASSUME NEW f \in SourceFlags, f.rollouts # <<>>, f.rollouts[1].threshold # <<>>,
         NEW p \in Int, p >= f.rollouts[1].threshold[1].percentage,
         NEW r, Crc32(r.entity, r.flag) \in Nat
  PROVE  1 \in ConcerningRollouts(Raise(f, p), r)
           \/ /\ 1 \notin ConcerningRollouts(f, r)
              /\ ConcerningRollouts(Raise(f, p), r) = ConcerningRollouts(f, r)
<1>. DEFINE g == Raise(f, p)
            bucket == 100 * (Crc32(r.entity, r.flag) % 100)
<1>1. /\ g \in SourceFlags /\ DOMAIN g.rollouts = DOMAIN f.rollouts
      /\ 1 \in DOMAIN f.rollouts
      /\ \A j \in DOMAIN f.rollouts : j # 1 => g.rollouts[j] = f.rollouts[j]
      /\ g.rollouts[1].threshold # <<>>
      /\ g.rollouts[1].threshold[1].percentage = p
  BY RaisedFlag
<1>2. bucket \in Int
  <2>1. \A n \in Nat : 100 * (n % 100) \in Int
    OBVIOUS
  <2>. QED
    BY <2>1
<1>3. f.rollouts[1].threshold[1].percentage \in Int
  <2>. DEFINE T == [percentage : Int, value : BOOLEAN]
              th == f.rollouts[1].threshold
  <2>1. f.rollouts \in Seq(SourceRollouts)
    BY DEF SourceFlags
  <2>2. f.rollouts[1] \in SourceRollouts
    BY <1>1, <2>1, LenProperties, ElementOfSeq
  <2>3. th \in AtMostOne(T)
    BY <2>2 DEF SourceRollouts
  <2>4. th \in Seq(T)
    BY <2>3 DEF AtMostOne
  <2>. HIDE DEF T
  <2>5. 1 \in 1..Len(th)
    BY <2>4, LenProperties, EmptySeq
  <2>6. th[1] \in T
    BY <2>4, <2>5, ElementOfSeq
  <2>. QED
    BY <2>6 DEF T
<1>. HIDE DEF g
<1>4. RolloutConcerns(f.rollouts[1], r) <=> f.rollouts[1].threshold[1].percentage > bucket
  BY DEF RolloutConcerns
<1>5. RolloutConcerns(g.rollouts[1], r) <=> p > bucket
  BY <1>1 DEF RolloutConcerns
<1>. HIDE DEF bucket
<1>6. RolloutConcerns(f.rollouts[1], r) => RolloutConcerns(g.rollouts[1], r)
  BY <1>2, <1>3, <1>4, <1>5
<1>7. CASE RolloutConcerns(g.rollouts[1], r)
  BY <1>1, <1>7 DEF ConcerningRollouts, g
<1>8. CASE ~RolloutConcerns(g.rollouts[1], r)
  <2>1. \A j \in DOMAIN f.rollouts :
          RolloutConcerns(g.rollouts[j], r) <=> RolloutConcerns(f.rollouts[j], r)
    BY <1>1, <1>6, <1>8
  <2>2. ConcerningRollouts(g, r) = ConcerningRollouts(f, r)
    BY <1>1, <2>1 DEF ConcerningRollouts
  <2>3. 1 \notin ConcerningRollouts(f, r)
    BY <1>6, <1>8 DEF ConcerningRollouts
  <2>. QED
    BY <2>2, <2>3 DEF g
<1>. QED
  BY <1>7, <1>8

(* What a document says once the percentage is raised. *)
LEMMA RaisedAnswer ==
  ASSUME doc \in SourceDocuments, NEW r \in Requests,
         Listed(r.flag) # {}, NEW f, f = FlagOf(r), f.type = "boolean",
         NEW a \in {BooleanAnswer(Build(doc), r)}, a.reason = "match",
         f.rollouts[1].threshold # <<>>,
         NEW p \in Int, p >= f.rollouts[1].threshold[1].percentage,
         a = BooleanMatch([threshold |-> f.rollouts[1].threshold], r)
  PROVE  BooleanAnswer(Build([doc EXCEPT !.flags = <<Raise(f, p)>>]), r) = a
<1>. DEFINE g == Raise(f, p)
            d == [doc EXCEPT !.flags = <<g>>]
<1>1. /\ doc.namespace = Namespace /\ f \in SourceFlags
      /\ Crc32(r.entity, r.flag) \in Nat
  BY ListedIsBuilt, RequestsAssumption
<1>2. PICK i \in DOMAIN doc.flags : f = doc.flags[i] /\ LastBuilt(doc, r.flag, i)
  BY ListedIsBuilt
<1>3. f.key = r.flag
  BY <1>2 DEF LastBuilt, Named
<1>4. BooleanDecidedBy(doc, f, r)
  BY <1>1, <1>2, BooleanDecided
<1>5. PICK k \in ConcerningRollouts(f, r) :
        /\ \A j \in ConcerningRollouts(f, r) : k <= j
        /\ a = BooleanMatch(BuildRollout(f, k), r)
  <2>1. CASE a = [ok |-> TRUE, enabled |-> f.enabled, reason |-> "default", segments |-> {}]
    BY <2>1
  <2>. QED
    BY <1>4, <2>1 DEF BooleanDecidedBy
<1>6. f.rollouts # <<>> /\ k \in DOMAIN f.rollouts
  <2>1. k \in DOMAIN f.rollouts
    BY DEF ConcerningRollouts
  <2>2. DOMAIN <<>> = {}
    OBVIOUS
  <2>. QED
    BY <2>1, <2>2
<1>7. /\ g \in SourceFlags /\ g.key = f.key /\ g.type = f.type
      /\ DOMAIN g.rollouts = DOMAIN f.rollouts
      /\ 1 \in DOMAIN f.rollouts
      /\ \A j \in DOMAIN f.rollouts : j # 1 => g.rollouts[j] = f.rollouts[j]
      /\ g.rollouts[1].threshold # <<>>
      /\ g.rollouts[1].threshold[1].percentage = p
      /\ g.rollouts[1].threshold[1].value = f.rollouts[1].threshold[1].value
  BY <1>1, <1>6, RaisedFlag
<1>8. 1 \in ConcerningRollouts(g, r)
        \/ /\ 1 \notin ConcerningRollouts(f, r)
           /\ ConcerningRollouts(g, r) = ConcerningRollouts(f, r)
  BY <1>1, <1>6, RaisedConcerns
<1>. HIDE DEF g
<1>9. d \in SourceDocuments /\ d.namespace = Namespace /\ d.flags = <<g>>
  <2>1. <<g>> \in Seq(SourceFlags)
    BY <1>7
  <2>2. doc \in [namespace : STRING, flags : Seq(SourceFlags)]
    BY DEF SourceDocuments
  <2>3. d \in [namespace : STRING, flags : Seq(SourceFlags)]
        /\ d.namespace = doc.namespace /\ d.flags = <<g>>
    BY <2>1, <2>2
  <2>. QED
    BY <1>1, <2>3 DEF SourceDocuments
<1>. HIDE DEF d
<1>10. LastBuilt(d, r.flag, 1)
  <2>1. Named(d, r.flag) = {1}
    BY <1>3, <1>7, <1>9 DEF Named
  <2>2. \E j \in Named(d, r.flag) : LastBuilt(d, r.flag, j)
    BY <1>9, <2>1, BuildKeepsLast
  <2>. QED
    BY <2>1, <2>2
<1>11. BooleanDecidedBy(d, g, r)
  <2>1. g = d.flags[1] /\ g.type = "boolean"
    BY <1>7, <1>9
  <2>. QED
    BY <1>1, <1>7, <1>9, <1>10, <2>1, BooleanDecided
<1>12. /\ ConcerningRollouts(g, r) \in SUBSET (Nat \ {0})
       /\ ConcerningRollouts(f, r) \in SUBSET (Nat \ {0})
  BY <1>1, <1>7, FirstsAreDecisive
<1>13. ConcerningRollouts(g, r) # {}
  BY <1>8
<1>14. PICK m \in ConcerningRollouts(g, r) :
         /\ \A j \in ConcerningRollouts(g, r) : m <= j
         /\ BooleanAnswer(Build(d), r) = BooleanMatch(BuildRollout(g, m), r)
  BY <1>11, <1>13 DEF BooleanDecidedBy
<1>15. CASE 1 \in ConcerningRollouts(g, r)
  <2>1. m = 1
    <3>1. m \in Nat \ {0} /\ m <= 1
      BY <1>12, <1>14, <1>15
    <3>. QED
      BY <3>1
  <2>. DEFINE th == g.rollouts[1].threshold
              Match == [ok |-> TRUE, enabled |-> th[1].value, reason |-> "match", segments |-> {}]
  <2>2. BuildRollout(g, 1).threshold = th
    BY DEF BuildRollout
  <2>3. BooleanMatch(BuildRollout(g, 1), r) = Match
    BY <1>7, <2>2 DEF BooleanMatch
  <2>4. BooleanMatch([threshold |-> f.rollouts[1].threshold], r) = Match
    BY <1>7 DEF BooleanMatch
  <2>. QED
    BY <1>14, <2>1, <2>3, <2>4 DEF d, g
<1>16. CASE 1 \notin ConcerningRollouts(g, r)
  <2>1. ConcerningRollouts(g, r) = ConcerningRollouts(f, r)
    BY <1>8, <1>16
  <2>2. m = k
    <3>1. m \in Nat /\ k \in Nat /\ m <= k /\ k <= m
      BY <1>5, <1>12, <1>14, <2>1
    <3>. QED
      BY <3>1
  <2>3. m # 1 /\ m \in DOMAIN f.rollouts
    BY <1>6, <1>14, <1>16, <2>2
  <2>4. BuildRollout(g, m) = BuildRollout(f, m)
    BY <1>7, <2>3 DEF BuildRollout
  <2>. QED
    BY <1>5, <1>14, <2>2, <2>4 DEF d, g
<1>. QED
  BY <1>15, <1>16

(* Raising a percentage never takes the answer from an entity that had it, in
   any document (lib.rs:322-336). *)
THEOREM RaisingAlwaysKeeps == Spec => []RaisingKeepsEntities
<1>1. EvaluationInv => RaisingKeepsEntities
  <2>. SUFFICES ASSUME EvaluationInv, asked.call = "boolean", answer.ok, answer.reason = "match",
                       NEW p \in Percentages,
                       FlagOf(asked.requests[1]).rollouts[1].threshold # <<>>,
                       p >= FlagOf(asked.requests[1]).rollouts[1].threshold[1].percentage,
                       answer = BooleanMatch([threshold |->
                                  FlagOf(asked.requests[1]).rollouts[1].threshold],
                                  asked.requests[1])
                PROVE  BooleanAnswer(Build([doc EXCEPT !.flags =
                                              <<Raise(FlagOf(asked.requests[1]), p)>>]),
                                     asked.requests[1]) = answer
    BY DEF RaisingKeepsEntities
  <2>1. doc \in SourceDocuments /\ Answered
    BY DEF EvaluationInv
  <2>2. PICK r \in Requests : /\ asked = [call |-> "boolean", requests |-> <<r>>]
                              /\ answer \in {BooleanAnswer(Build(doc), r)}
    BY <2>1 DEF Answered
  <2>3. asked.requests[1] = r
    BY <2>2
  <2>4. RightBoolean(r, answer)
    BY <2>1, <2>2, BooleanIsRight
  <2>5. Listed(r.flag) # {} /\ FlagOf(r).type = "boolean"
    BY <2>4 DEF RightBoolean
  <2>6. p \in Int
    BY DEF Percentages
  <2>7. /\ FlagOf(r).rollouts[1].threshold # <<>>
        /\ p >= FlagOf(r).rollouts[1].threshold[1].percentage
        /\ answer = BooleanMatch([threshold |-> FlagOf(r).rollouts[1].threshold], r)
    BY <2>3
  <2>8. BooleanAnswer(Build([doc EXCEPT !.flags = <<Raise(FlagOf(r), p)>>]), r) = answer
    BY <2>1, <2>2, <2>5, <2>6, <2>7, RaisedAnswer
  <2>. QED
    BY <2>3, <2>8
<1>. QED
  BY <1>1, AlwaysAnswered, PTL

-----------------------------------------------------------------------------
(* Shares *)

(* Division rounds down. *)
LEMMA Dividing ==
  ASSUME NEW a \in Int, NEW c \in Nat \ {0}
  PROVE  a \div c \in Int /\ c * (a \div c) <= a /\ a < c * (a \div c) + c
OBVIOUS

(* A factor keeps the order, and two numbers apart are a factor apart. *)
LEMMA Scaled ==
  ASSUME NEW c \in Nat \ {0}, NEW x \in Int, NEW y \in Int
  PROVE  /\ c * x \in Int /\ c * y \in Int
         /\ x <= y => c * x <= c * y
         /\ x < y => c * x + c <= c * y
OBVIOUS

(* Numbers that go up along the positions of a sequence. *)
Rising(n, w) == \A i, j \in 1..n : i <= j => w[i] <= w[j]

(* Positions that have all before them with them are the first so many. *)
LEMMA InitialSegment ==
  ASSUME NEW n \in Nat, NEW S \in SUBSET (1..n), \A j \in S : \A k \in 1..j : k \in S
  PROVE  /\ IsFiniteSet(S) /\ Cardinality(S) \in Nat /\ S = 1..Cardinality(S)
<1>1. CASE S = {}
  BY <1>1, FS_EmptySet
<1>2. CASE S # {}
  <2>1. Max(S) \in S /\ (\A j \in S : j <= Max(S)) /\ Max(S) \in 1..n
    BY <1>2, Greatest
  <2>. DEFINE m == Max(S)
  <2>. HIDE DEF m
  <2>5. m \in S /\ m \in Nat /\ (\A j \in S : j <= m /\ j \in Nat \ {0})
    BY <2>1 DEF m
  <2>6. \A k \in 1..m : k \in S
    BY <2>5, Zenon
  <2>7. \A k \in S : k \in 1..m
    BY <2>5
  <2>2. S = 1..m
    BY <2>6, <2>7, Zenon
  <2>3. m \in Nat \ {0}
    BY <2>1 DEF m
  <2>4. IsFiniteSet(1..m) /\ Cardinality(1..m) = IF 1 > m THEN 0 ELSE m - 1 + 1
    BY <2>3, FS_Interval
  <2>. QED
    BY <2>2, <2>3, <2>4
<1>. QED
  BY <1>1, <1>2

(* Where the cut points rise, the search ends at one that is not below what is
   sought, and the one before is not above it. *)
LEMMA SearchBetween ==
  ASSUME NEW n \in Nat \ {0}, NEW cuts \in [1..n -> Int], Rising(n, cuts), NEW v \in Int,
         NEW i \in SearchResults(cuts, v), i \in 1..n
  PROVE  cuts[i] >= v /\ (i # 1 => cuts[i - 1] <= v)
<1>. DEFINE B == Below(cuts, v)
            E == Equal(cuts, v)
            b == Cardinality(B)
            e == Cardinality(E)
<1>1. /\ B = {k \in 1..n : cuts[k] < v} /\ E = {k \in 1..n : cuts[k] = v}
      /\ i \in (b + 1)..(b + (IF e = 0 THEN 1 ELSE e))
  BY DEF Below, Equal, SearchResults
<1>2. \A k \in 1..n : cuts[k] \in Int
  OBVIOUS
<1>. HIDE DEF B, E
<1>3. \A j \in B : \A k \in 1..j : k \in B
  BY <1>1, <1>2 DEF Rising
<1>4. \A j \in B \cup E : \A k \in 1..j : k \in B \cup E
  BY <1>1, <1>2 DEF Rising
<1>5. B \in SUBSET (1..n) /\ B \cup E \in SUBSET (1..n) /\ E \in SUBSET (1..n)
  BY <1>1
<1>6. IsFiniteSet(B) /\ b \in Nat /\ B = 1..b
  BY <1>3, <1>5, InitialSegment
<1>7. /\ Cardinality(B \cup E) \in Nat /\ IsFiniteSet(B \cup E)
      /\ B \cup E = 1..Cardinality(B \cup E)
  BY <1>4, <1>5, InitialSegment
<1>8. Cardinality(B \cup E) = b + e /\ e \in Nat /\ (e = 0 <=> E = {})
  <2>1. IsFiniteSet(E)
    BY <1>7, FS_Subset
  <2>2. B \cap E = {}
    BY <1>1, <1>2
  <2>3. Cardinality(B \cup E) = Cardinality(B) + Cardinality(E) - Cardinality(B \cap E)
    BY <1>6, <2>1, FS_Union
  <2>4. e \in Nat /\ (e = 0 <=> E = {})
    BY <2>1, FS_EmptySet, FS_CardinalityType
  <2>5. Cardinality(B \cap E) = 0
    BY <2>2, FS_EmptySet
  <2>. QED
    BY <1>6, <2>3, <2>4, <2>5
<1>. HIDE DEF b, e
<1>9. i \notin B
  BY <1>1, <1>6, <1>8
<1>10. cuts[i] >= v
  BY <1>1, <1>2, <1>9
<1>11. ASSUME i # 1 PROVE cuts[i - 1] <= v
  <2>1. i - 1 \in 1..n
    BY <1>11
  <2>2. CASE e = 0
    <3>1. i - 1 \in B
      BY <1>1, <1>6, <1>8, <1>11, <2>2
    <3>. QED
      BY <1>1, <1>2, <2>1, <3>1
  <2>3. CASE e # 0
    <3>1. i - 1 \in B \cup E
      <4>1. i - 1 \in 1..(b + e)
        BY <1>1, <1>6, <1>8, <1>11, <2>3
      <4>. QED
        BY <1>7, <1>8, <4>1
    <3>. QED
      BY <1>1, <1>2, <2>1, <3>1
  <2>. QED
    BY <2>2, <2>3
<1>. QED
  BY <1>10, <1>11

(* The weights of the first ones rise. *)
LEMMA WeightsRise ==
  ASSUME NEW ds \in Seq(SourceDistributions), \A k \in 1..Len(ds) : ds[k].rollout > 0
  PROVE  \A i \in 0..Len(ds), j \in 0..Len(ds) :
           i <= j => Weight(SubSeq(ds, 1, i)) <= Weight(SubSeq(ds, 1, j))
<1>. DEFINE n == Len(ds)
            W(i) == Weight(SubSeq(ds, 1, i))
<1>1. /\ \A i \in 0..n : W(i) \in Int
      /\ \A i \in 1..n : W(i) = W(i - 1) + ds[i].rollout
  BY RunningWeight
<1>2. n \in Nat /\ \A i \in 1..n : ds[i].rollout \in Int /\ ds[i].rollout > 0
  <2>1. n \in Nat /\ \A i \in 1..n : ds[i] \in SourceDistributions
    BY LenProperties, ElementOfSeq
  <2>. QED
    BY <2>1 DEF SourceDistributions
<1>. HIDE DEF W, n
<1>3. \A j \in 1..n : j - 1 \in 0..n /\ j \in 0..n /\ W(j - 1) <= W(j)
  BY <1>1, <1>2
<1>4. ASSUME NEW i \in 0..n PROVE \A j \in 0..n : i <= j => W(i) <= W(j)
  <2>. DEFINE Bad == {j \in 0..n : i <= j /\ ~(W(i) <= W(j))}
  <2>. SUFFICES ASSUME Bad # {} PROVE FALSE
    OBVIOUS
  <2>1. Bad \in SUBSET Nat
    BY <1>2
  <2>2. PICK j \in Bad : \A k \in Bad : j <= k
    BY <2>1, Least
  <2>3. j \in 0..n /\ i <= j /\ ~(W(i) <= W(j)) /\ W(i) \in Int /\ W(j) \in Int
    BY <1>1
  <2>4. j # i
    BY <2>3
  <2>5. j \in 1..n /\ j - 1 \in 0..n /\ i <= j - 1
    BY <1>2, <2>3, <2>4
  <2>6. W(j - 1) \in Int /\ W(j - 1) <= W(j)
    BY <1>1, <1>3, <2>5
  <2>7. j - 1 \in Bad
    BY <2>3, <2>5, <2>6
  <2>. QED
    BY <2>2, <2>3, <2>7
<1>. QED
  BY <1>4 DEF W, n

(* q is 1000 * w / t rounded to the nearest integer. *)
Rounded(t, w, q) ==
  (2 * t) * q <= 2 * (1000 * w) + t /\ 2 * (1000 * w) + t < (2 * t) * q + 2 * t

(* A bucket b that is not after, or not before, the end of an interval that is
   rounded from the weight w, of t in all; and an end that is a bucket's. *)
NotAfter(t, w, b) == 2 * b * t <= 2 * 1000 * w - t
NotBefore(t, w, b) == 2 * 1000 * w - 3 * t <= 2 * b * t
AtMostAll(q) == q <= 1000

(* A bucket before an end is not after the weight the end is rounded from. *)
LEMMA RoundedAbove ==
  ASSUME NEW t \in Nat \ {0}, NEW q \in Int, NEW w \in Int, NEW b \in Nat,
         Rounded(t, w, q), b + 1 <= q
  PROVE  NotAfter(t, w, b)
<1>1. (2 * t) * (b + 1) = 2 * b * t + 2 * t
  OBVIOUS
<1>2. (2 * t) * (b + 1) <= (2 * t) * q
  BY Scaled
<1>. QED
  BY <1>1, <1>2 DEF Rounded, NotAfter

(* A bucket at or behind an end is not before the weight it is rounded from. *)
LEMMA RoundedBelow ==
  ASSUME NEW t \in Nat \ {0}, NEW q \in Int, NEW w \in Int, NEW b \in Nat,
         Rounded(t, w, q), q <= b + 1
  PROVE  NotBefore(t, w, b)
<1>1. (2 * t) * (b + 1) = 2 * b * t + 2 * t
  OBVIOUS
<1>2. (2 * t) * q <= (2 * t) * (b + 1)
  BY Scaled
<1>. QED
  BY <1>1, <1>2 DEF Rounded, NotBefore

(* No end is behind the last bucket. *)
LEMMA RoundedWithin ==
  ASSUME NEW t \in Nat \ {0}, NEW q \in Int, NEW w \in Int, Rounded(t, w, q), w <= t
  PROVE  AtMostAll(q)
<1>. SUFFICES ASSUME 1001 <= q PROVE FALSE
  BY DEF AtMostAll
<1>1. (2 * t) * 1001 <= (2 * t) * q
  OBVIOUS
<1>. QED
  BY <1>1 DEF Rounded

(* Two of them rise with the weights. *)
LEMMA RoundingRises ==
  ASSUME NEW t \in Nat \ {0}, NEW q \in Int, NEW w \in Int, NEW p \in Int, NEW v \in Int,
         Rounded(t, w, q), Rounded(t, v, p), w <= v
  PROVE  q <= p
<1>. SUFFICES ASSUME p < q PROVE FALSE
  OBVIOUS
<1>1. (2 * t) * p + 2 * t <= (2 * t) * q
  BY Scaled
<1>. QED
  BY <1>1 DEF Rounded

(* Every bucket is before the end that is not rounded. *)
LEMMA BelowAll ==
  ASSUME NEW t \in Nat \ {0}, NEW b \in Nat, b <= 999
  PROVE  NotAfter(t, t, b)
<1>1. b * t <= 999 * t
  OBVIOUS
<1>. QED
  BY <1>1 DEF NotAfter

(* The distribution that is found for a bucket has it, to within the rounding
   of its two ends (lib.rs:231-262). *)
FairShare(w, v, b, total) ==
  /\ 2 * TotalBuckets * v - 3 * total <= 2 * b * total
  /\ 2 * b * total <= 2 * TotalBuckets * w - total

(* That is so of each that the search may find. *)
LEMMA CutsAreFair ==
  ASSUME NEW ps \in Seq(SourceDistributions), ps # <<>>,
         \A k \in 1..Len(ps) : ps[k].rollout > 0,
         NEW b \in 0..(TotalBuckets - 1),
         NEW i \in SearchResults(CutPoints(ps), b + 1), i \in 1..Len(ps)
  PROVE  FairShare(Weight(SubSeq(ps, 1, i)), Weight(SubSeq(ps, 1, i - 1)), b, Weight(ps))
<1>. DEFINE n == Len(ps)
            W(k) == Weight(SubSeq(ps, 1, k))
            T == Weight(ps)
            a(k) == 2 * (1000 * W(k)) + T
            q(k) == a(k) \div (2 * T)
            cuts == CutPoints(ps)
<1>1. n \in Nat \ {0} /\ DOMAIN ps = 1..n
  BY LenProperties, EmptySeq
<1>2. /\ W(0) = 0
      /\ \A k \in 0..n : W(k) \in Int
      /\ \A k \in 1..n : W(k) = W(k - 1) + ps[k].rollout
  BY RunningWeight
<1>3. \A k \in 0..n, l \in 0..n : k <= l => W(k) <= W(l)
  BY WeightsRise
<1>4. T = W(n)
  <2>1. SubSeq(ps, 1, n) = ps
    BY SubSeqFull
  <2>. QED
    BY <2>1
<1>5. b \in Nat /\ b <= 999 /\ b + 1 \in Int
  BY DEF TotalBuckets
<1>6. ps[n].rollout \in Int /\ ps[n].rollout > 0
  <2>1. n \in 1..n
    BY <1>1
  <2>2. ps[n] \in SourceDistributions
    BY <2>1, ElementOfSeq
  <2>. QED
    BY <2>1, <2>2 DEF SourceDistributions
<1>7. /\ \A k \in 1..n : k # n => cuts[k] = q(k)
      /\ cuts[n] = 1000 /\ DOMAIN cuts = 1..n
      /\ cuts = [k \in 1..n |-> cuts[k]]
  <2>1. cuts = [k \in 1..n |-> IF k = n THEN 1000 ELSE RoundedQuotient(1000 * W(k), T)]
    BY <1>1 DEF CutPoints, TotalBuckets
  <2>2. \A k \in 1..n : RoundedQuotient(1000 * W(k), T) = q(k)
    BY DEF RoundedQuotient
  <2>3. n \in 1..n
    BY <1>1
  <2>. HIDE DEF cuts, q, W, T, n
  <2>. QED
    BY <2>1, <2>2, <2>3
<1>. HIDE DEF cuts, W, T, n
<1>8. T \in Nat \ {0}
  <2>1. W(n) = W(n - 1) + ps[n].rollout /\ n - 1 \in 0..n /\ 0 \in 0..n
    BY <1>1, <1>2
  <2>2. W(n - 1) \in Int /\ 0 <= W(n - 1)
    BY <1>1, <1>2, <1>3, <2>1
  <2>. QED
    BY <1>4, <1>6, <2>1, <2>2
<1>9. 2 * T \in Nat \ {0}
  BY <1>8
<1>10. ASSUME NEW k \in 0..n
       PROVE  W(k) \in Int /\ q(k) \in Int /\ Rounded(T, W(k), q(k))
  <2>1. a(k) \in Int /\ W(k) \in Int
    BY <1>2, <1>8
  <2>2. /\ a(k) \div (2 * T) \in Int /\ (2 * T) * (a(k) \div (2 * T)) <= a(k)
        /\ a(k) < (2 * T) * (a(k) \div (2 * T)) + 2 * T
    <3>. HIDE DEF a
    <3>. QED
      BY <1>9, <2>1, Dividing
  <2>. QED
    BY <2>1, <2>2 DEF Rounded
<1>. HIDE DEF q
<1>11. \A k \in 1..n : k \in 0..n /\ cuts[k] \in Int
  <2>1. \A k \in 1..n : k \in 0..n
    BY <1>1
  <2>2. \A k \in 1..n : k # n => cuts[k] \in Int
    BY <1>7, <1>10, <2>1
  <2>. QED
    BY <1>7, <2>1, <2>2
<1>12. cuts \in [1..n -> Int]
  BY <1>7, <1>11
<1>13. Rising(n, cuts)
  <2>. SUFFICES ASSUME NEW k \in 1..n, NEW l \in 1..n, k <= l PROVE cuts[k] <= cuts[l]
    BY DEF Rising
  <2>1. CASE k = l
    BY <1>11, <2>1
  <2>2. W(k) \in Int /\ W(l) \in Int /\ W(k) <= W(l) /\ W(k) <= T
    <3>1. k \in 0..n /\ l \in 0..n /\ n \in 0..n /\ k <= n
      BY <1>1
    <3>2. W(k) \in Int /\ W(l) \in Int
      BY <1>2, <3>1
    <3>3. W(k) <= W(l) /\ W(k) <= W(n)
      BY <1>3, <3>1
    <3>. QED
      BY <1>4, <3>2, <3>3
  <2>3. q(k) \in Int /\ Rounded(T, W(k), q(k)) /\ q(l) \in Int /\ Rounded(T, W(l), q(l))
    BY <1>10, <1>11
  <2>4. q(k) <= q(l)
    BY <1>8, <2>2, <2>3, RoundingRises
  <2>5. q(k) <= 1000
    <3>1. AtMostAll(q(k))
      BY <1>8, <2>2, <2>3, RoundedWithin
    <3>. QED
      BY <3>1 DEF AtMostAll
  <2>6. CASE k # l /\ l # n
    <3>1. k # n
      BY <1>1, <2>6
    <3>. QED
      BY <1>7, <2>4, <2>6, <3>1
  <2>7. CASE k # l /\ l = n
    BY <1>7, <2>5, <2>7
  <2>. QED
    BY <2>1, <2>6, <2>7
<1>14. i \in 1..n /\ i \in SearchResults(cuts, b + 1)
  BY DEF n, cuts
<1>15. cuts[i] >= b + 1 /\ (i # 1 => cuts[i - 1] <= b + 1)
  BY <1>1, <1>5, <1>12, <1>13, <1>14, SearchBetween
<1>16. /\ 2 * b * T \in Nat /\ (2 * T) * (b + 1) = 2 * b * T + 2 * T
       /\ i \in 0..n /\ i - 1 \in 0..n /\ W(i) \in Int /\ W(i - 1) \in Int
  <2>1. 2 * b * T \in Nat /\ (2 * T) * (b + 1) = 2 * b * T + 2 * T
    BY <1>5, <1>8
  <2>2. i \in 0..n /\ i - 1 \in 0..n
    BY <1>1, <1>14
  <2>. QED
    BY <1>2, <2>1, <2>2
<1>17. NotAfter(T, W(i), b)
  <2>1. CASE i = n
    BY <1>4, <1>5, <1>8, <2>1, BelowAll
  <2>2. CASE i # n
    <3>1. q(i) \in Int /\ Rounded(T, W(i), q(i)) /\ b + 1 <= q(i)
      BY <1>7, <1>10, <1>14, <1>15, <1>16, <2>2
    <3>. QED
      BY <1>5, <1>8, <1>16, <3>1, RoundedAbove
  <2>. QED
    BY <2>1, <2>2
<1>18. NotBefore(T, W(i - 1), b)
  <2>1. CASE i = 1
    <3>1. W(i - 1) = 0
      BY <1>2, <2>1
    <3>. QED
      BY <1>8, <1>16, <3>1 DEF NotBefore
  <2>2. CASE i # 1
    <3>1. i - 1 \in 1..n /\ i - 1 # n
      BY <1>1, <1>14, <2>2
    <3>2. q(i - 1) \in Int /\ Rounded(T, W(i - 1), q(i - 1)) /\ q(i - 1) <= b + 1
      BY <1>7, <1>10, <1>15, <1>16, <2>2, <3>1
    <3>. QED
      BY <1>5, <1>8, <1>16, <3>2, RoundedBelow
  <2>. QED
    BY <2>1, <2>2
<1>. QED
  BY <1>17, <1>18 DEF FairShare, NotAfter, NotBefore, TotalBuckets, W, T

(* A request that a rule concerns gets one of the rule's distributions that
   has a claim on its bucket. *)
FairlyShared(rule, a, b) ==
  Shares(rule) # {} =>
    \E k \in Shares(rule) :
      /\ Claims(rule.distributions)[k].variant = a.variant
      /\ FairShare(Weight(SubSeq(Claims(rule.distributions), 1, k)),
                   Weight(SubSeq(Claims(rule.distributions), 1, k - 1)),
                   b, Weight(Claims(rule.distributions)))

(* That is so of every answer the rule may give. *)
LEMMA RuleShares ==
  ASSUME NEW rule, rule.distributions \in Seq(SourceDistributions),
         NEW flag, NEW segments, NEW b \in 0..(TotalBuckets - 1),
         NEW a \in Distribute(flag, PositiveRollouts(rule.distributions), segments, b)
  PROVE  FairlyShared(rule, a, b)
<1>. DEFINE ds == rule.distributions
            ps == PositiveRollouts(ds)
<1>1. ps \in Seq(SourceDistributions) /\ DOMAIN ds = 1..Len(ds) /\ Len(ds) \in Nat
  BY SharesKept, LenProperties
<1>2. PICK at : KeptAt(ds, ps, at) /\ SameWeights(ds, ps, at)
  BY SharesKept
<1>3. Shares(rule) = {k \in 1..Len(ds) : ds[k].rollout > 0}
  BY <1>1 DEF Shares
<1>4. RuleAnswer(flag, ds, segments, b, a)
  BY RuleAnswers
<1>5. ps # <<>> =>
        \E i \in SearchResults(CutPoints(ps), b + 1) : i \in 1..Len(ps) /\ a.variant = ps[i].variant
  BY <1>4 DEF RuleAnswer
<1>. HIDE DEF ps
<1>6. CASE Shares(rule) = {}
  BY <1>6 DEF FairlyShared
<1>7. CASE Shares(rule) # {}
  <2>1. ps # <<>>
    <3>1. PICK k \in 1..Len(ds) : ds[k].rollout > 0
      BY <1>3, <1>7
    <3>2. 1..Len(ps) # {}
      BY <1>2, <3>1 DEF KeptAt
    <3>3. ps = <<>> => 1..Len(ps) = {}
      OBVIOUS
    <3>. QED
      BY <3>2, <3>3
  <2>2. PICK i \in SearchResults(CutPoints(ps), b + 1) :
               i \in 1..Len(ps) /\ a.variant = ps[i].variant
    BY <1>5, <2>1
  <2>3. \A k \in 1..Len(ps) : ps[k] = ds[at[k]] /\ at[k] \in 1..Len(ds) /\ ps[k].rollout > 0
    BY <1>2 DEF KeptAt
  <2>4. FairShare(Weight(SubSeq(ps, 1, i)), Weight(SubSeq(ps, 1, i - 1)), b, Weight(ps))
    BY <1>1, <2>1, <2>2, <2>3, CutsAreFair
  <2>5. FairShare(Weight(SubSeq(Claims(ds), 1, at[i])), Weight(SubSeq(Claims(ds), 1, at[i] - 1)), b,
                  Weight(Claims(ds)))
    BY <1>2, <2>2, <2>4 DEF SameWeights
  <2>6. at[i] \in Shares(rule)
    BY <1>3, <2>2, <2>3
  <2>7. Claims(ds)[at[i]].variant = a.variant
    <3>1. Claims(ds)[at[i]].variant = ds[at[i]].variant
      BY <2>2, <2>3, ClaimsOfDistributions
    <3>. QED
      BY <2>2, <2>3, <3>1
  <2>. QED
    BY <2>5, <2>6, <2>7 DEF FairlyShared
<1>. QED
  BY <1>6, <1>7

(* The buckets are shared out as the weights say, whatever the weights are. *)
THEOREM SharesAlwaysFair == Spec => []SharesAreFair
<1>1. EvaluationInv => SharesAreFair
  <2>. SUFFICES ASSUME EvaluationInv, asked.call = "variant", answer.ok, answer.match,
                       NEW k \in Decisive(FlagOf(asked.requests[1]), asked.requests[1])
                PROVE  FairlyShared(FlagOf(asked.requests[1]).rules[k], answer,
                                    Crc32(asked.requests[1].flag, asked.requests[1].entity)
                                      % TotalBuckets)
    BY DEF SharesAreFair, FairlyShared, FairShare
  <2>1. doc \in SourceDocuments /\ Answered
    BY DEF EvaluationInv
  <2>2. PICK r \in Requests : /\ asked = [call |-> "variant", requests |-> <<r>>]
                              /\ answer \in VariantAnswers(Build(doc), r)
    BY <2>1 DEF Answered
  <2>3. asked.requests[1] = r
    BY <2>2
  <2>. DEFINE f == FlagOf(r)
              b == Crc32(r.flag, r.entity) % TotalBuckets
  <2>4. RightVariant(r, answer)
    BY <2>1, <2>2, VariantIsRight
  <2>5. Listed(r.flag) # {} /\ f.type # "boolean" /\ f.enabled
    BY <2>4 DEF RightVariant
  <2>6. doc.namespace = Namespace /\ f \in SourceFlags
    BY <2>1, <2>5, ListedIsBuilt
  <2>7. PICK i \in DOMAIN doc.flags : f = doc.flags[i] /\ LastBuilt(doc, r.flag, i)
    BY <2>1, <2>5, ListedIsBuilt
  <2>8. k \in Decisive(f, r)
    BY <2>3
  <2>9. b \in 0..(TotalBuckets - 1)
    <3>1. Crc32(r.flag, r.entity) \in Nat
      BY RequestsAssumption
    <3>2. \A n \in Nat : n % 1000 \in 0..999
      OBVIOUS
    <3>. QED
      BY <3>1, <3>2 DEF TotalBuckets
  <2>. HIDE DEF f
  <2>10. VariantDecidedBy(doc, f, r)
    BY <2>1, <2>5, <2>6, <2>7, VariantDecided
  <2>11. PICK l \in DOMAIN f.rules :
           /\ Decisive(f, r) = {l}
           /\ VariantAnswers(Build(doc), r) =
                Distribute(Header(f), PositiveRollouts(f.rules[l].distributions),
                           SegmentsOf(f.rules[l].segments, r), b)
    BY <2>8, <2>10 DEF VariantDecidedBy
  <2>12. f.rules[l].distributions \in Seq(SourceDistributions)
    <3>1. f.rules \in Seq(SourceRules)
      BY <2>6 DEF SourceFlags
    <3>2. f.rules[l] \in SourceRules
      BY <3>1, LenProperties, ElementOfSeq
    <3>. QED
      BY <3>2 DEF SourceRules
  <2>. HIDE DEF b
  <2>13. answer \in Distribute(Header(f), PositiveRollouts(f.rules[l].distributions),
                               SegmentsOf(f.rules[l].segments, r), b)
    BY <2>2, <2>11
  <2>14. FairlyShared(f.rules[l], answer, b)
    BY <2>9, <2>12, <2>13, RuleShares
  <2>15. k = l
    BY <2>8, <2>11
  <2>. QED
    BY <2>3, <2>14, <2>15 DEF f, b
<1>. QED
  BY <1>1, AlwaysAnswered, PTL
=============================================================================
