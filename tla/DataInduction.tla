---------------------------- MODULE DataInduction ----------------------------
(***************************************************************************)
(* Induction over data, stated with sets and functions in place of         *)
(* predicates and operators, so that the provers can use it: extrema of    *)
(* sets of numbers, induction over numbers and finite sets, and the        *)
(* existence of functions defined by recursion.                            *)
(***************************************************************************)
EXTENDS Integers, Subsequences, FiniteSetsExt, WellFoundedInduction, FiniteSetTheorems,
        SequenceTheorems, TLAPS

Below == {pair \in Nat \X Nat : pair[1] < pair[2]}

\* A set of numbers has a least element.
LEMMA Least ==
    ASSUME NEW T, T \subseteq Nat, T # {}
    PROVE  \E m \in T : \A n \in T : m <= n
  <1>1. IsWellFoundedOn(Below, Nat)
    BY NatLessThanWellFounded DEF OpToRel, Below
  <1>2. PICK m \in T : \A n \in T : <<n, m>> \notin Below
    BY <1>1, WFMin
  <1>3. \A n \in T : ~(n < m)
    BY <1>2 DEF Below
  <1>4. QED BY <1>3

\* A set of numbers with a bound has a greatest element.
LEMMA Greatest ==
    ASSUME NEW T, T \subseteq Nat, T # {}, NEW top \in Nat, \A n \in T : n <= top
    PROVE  \E m \in T : \A n \in T : n <= m
  <1> DEFINE bounds == {k \in Nat : \A n \in T : n <= k}
  <1>1. PICK m \in bounds : \A k \in bounds : m <= k
    <2>1. bounds \subseteq Nat /\ bounds # {}
      OBVIOUS
    <2> HIDE DEF bounds
    <2>2. QED BY <2>1, Least
  <1>2. ASSUME m \notin T PROVE FALSE
    <2>1. \A n \in T : n < m
      BY <1>1, <1>2
    <2>2. m - 1 \in bounds
      <3>1. PICK n \in T : n \in Nat
        OBVIOUS
      <3>2. m - 1 \in Nat
        BY <1>1, <2>1, <3>1
      <3>3. \A k \in T : k <= m - 1
        BY <1>1, <2>1
      <3>4. QED BY <3>2, <3>3
    <2>3. QED BY <1>1, <2>2
  <1>3. QED BY <1>1, <1>2

\* A set that holds 0, and n + 1 with n, holds every number.
LEMMA EveryNumber ==
    ASSUME NEW T, 0 \in T, \A n \in Nat : n \in T => n + 1 \in T
    PROVE  Nat \subseteq T
  <1> DEFINE rest == Nat \ T
  <1>1. CASE rest = {}
    BY <1>1
  <1>2. CASE rest # {}
    <2>1. rest \subseteq Nat
      OBVIOUS
    <2>2. PICK m \in rest : \A n \in rest : m <= n
      <3> HIDE DEF rest
      <3>1. QED BY <1>2, <2>1, Least
    <2>3. m \in Nat /\ m # 0 /\ m - 1 \in Nat
      BY <2>2
    <2>4. m - 1 \in T
      BY <2>2, <2>3
    <2>5. m - 1 + 1 = m
      BY <2>3
    <2>6. QED BY <2>2, <2>3, <2>4, <2>5
  <1>3. QED BY <1>1, <1>2

(***************************************************************************)
(* The part of a sequence at a set of its indexes (Subsequences): its      *)
(* members come from those indexes, each once and in order.                *)
(***************************************************************************)
\* The place of an index in a set of them.
RankIn(i, I) == Cardinality({j \in I : j <= i})

\* Ranks grow with the index, from 1 to the size of the set.
LEMMA RanksGrow ==
    ASSUME NEW n \in Nat, NEW I, I \subseteq 1 .. n
    PROVE  /\ IsFiniteSet(I) /\ Cardinality(I) \in Nat
           /\ \A i \in I : RankIn(i, I) \in 1 .. Cardinality(I)
           /\ \A i, j \in I : i < j => RankIn(i, I) < RankIn(j, I)
  <1>1. IsFiniteSet(I) /\ Cardinality(I) \in Nat
    <2>1. IsFiniteSet(1 .. n)
      BY FS_Interval
    <2>2. QED BY <2>1, FS_Subset, FS_CardinalityType
  <1>2. \A T \in SUBSET I : IsFiniteSet(T) /\ Cardinality(T) \in Nat /\ Cardinality(T) <= Cardinality(I)
    BY <1>1, FS_Subset, FS_CardinalityType
  <1>3. ASSUME NEW i \in I PROVE RankIn(i, I) \in 1 .. Cardinality(I)
    <2> DEFINE T == {j \in I : j <= i}
    <2>1. T \in SUBSET I /\ i \in T
      OBVIOUS
    <2> HIDE DEF T
    <2>2. Cardinality(T) # 0
      BY <1>2, <2>1, FS_EmptySet
    <2>3. QED BY <1>1, <1>2, <2>1, <2>2 DEF RankIn, T
  <1>4. ASSUME NEW i \in I, NEW j \in I, i < j PROVE RankIn(i, I) < RankIn(j, I)
    <2> DEFINE S == {k \in I : k <= i}
               T == {k \in I : k <= j}
    <2>0. i \in Nat /\ j \in Nat /\ \A k \in I : k \in Nat
      OBVIOUS
    <2>4. j \in T /\ j \notin S
      BY <1>4, <2>0
    <2>5. \A k \in I : k <= i => k <= j
      BY <1>4, <2>0
    <2>1. S \subseteq T /\ j \in T /\ j \notin S /\ T \in SUBSET I /\ S \in SUBSET I
      BY <2>4, <2>5
    <2> HIDE DEF S, T
    <2>2. Cardinality(S) < Cardinality(T)
      <3>1. IsFiniteSet(T) /\ S # T
        BY <1>2, <2>1
      <3>2. Cardinality(S) <= Cardinality(T) /\ (Cardinality(S) = Cardinality(T) => S = T)
        BY <2>1, <3>1, FS_Subset
      <3>3. QED BY <1>2, <2>1, <3>1, <3>2
    <2>3. QED BY <2>2 DEF RankIn, S, T
  <1>5. QED BY <1>1, <1>3, <1>4

\* Every number up to the size of the set is a rank.
LEMMA EveryRank ==
    ASSUME NEW n \in Nat, NEW I, I \subseteq 1 .. n
    PROVE  \A k \in 1 .. Cardinality(I) : \E i \in I : RankIn(i, I) = k
  <1> DEFINE T == {m \in Nat : \A J \in SUBSET (1 .. m) :
                    \A k \in 1 .. Cardinality(J) : \E i \in J : RankIn(i, J) = k}
  <1>1. 0 \in T
    <2>1. Cardinality({}) = 0
      BY FS_EmptySet
    <2>2. \A J \in SUBSET (1 .. 0) : J = {}
      OBVIOUS
    <2>3. QED BY <2>1, <2>2
  <1>2. ASSUME NEW m \in Nat, m \in T PROVE m + 1 \in T
    <2> SUFFICES ASSUME NEW J \in SUBSET (1 .. (m + 1)), NEW k \in 1 .. Cardinality(J)
                 PROVE  \E i \in J : RankIn(i, J) = k
      OBVIOUS
    <2>1. CASE m + 1 \notin J
      <3>1. J \in SUBSET (1 .. m)
        BY <2>1
      <3>2. QED BY <1>2, <3>1
    <2>2. CASE m + 1 \in J
      <3> DEFINE H == J \ {m + 1}
      <3>1. H \in SUBSET (1 .. m) /\ IsFiniteSet(J) /\ Cardinality(J) \in Nat
        <4>1. J \subseteq 1 .. (m + 1) /\ m + 1 \in Nat
          OBVIOUS
        <4>2. IsFiniteSet(J) /\ Cardinality(J) \in Nat
          BY <4>1, RanksGrow
        <4>3. QED BY <4>1, <4>2
      <3>2. Cardinality(H) = Cardinality(J) - 1
        BY <2>2, <3>1, FS_RemoveElement
      <3>3. CASE k = Cardinality(J)
        <4>0. \A j \in J : j <= m + 1
          OBVIOUS
        <4>1. {j \in J : j <= m + 1} = J
          BY <4>0
        <4>2. QED BY <2>2, <3>3, <4>1 DEF RankIn
      <3>4. CASE k # Cardinality(J)
        <4>1. k \in 1 .. Cardinality(H)
          BY <3>1, <3>2, <3>4
        <4>2. PICK i \in H : RankIn(i, H) = k
          BY <1>2, <3>1, <4>1
        <4>3. {j \in J : j <= i} = {j \in H : j <= i}
          BY <3>1
        <4>4. QED BY <4>2, <4>3 DEF RankIn
      <3>5. QED BY <3>3, <3>4
    <2>3. QED BY <2>1, <2>2
  <1>3. Nat \subseteq T
    <2> HIDE DEF T
    <2>1. QED BY <1>1, <1>2, EveryNumber
  <1>4. n \in T
    BY <1>3
  <1>5. QED BY <1>4

\* A picked sequence has the elements at the indexes, in their order, each once.
LEMMA PickedIs ==
    ASSUME NEW n \in Nat, NEW s, NEW I, I \subseteq 1 .. n
    PROVE  /\ Cardinality(I) \in Nat
           /\ DOMAIN Picked(s, I) = 1 .. Cardinality(I)
           /\ \A k \in 1 .. Cardinality(I) : Kth(k, I) \in I /\ Picked(s, I)[k] = s[Kth(k, I)]
           /\ \A k, l \in 1 .. Cardinality(I) : k < l => Kth(k, I) < Kth(l, I)
           /\ \A i \in I : \E k \in 1 .. Cardinality(I) : Kth(k, I) = i
  <1>1. Cardinality(I) \in Nat
    BY RanksGrow
  <1>2. \A k \in 1 .. Cardinality(I) : Kth(k, I) \in I /\ RankIn(Kth(k, I), I) = k
    <2> SUFFICES ASSUME NEW k \in 1 .. Cardinality(I)
                 PROVE  Kth(k, I) \in I /\ RankIn(Kth(k, I), I) = k
      OBVIOUS
    <2>1. \E i \in I : RankIn(i, I) = k
      BY EveryRank
    <2>2. Kth(k, I) = CHOOSE i \in I : RankIn(i, I) = k
      BY DEF Kth, RankIn
    <2>3. QED BY <2>1, <2>2
  <1>3. \A k, l \in 1 .. Cardinality(I) : k < l => Kth(k, I) < Kth(l, I)
    <2> SUFFICES ASSUME NEW k \in 1 .. Cardinality(I), NEW l \in 1 .. Cardinality(I), k < l
                 PROVE  Kth(k, I) < Kth(l, I)
      OBVIOUS
    <2> DEFINE a == Kth(k, I)
               b == Kth(l, I)
    <2>1. a \in I /\ b \in I /\ RankIn(a, I) = k /\ RankIn(b, I) = l
      BY <1>2
    <2> HIDE DEF a, b
    <2>4. a \in Nat /\ b \in Nat /\ k \in Nat /\ l \in Nat /\ k # l
      BY <1>1, <2>1
    <2>2. a # b /\ (b < a => RankIn(b, I) < RankIn(a, I))
      BY <2>1, <2>4, RanksGrow
    <2>3. QED BY <2>1, <2>2, <2>4 DEF a, b
  <1>4. ASSUME NEW i \in I PROVE \E k \in 1 .. Cardinality(I) : Kth(k, I) = i
    <2> DEFINE k == RankIn(i, I)
               a == Kth(k, I)
    <2>1. k \in 1 .. Cardinality(I)
      BY RanksGrow
    <2> HIDE DEF k
    <2>2. a \in I /\ RankIn(a, I) = k
      BY <1>2, <2>1
    <2> HIDE DEF a
    <2>5. a \in Nat /\ i \in Nat /\ k \in Nat
      BY <1>1, <2>1, <2>2
    <2>6. RankIn(i, I) = k
      BY DEF k
    <2>3. a = i
      <3>1. \A x, y \in I : x < y => RankIn(x, I) < RankIn(y, I)
        BY RanksGrow
      <3>2. ~(a < i) /\ ~(i < a)
        BY <2>2, <2>5, <2>6, <3>1
      <3>3. QED BY <2>5, <3>2
    <2>4. QED BY <2>1, <2>3 DEF a
  <1>5. QED BY <1>1, <1>2, <1>3, <1>4 DEF Picked

\* What is picked from a sequence is a sequence.
LEMMA PickedSeq ==
    ASSUME NEW S, NEW s \in Seq(S), NEW I, I \subseteq DOMAIN s
    PROVE  Picked(s, I) \in Seq(S) /\ Len(Picked(s, I)) = Cardinality(I)
  <1>1. Len(s) \in Nat /\ DOMAIN s = 1 .. Len(s) /\ \A i \in DOMAIN s : s[i] \in S
    BY ElementOfSeq
  <1>2. Picked(s, I) \in [1 .. Cardinality(I) -> S] /\ Cardinality(I) \in Nat
    BY <1>1, PickedIs DEF Picked
  <1> DEFINE p == Picked(s, I)
             m == Cardinality(I)
  <1> HIDE DEF p, m
  <1>3. p \in [1 .. m -> S] /\ m \in Nat
    BY <1>2 DEF p, m
  <1>4. p \in Seq(S) /\ Len(p) = m
    BY <1>3
  <1>5. QED BY <1>4 DEF p, m

(***************************************************************************)
(* Folds over sequences, as the community modules define them: by a        *)
(* function on the sets of indexes that takes the greatest index last.     *)
(***************************************************************************)
\* The maximum of a set of indexes is one of them.
LEMMA MaxIs ==
    ASSUME NEW n \in Nat, NEW s \in SUBSET (1 .. n), s # {}
    PROVE  Max(s) \in s /\ \A y \in s : Max(s) >= y
  <1>1. s \subseteq Nat /\ \A y \in s : y <= n
    OBVIOUS
  <1>2. \E x \in s : \A y \in s : y <= x
    BY <1>1, Greatest
  <1>3. \E x \in s : \A y \in s : x >= y
    BY <1>1, <1>2
  <1>4. QED BY <1>3 DEF Max

\* The greatest of the first numbers, and what is left without it.
LEMMA MaxUpTo ==
    ASSUME NEW n \in Nat
    PROVE  Max(1 .. (n + 1)) = n + 1 /\ (1 .. (n + 1)) \ {n + 1} = 1 .. n
  <1>1. n + 1 \in 1 .. (n + 1) /\ 1 .. (n + 1) \in SUBSET (1 .. (n + 1))
    OBVIOUS
  <1>2. n + 1 \in Nat /\ 1 .. (n + 1) # {}
    BY <1>1
  <1> DEFINE s == 1 .. (n + 1)
             m == Max(s)
  <1>3. m \in s /\ \A y \in s : m >= y
    <2> HIDE DEF s
    <2>1. s \in SUBSET (1 .. (n + 1)) /\ s # {}
      BY <1>2 DEF s
    <2>2. QED BY <1>2, <2>1, MaxIs
  <1> HIDE DEF m
  <1>4. m \in s /\ m >= n + 1
    BY <1>1, <1>3
  <1>5. m = n + 1
    BY <1>4
  <1>6. QED BY <1>5 DEF m

\* f[s] is what a fold over the indexes in s yields, the last index first.
FoldsTo(f, n, base, step) ==
    \A s \in SUBSET (1 .. n) : f[s] = IF s = {} THEN base ELSE step[<<Max(s), f[s \ {Max(s)}]>>]

FoldDefined(n, V, base, step) == \E f \in [SUBSET (1 .. n) -> V] : FoldsTo(f, n, base, step)

\* A fold over the indexes of a sequence is defined, and stays among its values.
LEMMA FoldExists ==
    ASSUME NEW n \in Nat, NEW V, NEW base \in V, NEW step \in [(1 .. n) \X V -> V]
    PROVE  FoldDefined(n, V, base, step)
  <1> DEFINE T == {k \in Nat : k <= n => FoldDefined(k, V, base, step)}
  <1>1. 0 \in T
    <2> DEFINE f == [s \in SUBSET (1 .. 0) |-> base]
    <2>1. f \in [SUBSET (1 .. 0) -> V]
      OBVIOUS
    <2>2. \A s \in SUBSET (1 .. 0) : s = {}
      OBVIOUS
    <2>3. FoldsTo(f, 0, base, step)
      BY <2>2 DEF FoldsTo
    <2> HIDE DEF f
    <2>4. QED BY <2>1, <2>3 DEF FoldDefined
  <1>2. ASSUME NEW k \in Nat, k \in T PROVE k + 1 \in T
    <2> SUFFICES ASSUME k + 1 <= n PROVE FoldDefined(k + 1, V, base, step)
      OBVIOUS
    <2>0. k <= n
      OBVIOUS
    <2>1. PICK f \in [SUBSET (1 .. k) -> V] : FoldsTo(f, k, base, step)
      BY <1>2, <2>0 DEF FoldDefined
    <2> DEFINE g == [s \in SUBSET (1 .. (k + 1)) |->
                        IF k + 1 \in s THEN step[<<k + 1, f[s \ {k + 1}]>>] ELSE f[s]]
    <2>2. \A s \in SUBSET (1 .. (k + 1)) : s \ {k + 1} \in SUBSET (1 .. k) /\ (k + 1 \notin s => s \in SUBSET (1 .. k))
      OBVIOUS
    <2>3. k + 1 \in 1 .. n
      OBVIOUS
    <2>4. \A s \in SUBSET (1 .. (k + 1)) : g[s] \in V
      <3> SUFFICES ASSUME NEW s \in SUBSET (1 .. (k + 1)) PROVE g[s] \in V
        OBVIOUS
      <3>1. CASE k + 1 \in s
        <4>1. f[s \ {k + 1}] \in V
          BY <2>1, <2>2
        <4>2. step[<<k + 1, f[s \ {k + 1}]>>] \in V
          BY <2>3, <4>1
        <4>3. QED BY <3>1, <4>2
      <3>2. CASE k + 1 \notin s
        BY <2>1, <2>2, <3>2
      <3>3. QED BY <3>1, <3>2
    <2>5. g \in [SUBSET (1 .. (k + 1)) -> V]
      <3>1. g = [s \in SUBSET (1 .. (k + 1)) |-> g[s]]
        OBVIOUS
      <3> HIDE DEF g
      <3>2. QED BY <2>4, <3>1
    <2>6. ASSUME NEW s \in SUBSET (1 .. (k + 1))
          PROVE  g[s] = IF s = {} THEN base ELSE step[<<Max(s), g[s \ {Max(s)}]>>]
      <3>1. CASE s = {}
        <4>1. g[s] = f[s] /\ s \in SUBSET (1 .. k)
          BY <3>1
        <4>2. QED BY <2>1, <3>1, <4>1 DEF FoldsTo
      <3>2. CASE k + 1 \in s
        <4>0. k + 1 \in Nat /\ s # {}
          BY <3>2
        <4> HIDE DEF g
        <4>1. Max(s) \in s /\ Max(s) >= k + 1 /\ Max(s) \in 1 .. (k + 1)
          BY <3>2, <4>0, MaxIs
        <4> USE DEF g
        <4>2. Max(s) = k + 1
          BY <4>1
        <4>3. g[s \ {k + 1}] = f[s \ {k + 1}]
          BY <2>2
        <4>4. g[s] = step[<<k + 1, f[s \ {k + 1}]>>]
          BY <3>2
        <4> HIDE DEF g
        <4>5. QED BY <3>2, <4>2, <4>3, <4>4
      <3>3. CASE s # {} /\ k + 1 \notin s
        <4>1. s \in SUBSET (1 .. k) /\ s \ {Max(s)} \in SUBSET (1 .. k)
          BY <2>2, <3>3
        <4>2. g[s] = f[s] /\ g[s \ {Max(s)}] = f[s \ {Max(s)}]
          BY <3>3, <4>1
        <4> HIDE DEF g
        <4>3. QED BY <2>1, <3>3, <4>1, <4>2 DEF FoldsTo
      <3>4. QED BY <3>1, <3>2, <3>3
    <2> HIDE DEF g
    <2>7. FoldsTo(g, k + 1, base, step)
      BY <2>6 DEF FoldsTo
    <2>8. QED BY <2>5, <2>7 DEF FoldDefined
  <1>3. Nat \subseteq T
    <2> HIDE DEF T
    <2>1. QED BY <1>1, <1>2, EveryNumber
  <1>4. QED BY <1>3
==============================================================================
