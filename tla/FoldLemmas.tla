----------------------------- MODULE FoldLemmas -----------------------------
(***************************************************************************)
(* What the proofs need to know about the folds of the community modules:  *)
(* sums over a finite set (SumFunctionOnSet) and the concatenation of the  *)
(* sequences in a sequence (FlattenSeq).  And Max and Min.                 *)
(* A fold applies a function on the subsets of the set that is defined by  *)
(* recursion on elements chosen one after the other. There is such a       *)
(* function and only one, and the order of the elements does not matter;   *)
(* the proofs look at a smallest set that would be an exception. A         *)
(* concatenation is characterized by what its prefixes are, and again the  *)
(* proofs look at the shortest prefix that would be an exception.          *)
(***************************************************************************)
EXTENDS Integers, FiniteSets, SequencesExt, FiniteSetTheorems, TLAPS

Picked(s) == CHOOSE x \in s : TRUE

\* The recursive equation of the fold.
IsSumOf(g, f, S) ==
    g = [s \in SUBSET S |->
            IF s = {} THEN 0 ELSE f[Picked(s)] + g[s \ {Picked(s)}]]
-----------------------------------------------------------------------------
\* A set of finite subsets has a smallest element.
LEMMA SmallestSubset ==
  ASSUME NEW S, IsFiniteSet(S), NEW Bad \in SUBSET (SUBSET S), Bad # {}
  PROVE  \E T \in Bad : \A U \in Bad : U \subseteq T => U = T
<1>1. IsWellFoundedOn(StrictSubsetOrdering(S), SUBSET S)
  BY FS_StrictSubsetOrderingWellFounded, FS_FiniteSubsetsOfFinite
<1>2. PICK T \in Bad : \A U \in Bad : <<U, T>> \notin StrictSubsetOrdering(S)
  BY <1>1, WFMin
<1>3. ASSUME NEW U \in Bad, U \subseteq T PROVE U = T
  BY <1>2, <1>3 DEF StrictSubsetOrdering
<1> QED
  BY <1>2, <1>3

LEMMA FoldIsSum ==
  ASSUME NEW f, NEW S
  PROVE  SumFunctionOnSet(f, S) = (CHOOSE g : IsSumOf(g, f, S))[S]
  BY DEF SumFunctionOnSet, FoldFunctionOnSet, MapThenFoldSet, IsSumOf, Picked

LEMMA PickedInSet == \A s : s # {} => Picked(s) \in s
  BY DEF Picked

\* Two such functions agree wherever both are defined.
LEMMA SumUnique ==
  ASSUME NEW S, IsFiniteSet(S), NEW f, NEW A \in SUBSET S, NEW B \in SUBSET S,
         NEW g, IsSumOf(g, f, A), NEW h, IsSumOf(h, f, B)
  PROVE  \A s \in SUBSET (A \cap B) : g[s] = h[s]
<1> DEFINE Bad == {s \in SUBSET (A \cap B) : g[s] # h[s]}
<1> SUFFICES ASSUME Bad # {} PROVE FALSE
  OBVIOUS
<1>1. PICK T \in Bad : \A U \in Bad : U \subseteq T => U = T
  <2>1. Bad \in SUBSET (SUBSET S)
    OBVIOUS
  <2> HIDE DEF Bad
  <2> QED
    BY <2>1, SmallestSubset
<1>2. CASE T = {}
  BY <1>2 DEF IsSumOf
<1>3. CASE T # {}
  <2> DEFINE x == Picked(T)
  <2>1. x \in T
    BY <1>3, PickedInSet
  <2>2. g[T \ {x}] = h[T \ {x}]
    BY <1>1, <2>1
  <2>3. g[T] = f[x] + g[T \ {x}] /\ h[T] = f[x] + h[T \ {x}]
    BY <1>3 DEF IsSumOf
  <2> QED
    BY <2>2, <2>3
<1> QED
  BY <1>2, <1>3

LEMMA SumExists ==
  ASSUME NEW S, IsFiniteSet(S), NEW f
  PROVE  \A T \in SUBSET S : \E g : IsSumOf(g, f, T)
<1> DEFINE Bad == {T \in SUBSET S : ~ \E g : IsSumOf(g, f, T)}
<1> SUFFICES ASSUME Bad # {} PROVE FALSE
  OBVIOUS
<1>1. PICK T \in Bad : \A U \in Bad : U \subseteq T => U = T
  <2>1. Bad \in SUBSET (SUBSET S)
    OBVIOUS
  <2> HIDE DEF Bad
  <2> QED
    BY <2>1, SmallestSubset
<1> DEFINE G(u) == CHOOSE g : IsSumOf(g, f, u)
           Below(u) == G(u \ {Picked(u)})[u \ {Picked(u)}]
           h == [u \in SUBSET T |-> IF u = {} THEN 0 ELSE f[Picked(u)] + Below(u)]
<1>2. ASSUME NEW u \in SUBSET T, u # T PROVE IsSumOf(G(u), f, u)
  BY <1>1, <1>2
<1> HIDE DEF G
<1>3. ASSUME NEW u \in SUBSET T, u # {}
      PROVE  Below(u) = h[u \ {Picked(u)}]
  <2> DEFINE v == u \ {Picked(u)}
             w == v \ {Picked(v)}
  <2>1. Picked(u) \in u /\ v \in SUBSET T /\ v # T
    BY <1>3, PickedInSet
  <2>2. IsSumOf(G(v), f, v)
    BY <1>2, <2>1
  <2>3. CASE v = {}
    <3>1. G(v)[v] = 0
      BY <2>2, <2>3 DEF IsSumOf
    <3> QED
      BY <2>1, <2>3, <3>1
  <2>4. CASE v # {}
    <3>1. Picked(v) \in v /\ w \in SUBSET T /\ w # T
      BY <2>1, <2>4, PickedInSet
    <3>2. IsSumOf(G(w), f, w)
      BY <1>2, <3>1
    <3>3. G(v)[w] = G(w)[w]
      <4>1. v \in SUBSET S /\ w \in SUBSET S /\ w \in SUBSET (v \cap w)
        BY <2>1
      <4> QED
        BY <2>2, <3>2, <4>1, SumUnique
    <3>4. G(v)[v] = f[Picked(v)] + G(v)[w]
      BY <2>2, <2>4 DEF IsSumOf
    <3>5. h[v] = f[Picked(v)] + G(w)[w]
      BY <2>1, <2>4
    <3> QED
      BY <3>3, <3>4, <3>5
  <2> QED
    BY <2>3, <2>4
<1>4. h = [u \in SUBSET T |->
              IF u = {} THEN 0 ELSE f[Picked(u)] + h[u \ {Picked(u)}]]
  BY <1>3
<1>5. IsSumOf(h, f, T)
  <2> HIDE DEF h
  <2> QED
    BY <1>4 DEF IsSumOf
<1> QED
  BY <1>1, <1>5

\* The value of a sum on a set, one element picked.
LEMMA SumUnfolded ==
  ASSUME NEW S, IsFiniteSet(S), NEW f
  PROVE  /\ SumFunctionOnSet(f, {}) = 0
         /\ S # {} => SumFunctionOnSet(f, S) =
                         f[Picked(S)] + SumFunctionOnSet(f, S \ {Picked(S)})
<1> DEFINE G(u) == CHOOSE g : IsSumOf(g, f, u)
<1>1. \A u : SumFunctionOnSet(f, u) = G(u)[u]
  BY FoldIsSum
<1>2. \A u \in SUBSET S : IsSumOf(G(u), f, u)
  BY SumExists
<1> HIDE DEF G
<1>3. G({})[{}] = 0
  <2>1. IsSumOf(G({}), f, {})
    BY <1>2
  <2> QED
    BY <2>1 DEF IsSumOf
<1>4. ASSUME S # {}
      PROVE  G(S)[S] = f[Picked(S)] + G(S \ {Picked(S)})[S \ {Picked(S)}]
  <2> DEFINE v == S \ {Picked(S)}
  <2>1. IsSumOf(G(S), f, S) /\ IsSumOf(G(v), f, v)
    BY <1>2
  <2>2. G(S)[v] = G(v)[v]
    <3>1. S \in SUBSET S /\ v \in SUBSET S /\ v \in SUBSET (S \cap v)
      OBVIOUS
    <3> QED
      BY <2>1, <3>1, SumUnique
  <2>3. G(S)[S] = f[Picked(S)] + G(S)[v]
    BY <1>4, <2>1 DEF IsSumOf
  <2> QED
    BY <2>2, <2>3
<1> QED
  BY <1>1, <1>3, <1>4
-----------------------------------------------------------------------------
(* The sum of a function that is an integer everywhere is an integer.      *)
LEMMA SumIsInt ==
  ASSUME NEW S, IsFiniteSet(S), NEW f, \A x \in S : f[x] \in Int
  PROVE  SumFunctionOnSet(f, S) \in Int
<1> DEFINE Bad == {T \in SUBSET S : SumFunctionOnSet(f, T) \notin Int}
<1> SUFFICES ASSUME Bad # {} PROVE FALSE
  OBVIOUS
<1>1. PICK T \in Bad : \A U \in Bad : U \subseteq T => U = T
  <2>1. Bad \in SUBSET (SUBSET S)
    OBVIOUS
  <2> HIDE DEF Bad
  <2> QED
    BY <2>1, SmallestSubset
<1>2. IsFiniteSet(T) /\ T \in SUBSET S
  BY FS_Subset
<1>3. T # {}
  <2>1. SumFunctionOnSet(f, {}) = 0
    BY FS_EmptySet, SumUnfolded
  <2> QED
    BY <2>1
<1>4. Picked(T) \in T
  BY <1>3, PickedInSet
<1>5. SumFunctionOnSet(f, T \ {Picked(T)}) \in Int
  BY <1>1, <1>2, <1>4
<1>6. SumFunctionOnSet(f, T) =
         f[Picked(T)] + SumFunctionOnSet(f, T \ {Picked(T)})
  BY <1>2, <1>3, SumUnfolded
<1>7. SumFunctionOnSet(f, T) \in Int
  <2>1. f[Picked(T)] \in Int
    BY <1>2, <1>4
  <2> HIDE DEF Bad
  <2> QED
    BY <1>5, <1>6, <2>1
<1> QED
  BY <1>7

(* Any element may be taken out of a sum, not only the one picked.         *)
LEMMA SumRemove ==
  ASSUME NEW S, IsFiniteSet(S), NEW f, \A x \in S : f[x] \in Int, NEW e \in S
  PROVE  SumFunctionOnSet(f, S) = f[e] + SumFunctionOnSet(f, S \ {e})
<1> DEFINE Out(T, x) ==
             SumFunctionOnSet(f, T) = f[x] + SumFunctionOnSet(f, T \ {x})
           Bad == {T \in SUBSET S : \E x \in T : ~ Out(T, x)}
<1> SUFFICES ASSUME Bad # {} PROVE FALSE
  OBVIOUS
<1>1. PICK T \in Bad : \A U \in Bad : U \subseteq T => U = T
  <2>1. Bad \in SUBSET (SUBSET S)
    OBVIOUS
  <2> HIDE DEF Bad
  <2> QED
    BY <2>1, SmallestSubset
<1>2. IsFiniteSet(T) /\ T \in SUBSET S
  BY FS_Subset
<1>3. PICK x \in T : ~ Out(T, x)
  OBVIOUS
<1> DEFINE p == Picked(T)
<1>4. p \in T /\ Out(T, p)
  BY <1>2, <1>3, PickedInSet, SumUnfolded
<1>5. Out(T \ {p}, x) /\ Out(T \ {x}, p)
  <2>1. T \ {p} \notin Bad /\ T \ {x} \notin Bad
    BY <1>1, <1>3, <1>4
  <2>2. T \ {p} \in SUBSET S /\ T \ {x} \in SUBSET S
    BY <1>2
  <2>3. x # p
    BY <1>3, <1>4
  <2> QED
    BY <1>3, <1>4, <2>1, <2>2, <2>3
<1> DEFINE rest == SumFunctionOnSet(f, (T \ {p}) \ {x})
<1>6. /\ SumFunctionOnSet(f, T) = f[p] + SumFunctionOnSet(f, T \ {p})
      /\ SumFunctionOnSet(f, T \ {p}) = f[x] + rest
      /\ SumFunctionOnSet(f, T \ {x}) = f[p] + rest
  <2>1. (T \ {x}) \ {p} = (T \ {p}) \ {x}
    OBVIOUS
  <2> QED
    BY <1>4, <1>5, <2>1
<1>7. f[p] \in Int /\ f[x] \in Int /\ rest \in Int
  <2>1. (T \ {p}) \ {x} \in SUBSET S
    BY <1>2
  <2> QED
    BY <1>2, <1>3, <1>4, <2>1, FS_Subset, SumIsInt
<1>8. Out(T, x)
  BY <1>6, <1>7
<1> QED
  BY <1>3, <1>8

(* A new element adds its value.                                           *)
LEMMA SumAdd ==
  ASSUME NEW S, IsFiniteSet(S), NEW f, NEW e, e \notin S,
         \A x \in S \cup {e} : f[x] \in Int
  PROVE  SumFunctionOnSet(f, S \cup {e}) = f[e] + SumFunctionOnSet(f, S)
<1>1. IsFiniteSet(S \cup {e})
  BY FS_AddElement
<1>2. (S \cup {e}) \ {e} = S
  OBVIOUS
<1> QED
  BY <1>1, <1>2, SumRemove

(* The sum depends on the values of its elements only.                     *)
LEMMA SumSame ==
  ASSUME NEW S, IsFiniteSet(S), NEW f, NEW h, \A x \in S : f[x] = h[x]
  PROVE  SumFunctionOnSet(f, S) = SumFunctionOnSet(h, S)
<1> DEFINE Bad == {T \in SUBSET S :
                      SumFunctionOnSet(f, T) # SumFunctionOnSet(h, T)}
<1> SUFFICES ASSUME Bad # {} PROVE FALSE
  OBVIOUS
<1>1. PICK T \in Bad : \A U \in Bad : U \subseteq T => U = T
  <2>1. Bad \in SUBSET (SUBSET S)
    OBVIOUS
  <2> HIDE DEF Bad
  <2> QED
    BY <2>1, SmallestSubset
<1>2. IsFiniteSet(T) /\ T \in SUBSET S
  BY FS_Subset
<1>3. T # {}
  BY <1>2, SumUnfolded
<1>4. Picked(T) \in T
  BY <1>3, PickedInSet
<1>5. SumFunctionOnSet(f, T \ {Picked(T)}) = SumFunctionOnSet(h, T \ {Picked(T)})
  BY <1>1, <1>2, <1>4
<1> QED
  BY <1>2, <1>3, <1>4, <1>5, SumUnfolded

(* Without negative values a sum is a natural number ...                   *)
LEMMA SumIsNat ==
  ASSUME NEW S, IsFiniteSet(S), NEW f, \A x \in S : f[x] \in Nat
  PROVE  SumFunctionOnSet(f, S) \in Nat
<1> DEFINE Bad == {T \in SUBSET S : SumFunctionOnSet(f, T) \notin Nat}
<1> SUFFICES ASSUME Bad # {} PROVE FALSE
  OBVIOUS
<1>1. PICK T \in Bad : \A U \in Bad : U \subseteq T => U = T
  <2>1. Bad \in SUBSET (SUBSET S)
    OBVIOUS
  <2> HIDE DEF Bad
  <2> QED
    BY <2>1, SmallestSubset
<1>2. IsFiniteSet(T) /\ T \in SUBSET S
  BY FS_Subset
<1>3. T # {}
  <2>1. SumFunctionOnSet(f, {}) = 0
    BY FS_EmptySet, SumUnfolded
  <2> QED
    BY <2>1
<1>4. Picked(T) \in T
  BY <1>3, PickedInSet
<1>5. SumFunctionOnSet(f, T \ {Picked(T)}) \in Nat
  BY <1>1, <1>2, <1>4
<1>6. SumFunctionOnSet(f, T) =
         f[Picked(T)] + SumFunctionOnSet(f, T \ {Picked(T)})
  BY <1>2, <1>3, SumUnfolded
<1>7. SumFunctionOnSet(f, T) \in Nat
  <2>1. f[Picked(T)] \in Nat
    BY <1>2, <1>4
  <2> HIDE DEF Bad
  <2> QED
    BY <1>5, <1>6, <2>1
<1> QED
  BY <1>7

(* ... and no smaller than any of its elements, or any two of them.        *)
LEMMA SumAtLeast ==
  ASSUME NEW S, IsFiniteSet(S), NEW f, \A x \in S : f[x] \in Nat, NEW e \in S
  PROVE  /\ f[e] <= SumFunctionOnSet(f, S)
         /\ \A x \in S \ {e} : f[e] + f[x] <= SumFunctionOnSet(f, S)
<1>1. IsFiniteSet(S \ {e})
  BY FS_RemoveElement
<1>2. SumFunctionOnSet(f, S) = f[e] + SumFunctionOnSet(f, S \ {e})
  BY SumRemove
<1>3. SumFunctionOnSet(f, S \ {e}) \in Nat
  BY <1>1, SumIsNat
<1>4. ASSUME NEW x \in S \ {e}
      PROVE  f[x] <= SumFunctionOnSet(f, S \ {e})
  <2>1. IsFiniteSet((S \ {e}) \ {x})
    BY <1>1, FS_RemoveElement
  <2>2. SumFunctionOnSet(f, (S \ {e}) \ {x}) \in Nat
    BY <2>1, SumIsNat
  <2>3. SumFunctionOnSet(f, S \ {e}) =
           f[x] + SumFunctionOnSet(f, (S \ {e}) \ {x})
    BY <1>1, SumRemove
  <2> QED
    BY <2>2, <2>3
<1>5. f[e] \in Nat
  OBVIOUS
<1>6. f[e] <= SumFunctionOnSet(f, S)
  BY <1>2, <1>3, <1>5
<1>7. ASSUME NEW x \in S \ {e}
      PROVE  f[e] + f[x] <= SumFunctionOnSet(f, S)
  <2>1. f[x] \in Nat
    OBVIOUS
  <2>2. f[x] <= SumFunctionOnSet(f, S \ {e})
    BY <1>4
  <2> QED
    BY <1>2, <1>3, <1>5, <2>1, <2>2
<1> QED
  BY <1>6, <1>7
-----------------------------------------------------------------------------
(* Sets of numbers up to n have a smallest and a largest element.          *)
LEMMA SmallestNumber ==
  ASSUME NEW n \in Nat, NEW Bad \in SUBSET (0..n), Bad # {}
  PROVE  \E m \in Bad : \A k \in Bad : m <= k
<1> DEFINE Initial == {1..m : m \in Bad}
<1>1. Initial \in SUBSET (SUBSET (1..n)) /\ Initial # {} /\ IsFiniteSet(1..n)
  <2>1. IsFiniteSet(1..n)
    BY FS_Interval
  <2>2. ASSUME NEW m \in Bad PROVE 1..m \in SUBSET (1..n)
    OBVIOUS
  <2> QED
    BY <2>1, <2>2
<1>2. PICK T \in Initial : \A U \in Initial : U \subseteq T => U = T
  <2> DEFINE S == 1..n
  <2>1. Initial \in SUBSET (SUBSET S) /\ Initial # {} /\ IsFiniteSet(S)
    BY <1>1
  <2> HIDE DEF Initial, S
  <2> QED
    BY <2>1, SmallestSubset
<1>3. PICK m \in Bad : T = 1..m
  OBVIOUS
<1>4. ASSUME NEW k \in Bad, k < m PROVE FALSE
  <2>1. 1..k \in Initial /\ 1..k \subseteq T
    BY <1>3, <1>4
  <2>2. 1..k = T
    BY <1>2, <2>1
  <2>3. m \in T /\ m \notin 1..k
    BY <1>3, <1>4
  <2> QED
    BY <2>2, <2>3
<1> QED
  BY <1>4

\* ... and Min and Max return them.
LEMMA MaxMin ==
  ASSUME NEW n \in Nat, NEW S \in SUBSET (0..n), S # {}
  PROVE  /\ Max(S) \in S /\ \A x \in S : Max(S) >= x
         /\ Min(S) \in S /\ \A x \in S : Min(S) <= x
<1>1. \E x \in S : \A y \in S : x <= y
  BY SmallestNumber
<1>2. \E x \in S : \A y \in S : x >= y
  <2> DEFINE Mirror == {n - x : x \in S}
  <2>1. Mirror \in SUBSET (0..n) /\ Mirror # {}
    <3>1. \A x \in S : n - x \in 0..n
      OBVIOUS
    <3> QED
      BY <3>1
  <2>2. \A x \in S : n - x \in Mirror
    OBVIOUS
  <2>3. \A m \in Mirror : \E x \in S : m = n - x
    OBVIOUS
  <2> HIDE DEF Mirror
  <2>4. PICK m \in Mirror : \A k \in Mirror : m <= k
    BY <2>1, SmallestNumber
  <2>5. PICK x \in S : m = n - x
    BY <2>3
  <2>6. ASSUME NEW y \in S PROVE x >= y
    <3>1. m <= n - y
      BY <2>2, <2>4
    <3> QED
      BY <2>5, <3>1
  <2> QED
    BY <2>6
<1>3. Max(S) \in S /\ \A x \in S : Max(S) >= x
  BY <1>2 DEF Max
<1>4. Min(S) \in S /\ \A x \in S : Min(S) <= x
  BY <1>1 DEF Min
<1> QED
  BY <1>3, <1>4
-----------------------------------------------------------------------------
(* Concatenations: FlattenSeq is a recursion on the numbers 1 to n.        *)
IsFlat(g, seqs, n) ==
    g = [i \in 1..n |-> IF i = 1 THEN seqs[i] ELSE g[i - 1] \o seqs[i]]

\* Two such functions agree on the sequences they share.
LEMMA FlatUnique ==
  ASSUME NEW n \in Nat, NEW m, m = n + 1,
         NEW seqs, NEW other, \A i \in 1..n : seqs[i] = other[i],
         NEW g, IsFlat(g, seqs, n), NEW h, IsFlat(h, other, m)
  PROVE  \A i \in 1..n : g[i] = h[i]
<1> DEFINE Bad == {i \in 1..n : g[i] # h[i]}
<1> SUFFICES ASSUME Bad # {} PROVE FALSE
  OBVIOUS
<1>1. PICK i \in Bad : \A j \in Bad : i <= j
  <2>1. Bad \in SUBSET (0..n)
    OBVIOUS
  <2> HIDE DEF Bad
  <2> QED
    BY <2>1, SmallestNumber
<1>2. /\ i \in 1..n /\ i \in 1..m /\ seqs[i] = other[i]
      /\ g[i] # h[i]
  OBVIOUS
<1>3. /\ g[i] = IF i = 1 THEN seqs[i] ELSE g[i - 1] \o seqs[i]
      /\ h[i] = IF i = 1 THEN other[i] ELSE h[i - 1] \o other[i]
  BY <1>2 DEF IsFlat
<1>4. CASE i = 1
  BY <1>2, <1>3, <1>4
<1>5. CASE i # 1
  <2>1. i - 1 \in 1..n /\ i - 1 < i
    BY <1>2, <1>5
  <2>2. g[i - 1] = h[i - 1]
    BY <1>1, <2>1
  <2> QED
    BY <1>2, <1>3, <1>5, <2>2
<1> QED
  BY <1>4, <1>5

LEMMA FlatExists ==
  ASSUME NEW n \in Nat, NEW seqs
  PROVE  \E g : IsFlat(g, seqs, n)
<1> DEFINE Bad == {m \in 0..n : ~ \E g : IsFlat(g, seqs, m)}
<1> SUFFICES ASSUME Bad # {} PROVE FALSE
  OBVIOUS
<1>1. PICK m \in Bad : \A k \in Bad : m <= k
  <2>1. Bad \in SUBSET (0..n)
    OBVIOUS
  <2> HIDE DEF Bad
  <2> QED
    BY <2>1, SmallestNumber
<1>2. m \in 0..n /\ ~ \E g : IsFlat(g, seqs, m)
  OBVIOUS
<1>3. CASE m = 0
  <2> DEFINE h == [i \in 1..0 |-> << >>]
  <2>1. IsFlat(h, seqs, 0)
    BY DEF IsFlat
  <2> QED
    BY <1>2, <1>3, <2>1
<1>4. CASE m # 0
  <2>1. m - 1 \in 0..n /\ m - 1 \notin Bad
    BY <1>1, <1>2, <1>4
  <2>2. PICK g : IsFlat(g, seqs, m - 1)
    BY <2>1
  <2> DEFINE h == [i \in 1..m |-> IF i = 1 THEN seqs[i] ELSE g[i - 1] \o seqs[i]]
  <2>3. ASSUME NEW i \in 1..m, i # 1 PROVE h[i - 1] = g[i - 1]
    <3>1. i - 1 \in 1..(m - 1) /\ i - 1 \in 1..m
      BY <1>2, <2>3
    <3>2. /\ g[i - 1] = IF i - 1 = 1 THEN seqs[i - 1]
                                     ELSE g[i - 1 - 1] \o seqs[i - 1]
          /\ h[i - 1] = IF i - 1 = 1 THEN seqs[i - 1]
                                     ELSE g[i - 1 - 1] \o seqs[i - 1]
      BY <2>2, <3>1 DEF IsFlat
    <3> QED
      BY <3>2
  <2>4. IsFlat(h, seqs, m)
    <3>1. \A i \in 1..m : (IF i = 1 THEN seqs[i] ELSE g[i - 1] \o seqs[i])
                             = (IF i = 1 THEN seqs[i] ELSE h[i - 1] \o seqs[i])
      BY <2>3
    <3> QED
      BY <3>1 DEF IsFlat
  <2> QED
    BY <1>2, <2>4
<1> QED
  BY <1>3, <1>4

LEMMA FlattenIsFlat ==
  ASSUME NEW seqs, Len(seqs) \in Nat \ {0}
  PROVE  \E g : IsFlat(g, seqs, Len(seqs)) /\ FlattenSeq(seqs) = g[Len(seqs)]
<1> DEFINE g == CHOOSE g : IsFlat(g, seqs, Len(seqs))
<1>1. FlattenSeq(seqs) = g[Len(seqs)]
  BY DEF FlattenSeq, IsFlat
<1>2. IsFlat(g, seqs, Len(seqs))
  BY FlatExists
<1> HIDE DEF g
<1> QED
  BY <1>1, <1>2

\* The concatenation of no sequences, and of one more.
LEMMA FlattenEmpty == FlattenSeq(<< >>) = << >>
  BY DEF FlattenSeq

LEMMA FlattenTyped ==
  ASSUME NEW M, NEW seqs \in Seq(Seq(M))
  PROVE  FlattenSeq(seqs) \in Seq(M)
<1>1. Len(seqs) \in Nat /\ \A i \in 1..Len(seqs) : seqs[i] \in Seq(M)
  OBVIOUS
<1>2. CASE Len(seqs) = 0
  BY <1>2 DEF FlattenSeq
<1>3. CASE Len(seqs) # 0
  <2>1. PICK g : IsFlat(g, seqs, Len(seqs)) /\ FlattenSeq(seqs) = g[Len(seqs)]
    BY <1>1, <1>3, FlattenIsFlat
  <2> DEFINE n == Len(seqs)
             Bad == {i \in 1..n : g[i] \notin Seq(M)}
  <2> HIDE DEF n
  <2>2. n \in Nat \ {0} /\ \A i \in 1..n : seqs[i] \in Seq(M)
    BY <1>1, <1>3 DEF n
  <2>3. ASSUME Bad # {} PROVE FALSE
    <3>1. PICK i \in Bad : \A j \in Bad : i <= j
      <4>1. Bad \in SUBSET (0..n)
        BY <2>2
      <4> HIDE DEF Bad
      <4> QED
        BY <2>2, <2>3, <4>1, SmallestNumber
    <3>2. g[i] = IF i = 1 THEN seqs[i] ELSE g[i - 1] \o seqs[i]
      BY <2>1 DEF IsFlat, n
    <3>3. CASE i = 1
      BY <2>2, <3>2, <3>3
    <3>4. CASE i # 1
      <4>1. i - 1 \in 1..n /\ i - 1 \notin Bad
        BY <2>2, <3>1, <3>4
      <4>2. g[i - 1] \in Seq(M) /\ seqs[i] \in Seq(M)
        BY <2>2, <4>1
      <4>3. g[i - 1] \o seqs[i] \in Seq(M)
        BY <4>2
      <4> QED
        BY <3>2, <3>4, <4>3
    <3> QED
      BY <3>3, <3>4
  <2>4. n \in 1..n
    BY <2>2
  <2>5. g[n] \in Seq(M)
    BY <2>3, <2>4
  <2> QED
    BY <2>1, <2>5 DEF n
<1> QED
  BY <1>2, <1>3

LEMMA FlattenAppended ==
  ASSUME NEW M, NEW seqs \in Seq(Seq(M)), NEW e \in Seq(M)
  PROVE  FlattenSeq(Append(seqs, e)) = FlattenSeq(seqs) \o e
<1> DEFINE more == Append(seqs, e)
           n == Len(seqs)
<1>1. /\ n \in Nat /\ Len(more) = n + 1 /\ more[n + 1] = e
      /\ \A i \in 1..n : more[i] = seqs[i]
  OBVIOUS
<1> HIDE DEF more, n
<1>0. n \in Nat
  BY <1>1
<1>2. PICK h : IsFlat(h, more, n + 1) /\ FlattenSeq(more) = h[n + 1]
  <2>1. Len(more) \in Nat \ {0}
    BY <1>1
  <2>2. \E h : IsFlat(h, more, Len(more)) /\ FlattenSeq(more) = h[Len(more)]
    BY <2>1, FlattenIsFlat
  <2> QED
    BY <1>1, <2>2
<1>3. h[n + 1] = IF n + 1 = 1 THEN more[n + 1] ELSE h[n] \o more[n + 1]
  <2> DEFINE m == n + 1
  <2>1. m \in 1..m /\ m - 1 = n
    BY <1>0
  <2>2. IsFlat(h, more, m)
    BY <1>2
  <2> HIDE DEF m
  <2>3. h[m] = IF m = 1 THEN more[m] ELSE h[m - 1] \o more[m]
    BY <2>1, <2>2 DEF IsFlat
  <2> QED
    BY <2>1, <2>3 DEF m
<1>4. CASE n = 0
  <2>1. seqs = << >>
    BY <1>4 DEF n
  <2>2. FlattenSeq(more) = e
    BY <1>1, <1>2, <1>3, <1>4
  <2>3. << >> \o e = e
    OBVIOUS
  <2> QED
    BY <2>1, <2>2, <2>3, FlattenEmpty DEF more
<1>5. CASE n # 0
  <2>1. PICK g : IsFlat(g, seqs, n) /\ FlattenSeq(seqs) = g[n]
    BY <1>1, <1>5, FlattenIsFlat DEF n
  <2>2. \A i \in 1..n : h[i] = g[i]
    <3> DEFINE m == n + 1
    <3>1. m = n + 1
      OBVIOUS
    <3>2. IsFlat(h, more, m)
      BY <1>2
    <3>3. \A i \in 1..n : seqs[i] = more[i]
      BY <1>1
    <3>4. n \in Nat /\ IsFlat(g, seqs, n)
      BY <1>1, <2>1
    <3> HIDE DEF m
    <3> QED
      BY <3>1, <3>2, <3>3, <3>4, FlatUnique
  <2>3. n + 1 # 1 /\ n + 1 - 1 = n /\ n \in 1..n
    BY <1>1, <1>5
  <2>4. FlattenSeq(more) = h[n] \o e /\ h[n] = g[n]
    BY <1>1, <1>2, <1>3, <2>2, <2>3
  <2> QED
    BY <2>1, <2>4 DEF more
<1> QED
  BY <1>4, <1>5
=============================================================================
