------------------------- MODULE GenericReduceProofs ------------------------
(***************************************************************************)
(* For every size of the input, and every size of the workgroups that is a *)
(* power of two from 2 to 1024: the work items of a group do not race on   *)
(* its local memory, and the result has every element of the input once.   *)
(*                                                                         *)
(* A tiling gives every element of the input to one of several places,     *)
(* once.  The shares of the work items of a pass are a tiling when its     *)
(* input is; so is what the items hold at any moment, because a round of   *)
(* combining only moves it; and so are the results of the groups, which    *)
(* are the input of the next pass.                                         *)
(***************************************************************************)
EXTENDS GenericReduce, FoldLemmas, SequenceTheorems

\* The powers of two, one by one: the provers evaluate them, and know no more
\* of exponents.
LEMMA Powers ==
  {2 ^ k : k \in 0..10} = {1, 2, 4, 8, 16, 32, 64, 128, 256, 512, 1024}
<1> DEFINE Power == [k \in 0..10 |-> 2 ^ k]
<1>1. /\ Power[0] = 1 /\ Power[1] = 2 /\ Power[2] = 4 /\ Power[3] = 8
      /\ Power[4] = 16 /\ Power[5] = 32 /\ Power[6] = 64 /\ Power[7] = 128
      /\ Power[8] = 256 /\ Power[9] = 512 /\ Power[10] = 1024
  BY SMT
<1>2. \A k \in 0..10 : Power[k] = 2 ^ k
  OBVIOUS
<1> HIDE DEF Power
<1>3. \A k \in 0..10 : Power[k] \in {1, 2, 4, 8, 16, 32, 64, 128, 256, 512, 1024}
  BY <1>1
<1>4. \A m \in {1, 2, 4, 8, 16, 32, 64, 128, 256, 512, 1024} :
         \E k \in 0..10 : m = Power[k]
  BY <1>1
<1> QED
  BY <1>2, <1>3, <1>4
-----------------------------------------------------------------------------
(* Division.                                                               *)
LEMMA Division ==
  ASSUME NEW a \in Nat, NEW b \in Nat \ {0}
  PROVE  /\ a \div b \in Nat /\ a % b \in 0..(b - 1)
         /\ a = (a \div b) * b + (a % b)
OBVIOUS

LEMMA OneQuotient ==
  ASSUME NEW b \in Nat \ {0}, NEW q \in Int, NEW r \in Int,
         NEW c \in 0..(b - 1), NEW d \in 0..(b - 1), q * b + c = r * b + d
  PROVE  q = r /\ c = d
<1>1. \A x, y \in Int : x < y => x * b + b <= y * b
  <2> SUFFICES ASSUME NEW x \in Int, NEW y \in Int, x < y PROVE x * b + b <= y * b
    OBVIOUS
  <2>1. y - x - 1 \in Nat
    OBVIOUS
  <2>2. (y - x - 1) * b >= 0
    BY <2>1
  <2>3. (y - x - 1) * b = y * b - x * b - b
    OBVIOUS
  <2>4. x * b \in Int /\ y * b \in Int
    OBVIOUS
  <2> QED
    BY <2>2, <2>3, <2>4
<1>2. q * b \in Int /\ r * b \in Int
  OBVIOUS
<1>3. ~ q < r /\ ~ r < q
  BY <1>1, <1>2
<1>4. q = r
  BY <1>3
<1> QED
  BY <1>2, <1>4

\* The position of the i-th value of an item in the input of a pass.
Position(g, l, i, groups, tpb) == g * tpb + l + (i - 1) * (groups * tpb)

LEMMA PositionsDiffer ==
  ASSUME NEW groups \in Nat \ {0}, NEW tpb \in Nat \ {0},
         NEW g \in 0..(groups - 1), NEW l \in 0..(tpb - 1), NEW i \in Nat \ {0},
         NEW h \in 0..(groups - 1), NEW k \in 0..(tpb - 1), NEW j \in Nat \ {0},
         Position(g, l, i, groups, tpb) = Position(h, k, j, groups, tpb)
  PROVE  g = h /\ l = k /\ i = j
<1> DEFINE m == (i - 1) * groups + g
           n == (j - 1) * groups + h
<1>1. m \in Int /\ n \in Int /\ i - 1 \in Int /\ j - 1 \in Int
  OBVIOUS
<1>2. /\ Position(g, l, i, groups, tpb) = m * tpb + l
      /\ Position(h, k, j, groups, tpb) = n * tpb + k
  BY DEF Position
<1> HIDE DEF m, n
<1>3. m = n /\ l = k
  BY <1>1, <1>2, OneQuotient
<1>4. i - 1 = j - 1 /\ g = h
  BY <1>1, <1>3, OneQuotient DEF m, n
<1> QED
  BY <1>1, <1>3, <1>4

LEMMA EveryPositionTaken ==
  ASSUME NEW groups \in Nat \ {0}, NEW tpb \in Nat \ {0}, NEW n \in Nat,
         NEW at \in 0..(n - 1)
  PROVE  \E g \in 0..(groups - 1), l \in 0..(tpb - 1),
            i \in 1..ValuesPerThread(n, groups * tpb) :
               at = Position(g, l, i, groups, tpb)
<1> DEFINE m == at \div tpb
           l == at % tpb
           q == m \div groups
           g == m % groups
           all == groups * tpb
<1>0. at \in Nat /\ tpb \in Nat \ {0}
  OBVIOUS
<1>1. m \in Nat /\ l \in 0..(tpb - 1) /\ at = m * tpb + l
  BY <1>0, Division
<1> HIDE DEF m, l
<1>2. q \in Nat /\ g \in 0..(groups - 1) /\ m = q * groups + g
  BY <1>1, Division
<1> HIDE DEF q, g
<1>3. at = Position(g, l, q + 1, groups, tpb)
  <2>1. m * tpb = (q * groups) * tpb + g * tpb
    BY <1>2
  <2>2. (q * groups) * tpb = q * (groups * tpb) /\ q + 1 - 1 = q
    BY <1>2
  <2>3. g * tpb \in Int /\ q * (groups * tpb) \in Int
    BY <1>2
  <2>4. Position(g, l, q + 1, groups, tpb) = g * tpb + l + q * (groups * tpb)
    <3>1. \A x : x = q + 1 => x - 1 = q
      BY <1>2
    <3>2. \A x : Position(g, l, x, groups, tpb)
                    = g * tpb + l + (x - 1) * (groups * tpb)
      BY Zenon DEF Position
    <3> QED
      BY <3>1, <3>2, Zenon
  <2>5. \A x, y, z \in Int : at = x + l /\ x = y + z => at = z + l + y
    BY <1>1
  <2>6. m * tpb \in Int /\ m * tpb = q * (groups * tpb) + g * tpb
    BY <1>1, <2>1, <2>2
  <2> QED
    BY <1>1, <2>3, <2>4, <2>5, <2>6
<1>4. all \in Nat \ {0}
  OBVIOUS
<1>5. q * all <= at
  <2>1. at = g * tpb + l + q * all
    BY <1>2, <1>3 DEF Position
  <2>2. g * tpb \in Nat /\ q * all \in Nat
    BY <1>2, <1>4
  <2> HIDE DEF all
  <2> QED
    BY <1>1, <2>1, <2>2
<1> HIDE DEF all
<1>6. /\ n \div all \in Nat /\ n % all \in 0..(all - 1)
      /\ n = (n \div all) * all + (n % all)
  BY <1>4, Division
<1> DEFINE d == n \div all
<1>7. q <= d /\ (n % all = 0 => q < d)
  <2> HIDE DEF d
  <2>0. d \in Nat /\ n = d * all + (n % all) /\ n % all \in 0..(all - 1)
    BY <1>6 DEF d
  <2>1. d * all \in Nat /\ q * all \in Nat
    BY <1>2, <1>4, <2>0
  <2>2. ASSUME q > d PROVE FALSE
    <3>1. q - d - 1 \in Nat
      BY <1>2, <2>0, <2>2
    <3>2. (q - d - 1) * all >= 0
      BY <1>4, <3>1
    <3>3. (q - d - 1) * all = q * all - d * all - all
      BY <1>2, <1>4, <2>0
    <3> QED
      BY <1>4, <1>5, <2>0, <2>1, <3>2, <3>3
  <2>3. ASSUME n % all = 0, q = d PROVE FALSE
    BY <1>5, <2>0, <2>1, <2>3
  <2> QED
    BY <1>2, <2>0, <2>2, <2>3
<1>8. q + 1 \in 1..ValuesPerThread(n, groups * tpb)
  BY <1>2, <1>6, <1>7 DEF ValuesPerThread, all
<1> QED
  BY <1>1, <1>2, <1>3, <1>8
-----------------------------------------------------------------------------
(* Values: sequences without repetitions of the positions of the input.    *)
IsValue(v, S) ==
    v \in Seq(S) /\ \A a, b \in DOMAIN v : v[a] = v[b] => a = b

Apart(v, w) == \A x \in ToSet(v) : x \notin ToSet(w)

\* What is in u is in v or in w.
Joins(u, v, w) == ToSet(u) = ToSet(v) \cup ToSet(w)

LEMMA EmptyValue == \A S : IsValue(<< >>, S) /\ ToSet(<< >>) = {}
  BY DEF IsValue, ToSet

LEMMA OneValue ==
  ASSUME NEW S, NEW x \in S
  PROVE  IsValue(<<x>>, S) /\ ToSet(<<x>>) = {x}
  BY DEF IsValue, ToSet

LEMMA CombinedValue ==
  ASSUME NEW S, NEW v, NEW w, IsValue(v, S), IsValue(w, S), Apart(v, w)
  PROVE  IsValue(v \o w, S) /\ Joins(v \o w, v, w)
<1> DEFINE m == Len(v)
           n == Len(w)
           c == v \o w
<1>1. /\ v \in Seq(S) /\ w \in Seq(S) /\ m \in Nat /\ n \in Nat
      /\ DOMAIN v = 1..m /\ DOMAIN w = 1..n
  BY DEF IsValue
<1>2. /\ c \in Seq(S) /\ DOMAIN c = 1..(m + n)
      /\ \A a \in 1..m : c[a] = v[a]
      /\ \A a \in 1..(m + n) : a > m => a - m \in 1..n /\ c[a] = w[a - m]
  BY <1>1
<1> HIDE DEF m, n, c
<1>3. \A a \in 1..m : v[a] \in ToSet(v)
  BY <1>1 DEF ToSet
<1>4. \A b \in 1..n : w[b] \in ToSet(w)
  BY <1>1 DEF ToSet
<1>5. ASSUME NEW a \in 1..(m + n), NEW b \in 1..(m + n), c[a] = c[b]
      PROVE  a = b
  <2>1. CASE a <= m /\ b <= m
    <3>1. a \in 1..m /\ b \in 1..m
      BY <1>1, <2>1
    <3> QED
      BY <1>1, <1>2, <1>5, <3>1 DEF IsValue
  <2>2. CASE a > m /\ b > m
    <3>0. /\ a - m \in 1..n /\ c[a] = w[a - m]
          /\ b - m \in 1..n /\ c[b] = w[b - m]
      BY <1>2, <2>2
    <3>1. a - m = b - m
      <4>1. \A x, y \in 1..n : w[x] = w[y] => x = y
        BY <1>1 DEF IsValue
      <4> QED
        BY <1>5, <3>0, <4>1
    <3> QED
      BY <1>1, <3>1
  <2>3. CASE a <= m /\ b > m
    <3>1. a \in 1..m
      BY <1>1, <2>3
    <3>2. c[a] \in ToSet(v) /\ c[b] \in ToSet(w)
      BY <1>2, <1>3, <1>4, <2>3, <3>1
    <3> QED
      BY <1>5, <3>2 DEF Apart
  <2>4. CASE a > m /\ b <= m
    <3>1. b \in 1..m
      BY <1>1, <2>4
    <3>2. c[b] \in ToSet(v) /\ c[a] \in ToSet(w)
      BY <1>2, <1>3, <1>4, <2>4, <3>1
    <3> QED
      BY <1>5, <3>2 DEF Apart
  <2> QED
    BY <1>1, <2>1, <2>2, <2>3, <2>4
<1>6. ToSet(c) = ToSet(v) \cup ToSet(w)
  <2>1. ASSUME NEW x \in ToSet(c) PROVE x \in ToSet(v) \cup ToSet(w)
    <3>1. PICK a \in 1..(m + n) : x = c[a]
      BY <1>2 DEF ToSet
    <3>2. CASE a <= m
      <4>1. a \in 1..m
        BY <1>1, <3>2
      <4> QED
        BY <1>2, <1>3, <3>1, <4>1
    <3>3. CASE a > m
      BY <1>2, <1>4, <3>1, <3>3
    <3> QED
      BY <1>1, <3>2, <3>3
  <2>2. ASSUME NEW x \in ToSet(v) PROVE x \in ToSet(c)
    <3>1. PICK a \in 1..m : x = v[a]
      BY <1>1 DEF ToSet
    <3>2. a \in 1..(m + n) /\ c[a] = x
      BY <1>1, <1>2, <3>1
    <3> QED
      BY <1>2, <3>2 DEF ToSet
  <2>3. ASSUME NEW x \in ToSet(w) PROVE x \in ToSet(c)
    <3>1. PICK b \in 1..n : x = w[b]
      BY <1>1 DEF ToSet
    <3> DEFINE e == b + m
    <3>3. e \in 1..(m + n) /\ e > m /\ e - m = b
      BY <1>1
    <3> HIDE DEF e
    <3>4. c[e] = x
      BY <1>2, <3>1, <3>3
    <3> QED
      BY <1>2, <3>3, <3>4 DEF ToSet
  <2> QED
    BY <2>1, <2>2, <2>3
<1>7. IsValue(c, S)
  BY <1>2, <1>5 DEF IsValue
<1> QED
  BY <1>6, <1>7 DEF c, Joins

\* f is a sequence of n entries.
HasLength(f, n) == f = [i \in 1..n |-> f[i]]

\* Values with nothing in common make one value, with what is in any of them.
LEMMA FlattenedValues ==
  ASSUME NEW S, NEW n \in Nat, NEW f, HasLength(f, n),
         \A i \in 1..n : IsValue(f[i], S),
         \A i, j \in 1..n : i # j => Apart(f[i], f[j])
  PROVE  /\ IsValue(FlattenSeq(f), S)
         /\ \A x : x \in ToSet(FlattenSeq(f)) <=> \E i \in 1..n : x \in ToSet(f[i])
<1> DEFINE Prefix(k) == [i \in 1..k |-> f[i]]
           Flat(k) == FlattenSeq(Prefix(k))
           Good(k) == /\ IsValue(Flat(k), S)
                      /\ \A x : x \in ToSet(Flat(k)) <=>
                                   \E i \in 1..k : x \in ToSet(f[i])
           Bad == {k \in 0..n : ~ Good(k)}
<1>1. Flat(n) = FlattenSeq(f)
  BY DEF HasLength
<1>2. Good(0)
  <2>1. Prefix(0) = << >>
    OBVIOUS
  <2>2. Flat(0) = << >>
    BY <2>1, FlattenEmpty
  <2> HIDE DEF Flat
  <2> QED
    BY <2>2, EmptyValue
<1>3. ASSUME NEW k \in 0..n, k # 0, Good(k - 1) PROVE Good(k)
  <2>1. k - 1 \in 0..n /\ k \in 1..n /\ k - 1 + 1 = k
    BY <1>3
  <2>2. Prefix(k - 1) \in Seq(Seq(S)) /\ f[k] \in Seq(S)
    <3>1. \A i \in 1..n : f[i] \in Seq(S)
      BY DEF IsValue
    <3>2. k - 1 \in Nat /\ \A i \in 1..(k - 1) : i \in 1..n
      BY <2>1
    <3> DEFINE p == k - 1
               T == Seq(S)
    <3>3. p \in Nat /\ \A i \in 1..p : f[i] \in T
      BY <3>1, <3>2
    <3> HIDE DEF p, T
    <3>4. [i \in 1..p |-> f[i]] \in Seq(T)
      <4>1. [i \in 1..p |-> f[i]] \in [1..p -> T]
        BY <3>3
      <4> QED
        BY <3>3, <4>1, SeqDef
    <3> QED
      BY <2>1, <3>1, <3>4 DEF p, T
  <2>3. Prefix(k) = Append(Prefix(k - 1), f[k])
    BY <2>1, <2>2
  <2>4. Flat(k) = Flat(k - 1) \o f[k]
    BY <2>2, <2>3, FlattenAppended
  <2> HIDE DEF Flat, Prefix
  <2>5. Apart(Flat(k - 1), f[k])
    BY <1>3, <2>1 DEF Apart
  <2>6. /\ IsValue(Flat(k), S)
        /\ ToSet(Flat(k)) = ToSet(Flat(k - 1)) \cup ToSet(f[k])
    <3>1. IsValue(Flat(k - 1), S) /\ IsValue(f[k], S)
      BY <1>3, <2>1
    <3>2. IsValue(Flat(k), S) /\ Joins(Flat(k), Flat(k - 1), f[k])
      BY <2>4, <2>5, <3>1, CombinedValue
    <3> QED
      BY <3>2 DEF Joins
  <2>7. ASSUME NEW x
        PROVE  x \in ToSet(Flat(k)) <=> \E i \in 1..k : x \in ToSet(f[i])
    <3>1. \A i : i \in 1..k <=> i \in 1..(k - 1) \/ i = k
      BY <2>1
    <3> QED
      BY <1>3, <2>6, <3>1
  <2> QED
    BY <2>6, <2>7
<1> HIDE DEF Good
<1>4. ASSUME Bad # {} PROVE FALSE
  <2>1. PICK k \in Bad : \A j \in Bad : k <= j
    <3>1. Bad \in SUBSET (0..n)
      OBVIOUS
    <3> HIDE DEF Bad
    <3> QED
      BY <1>4, <3>1, SmallestNumber
  <2>2. k \in 0..n /\ ~ Good(k) /\ k # 0
    BY <1>2
  <2>3. k - 1 \in 0..n /\ k - 1 \notin Bad
    BY <2>1, <2>2
  <2>4. Good(k - 1)
    BY <2>3
  <2> QED
    BY <1>3, <2>2, <2>4
<1>5. Good(n)
  BY <1>4
<1> QED
  BY <1>1, <1>5 DEF Good

LEMMA ValueOfAll ==
  ASSUME NEW n \in Nat, NEW v, IsValue(v, 0..(n - 1)),
         \A x \in 0..(n - 1) : x \in ToSet(v)
  PROVE  Len(v) = n /\ ToSet(v) = 0..(n - 1)
<1> DEFINE S == 0..(n - 1)
           m == Len(v)
           D == 1..m
<1>1. m \in Nat /\ v \in [D -> S] /\ \A a, b \in D : v[a] = v[b] => a = b
  BY DEF IsValue
<1>2. ToSet(v) = {v[a] : a \in D}
  BY <1>1 DEF ToSet
<1> HIDE DEF m
<1>3. IsFiniteSet(D) /\ IsFiniteSet(S) /\ Cardinality(D) = m /\ Cardinality(S) = n
  <2>1. 1 \in Int /\ m \in Int /\ 0 \in Int /\ n - 1 \in Int
    BY <1>1
  <2>2. /\ IsFiniteSet(1..m) /\ IsFiniteSet(0..(n - 1))
        /\ Cardinality(1..m) = IF 1 > m THEN 0 ELSE m - 1 + 1
        /\ Cardinality(0..(n - 1)) = IF 0 > n - 1 THEN 0 ELSE n - 1 - 0 + 1
    BY <2>1, FS_Interval
  <2> QED
    BY <1>1, <2>2
<1>4. \A x \in S : \E a \in D : v[a] = x
  BY <1>2
<1> HIDE DEF D, S
<1>5. v \in Injection(D, S) /\ v \in Surjection(D, S)
  BY <1>1, <1>4 DEF Injection, IsInjective, Surjection
<1>6. ExistsBijection(D, S)
  BY <1>5 DEF ExistsBijection, Bijection
<1>7. Cardinality(D) = Cardinality(S)
  BY <1>3, <1>6, FS_Bijection
<1>8. ToSet(v) = S
  BY <1>1, <1>2, <1>4
<1> QED
  BY <1>3, <1>7, <1>8 DEF m, S
-----------------------------------------------------------------------------
(* A tiling: values that together hold each of n inputs once.              *)
IsTiling(h, J, n) ==
    /\ \A j \in J : IsValue(h[j], 0..(n - 1))
    /\ \A j, k \in J : j # k => Apart(h[j], h[k])
    /\ \A x \in 0..(n - 1) : \E j \in J : x \in ToSet(h[j])

Cells(groups, tpb) == (0..(groups - 1)) \X (0..(tpb - 1))

\* What Share makes of the values of the input of a pass.
ShareOf(values, n, groups, tpb, g, l) ==
    FlattenSeq([i \in 1..ValuesPerThread(n, groups * tpb) |->
                   IF Position(g, l, i, groups, tpb) < n
                   THEN values[Position(g, l, i, groups, tpb)] ELSE << >>])

LEMMA PositionType ==
  ASSUME NEW groups \in Nat \ {0}, NEW tpb \in Nat \ {0},
         NEW g \in 0..(groups - 1), NEW l \in 0..(tpb - 1), NEW i \in Nat \ {0}
  PROVE  Position(g, l, i, groups, tpb) \in Nat
<1>1. groups * tpb \in Nat /\ i - 1 \in Nat /\ g * tpb \in Nat
  OBVIOUS
<1>2. (i - 1) * (groups * tpb) \in Nat
  BY <1>1
<1> QED
  BY <1>1, <1>2 DEF Position

\* The shares of the work items tile the input of a pass: the rounding up of
\* VPT leaves nothing over, and no two items meet.
SharesOf(h, values, n, groups, tpb) ==
    \A g \in 0..(groups - 1), l \in 0..(tpb - 1) :
        h[<<g, l>>] = ShareOf(values, n, groups, tpb, g, l)

LEMMA SharesTile ==
  ASSUME NEW groups \in Nat \ {0}, NEW tpb \in Nat \ {0}, NEW n \in Nat,
         NEW total \in Nat, NEW values, IsTiling(values, 0..(n - 1), total),
         NEW h, SharesOf(h, values, n, groups, tpb)
  PROVE  IsTiling(h, Cells(groups, tpb), total)
<1>0. \A g \in 0..(groups - 1), l \in 0..(tpb - 1) :
         h[<<g, l>>] = ShareOf(values, n, groups, tpb, g, l)
  BY DEF SharesOf
<1> DEFINE S == 0..(total - 1)
           G == 0..(groups - 1)
           L == 0..(tpb - 1)
           vpt == ValuesPerThread(n, groups * tpb)
           at(g, l, i) == Position(g, l, i, groups, tpb)
           piece(g, l, i) == IF at(g, l, i) < n THEN values[at(g, l, i)] ELSE << >>
           pieces(g, l) == [i \in 1..vpt |-> piece(g, l, i)]
<1>1. vpt \in Nat
  <2> DEFINE all == groups * tpb
  <2>1. all \in Nat \ {0}
    OBVIOUS
  <2> HIDE DEF all
  <2>2. n \div all \in Nat
    BY <2>1, Division
  <2>3. ValuesPerThread(n, all) \in Nat
    BY <2>2 DEF ValuesPerThread
  <2> QED
    BY <2>3 DEF all
<1>2. \A g \in G, l \in L : h[<<g, l>>] = FlattenSeq(pieces(g, l))
  BY <1>0 DEF ShareOf
<1>3. \A g \in G, l \in L, i \in 1..vpt : at(g, l, i) \in Nat
  <2> SUFFICES ASSUME NEW g \in G, NEW l \in L, NEW i \in 1..vpt
               PROVE  at(g, l, i) \in Nat
    OBVIOUS
  <2>1. i \in Nat \ {0}
    BY <1>1
  <2> QED
    BY <2>1, PositionType
<1>4. \A g, k \in G, l, m \in L, i, j \in 1..vpt :
         at(g, l, i) = at(k, m, j) => g = k /\ l = m /\ i = j
  <2> SUFFICES ASSUME NEW g \in G, NEW k \in G, NEW l \in L, NEW m \in L,
                      NEW i \in 1..vpt, NEW j \in 1..vpt, at(g, l, i) = at(k, m, j)
               PROVE  g = k /\ l = m /\ i = j
    OBVIOUS
  <2>1. i \in Nat \ {0} /\ j \in Nat \ {0}
    BY <1>1
  <2> QED
    BY <2>1, PositionsDiffer
<1>5. \A x \in 0..(n - 1) : \E g \in G, l \in L, i \in 1..vpt : x = at(g, l, i)
  BY EveryPositionTaken
<1> HIDE DEF vpt, at, S, G, L
<1>6. \A x \in 0..(n - 1) : IsValue(values[x], S)
  BY DEF IsTiling, S
<1>7. \A x, y \in 0..(n - 1) : x # y => Apart(values[x], values[y])
  BY DEF IsTiling
<1>8. ASSUME NEW g \in G, NEW l \in L, NEW i \in 1..vpt
      PROVE  /\ IsValue(piece(g, l, i), S)
             /\ \A x : x \in ToSet(piece(g, l, i)) =>
                   at(g, l, i) \in 0..(n - 1) /\ x \in ToSet(values[at(g, l, i)])
  <2>1. CASE at(g, l, i) < n
    <3>1. at(g, l, i) \in 0..(n - 1)
      BY <1>3, <2>1
    <3>2. piece(g, l, i) = values[at(g, l, i)]
      BY <2>1
    <3> QED
      BY <1>6, <3>1, <3>2
  <2>2. CASE ~ at(g, l, i) < n
    <3>1. piece(g, l, i) = << >>
      BY <2>2
    <3> QED
      BY <3>1, EmptyValue
  <2> QED
    BY <2>1, <2>2
<1>9. ASSUME NEW g \in G, NEW k \in G, NEW l \in L, NEW m \in L,
             NEW i \in 1..vpt, NEW j \in 1..vpt, ~ (g = k /\ l = m /\ i = j)
      PROVE  Apart(piece(g, l, i), piece(k, m, j))
  <2> SUFFICES ASSUME NEW x, x \in ToSet(piece(g, l, i)), x \in ToSet(piece(k, m, j))
               PROVE  FALSE
    BY DEF Apart
  <2>1. /\ at(g, l, i) \in 0..(n - 1) /\ x \in ToSet(values[at(g, l, i)])
        /\ at(k, m, j) \in 0..(n - 1) /\ x \in ToSet(values[at(k, m, j)])
    BY <1>8
  <2>2. at(g, l, i) # at(k, m, j)
    BY <1>4, <1>9
  <2> QED
    BY <1>7, <2>1, <2>2 DEF Apart
<1>10. ASSUME NEW x \in S
       PROVE  \E g \in G, l \in L, i \in 1..vpt : x \in ToSet(piece(g, l, i))
  <2>1. PICK y \in 0..(n - 1) : x \in ToSet(values[y])
    BY DEF IsTiling, S
  <2>2. PICK g \in G, l \in L, i \in 1..vpt : y = at(g, l, i)
    BY <1>5
  <2>3. piece(g, l, i) = values[y]
    BY <2>2
  <2> QED
    BY <2>1, <2>3
<1> HIDE DEF piece
<1>11. ASSUME NEW g \in G, NEW l \in L
       PROVE  /\ IsValue(h[<<g, l>>], S)
              /\ \A x : x \in ToSet(h[<<g, l>>]) <=>
                           \E i \in 1..vpt : x \in ToSet(piece(g, l, i))
  <2> DEFINE f == pieces(g, l)
  <2>1. /\ HasLength(f, vpt)
        /\ \A i \in 1..vpt : f[i] = piece(g, l, i)
    BY DEF HasLength
  <2>2. h[<<g, l>>] = FlattenSeq(f)
    BY <1>2
  <2> HIDE DEF f
  <2>3. \A i \in 1..vpt : IsValue(f[i], S)
    BY <1>8, <2>1
  <2>4. \A i, j \in 1..vpt : i # j => Apart(f[i], f[j])
    BY <1>9, <2>1
  <2>5. /\ IsValue(FlattenSeq(f), S)
        /\ \A x : x \in ToSet(FlattenSeq(f)) <=> \E i \in 1..vpt : x \in ToSet(f[i])
    BY <1>1, <2>1, <2>3, <2>4, FlattenedValues
  <2> QED
    BY <2>1, <2>2, <2>5
<1>12. ASSUME NEW g \in G, NEW k \in G, NEW l \in L, NEW m \in L, <<g, l>> # <<k, m>>
       PROVE  Apart(h[<<g, l>>], h[<<k, m>>])
  <2> SUFFICES ASSUME NEW x, x \in ToSet(h[<<g, l>>]), x \in ToSet(h[<<k, m>>])
               PROVE  FALSE
    BY DEF Apart
  <2>1. PICK i \in 1..vpt : x \in ToSet(piece(g, l, i))
    BY <1>11
  <2>2. PICK j \in 1..vpt : x \in ToSet(piece(k, m, j))
    BY <1>11
  <2>3. Apart(piece(g, l, i), piece(k, m, j))
    BY <1>9, <1>12
  <2> QED
    BY <2>1, <2>2, <2>3 DEF Apart
<1>13. \A c \in Cells(groups, tpb) : \E g \in G, l \in L : c = <<g, l>>
  BY DEF Cells, G, L
<1>14. \A g \in G, l \in L : <<g, l>> \in Cells(groups, tpb)
  BY DEF Cells, G, L
<1>15. \A c \in Cells(groups, tpb) : IsValue(h[c], 0..(total - 1))
  BY <1>11, <1>13 DEF S
<1>16. \A c, d \in Cells(groups, tpb) : c # d => Apart(h[c], h[d])
  BY <1>12, <1>13
<1>17. \A x \in 0..(total - 1) : \E c \in Cells(groups, tpb) : x \in ToSet(h[c])
  BY <1>10, <1>11, <1>14 DEF S
<1> QED
  BY <1>15, <1>16, <1>17 DEF IsTiling

\* A round of reduce_scratch combines two cells of a group into one.
RoundOf(new, h, groups, tpb, g, r) ==
    /\ \A l \in 0..(tpb - 1) : l >= 2 * r => h[<<g, l>>] = << >>
    /\ \A k \in 0..(groups - 1), l \in 0..(tpb - 1) :
          k # g => new[<<k, l>>] = h[<<k, l>>]
    /\ \A l \in 0..(tpb - 1) :
          new[<<g, l>>] = IF l < r THEN h[<<g, l>>] \o h[<<g, l + r>>] ELSE << >>

LEMMA RoundKeepsTiling ==
  ASSUME NEW groups \in Nat \ {0}, NEW tpb \in Nat \ {0}, NEW n \in Nat,
         NEW g \in 0..(groups - 1), NEW r \in Nat \ {0}, 2 * r <= tpb,
         NEW h, IsTiling(h, Cells(groups, tpb), n),
         NEW new, RoundOf(new, h, groups, tpb, g, r)
  PROVE  IsTiling(new, Cells(groups, tpb), n)
<1>0. /\ \A l \in 0..(tpb - 1) : l >= 2 * r => h[<<g, l>>] = << >>
      /\ \A k \in 0..(groups - 1), l \in 0..(tpb - 1) :
            k # g => new[<<k, l>>] = h[<<k, l>>]
      /\ \A l \in 0..(tpb - 1) :
            new[<<g, l>>] = IF l < r THEN h[<<g, l>>] \o h[<<g, l + r>>] ELSE << >>
  BY DEF RoundOf
<1> USE <1>0
<1> DEFINE S == 0..(n - 1)
           G == 0..(groups - 1)
           L == 0..(tpb - 1)
           J == Cells(groups, tpb)
<1>1. \A c \in J : \E k \in G, l \in L : c = <<k, l>>
  BY DEF Cells
<1>2. \A k \in G, l \in L : <<k, l>> \in J
  BY DEF Cells
<1>3. \A l \in L : l < r => l + r \in L /\ l + r >= r /\ l + r # l
  OBVIOUS
<1>4. \A l \in L : l >= 2 * r => ToSet(h[<<g, l>>]) = {}
  BY EmptyValue
<1>5. \A l \in L : l >= r /\ l < 2 * r => l - r \in L /\ l - r < r /\ l - r + r = l
  OBVIOUS
<1> HIDE DEF S, G, L, J
<1>6. g \in G /\ r \in Nat
  BY DEF G
<1>7. ASSUME NEW k \in G, NEW l \in L, NEW m \in G, NEW q \in L,
             k # m \/ l # q
      PROVE  Apart(h[<<k, l>>], h[<<m, q>>])
  <2>1. <<k, l>> \in J /\ <<m, q>> \in J /\ <<k, l>> # <<m, q>>
    BY <1>2, <1>7
  <2> QED
    BY <2>1 DEF IsTiling, J
<1>8. ASSUME NEW l \in L, l < r
      PROVE  /\ IsValue(new[<<g, l>>], S)
             /\ ToSet(new[<<g, l>>]) = ToSet(h[<<g, l>>]) \cup ToSet(h[<<g, l + r>>])
  <2>1. l + r \in L /\ l + r # l
    BY <1>3, <1>8
  <2>2. IsValue(h[<<g, l>>], S) /\ IsValue(h[<<g, l + r>>], S)
    BY <1>2, <1>6, <2>1 DEF IsTiling, S, J
  <2>3. Apart(h[<<g, l>>], h[<<g, l + r>>])
    BY <1>6, <1>7, <2>1
  <2>4. new[<<g, l>>] = h[<<g, l>>] \o h[<<g, l + r>>]
    BY <1>8 DEF L
  <2>5. IsValue(new[<<g, l>>], S) /\ Joins(new[<<g, l>>], h[<<g, l>>], h[<<g, l + r>>])
    BY <2>2, <2>3, <2>4, CombinedValue
  <2> QED
    BY <2>5 DEF Joins
<1>9. ASSUME NEW l \in L, ~ l < r
      PROVE  IsValue(new[<<g, l>>], S) /\ ToSet(new[<<g, l>>]) = {}
  <2>1. new[<<g, l>>] = << >>
    BY <1>9 DEF L
  <2> QED
    BY <2>1, EmptyValue
<1>10. ASSUME NEW k \in G, NEW l \in L, k # g
       PROVE  new[<<k, l>>] = h[<<k, l>>] /\ IsValue(new[<<k, l>>], S)
  <2>1. new[<<k, l>>] = h[<<k, l>>]
    BY <1>10 DEF G, L
  <2> QED
    BY <1>2, <2>1 DEF IsTiling, S, J
\* Where an input of a cell was before.
<1>11. ASSUME NEW k \in G, NEW l \in L, NEW x, x \in ToSet(new[<<k, l>>])
       PROVE  \E q \in L : /\ x \in ToSet(h[<<k, q>>])
                           /\ k = g => (q = l \/ (l < r /\ q = l + r))
                           /\ k # g => q = l
  <2>1. CASE k # g
    BY <1>10, <1>11, <2>1
  <2>2. CASE k = g /\ l < r
    <3>1. x \in ToSet(h[<<g, l>>]) \/ x \in ToSet(h[<<g, l + r>>])
      BY <1>8, <1>11, <2>2
    <3>2. l + r \in L
      BY <1>3, <2>2
    <3> QED
      BY <2>2, <3>1, <3>2
  <2>3. CASE k = g /\ ~ l < r
    BY <1>9, <1>11, <2>3
  <2> QED
    BY <2>1, <2>2, <2>3
<1>12. ASSUME NEW k \in G, NEW l \in L, NEW m \in G, NEW q \in L,
              k # m \/ l # q
       PROVE  Apart(new[<<k, l>>], new[<<m, q>>])
  <2> SUFFICES ASSUME NEW x, x \in ToSet(new[<<k, l>>]), x \in ToSet(new[<<m, q>>])
               PROVE  FALSE
    BY DEF Apart
  <2>1. PICK a \in L : /\ x \in ToSet(h[<<k, a>>])
                       /\ k = g => (a = l \/ (l < r /\ a = l + r))
                       /\ k # g => a = l
    BY <1>11
  <2>2. PICK b \in L : /\ x \in ToSet(h[<<m, b>>])
                       /\ m = g => (b = q \/ (q < r /\ b = q + r))
                       /\ m # g => b = q
    BY <1>11
  <2>3. k = m /\ a = b
    BY <1>7, <2>1, <2>2 DEF Apart
  <2>4. l \in Nat /\ q \in Nat
    BY DEF L
  <2>5. (q = l + r => ~ q < r) /\ (l = q + r => ~ l < r)
    BY <1>6, <2>4
  <2>6. ~ q < r => ~ x \in ToSet(new[<<g, q>>])
    BY <1>9
  <2>7. ~ l < r => ~ x \in ToSet(new[<<g, l>>])
    BY <1>9
  <2>8. l + r = q + r => l = q
    BY <1>6, <2>4
  <2> QED
    BY <1>12, <2>1, <2>2, <2>3, <2>5, <2>6, <2>7, <2>8
<1>13. ASSUME NEW x \in S
       PROVE  \E k \in G, l \in L : x \in ToSet(new[<<k, l>>])
  <2>1. PICK c \in J : x \in ToSet(h[c])
    BY DEF IsTiling, S, J
  <2>2. PICK k \in G, l \in L : c = <<k, l>>
    BY <1>1
  <2>3. CASE k # g
    BY <1>10, <2>1, <2>2, <2>3
  <2>4. CASE k = g /\ l < r
    BY <1>8, <2>1, <2>2, <2>4
  <2>5. CASE k = g /\ ~ l < r
    <3>1. l \in Nat
      BY DEF L
    <3>2. ~ l >= 2 * r
      BY <1>4, <2>1, <2>2, <2>5
    <3>3. l - r \in L /\ l - r < r /\ l - r + r = l
      BY <1>5, <1>6, <2>5, <3>1, <3>2
    <3>4. ToSet(new[<<g, l - r>>]) =
             ToSet(h[<<g, l - r>>]) \cup ToSet(h[<<g, l - r + r>>])
      BY <1>8, <3>3
    <3>5. x \in ToSet(new[<<g, l - r>>])
      BY <2>1, <2>2, <2>5, <3>3, <3>4
    <3> QED
      BY <1>6, <3>3, <3>5
  <2> QED
    BY <2>3, <2>4, <2>5
<1>14. \A c \in J : IsValue(new[c], S)
  <2>1. \A k \in G, l \in L : IsValue(new[<<k, l>>], S)
    BY <1>8, <1>9, <1>10
  <2> QED
    BY <1>1, <2>1
<1>15. \A c, d \in J : c # d => Apart(new[c], new[d])
  BY <1>1, <1>12
<1>16. \A x \in S : \E c \in J : x \in ToSet(new[c])
  BY <1>2, <1>13
<1> QED
  BY <1>14, <1>15, <1>16 DEF IsTiling, S, J

\* Tilings that hold the same values.
LEMMA SameTiling ==
  ASSUME NEW J, NEW n, NEW h, IsTiling(h, J, n), NEW new, \A c \in J : new[c] = h[c]
  PROVE  IsTiling(new, J, n)
  BY DEF IsTiling

\* What is left at the end of a pass: a value for each group.
ResultsOf(out, h, groups, tpb) ==
    \A g \in 0..(groups - 1), l \in 0..(tpb - 1) :
        h[<<g, l>>] = IF l = 0 THEN out[g] ELSE << >>

LEMMA ResultsTile ==
  ASSUME NEW groups \in Nat \ {0}, NEW tpb \in Nat \ {0}, NEW n \in Nat,
         NEW h, IsTiling(h, Cells(groups, tpb), n), NEW out,
         ResultsOf(out, h, groups, tpb)
  PROVE  IsTiling(out, 0..(groups - 1), n)
<1>0. \A g \in 0..(groups - 1), l \in 0..(tpb - 1) :
         h[<<g, l>>] = IF l = 0 THEN out[g] ELSE << >>
  BY DEF ResultsOf
<1> USE <1>0
<1> DEFINE G == 0..(groups - 1)
           L == 0..(tpb - 1)
           J == Cells(groups, tpb)
<1>1. \A c \in J : \E k \in G, l \in L : c = <<k, l>>
  BY DEF Cells
<1>2. 0 \in L /\ \A g \in G : <<g, 0>> \in J
  BY DEF Cells
<1>3. \A g \in G : out[g] = h[<<g, 0>>]
  BY <1>2
<1>4. \A g \in G, l \in L : l # 0 => ToSet(h[<<g, l>>]) = {}
  BY EmptyValue
<1> HIDE DEF G, L, J
<1>5. \A g \in G : IsValue(out[g], 0..(n - 1))
  BY <1>2, <1>3 DEF IsTiling, J
<1>6. ASSUME NEW g \in G, NEW k \in G, g # k PROVE Apart(out[g], out[k])
  <2>1. <<g, 0>> \in J /\ <<k, 0>> \in J /\ <<g, 0>> # <<k, 0>>
    BY <1>2, <1>6
  <2> QED
    BY <1>3, <2>1 DEF IsTiling, J
<1>7. ASSUME NEW x \in 0..(n - 1) PROVE \E g \in G : x \in ToSet(out[g])
  <2>1. PICK c \in J : x \in ToSet(h[c])
    BY DEF IsTiling, J
  <2>2. PICK g \in G, l \in L : c = <<g, l>>
    BY <1>1
  <2>3. l = 0
    BY <1>4, <2>1, <2>2
  <2> QED
    BY <1>3, <2>1, <2>2, <2>3
<1> QED
  BY <1>5, <1>6, <1>7 DEF IsTiling, G

\* All the cells together, one after the other.
InOneSequence(h, groups, tpb) ==
    [k \in 1..(groups * tpb) |-> h[<<(k - 1) \div tpb, (k - 1) % tpb>>]]

LEMMA CellOf ==
  ASSUME NEW groups \in Nat \ {0}, NEW tpb \in Nat \ {0}, NEW k \in 1..(groups * tpb)
  PROVE  /\ (k - 1) \div tpb \in 0..(groups - 1) /\ (k - 1) % tpb \in 0..(tpb - 1)
         /\ k - 1 = ((k - 1) \div tpb) * tpb + ((k - 1) % tpb)
<1> DEFINE a == k - 1
           q == a \div tpb
           r == a % tpb
<1>1. a \in Nat /\ a < groups * tpb
  OBVIOUS
<1> HIDE DEF a
<1>2. q \in Nat /\ r \in 0..(tpb - 1) /\ a = q * tpb + r
  BY <1>1, Division
<1> HIDE DEF q, r
<1>3. ASSUME q >= groups PROVE FALSE
  <2>1. (q - groups) * tpb >= 0
    BY <1>2, <1>3
  <2>2. (q - groups) * tpb = q * tpb - groups * tpb
    BY <1>2
  <2>3. q * tpb \in Int /\ groups * tpb \in Int
    BY <1>2
  <2> QED
    BY <1>1, <1>2, <2>1, <2>2, <2>3
<1>4. q \in 0..(groups - 1)
  BY <1>2, <1>3
<1> QED
  BY <1>2, <1>4 DEF q, r, a

LEMMA TilingIsWhole ==
  ASSUME NEW groups \in Nat \ {0}, NEW tpb \in Nat \ {0}, NEW n \in Nat,
         NEW h, IsTiling(h, Cells(groups, tpb), n),
         NEW f, f = InOneSequence(h, groups, tpb)
  PROVE  Len(FlattenSeq(f)) = n /\ ToSet(FlattenSeq(f)) = 0..(n - 1)
<1> DEFINE S == 0..(n - 1)
           all == groups * tpb
           J == Cells(groups, tpb)
           cell(k) == <<(k - 1) \div tpb, (k - 1) % tpb>>
<1>1. all \in Nat
  OBVIOUS
<1>2. ASSUME NEW k \in 1..all
      PROVE  /\ cell(k) \in J
             /\ k - 1 = ((k - 1) \div tpb) * tpb + ((k - 1) % tpb)
  <2>1. /\ (k - 1) \div tpb \in 0..(groups - 1) /\ (k - 1) % tpb \in 0..(tpb - 1)
        /\ k - 1 = ((k - 1) \div tpb) * tpb + ((k - 1) % tpb)
    BY CellOf
  <2> QED
    BY <2>1 DEF Cells
<1>3. \A k, m \in 1..all : cell(k) = cell(m) => k = m
  <2> SUFFICES ASSUME NEW k \in 1..all, NEW m \in 1..all, cell(k) = cell(m)
               PROVE  k = m
    OBVIOUS
  <2>1. (k - 1) \div tpb = (m - 1) \div tpb /\ (k - 1) % tpb = (m - 1) % tpb
    OBVIOUS
  <2>2. k - 1 = m - 1
    BY <1>2, <2>1
  <2> QED
    BY <1>1, <2>2
<1>4. \A c \in J : \E k \in 1..all : c = cell(k)
  <2>1. \A c \in J : \E g \in 0..(groups - 1), l \in 0..(tpb - 1) : c = <<g, l>>
    BY DEF Cells
  <2>2. ASSUME NEW g \in 0..(groups - 1), NEW l \in 0..(tpb - 1)
        PROVE  \E k \in 1..all : <<g, l>> = cell(k)
    <3> DEFINE a == g * tpb + l
               q == a \div tpb
               r == a % tpb
    <3>1. a \in Nat /\ a < all
      <4>1. (groups - 1 - g) * tpb >= 0
        OBVIOUS
      <4>2. (groups - 1 - g) * tpb = all - tpb - g * tpb
        OBVIOUS
      <4>3. g * tpb \in Nat
        OBVIOUS
      <4> HIDE DEF all
      <4> QED
        BY <1>1, <4>1, <4>2, <4>3
    <3>2. a = g * tpb + l
      OBVIOUS
    <3> HIDE DEF a
    <3>3. q \in Nat /\ r \in 0..(tpb - 1) /\ a = q * tpb + r
      BY <3>1, Division
    <3> HIDE DEF q, r
    <3>4. g = q /\ l = r
      <4>1. g \in Int /\ q \in Int /\ r \in 0..(tpb - 1) /\ l \in 0..(tpb - 1)
        BY <3>3
      <4>2. q * tpb + r = g * tpb + l
        BY <3>2, <3>3, Zenon
      <4>3. q = g /\ r = l
        BY <4>1, <4>2, OneQuotient
      <4> QED
        BY <4>3
    <3> DEFINE k == a + 1
    <3>5. k \in 1..all /\ k - 1 = a
      BY <1>1, <3>1
    <3> HIDE DEF k
    <3>6. <<g, l>> = cell(k)
      BY <3>4, <3>5 DEF q, r
    <3> HIDE DEF cell, all
    <3> QED
      BY <3>5, <3>6
  <2> HIDE DEF cell, all, J
  <2>3. \A g \in 0..(groups - 1), l \in 0..(tpb - 1) :
           \E k \in 1..all : <<g, l>> = cell(k)
    BY <2>2
  <2>4. ASSUME NEW c \in J PROVE \E k \in 1..all : c = cell(k)
    <3>1. PICK g \in 0..(groups - 1), l \in 0..(tpb - 1) : c = <<g, l>>
      BY <2>1, Zenon
    <3>2. PICK k \in 1..all : <<g, l>> = cell(k)
      BY <2>3, Zenon
    <3> QED
      BY <3>1, <3>2
  <2> QED
    BY <2>4
<1>5. \A k \in 1..all : f[k] = h[cell(k)]
  BY DEF InOneSequence
<1>0. HasLength(f, all)
  BY DEF HasLength, InOneSequence
<1> HIDE DEF all, cell, S, J
<1>6. \A k \in 1..all : IsValue(f[k], S)
  BY <1>2, <1>5 DEF IsTiling, S, J
<1>7. \A k, m \in 1..all : k # m => Apart(f[k], f[m])
  BY <1>2, <1>3, <1>5 DEF IsTiling, J
<1>8. /\ IsValue(FlattenSeq(f), S)
      /\ \A x : x \in ToSet(FlattenSeq(f)) <=> \E k \in 1..all : x \in ToSet(f[k])
  BY <1>0, <1>1, <1>6, <1>7, FlattenedValues
<1>9. \A x \in S : x \in ToSet(FlattenSeq(f))
  BY <1>4, <1>5, <1>8 DEF IsTiling, S, J
<1> QED
  BY <1>8, <1>9, ValueOfAll DEF S
-----------------------------------------------------------------------------
(* The invariant.  It speaks of a pass and of the memory it works on as    *)
(* values, so that a lemma about a step can be used for the state it leads *)
(* to.                                                                     *)
Widths == {2, 4, 8, 16, 32, 64, 128, 256, 512, 1024}

Passes == [kernel : {"initial", "intermediate"}, dst : {"A", "B"},
           src : {"input", "A", "B"}, N : Nat, groups : Nat \ {0},
           TPB : Widths, VPT : Nat]

\* The arguments of a kernel fit together.
Sound(p) ==
    /\ p \in Passes
    /\ p.VPT = ValuesPerThread(p.N, p.groups * p.TPB)
    /\ p.kernel = "intermediate" => p.src \in {"A", "B"} /\ p.src # p.dst

\* A pass reduces what another one leaves.
Follows(q, p) == q.kernel = "intermediate" /\ q.src = p.dst /\ q.N = p.groups

InputOf(p, bufs) ==
    IF p.kernel = "initial" THEN [at \in 0..(p.N - 1) |-> <<at>>] ELSE bufs[p.src]

\* Share and Holds, of values.
ShareIn(p, bufs, g, l) ==
    ShareOf(InputOf(p, bufs), p.N, p.groups, p.TPB, g, l)

HeldBy(item, l, mem, share, out) ==
    CASE item.pc = "gather" -> share
      [] item.pc = "barrier" -> IF l < Max({1, 2 * item.i}) THEN mem[l] ELSE << >>
      [] item.pc = "read" -> mem[l] \o mem[l + item.i]
      [] item.pc = "combine" -> item.p
      [] item.pc = "write" -> mem[l]
      [] item.pc = "done" -> IF l = 0 THEN out ELSE << >>

HeldAt(p, its, mem, bufs, g, l) ==
    HeldBy(its[g][l], l, mem[g], ShareIn(p, bufs, g, l), bufs[p.dst][g])

Held(p, its, mem, bufs) ==
    [c \in Cells(p.groups, p.TPB) |-> HeldAt(p, its, mem, bufs, c[1], c[2])]

(* Where a group is: before the first barrier; in the round whose stride   *)
(* is r, which the first r items have to combine for; or after the last    *)
(* barrier.                                                                *)
Gathering(group, tpb) ==
    \A l \in 0..(tpb - 1) :
        group[l].pc \in {"gather", "barrier"} /\ group[l].i = tpb \div 2

Combining(group, tpb, r) ==
    \A l \in 0..(tpb - 1) :
        \/ l < r /\ group[l].pc \in {"read", "combine"} /\ group[l].i = r
        \/ group[l].pc = "barrier" /\ group[l].i = r \div 2

Writing(group, tpb) ==
    /\ group[0].pc \in {"write", "done"}
    /\ \A l \in 0..(tpb - 1) : l # 0 => group[l].pc = "done"

Strides(tpb) == {r \in Widths \cup {1} : 2 * r <= tpb}

Phase(group, tpb) ==
    \/ Gathering(group, tpb)
    \/ \E r \in Strides(tpb) : Combining(group, tpb, r)
    \/ Writing(group, tpb)

\* The shape of the local memory, and of the items.
HasShape(m, p) ==
    /\ DOMAIN m = 0..(p.groups - 1)
    /\ \A g \in 0..(p.groups - 1) : DOMAIN m[g] = 0..(p.TPB - 1)

IsItem(x) == x = [pc |-> x.pc, i |-> x.i, p |-> x.p]
AreItems(group, tpb) == \A l \in 0..(tpb - 1) : IsItem(group[l])

Running(p, its, mem, bufs, n) ==
    /\ HasShape(its, p) /\ HasShape(mem, p)
    /\ \A g \in 0..(p.groups - 1) :
          AreItems(its[g], p.TPB) /\ Phase(its[g], p.TPB)
    /\ IsTiling(Held(p, its, mem, bufs), Cells(p.groups, p.TPB), n)

\* The buffers have room for the results of n groups.
RoomFor(n, bufs) ==
    /\ DOMAIN bufs = {"A", "B"}
    /\ \A b \in {"A", "B"} : \A g \in 0..(n - 1) : g \in DOMAIN bufs[b]

HostOK ==
    /\ size \in Nat /\ workgroup_size \in Widths
    /\ ping_ \in {"A", "B"} /\ pong_ \in {"A", "B"} /\ ping_ # pong_
    /\ host \in {"initial", "loop", "returned"}
    /\ host = "initial" => queue = << >> /\ items = << >>
    /\ host # "initial" =>
          pass_output_size \in Nat \ {0} /\ RoomFor(pass_output_size, buffers)
    /\ host = "returned" => pass_output_size = 1

QueueOK ==
    /\ queue \in Seq(Passes)
    /\ \A k \in 1..Len(queue) : Sound(queue[k]) /\ RoomFor(queue[k].groups, buffers)
    /\ \A k \in 1..Len(queue) : k > 1 => Follows(queue[k], queue[k - 1])
    /\ queue # << >> => /\ queue[Len(queue)].dst = ping_
                        /\ queue[Len(queue)].groups = pass_output_size

\* What the pass that runs reads, or the result when there is none.
DataOK ==
    /\ queue # << >> =>
          IsTiling(InputOf(queue[1], buffers), 0..(queue[1].N - 1), size)
    /\ queue = << >> /\ host # "initial" =>
          IsTiling(buffers[ping_], 0..(pass_output_size - 1), size)

DeviceOK ==
    items # << >> =>
        queue # << >> /\ Running(queue[1], items, scratch, buffers, size)

IInv == HostOK /\ QueueOK /\ DataOK /\ DeviceOK
-----------------------------------------------------------------------------
(* Strides and phases.                                                     *)
LEMMA WidthsHalved ==
  ASSUME NEW tpb \in Widths
  PROVE  tpb \in Nat \ {0} /\ tpb \div 2 \in Strides(tpb) /\ 2 * (tpb \div 2) = tpb
<1>1. /\ 2 \div 2 = 1 /\ 4 \div 2 = 2 /\ 8 \div 2 = 4 /\ 16 \div 2 = 8
      /\ 32 \div 2 = 16 /\ 64 \div 2 = 32 /\ 128 \div 2 = 64 /\ 256 \div 2 = 128
      /\ 512 \div 2 = 256 /\ 1024 \div 2 = 512
  OBVIOUS
<1> QED
  BY <1>1 DEF Widths, Strides

LEMMA StridesHalved ==
  ASSUME NEW tpb \in Widths, NEW r \in Strides(tpb)
  PROVE  /\ r \in Nat \ {0} /\ 2 * r <= tpb /\ r \div 2 \in Nat
         /\ r \div 2 = 0 => r = 1
         /\ r \div 2 # 0 => r \div 2 \in Strides(tpb) /\ 2 * (r \div 2) = r
<1>1. r \in Widths \cup {1} /\ 2 * r <= tpb /\ tpb \in Nat
  BY WidthsHalved DEF Strides
<1>2. CASE r = 1
  BY <1>1, <1>2
<1>3. CASE r \in Widths
  <2>1. r \in Nat \ {0} /\ r \div 2 \in Strides(r) /\ 2 * (r \div 2) = r
    BY <1>3, WidthsHalved
  <2> DEFINE h == r \div 2
  <2>2. h \in Widths \cup {1} /\ h \in Nat /\ 2 * h = r
    BY <2>1 DEF Strides, Widths
  <2> HIDE DEF h
  <2>3. 2 * h <= tpb /\ h # 0
    BY <1>1, <2>1, <2>2
  <2> QED
    BY <1>1, <2>1, <2>2, <2>3 DEF h, Strides
<1> QED
  BY <1>1, <1>2, <1>3

LEMMA MaxOfOne ==
  ASSUME NEW i \in Nat
  PROVE  Max({1, 2 * i}) = IF i = 0 THEN 1 ELSE 2 * i
<1> DEFINE d == 2 * i
           S == {1, d}
           n == d + 1
<1>1. d \in Nat /\ (d >= 1 <=> i # 0) /\ (d = 0 <=> i = 0)
  OBVIOUS
<1> HIDE DEF d
<1>2. n \in Nat /\ S \in SUBSET (0..n) /\ S # {}
  BY <1>1
<1> HIDE DEF n
<1>3. Max(S) \in S /\ \A x \in S : Max(S) >= x
  <2> HIDE DEF S
  <2> QED
    BY <1>2, MaxMin
<1>4. Max(S) = IF i = 0 THEN 1 ELSE d
  <2> DEFINE m == Max(S)
  <2>1. (m = 1 \/ m = d) /\ m >= 1 /\ m >= d
    BY <1>3
  <2> HIDE DEF m, S
  <2>2. m = IF i = 0 THEN 1 ELSE d
    BY <1>1, <2>1
  <2> QED
    BY <2>2 DEF m
<1> QED
  BY <1>4 DEF d

\* What an item holds in each phase.
LEMMA GatheringHolds ==
  ASSUME NEW tpb \in Widths, NEW group, Gathering(group, tpb),
         NEW l \in 0..(tpb - 1), NEW mem, NEW share, NEW out
  PROVE  HeldBy(group[l], l, mem, share, out) =
            IF group[l].pc = "gather" THEN share ELSE mem[l]
<1>1. group[l].pc \in {"gather", "barrier"} /\ group[l].i = tpb \div 2
  BY DEF Gathering
<1>2. tpb \in Nat \ {0} /\ tpb \div 2 \in Nat /\ 2 * (tpb \div 2) = tpb
  BY WidthsHalved, StridesHalved
<1> DEFINE i == group[l].i
<1>3. i \in Nat /\ 2 * i = tpb /\ i # 0
  BY <1>1, <1>2
<1>4. Max({1, 2 * i}) = 2 * i
  <2> HIDE DEF i
  <2> QED
    BY <1>3, MaxOfOne
<1>5. l < Max({1, 2 * group[l].i})
  BY <1>2, <1>3, <1>4
<1> QED
  BY <1>1, <1>5 DEF HeldBy

\* ... in the round whose stride is r.
RoundHolds(item, l, r, mem) ==
    IF ~ l < r THEN << >>
    ELSE IF item.pc = "read" THEN mem[l] \o mem[l + r]
    ELSE IF item.pc = "combine" THEN item.p
    ELSE mem[l]

LEMMA CombiningHolds ==
  ASSUME NEW tpb \in Widths, NEW r \in Strides(tpb), NEW group,
         Combining(group, tpb, r),
         NEW l \in 0..(tpb - 1), NEW mem, NEW share, NEW out
  PROVE  HeldBy(group[l], l, mem, share, out) = RoundHolds(group[l], l, r, mem)
<1> USE DEF RoundHolds
<1>1. /\ r \in Nat \ {0} /\ r \div 2 \in Nat
      /\ r \div 2 = 0 => r = 1
      /\ r \div 2 # 0 => 2 * (r \div 2) = r
  BY StridesHalved
<1>2. \/ l < r /\ group[l].pc \in {"read", "combine"} /\ group[l].i = r
      \/ group[l].pc = "barrier" /\ group[l].i = r \div 2
  BY DEF Combining
<1>3. CASE l < r /\ group[l].pc = "read" /\ group[l].i = r
  BY <1>3 DEF HeldBy
<1>4. CASE l < r /\ group[l].pc = "combine"
  BY <1>4 DEF HeldBy
<1>5. CASE group[l].pc = "barrier" /\ group[l].i = r \div 2
  <2> DEFINE i == group[l].i
  <2>1. i \in Nat /\ (i = 0 => r = 1) /\ (i # 0 => 2 * i = r)
    BY <1>1, <1>5
  <2> HIDE DEF i
  <2>2. Max({1, 2 * i}) = r
    BY <2>1, MaxOfOne
  <2>3. l < Max({1, 2 * group[l].i}) <=> l < r
    BY <2>2 DEF i
  <2> QED
    BY <1>5, <2>3 DEF HeldBy
<1> QED
  BY <1>2, <1>3, <1>4, <1>5

LEMMA WritingHolds ==
  ASSUME NEW tpb \in Widths, NEW group, Writing(group, tpb),
         NEW l \in 0..(tpb - 1), NEW mem, NEW share, NEW out
  PROVE  HeldBy(group[l], l, mem, share, out) =
            IF l # 0 THEN << >>
            ELSE IF group[l].pc = "write" THEN mem[0] ELSE out
<1>1. /\ l # 0 => group[l].pc = "done"
      /\ l = 0 => group[l].pc \in {"write", "done"}
  BY DEF Writing
<1> QED
  BY <1>1 DEF HeldBy
-----------------------------------------------------------------------------
(* Steps of one work item.                                                 *)
\* Entry l of group g, of the items or of the local memory, becomes x.
EntryIs(new, old, g, l, x) ==
    /\ DOMAIN new = DOMAIN old
    /\ DOMAIN new[g] = DOMAIN old[g]
    /\ \A k \in DOMAIN old : k # g => new[k] = old[k]
    /\ \A m \in DOMAIN old[g] : new[g][m] = IF m = l THEN x ELSE old[g][m]

LEMMA EntrySet ==
  ASSUME NEW p, NEW old, HasShape(old, p),
         NEW g \in 0..(p.groups - 1), NEW l \in 0..(p.TPB - 1), NEW x,
         NEW new, new = [old EXCEPT ![g][l] = x]
  PROVE  EntryIs(new, old, g, l, x)
BY DEF HasShape, EntryIs

LEMMA ShapeKept ==
  ASSUME NEW p, NEW old, HasShape(old, p), NEW g \in 0..(p.groups - 1),
         NEW l, NEW x, NEW new, EntryIs(new, old, g, l, x)
  PROVE  HasShape(new, p)
BY DEF HasShape, EntryIs

\* What the items of the other groups hold is not touched.
SameElsewhere(p, its2, mem2, bufs2, its, mem, bufs, g) ==
    \A k \in 0..(p.groups - 1) :
        k # g => /\ its2[k] = its[k] /\ mem2[k] = mem[k]
                 /\ bufs2[p.dst][k] = bufs[p.dst][k]

\* Every item of group g holds what it did.
SameHere(p, its2, mem2, bufs2, its, mem, bufs, g) ==
    \A l \in 0..(p.TPB - 1) :
        HeldAt(p, its2, mem2, bufs2, g, l) = HeldAt(p, its, mem, bufs, g, l)

LEMMA HeldIsHeldAt ==
  ASSUME NEW p, NEW its, NEW mem, NEW bufs,
         NEW g \in 0..(p.groups - 1), NEW l \in 0..(p.TPB - 1)
  PROVE  /\ <<g, l>> \in Cells(p.groups, p.TPB)
         /\ Held(p, its, mem, bufs)[<<g, l>>] = HeldAt(p, its, mem, bufs, g, l)
<1>1. <<g, l>> \in Cells(p.groups, p.TPB)
  BY DEF Cells
<1>2. \A c \in Cells(p.groups, p.TPB) :
         Held(p, its, mem, bufs)[c] = HeldAt(p, its, mem, bufs, c[1], c[2])
  BY DEF Held
<1> QED
  BY <1>1, <1>2

LEMMA StillTiled ==
  ASSUME NEW p, NEW its, NEW mem, NEW bufs, NEW n,
         IsTiling(Held(p, its, mem, bufs), Cells(p.groups, p.TPB), n),
         NEW its2, NEW mem2, NEW bufs2, InputOf(p, bufs2) = InputOf(p, bufs),
         NEW g \in 0..(p.groups - 1),
         SameElsewhere(p, its2, mem2, bufs2, its, mem, bufs, g),
         SameHere(p, its2, mem2, bufs2, its, mem, bufs, g)
  PROVE  IsTiling(Held(p, its2, mem2, bufs2), Cells(p.groups, p.TPB), n)
<1> DEFINE h == Held(p, its, mem, bufs)
           new == Held(p, its2, mem2, bufs2)
           J == Cells(p.groups, p.TPB)
<1>1. ASSUME NEW k \in 0..(p.groups - 1), NEW l \in 0..(p.TPB - 1)
      PROVE  HeldAt(p, its2, mem2, bufs2, k, l) = HeldAt(p, its, mem, bufs, k, l)
  <2>1. CASE k = g
    BY <2>1 DEF SameHere
  <2>2. CASE k # g
    <3>1. /\ its2[k] = its[k] /\ mem2[k] = mem[k]
          /\ bufs2[p.dst][k] = bufs[p.dst][k]
      BY <2>2 DEF SameElsewhere
    <3>2. ShareIn(p, bufs2, k, l) = ShareIn(p, bufs, k, l)
      BY DEF ShareIn
    <3> QED
      BY <3>1, <3>2 DEF HeldAt
  <2> QED
    BY <2>1, <2>2
<1>2. \A c \in J : new[c] = h[c]
  <2>1. ASSUME NEW c \in J PROVE new[c] = h[c]
    <3>1. PICK k \in 0..(p.groups - 1), l \in 0..(p.TPB - 1) : c = <<k, l>>
      BY DEF Cells
    <3>2. /\ new[<<k, l>>] = HeldAt(p, its2, mem2, bufs2, k, l)
          /\ h[<<k, l>>] = HeldAt(p, its, mem, bufs, k, l)
      BY HeldIsHeldAt
    <3> HIDE DEF new, h
    <3> QED
      BY <1>1, <3>1, <3>2
  <2> QED
    BY <2>1
<1> HIDE DEF h, new, J
<1>3. IsTiling(h, J, n)
  BY DEF h, J
<1>4. IsTiling(new, J, n)
  BY <1>2, <1>3, SameTiling
<1> QED
  BY <1>4 DEF new, J

\* A step that touches group g only, and leaves it what it holds.
LEMMA StillRunning ==
  ASSUME NEW p, NEW its, NEW mem, NEW bufs, NEW n, Running(p, its, mem, bufs, n),
         NEW its2, NEW mem2, NEW bufs2, InputOf(p, bufs2) = InputOf(p, bufs),
         NEW g \in 0..(p.groups - 1),
         SameElsewhere(p, its2, mem2, bufs2, its, mem, bufs, g),
         SameHere(p, its2, mem2, bufs2, its, mem, bufs, g),
         HasShape(its2, p), HasShape(mem2, p),
         AreItems(its2[g], p.TPB), Phase(its2[g], p.TPB)
  PROVE  Running(p, its2, mem2, bufs2, n)
<1>1. IsTiling(Held(p, its, mem, bufs), Cells(p.groups, p.TPB), n)
  BY DEF Running
<1>2. IsTiling(Held(p, its2, mem2, bufs2), Cells(p.groups, p.TPB), n)
  BY <1>1, StillTiled
<1>3. \A k \in 0..(p.groups - 1) : k # g => its2[k] = its[k]
  BY DEF SameElsewhere
<1>4. \A k \in 0..(p.groups - 1) :
         AreItems(its2[k], p.TPB) /\ Phase(its2[k], p.TPB)
  BY <1>3 DEF Running
<1> QED
  BY <1>2, <1>4 DEF Running

LEMMA GatherRuns ==
  ASSUME NEW p, Sound(p), NEW its, NEW mem, NEW bufs, NEW n,
         Running(p, its, mem, bufs, n),
         NEW g \in 0..(p.groups - 1), NEW l \in 0..(p.TPB - 1),
         its[g][l].pc = "gather",
         NEW x, IsItem(x), x.pc = "barrier", x.i = its[g][l].i,
         NEW its2, EntryIs(its2, its, g, l, x),
         NEW mem2, EntryIs(mem2, mem, g, l, ShareIn(p, bufs, g, l))
  PROVE  Running(p, its2, mem2, bufs, n)
<1> DEFINE L == 0..(p.TPB - 1)
<1>0. p.TPB \in Widths
  BY DEF Sound, Passes
<1>1. HasShape(its, p) /\ HasShape(mem, p)
  BY DEF Running
<1>2. HasShape(its2, p) /\ HasShape(mem2, p)
  BY <1>1, ShapeKept
<1>3. /\ \A m \in L : its2[g][m] = IF m = l THEN x ELSE its[g][m]
      /\ \A m \in L : mem2[g][m] = IF m = l THEN ShareIn(p, bufs, g, l)
                                           ELSE mem[g][m]
      /\ \A k \in 0..(p.groups - 1) : k # g => its2[k] = its[k] /\ mem2[k] = mem[k]
  BY <1>1 DEF EntryIs, HasShape
<1>4. AreItems(its2[g], p.TPB)
  BY <1>3 DEF AreItems, Running
<1>5. Gathering(its[g], p.TPB)
  <2>1. Phase(its[g], p.TPB)
    BY DEF Running
  <2>2. ASSUME NEW r \in Strides(p.TPB), Combining(its[g], p.TPB, r) PROVE FALSE
    BY <2>2 DEF Combining
  <2>3. ~ Writing(its[g], p.TPB)
    BY DEF Writing
  <2> QED
    BY <2>1, <2>2, <2>3 DEF Phase
<1>6. Gathering(its2[g], p.TPB)
  BY <1>3, <1>5 DEF Gathering
<1>7. SameHere(p, its2, mem2, bufs, its, mem, bufs, g)
  <2> SUFFICES ASSUME NEW m \in L
               PROVE  HeldAt(p, its2, mem2, bufs, g, m) = HeldAt(p, its, mem, bufs, g, m)
    BY DEF SameHere
  <2>1. HeldAt(p, its, mem, bufs, g, m) =
           IF its[g][m].pc = "gather" THEN ShareIn(p, bufs, g, m) ELSE mem[g][m]
    BY <1>0, <1>5, GatheringHolds DEF HeldAt
  <2>2. HeldAt(p, its2, mem2, bufs, g, m) =
           IF its2[g][m].pc = "gather" THEN ShareIn(p, bufs, g, m) ELSE mem2[g][m]
    BY <1>0, <1>6, GatheringHolds DEF HeldAt
  <2>3. CASE m = l
    BY <1>3, <2>1, <2>2, <2>3
  <2>4. CASE m # l
    BY <1>3, <2>1, <2>2, <2>4
  <2> QED
    BY <2>3, <2>4
<1>8. SameElsewhere(p, its2, mem2, bufs, its, mem, bufs, g)
  BY <1>3 DEF SameElsewhere
<1>9. Phase(its2[g], p.TPB)
  BY <1>6 DEF Phase
<1> QED
  BY <1>2, <1>4, <1>7, <1>8, <1>9, StillRunning

\* The round of an item that has to combine.
LEMMA InRound ==
  ASSUME NEW p, NEW its, NEW mem, NEW bufs, NEW n, Running(p, its, mem, bufs, n),
         NEW g \in 0..(p.groups - 1), NEW l \in 0..(p.TPB - 1),
         its[g][l].pc \in {"read", "combine"}
  PROVE  /\ its[g][l].i \in Strides(p.TPB) /\ l < its[g][l].i
         /\ Combining(its[g], p.TPB, its[g][l].i)
<1>1. Phase(its[g], p.TPB)
  BY DEF Running
<1>2. ~ Gathering(its[g], p.TPB)
  BY DEF Gathering
<1>3. ~ Writing(its[g], p.TPB)
  BY DEF Writing
<1>4. PICK r \in Strides(p.TPB) : Combining(its[g], p.TPB, r)
  BY <1>1, <1>2, <1>3 DEF Phase
<1>5. l < r /\ its[g][l].i = r
  BY <1>4 DEF Combining
<1> QED
  BY <1>4, <1>5

HoldsInRound(p, its, mem, bufs, g, l, r) ==
    HeldAt(p, its, mem, bufs, g, l) = RoundHolds(its[g][l], l, r, mem[g])

LEMMA HeldInRound ==
  ASSUME NEW p, p.TPB \in Widths, NEW its, NEW g, NEW r,
         r \in Strides(p.TPB), Combining(its[g], p.TPB, r),
         NEW l, l \in 0..(p.TPB - 1), NEW mem, NEW bufs
  PROVE  HoldsInRound(p, its, mem, bufs, g, l, r)
<1> DEFINE group == its[g]
           tpb == p.TPB
           share == ShareIn(p, bufs, g, l)
           out == bufs[p.dst][g]
           m == mem[g]
<1>1. HeldAt(p, its, mem, bufs, g, l) = HeldBy(group[l], l, m, share, out)
  BY DEF HeldAt
<1>2. tpb \in Widths /\ r \in Strides(tpb) /\ Combining(group, tpb, r)
      /\ l \in 0..(tpb - 1)
  OBVIOUS
<1> HIDE DEF group, tpb, share, out, m
<1>3. HeldBy(group[l], l, m, share, out) = RoundHolds(group[l], l, r, m)
  BY <1>2, CombiningHolds
<1> QED
  BY <1>1, <1>3 DEF group, m, HoldsInRound

\* ... and after the last round.
HoldsResult(p, its, mem, bufs, g, l) ==
    HeldAt(p, its, mem, bufs, g, l) =
        IF l # 0 THEN << >>
        ELSE IF its[g][l].pc = "write" THEN mem[g][0] ELSE bufs[p.dst][g]

LEMMA HeldAfterRounds ==
  ASSUME NEW p, p.TPB \in Widths, NEW its, NEW g, Writing(its[g], p.TPB),
         NEW l, l \in 0..(p.TPB - 1), NEW mem, NEW bufs
  PROVE  HoldsResult(p, its, mem, bufs, g, l)
<1> DEFINE group == its[g]
           tpb == p.TPB
           share == ShareIn(p, bufs, g, l)
           out == bufs[p.dst][g]
           m == mem[g]
<1>1. HeldAt(p, its, mem, bufs, g, l) = HeldBy(group[l], l, m, share, out)
  BY DEF HeldAt
<1>2. tpb \in Widths /\ Writing(group, tpb) /\ l \in 0..(tpb - 1)
  OBVIOUS
<1> HIDE DEF group, tpb, share, out, m
<1>3. HeldBy(group[l], l, m, share, out) =
         IF l # 0 THEN << >>
         ELSE IF group[l].pc = "write" THEN m[0] ELSE out
  BY <1>2, WritingHolds
<1> QED
  BY <1>1, <1>3 DEF group, m, out, HoldsResult

LEMMA ReadRuns ==
  ASSUME NEW p, Sound(p), NEW its, NEW mem, NEW bufs, NEW n,
         Running(p, its, mem, bufs, n),
         NEW g \in 0..(p.groups - 1), NEW l \in 0..(p.TPB - 1),
         its[g][l].pc = "read",
         NEW x, IsItem(x), x.pc = "combine", x.i = its[g][l].i,
         x.p = mem[g][l] \o mem[g][l + its[g][l].i],
         NEW its2, EntryIs(its2, its, g, l, x)
  PROVE  Running(p, its2, mem, bufs, n)
<1> DEFINE L == 0..(p.TPB - 1)
           r == its[g][l].i
<1>0. p.TPB \in Widths
  BY DEF Sound, Passes
<1>1. HasShape(its, p) /\ HasShape(mem, p)
  BY DEF Running
<1>2. HasShape(its2, p)
  BY <1>1, ShapeKept
<1>3. /\ \A m \in L : its2[g][m] = IF m = l THEN x ELSE its[g][m]
      /\ \A k \in 0..(p.groups - 1) : k # g => its2[k] = its[k]
  BY <1>1 DEF EntryIs, HasShape
<1>4. AreItems(its2[g], p.TPB)
  BY <1>3 DEF AreItems, Running
<1>5. r \in Strides(p.TPB) /\ l < r /\ Combining(its[g], p.TPB, r)
  BY InRound
<1>6. Combining(its2[g], p.TPB, r)
  BY <1>3, <1>5 DEF Combining
<1>7. SameHere(p, its2, mem, bufs, its, mem, bufs, g)
  <2> SUFFICES ASSUME NEW m \in L
               PROVE  HeldAt(p, its2, mem, bufs, g, m) = HeldAt(p, its, mem, bufs, g, m)
    BY DEF SameHere
  <2>1. HoldsInRound(p, its, mem, bufs, g, m, r)
    BY <1>0, <1>5, HeldInRound
  <2>2. HoldsInRound(p, its2, mem, bufs, g, m, r)
    BY <1>0, <1>5, <1>6, HeldInRound
  <2>3. CASE m = l
    <3>1. its2[g][m] = x
      BY <1>3, <2>3
    <3> QED
      BY <1>5, <2>1, <2>2, <2>3, <3>1 DEF RoundHolds, HoldsInRound
  <2>4. CASE m # l
    BY <1>3, <2>1, <2>2, <2>4 DEF RoundHolds, HoldsInRound
  <2> QED
    BY <2>3, <2>4
<1>8. SameElsewhere(p, its2, mem, bufs, its, mem, bufs, g)
  BY <1>3 DEF SameElsewhere
<1>9. Phase(its2[g], p.TPB)
  BY <1>5, <1>6 DEF Phase
<1> QED
  BY <1>1, <1>2, <1>4, <1>7, <1>8, <1>9, StillRunning

LEMMA CombineRuns ==
  ASSUME NEW p, Sound(p), NEW its, NEW mem, NEW bufs, NEW n,
         Running(p, its, mem, bufs, n),
         NEW g \in 0..(p.groups - 1), NEW l \in 0..(p.TPB - 1),
         its[g][l].pc = "combine",
         NEW x, IsItem(x), x.pc = "barrier", x.i = its[g][l].i \div 2,
         NEW its2, EntryIs(its2, its, g, l, x),
         NEW mem2, EntryIs(mem2, mem, g, l, its[g][l].p)
  PROVE  Running(p, its2, mem2, bufs, n)
<1> DEFINE L == 0..(p.TPB - 1)
           r == its[g][l].i
<1>0. p.TPB \in Widths
  BY DEF Sound, Passes
<1>1. HasShape(its, p) /\ HasShape(mem, p)
  BY DEF Running
<1>2. HasShape(its2, p) /\ HasShape(mem2, p)
  BY <1>1, ShapeKept
<1>3. /\ \A m \in L : its2[g][m] = IF m = l THEN x ELSE its[g][m]
      /\ \A m \in L : mem2[g][m] = IF m = l THEN its[g][l].p ELSE mem[g][m]
      /\ \A k \in 0..(p.groups - 1) : k # g => its2[k] = its[k] /\ mem2[k] = mem[k]
  BY <1>1 DEF EntryIs, HasShape
<1>4. AreItems(its2[g], p.TPB)
  BY <1>3 DEF AreItems, Running
<1>5. r \in Strides(p.TPB) /\ l < r /\ Combining(its[g], p.TPB, r)
  BY InRound
<1>6. Combining(its2[g], p.TPB, r)
  BY <1>3, <1>5 DEF Combining
<1>7. SameHere(p, its2, mem2, bufs, its, mem, bufs, g)
  <2> SUFFICES ASSUME NEW m \in L
               PROVE  HeldAt(p, its2, mem2, bufs, g, m) = HeldAt(p, its, mem, bufs, g, m)
    BY DEF SameHere
  <2>1. HoldsInRound(p, its, mem, bufs, g, m, r)
    BY <1>0, <1>5, HeldInRound
  <2>2. HoldsInRound(p, its2, mem2, bufs, g, m, r)
    BY <1>0, <1>5, <1>6, HeldInRound
  <2>3. CASE m = l
    <3>1. its2[g][m] = x /\ mem2[g][m] = its[g][l].p
      BY <1>3, <2>3
    <3> QED
      BY <1>5, <2>1, <2>2, <2>3, <3>1 DEF RoundHolds, HoldsInRound
\* The slot that was written is one that no other item of the round reads.
  <2>4. CASE m # l /\ m < r
    <3>1. r \in Nat /\ 2 * r <= p.TPB /\ p.TPB \in Nat
      BY <1>0, <1>5, StridesHalved, WidthsHalved
    <3> DEFINE o == m + r
    <3>2. o \in L /\ o # l
      BY <1>5, <2>4, <3>1
    <3> HIDE DEF o, r
    <3>3. mem2[g][o] = mem[g][o] /\ mem2[g][m] = mem[g][m] /\ its2[g][m] = its[g][m]
      BY <1>3, <2>4, <3>2
    <3> QED
      BY <2>1, <2>2, <2>4, <3>3 DEF o, RoundHolds, HoldsInRound
  <2>5. CASE ~ m < r
    BY <2>1, <2>2, <2>5 DEF RoundHolds, HoldsInRound
  <2> QED
    BY <2>3, <2>4, <2>5
<1>8. SameElsewhere(p, its2, mem2, bufs, its, mem, bufs, g)
  BY <1>3 DEF SameElsewhere
<1>9. Phase(its2[g], p.TPB)
  BY <1>5, <1>6 DEF Phase
<1> QED
  BY <1>2, <1>4, <1>7, <1>8, <1>9, StillRunning
-----------------------------------------------------------------------------
(* The barrier of a group.                                                 *)
Arrived(group, tpb) == \A l \in 0..(tpb - 1) : group[l].pc = "barrier"

PastBarrier(its2, its, tpb, g) ==
    /\ DOMAIN its2 = DOMAIN its
    /\ \A k \in DOMAIN its : k # g => its2[k] = its[k]
    /\ DOMAIN its2[g] = 0..(tpb - 1)
    /\ \A l \in 0..(tpb - 1) : its2[g][l] = AfterBarrier(its[g][l], l)

\* Each of the first items holds its slot; the first half of them is to read.
HoldFirst(p, its, mem, bufs, g, r) ==
    \A l \in 0..(p.TPB - 1) :
        HeldAt(p, its, mem, bufs, g, l) = IF l < 2 * r THEN mem[g][l] ELSE << >>

AboutToRead(group, tpb, r) ==
    \A l \in 0..(tpb - 1) :
        \/ l < r /\ group[l].pc = "read" /\ group[l].i = r
        \/ ~ l < r /\ group[l].pc = "barrier" /\ group[l].i = r \div 2

LEMMA RoundBegins ==
  ASSUME NEW p, Sound(p), NEW its, NEW mem, NEW bufs, NEW n \in Nat,
         IsTiling(Held(p, its, mem, bufs), Cells(p.groups, p.TPB), n),
         NEW g \in 0..(p.groups - 1), NEW r, r \in Strides(p.TPB),
         HoldFirst(p, its, mem, bufs, g, r),
         NEW its2, AboutToRead(its2[g], p.TPB, r),
         SameElsewhere(p, its2, mem, bufs, its, mem, bufs, g)
  PROVE  IsTiling(Held(p, its2, mem, bufs), Cells(p.groups, p.TPB), n)
<1> DEFINE groups == p.groups
           tpb == p.TPB
           h == Held(p, its, mem, bufs)
           new == Held(p, its2, mem, bufs)
           G == 0..(groups - 1)
           L == 0..(tpb - 1)
<1>1. groups \in Nat \ {0} /\ tpb \in Widths
  BY DEF Sound, Passes
<1>2. tpb \in Nat \ {0} /\ r \in Nat \ {0} /\ 2 * r <= tpb
  BY <1>1, WidthsHalved, StridesHalved
<1>3. \A l \in L : h[<<g, l>>] = IF l < 2 * r THEN mem[g][l] ELSE << >>
  <2> SUFFICES ASSUME NEW l \in L
               PROVE  h[<<g, l>>] = IF l < 2 * r THEN mem[g][l] ELSE << >>
    OBVIOUS
  <2>1. h[<<g, l>>] = HeldAt(p, its, mem, bufs, g, l)
    BY HeldIsHeldAt
  <2> QED
    BY <2>1 DEF HoldFirst
<1>4. \A l \in L : new[<<g, l>>] =
                      IF l < r THEN mem[g][l] \o mem[g][l + r] ELSE << >>
  <2> SUFFICES ASSUME NEW l \in L
               PROVE  new[<<g, l>>] =
                         IF l < r THEN mem[g][l] \o mem[g][l + r] ELSE << >>
    OBVIOUS
  <2>1. new[<<g, l>>] = HeldAt(p, its2, mem, bufs, g, l)
    BY HeldIsHeldAt
  <2>2. Combining(its2[g], p.TPB, r)
    BY DEF AboutToRead, Combining
  <2>3. HoldsInRound(p, its2, mem, bufs, g, l, r)
    BY <1>1, <2>2, HeldInRound
  <2>4. l < r => its2[g][l].pc = "read"
    BY DEF AboutToRead
  <2> HIDE DEF new
  <2> QED
    BY <2>1, <2>3, <2>4 DEF HoldsInRound, RoundHolds
<1>5. \A k \in G, l \in L : k # g => new[<<k, l>>] = h[<<k, l>>]
  <2> SUFFICES ASSUME NEW k \in G, NEW l \in L, k # g
               PROVE  new[<<k, l>>] = h[<<k, l>>]
    OBVIOUS
  <2>1. /\ new[<<k, l>>] = HeldAt(p, its2, mem, bufs, k, l)
        /\ h[<<k, l>>] = HeldAt(p, its, mem, bufs, k, l)
    BY HeldIsHeldAt
  <2>2. its2[k] = its[k]
    BY DEF SameElsewhere
  <2> HIDE DEF new, h
  <2> QED
    BY <2>1, <2>2 DEF HeldAt
<1>6. IsTiling(h, Cells(groups, tpb), n) /\ g \in 0..(groups - 1)
  OBVIOUS
<1> HIDE DEF h, new, groups, tpb
<1>7. \A l \in L : /\ l >= 2 * r => h[<<g, l>>] = << >>
                   /\ l < r => /\ h[<<g, l>>] = mem[g][l]
                               /\ h[<<g, l + r>>] = mem[g][l + r]
  <2> SUFFICES ASSUME NEW l \in L
               PROVE  /\ l >= 2 * r => h[<<g, l>>] = << >>
                      /\ l < r => /\ h[<<g, l>>] = mem[g][l]
                                  /\ h[<<g, l + r>>] = mem[g][l + r]
    OBVIOUS
  <2> DEFINE o == l + r
  <2>1. /\ l >= 2 * r => ~ l < 2 * r
        /\ l < r => l < 2 * r /\ o < 2 * r /\ o \in L
    BY <1>2
  <2> HIDE DEF o, L
  <2> QED
    BY <1>3, <2>1 DEF o
<1>8. RoundOf(new, h, groups, tpb, g, r)
  BY <1>4, <1>5, <1>7 DEF RoundOf
<1>9. IsTiling(new, Cells(groups, tpb), n)
  BY <1>1, <1>2, <1>6, <1>8, RoundKeepsTiling
<1> QED
  BY <1>9 DEF new, groups, tpb

LEMMA BarrierRuns ==
  ASSUME NEW p, Sound(p), NEW its, NEW mem, NEW bufs, NEW n \in Nat,
         Running(p, its, mem, bufs, n),
         NEW g \in 0..(p.groups - 1), Arrived(its[g], p.TPB),
         NEW its2, PastBarrier(its2, its, p.TPB, g)
  PROVE  Running(p, its2, mem, bufs, n)
<1> DEFINE L == 0..(p.TPB - 1)
<1>0. p.TPB \in Widths /\ p.TPB \in Nat \ {0}
  BY WidthsHalved DEF Sound, Passes
<1>1. HasShape(its, p) /\ HasShape(mem, p)
  BY DEF Running
<1>2. HasShape(its2, p)
  BY <1>1 DEF HasShape, PastBarrier
<1>3. /\ \A m \in L : its2[g][m] = AfterBarrier(its[g][m], m)
      /\ \A k \in 0..(p.groups - 1) : k # g => its2[k] = its[k]
      /\ \A m \in L : its[g][m].pc = "barrier" /\ IsItem(its[g][m])
  BY <1>1 DEF PastBarrier, HasShape, Arrived, Running, AreItems
<1>4. AreItems(its2[g], p.TPB)
  <2> SUFFICES ASSUME NEW m \in L PROVE IsItem(its2[g][m])
    BY DEF AreItems
  <2> DEFINE y == its[g][m]
  <2>1. IsItem(y) /\ its2[g][m] = AfterBarrier(y, m)
    BY <1>3
  <2> HIDE DEF y
  <2> QED
    BY <2>1 DEF IsItem, AfterBarrier
<1>5. \A m \in L :
         LET y == its[g][m] z == its2[g][m]
         IN  /\ y.i = 0 => z.pc = IF m = 0 THEN "write" ELSE "done"
             /\ y.i # 0 /\ m < y.i => z.pc = "read" /\ z.i = y.i
             /\ y.i # 0 /\ ~ m < y.i => z.pc = "barrier" /\ z.i = y.i \div 2
  <2> SUFFICES ASSUME NEW m \in L, NEW y, y = its[g][m], NEW z, z = its2[g][m]
               PROVE  /\ y.i = 0 => z.pc = IF m = 0 THEN "write" ELSE "done"
                      /\ y.i # 0 /\ m < y.i => z.pc = "read" /\ z.i = y.i
                      /\ y.i # 0 /\ ~ m < y.i => z.pc = "barrier" /\ z.i = y.i \div 2
    OBVIOUS
  <2>1. IsItem(y) /\ y.pc = "barrier" /\ z = AfterBarrier(y, m)
    BY <1>3
  <2> QED
    BY <2>1 DEF IsItem, AfterBarrier
<1>6. SameElsewhere(p, its2, mem, bufs, its, mem, bufs, g)
  BY <1>3 DEF SameElsewhere
<1>7. IsTiling(Held(p, its, mem, bufs), Cells(p.groups, p.TPB), n)
  BY DEF Running
<1>8. ASSUME NEW r, r \in Strides(p.TPB), HoldFirst(p, its, mem, bufs, g, r),
             \A m \in L : its[g][m].i = r
      PROVE  Running(p, its2, mem, bufs, n)
  <2>1. r \in Nat \ {0}
    BY <1>0, <1>8, StridesHalved
  <2>2. AboutToRead(its2[g], p.TPB, r)
    BY <1>5, <1>8, <2>1 DEF AboutToRead
  <2>3. IsTiling(Held(p, its2, mem, bufs), Cells(p.groups, p.TPB), n)
    BY <1>6, <1>7, <1>8, <2>2, RoundBegins
  <2>4. Combining(its2[g], p.TPB, r)
    BY <2>2 DEF AboutToRead, Combining
  <2>5. Phase(its2[g], p.TPB)
    BY <1>8, <2>4 DEF Phase
  <2>6. \A k \in 0..(p.groups - 1) :
           AreItems(its2[k], p.TPB) /\ Phase(its2[k], p.TPB)
    BY <1>3, <1>4, <2>5 DEF Running
  <2> QED
    BY <1>1, <1>2, <2>3, <2>6 DEF Running
<1>9. CASE Gathering(its[g], p.TPB)
  <2> DEFINE r == p.TPB \div 2
  <2>1. r \in Strides(p.TPB) /\ 2 * r = p.TPB
    BY <1>0, WidthsHalved
  <2>2. \A m \in L : its[g][m].i = r
    BY <1>9 DEF Gathering
  <2> HIDE DEF r
  <2>3. ASSUME NEW m \in L
        PROVE  HeldAt(p, its, mem, bufs, g, m) = IF m < 2 * r THEN mem[g][m] ELSE << >>
    <3>1. HeldAt(p, its, mem, bufs, g, m) =
             IF its[g][m].pc = "gather" THEN ShareIn(p, bufs, g, m) ELSE mem[g][m]
      BY <1>0, <1>9, GatheringHolds DEF HeldAt
    <3>2. m < 2 * r
      BY <1>0, <2>1
    <3> QED
      BY <1>3, <3>1, <3>2
  <2>4. HoldFirst(p, its, mem, bufs, g, r)
    BY <2>3 DEF HoldFirst
  <2> QED
    BY <1>8, <2>1, <2>2, <2>4
<1>10. ASSUME NEW q, q \in Strides(p.TPB), Combining(its[g], p.TPB, q)
       PROVE  Running(p, its2, mem, bufs, n)
  <2>1. \A m \in L : its[g][m].i = q \div 2
    BY <1>3, <1>10 DEF Combining
  <2>2. \A m \in L : HeldAt(p, its, mem, bufs, g, m) =
                        IF m < q THEN mem[g][m] ELSE << >>
    <3> SUFFICES ASSUME NEW m \in L
                 PROVE  HeldAt(p, its, mem, bufs, g, m) =
                           IF m < q THEN mem[g][m] ELSE << >>
      OBVIOUS
    <3>1. HoldsInRound(p, its, mem, bufs, g, m, q)
      BY <1>0, <1>10, HeldInRound
    <3> QED
      BY <1>3, <3>1 DEF HoldsInRound, RoundHolds
  <2>3. CASE q \div 2 # 0
    <3> DEFINE r == q \div 2
    <3>1. r \in Strides(p.TPB) /\ 2 * r = q
      BY <1>0, <1>10, <2>3, StridesHalved
    <3>2. \A m \in L : its[g][m].i = r
      BY <2>1
    <3> HIDE DEF r
    <3>3. HoldFirst(p, its, mem, bufs, g, r)
      BY <2>2, <3>1 DEF HoldFirst
    <3> QED
      BY <1>8, <3>1, <3>2, <3>3
\* The last round is over: the first slot is the result of the group.
  <2>4. CASE q \div 2 = 0
    <3>1. q = 1
      BY <1>0, <1>10, <2>4, StridesHalved
    <3>2. \A m \in L : its2[g][m].pc = IF m = 0 THEN "write" ELSE "done"
      BY <1>5, <2>1, <2>4
    <3>3. Writing(its2[g], p.TPB)
      <4>1. 0 \in L
        BY <1>0
      <4> QED
        BY <3>2, <4>1 DEF Writing
    <3>4. SameHere(p, its2, mem, bufs, its, mem, bufs, g)
      <4> SUFFICES ASSUME NEW m \in L
                   PROVE  HeldAt(p, its2, mem, bufs, g, m) =
                             HeldAt(p, its, mem, bufs, g, m)
        BY DEF SameHere
      <4>1. HoldsResult(p, its2, mem, bufs, g, m)
        BY <1>0, <3>3, HeldAfterRounds
      <4>2. m < q <=> m = 0
        BY <1>0, <3>1
      <4> QED
        BY <2>2, <3>2, <4>1, <4>2 DEF HoldsResult
    <3>5. Phase(its2[g], p.TPB)
      BY <3>3 DEF Phase
    <3> QED
      BY <1>1, <1>2, <1>4, <1>6, <3>4, <3>5, StillRunning
  <2> QED
    BY <2>3, <2>4
<1>11. ~ Writing(its[g], p.TPB)
  <2>1. 0 \in L
    BY <1>0
  <2> QED
    BY <1>3, <2>1 DEF Writing
<1>12. Phase(its[g], p.TPB)
  BY DEF Running
<1> QED
  BY <1>9, <1>10, <1>11, <1>12 DEF Phase
-----------------------------------------------------------------------------
(* The beginning and the end of a pass.                                    *)
LEMMA WriteRuns ==
  ASSUME NEW p, Sound(p), NEW its, NEW mem, NEW bufs, NEW n,
         Running(p, its, mem, bufs, n), RoomFor(p.groups, bufs),
         NEW g \in 0..(p.groups - 1), its[g][0].pc = "write",
         NEW x, IsItem(x), x.pc = "done",
         NEW its2, EntryIs(its2, its, g, 0, x),
         NEW bufs2, EntryIs(bufs2, bufs, p.dst, g, mem[g][0])
  PROVE  Running(p, its2, mem, bufs2, n) /\ InputOf(p, bufs2) = InputOf(p, bufs)
<1> DEFINE L == 0..(p.TPB - 1)
<1>0. /\ p.TPB \in Widths /\ p.TPB \in Nat \ {0} /\ 0 \in L
      /\ p.dst \in {"A", "B"} /\ p.kernel \in {"initial", "intermediate"}
  BY WidthsHalved DEF Sound, Passes
<1>1. HasShape(its, p) /\ HasShape(mem, p)
  BY DEF Running
<1>2. HasShape(its2, p)
  BY <1>0, <1>1, ShapeKept
<1>3. /\ \A m \in L : its2[g][m] = IF m = 0 THEN x ELSE its[g][m]
      /\ \A k \in 0..(p.groups - 1) : k # g => its2[k] = its[k]
  BY <1>1 DEF EntryIs, HasShape
<1>4. AreItems(its2[g], p.TPB)
  BY <1>3 DEF AreItems, Running
<1>5. Writing(its[g], p.TPB)
  <2>1. Phase(its[g], p.TPB)
    BY DEF Running
  <2>2. ASSUME NEW r \in Strides(p.TPB), Combining(its[g], p.TPB, r) PROVE FALSE
    BY <1>0, <2>2 DEF Combining
  <2>3. ~ Gathering(its[g], p.TPB)
    BY <1>0 DEF Gathering
  <2> QED
    BY <2>1, <2>2, <2>3 DEF Phase
<1>6. Writing(its2[g], p.TPB)
  BY <1>0, <1>3, <1>5 DEF Writing
<1>7. /\ bufs2[p.dst][g] = mem[g][0]
      /\ \A k \in 0..(p.groups - 1) : k # g => bufs2[p.dst][k] = bufs[p.dst][k]
      /\ \A b \in {"A", "B"} : b # p.dst => bufs2[b] = bufs[b]
  BY <1>0 DEF EntryIs, RoomFor
<1>8. InputOf(p, bufs2) = InputOf(p, bufs)
  <2>1. CASE p.kernel = "initial"
    BY <2>1 DEF InputOf
  <2>2. CASE p.kernel = "intermediate"
    <3>1. bufs2[p.src] = bufs[p.src]
      BY <1>7, <2>2 DEF Sound
    <3> QED
      BY <2>2, <3>1 DEF InputOf
  <2> QED
    BY <1>0, <2>1, <2>2
<1>9. SameHere(p, its2, mem, bufs2, its, mem, bufs, g)
  <2> SUFFICES ASSUME NEW m \in L
               PROVE  HeldAt(p, its2, mem, bufs2, g, m) = HeldAt(p, its, mem, bufs, g, m)
    BY DEF SameHere
  <2>1. HoldsResult(p, its2, mem, bufs2, g, m)
    BY <1>0, <1>6, HeldAfterRounds
  <2>2. HoldsResult(p, its, mem, bufs, g, m)
    BY <1>0, <1>5, HeldAfterRounds
  <2> QED
    BY <1>3, <1>7, <2>1, <2>2 DEF HoldsResult
<1>10. SameElsewhere(p, its2, mem, bufs2, its, mem, bufs, g)
  BY <1>3, <1>7 DEF SameElsewhere
<1>11. Phase(its2[g], p.TPB)
  BY <1>6 DEF Phase
<1>12. Running(p, its2, mem, bufs2, n)
  BY <1>1, <1>2, <1>4, <1>8, <1>9, <1>10, <1>11, StillRunning
<1> QED
  BY <1>8, <1>12

\* The work items at the beginning of a pass, and at its end.
Fresh(its, p) ==
    \A g \in 0..(p.groups - 1), l \in 0..(p.TPB - 1) :
        /\ IsItem(its[g][l])
        /\ its[g][l].pc = "gather" /\ its[g][l].i = p.TPB \div 2

AllDone(its, p) ==
    \A g \in 0..(p.groups - 1), l \in 0..(p.TPB - 1) : its[g][l].pc = "done"

LEMMA StartRuns ==
  ASSUME NEW p, Sound(p), NEW bufs, NEW n \in Nat,
         IsTiling(InputOf(p, bufs), 0..(p.N - 1), n),
         NEW its, HasShape(its, p), Fresh(its, p), NEW mem, HasShape(mem, p)
  PROVE  Running(p, its, mem, bufs, n)
<1> DEFINE h == Held(p, its, mem, bufs)
           groups == p.groups
           tpb == p.TPB
           total == p.N
           values == InputOf(p, bufs)
<1>1. groups \in Nat \ {0} /\ tpb \in Widths /\ tpb \in Nat \ {0} /\ total \in Nat
  BY WidthsHalved DEF Sound, Passes
<1>2. SharesOf(h, values, total, groups, tpb)
  <2> SUFFICES ASSUME NEW g \in 0..(groups - 1), NEW l \in 0..(tpb - 1)
               PROVE  h[<<g, l>>] = ShareOf(values, total, groups, tpb, g, l)
    BY DEF SharesOf
  <2>1. h[<<g, l>>] = HeldAt(p, its, mem, bufs, g, l)
    BY HeldIsHeldAt
  <2>2. its[g][l].pc = "gather"
    BY DEF Fresh
  <2> HIDE DEF h
  <2> QED
    BY <2>1, <2>2 DEF HeldAt, HeldBy, ShareIn
<1>3. IsTiling(values, 0..(total - 1), n)
  OBVIOUS
<1>4. \A g \in 0..(groups - 1) : AreItems(its[g], tpb) /\ Phase(its[g], tpb)
  BY DEF Fresh, AreItems, Phase, Gathering
<1> HIDE DEF h, groups, tpb, total, values
<1>5. IsTiling(h, Cells(groups, tpb), n)
  BY <1>1, <1>2, <1>3, SharesTile
<1> QED
  BY <1>4, <1>5 DEF Running, h, groups, tpb

LEMMA FinishTiles ==
  ASSUME NEW p, Sound(p), NEW its, NEW mem, NEW bufs, NEW n \in Nat,
         Running(p, its, mem, bufs, n), AllDone(its, p)
  PROVE  IsTiling(bufs[p.dst], 0..(p.groups - 1), n)
<1> DEFINE h == Held(p, its, mem, bufs)
           groups == p.groups
           tpb == p.TPB
           out == bufs[p.dst]
<1>1. groups \in Nat \ {0} /\ tpb \in Nat \ {0}
  BY WidthsHalved DEF Sound, Passes
<1>2. ResultsOf(out, h, groups, tpb)
  <2> SUFFICES ASSUME NEW g \in 0..(groups - 1), NEW l \in 0..(tpb - 1)
               PROVE  h[<<g, l>>] = IF l = 0 THEN out[g] ELSE << >>
    BY DEF ResultsOf
  <2>1. h[<<g, l>>] = HeldAt(p, its, mem, bufs, g, l)
    BY HeldIsHeldAt
  <2>2. its[g][l].pc = "done"
    BY DEF AllDone
  <2> HIDE DEF h
  <2> QED
    BY <2>1, <2>2 DEF HeldAt, HeldBy
<1>3. IsTiling(h, Cells(groups, tpb), n)
  BY DEF Running
<1> HIDE DEF h, groups, tpb, out
<1>4. IsTiling(out, 0..(groups - 1), n)
  BY <1>1, <1>2, <1>3, ResultsTile
<1> QED
  BY <1>4 DEF out, groups
-----------------------------------------------------------------------------
(* The steps of the device.                                                *)
LEMMA RunningPass ==
  ASSUME IInv, NEW g \in Groups
  PROVE  /\ items # << >> /\ queue # << >> /\ host # "initial"
         /\ queue \in Seq(Passes) /\ size \in Nat
         /\ pass = queue[1] /\ Sound(queue[1])
         /\ RoomFor(queue[1].groups, buffers)
         /\ Running(queue[1], items, scratch, buffers, size)
         /\ HasShape(items, queue[1]) /\ HasShape(scratch, queue[1])
         /\ Groups = 0..(queue[1].groups - 1)
         /\ Lids = 0..(queue[1].TPB - 1)
<1>1. items # << >>
  <2>1. DOMAIN << >> = {}
    OBVIOUS
  <2> QED
    BY <2>1 DEF Groups
<1>2. /\ queue # << >> /\ host # "initial" /\ queue \in Seq(Passes) /\ size \in Nat
      /\ Running(queue[1], items, scratch, buffers, size)
  BY <1>1 DEF IInv, DeviceOK, HostOK, QueueOK
<1>3. 1 \in 1..Len(queue) /\ pass = queue[1]
  BY <1>2 DEF pass
<1>4. Sound(queue[1]) /\ RoomFor(queue[1].groups, buffers)
  BY <1>3 DEF IInv, QueueOK
<1>5. HasShape(items, queue[1]) /\ HasShape(scratch, queue[1])
  BY <1>2 DEF Running
<1> QED
  BY <1>1, <1>2, <1>3, <1>4, <1>5 DEF Groups, Lids, HasShape

LEMMA ItemStep ==
  ASSUME IInv, NEW g \in Groups, UNCHANGED <<host_vars, queue, buffers>>,
         Running(queue[1], items', scratch', buffers, size)
  PROVE  IInv'
<1>1. queue # << >> /\ host # "initial"
  BY RunningPass
<1>2. HostOK'
  BY <1>1 DEF IInv, HostOK, host_vars
<1>3. QueueOK'
  BY DEF IInv, QueueOK, host_vars
<1>4. DataOK'
  BY DEF IInv, DataOK, host_vars
<1>5. DeviceOK'
  BY <1>1 DEF DeviceOK, host_vars
<1> QED
  BY <1>2, <1>3, <1>4, <1>5 DEF IInv

LEMMA ValuesPerThreadType ==
  ASSUME NEW n \in Nat, NEW groups \in Nat \ {0}, NEW tpb \in Nat \ {0}
  PROVE  ValuesPerThread(n, groups * tpb) \in Nat
<1> DEFINE all == groups * tpb
<1>1. all \in Nat \ {0}
  OBVIOUS
<1> HIDE DEF all
<1>2. n \div all \in Nat
  BY <1>1, Division
<1>3. ValuesPerThread(n, all) \in Nat
  BY <1>2 DEF ValuesPerThread
<1> QED
  BY <1>3 DEF all

LEMMA ShareIsShareIn ==
  ASSUME Sound(pass), NEW g \in 0..(pass.groups - 1), NEW l \in 0..(pass.TPB - 1)
  PROVE  Share(g, l) = ShareIn(pass, buffers, g, l)
<1> DEFINE p == pass
           at(i) == Position(g, l, i, p.groups, p.TPB)
           piece(i) == IF at(i) < p.N
                       THEN IF p.kernel = "initial" THEN <<at(i)>>
                            ELSE buffers[p.src][at(i)]
                       ELSE << >>
           taken(i) == IF at(i) < p.N THEN InputOf(p, buffers)[at(i)] ELSE << >>
<1>1. /\ p.groups \in Nat \ {0} /\ p.TPB \in Nat \ {0} /\ p.N \in Nat
      /\ p.VPT = ValuesPerThread(p.N, p.groups * p.TPB)
  BY WidthsHalved DEF Sound, Passes
<1>2. p.VPT \in Nat
  BY <1>1, ValuesPerThreadType
<1>3. Share(g, l) = FlattenSeq([i \in 1..p.VPT |-> piece(i)])
  BY DEF Share, Position
<1>4. ShareIn(p, buffers, g, l) = FlattenSeq([i \in 1..p.VPT |-> taken(i)])
  BY <1>1 DEF ShareIn, ShareOf
<1>5. ASSUME NEW i \in 1..p.VPT PROVE piece(i) = taken(i)
  <2>1. at(i) \in Nat
    <3>1. i \in Nat \ {0}
      BY <1>2
    <3> QED
      BY <1>1, <3>1, PositionType
  <2> HIDE DEF at, p
  <2>2. CASE at(i) < p.N
    <3>1. at(i) \in 0..(p.N - 1)
      BY <1>1, <2>1, <2>2
    <3> QED
      BY <2>2, <3>1 DEF InputOf
  <2> QED
    BY <2>2
<1>6. [i \in 1..p.VPT |-> piece(i)] = [i \in 1..p.VPT |-> taken(i)]
  <2> HIDE DEF piece, taken, p
  <2> QED
    BY <1>5
<1> QED
  BY <1>3, <1>4, <1>6

LEMMA GatherStep ==
  ASSUME IInv, NEW g \in Groups, NEW l \in Lids, Gather(g, l) PROVE IInv'
<1> DEFINE p == queue[1]
           x == [pc |-> "barrier", i |-> items[g][l].i, p |-> items[g][l].p]
<1>1. /\ pass = p /\ Sound(p) /\ size \in Nat
      /\ Running(p, items, scratch, buffers, size)
      /\ HasShape(items, p) /\ HasShape(scratch, p)
      /\ g \in 0..(p.groups - 1) /\ l \in 0..(p.TPB - 1)
  BY RunningPass
<1>2. IsItem(items[g][l])
  BY <1>1 DEF Running, AreItems
<1>3. /\ items[g][l].pc = "gather"
      /\ items' = [items EXCEPT ![g][l].pc = "barrier"]
      /\ scratch' = [scratch EXCEPT ![g][l] = Share(g, l)]
      /\ UNCHANGED <<host_vars, queue, buffers>>
  BY DEF Gather
<1>4. Share(g, l) = ShareIn(p, buffers, g, l)
  BY <1>1, ShareIsShareIn
<1> HIDE DEF p
<1>5. EntryIs(items', items, g, l, x)
  BY <1>1, <1>2, <1>3 DEF EntryIs, HasShape, IsItem
<1>6. EntryIs(scratch', scratch, g, l, ShareIn(p, buffers, g, l))
  BY <1>1, <1>3, <1>4 DEF EntryIs, HasShape
<1>7. IsItem(x) /\ x.pc = "barrier" /\ x.i = items[g][l].i
  BY DEF IsItem
<1> HIDE DEF x
<1>8. Running(p, items', scratch', buffers, size)
  BY <1>1, <1>3, <1>5, <1>6, <1>7, GatherRuns
<1> QED
  BY <1>3, <1>8, ItemStep DEF p

LEMMA ReadStep ==
  ASSUME IInv, NEW g \in Groups, NEW l \in Lids, Read(g, l) PROVE IInv'
<1> DEFINE p == queue[1]
           v == scratch[g][l] \o scratch[g][l + items[g][l].i]
           x == [pc |-> "combine", i |-> items[g][l].i, p |-> v]
<1>1. /\ pass = p /\ Sound(p) /\ size \in Nat
      /\ Running(p, items, scratch, buffers, size)
      /\ HasShape(items, p) /\ HasShape(scratch, p)
      /\ g \in 0..(p.groups - 1) /\ l \in 0..(p.TPB - 1)
  BY RunningPass
<1>2. IsItem(items[g][l])
  BY <1>1 DEF Running, AreItems
<1>3. /\ items[g][l].pc = "read"
      /\ items' = [items EXCEPT ![g][l].pc = "combine", ![g][l].p = v]
      /\ UNCHANGED <<host_vars, queue, buffers, scratch>>
  BY DEF Read
<1>4. IsItem(x) /\ x.pc = "combine" /\ x.i = items[g][l].i /\ x.p = v
  BY DEF IsItem
<1> HIDE DEF p
<1>5. EntryIs(items', items, g, l, x)
  <2> HIDE DEF v
  <2> QED
    BY <1>1, <1>2, <1>3 DEF EntryIs, HasShape, IsItem
<1> HIDE DEF x
<1>6. Running(p, items', scratch, buffers, size)
  BY <1>1, <1>3, <1>4, <1>5, ReadRuns
<1>7. Running(p, items', scratch', buffers, size)
  BY <1>3, <1>6
<1> QED
  BY <1>3, <1>7, ItemStep DEF p

LEMMA CombineStep ==
  ASSUME IInv, NEW g \in Groups, NEW l \in Lids, Combine(g, l) PROVE IInv'
<1> DEFINE p == queue[1]
           x == [pc |-> "barrier", i |-> items[g][l].i \div 2, p |-> << >>]
<1>1. /\ pass = p /\ Sound(p) /\ size \in Nat
      /\ Running(p, items, scratch, buffers, size)
      /\ HasShape(items, p) /\ HasShape(scratch, p)
      /\ g \in 0..(p.groups - 1) /\ l \in 0..(p.TPB - 1)
  BY RunningPass
<1>2. /\ items[g][l].pc = "combine"
      /\ items' = [items EXCEPT ![g][l] = x]
      /\ scratch' = [scratch EXCEPT ![g][l] = items[g][l].p]
      /\ UNCHANGED <<host_vars, queue, buffers>>
  BY DEF Combine
<1>3. IsItem(x) /\ x.pc = "barrier" /\ x.i = items[g][l].i \div 2
  BY DEF IsItem
<1> HIDE DEF p, x
<1>4. EntryIs(items', items, g, l, x)
  BY <1>1, <1>2 DEF EntryIs, HasShape
<1>5. EntryIs(scratch', scratch, g, l, items[g][l].p)
  BY <1>1, <1>2 DEF EntryIs, HasShape
<1>6. Running(p, items', scratch', buffers, size)
  BY <1>1, <1>2, <1>3, <1>4, <1>5, CombineRuns
<1> QED
  BY <1>2, <1>6, ItemStep DEF p

LEMMA BarrierStep ==
  ASSUME IInv, NEW g \in Groups, Barrier(g) PROVE IInv'
<1> DEFINE p == queue[1]
<1>1. /\ pass = p /\ Sound(p) /\ size \in Nat
      /\ Running(p, items, scratch, buffers, size)
      /\ HasShape(items, p) /\ HasShape(scratch, p)
      /\ g \in 0..(p.groups - 1) /\ Lids = 0..(p.TPB - 1)
  BY RunningPass
<1>2. /\ \A l \in Lids : items[g][l].pc = "barrier"
      /\ items' = [items EXCEPT ![g] = [l \in Lids |-> AfterBarrier(@[l], l)]]
      /\ UNCHANGED <<host_vars, queue, buffers, scratch>>
  BY DEF Barrier, AllArrived
<1> HIDE DEF p
<1>3. Arrived(items[g], p.TPB)
  BY <1>1, <1>2 DEF Arrived
<1>4. PastBarrier(items', items, p.TPB, g)
  BY <1>1, <1>2 DEF PastBarrier, HasShape
<1>5. Running(p, items', scratch, buffers, size)
  BY <1>1, <1>3, <1>4, BarrierRuns
<1>6. Running(p, items', scratch', buffers, size)
  BY <1>2, <1>5
<1> QED
  BY <1>2, <1>6, ItemStep DEF p

LEMMA WriteStep ==
  ASSUME IInv, NEW g \in Groups, Write(g) PROVE IInv'
<1> DEFINE p == queue[1]
           x == [pc |-> "done", i |-> items[g][0].i, p |-> items[g][0].p]
<1>1. /\ pass = p /\ Sound(p) /\ size \in Nat /\ queue # << >>
      /\ host # "initial" /\ items # << >>
      /\ Running(p, items, scratch, buffers, size)
      /\ RoomFor(p.groups, buffers)
      /\ HasShape(items, p) /\ HasShape(scratch, p)
      /\ g \in 0..(p.groups - 1)
  BY RunningPass
<1>2. 0 \in 0..(p.TPB - 1) /\ p.dst \in {"A", "B"}
  BY <1>1, WidthsHalved DEF Sound, Passes
<1>3. IsItem(items[g][0])
  BY <1>1, <1>2 DEF Running, AreItems
<1>4. /\ items[g][0].pc = "write"
      /\ buffers' = [buffers EXCEPT ![p.dst][g] = scratch[g][0]]
      /\ items' = [items EXCEPT ![g][0].pc = "done"]
      /\ UNCHANGED <<host_vars, queue, scratch>>
  BY <1>1 DEF Write
<1> HIDE DEF p
<1>5. EntryIs(items', items, g, 0, x)
  BY <1>1, <1>2, <1>3, <1>4 DEF EntryIs, HasShape, IsItem
<1>6. EntryIs(buffers', buffers, p.dst, g, scratch[g][0])
  BY <1>1, <1>2, <1>4 DEF EntryIs, RoomFor
<1>7. IsItem(x) /\ x.pc = "done"
  BY DEF IsItem
<1> HIDE DEF x
<1>8. /\ Running(p, items', scratch, buffers', size)
      /\ InputOf(p, buffers') = InputOf(p, buffers)
  BY <1>1, <1>4, <1>5, <1>6, <1>7, WriteRuns
<1>9. ASSUME NEW n, RoomFor(n, buffers) PROVE RoomFor(n, buffers')
  BY <1>2, <1>6, <1>9 DEF RoomFor, EntryIs
<1>10. HostOK'
  BY <1>1, <1>4, <1>9 DEF IInv, HostOK, host_vars
<1>11. QueueOK'
  BY <1>4, <1>9 DEF IInv, QueueOK, host_vars
<1>12. DataOK'
  BY <1>1, <1>4, <1>8 DEF IInv, DataOK, host_vars, p
<1>13. DeviceOK'
  BY <1>1, <1>4, <1>8 DEF DeviceOK, host_vars, p
<1> QED
  BY <1>10, <1>11, <1>12, <1>13 DEF IInv

LEMMA StartStep == ASSUME IInv, Start PROVE IInv'
<1> DEFINE p == queue[1]
           L == 0..(p.TPB - 1)
           G == 0..(p.groups - 1)
           x == [pc |-> "gather", i |-> p.TPB \div 2, p |-> << >>]
<1>1. /\ queue # << >> /\ queue \in Seq(Passes) /\ size \in Nat
      /\ host # "initial" /\ 1 \in 1..Len(queue)
  BY DEF Start, IInv, HostOK, QueueOK
<1>2. pass = p /\ Sound(p)
  BY <1>1 DEF pass, IInv, QueueOK
<1>3. IsTiling(InputOf(p, buffers), 0..(p.N - 1), size)
  BY <1>1 DEF IInv, DataOK
<1>4. /\ items' = [g \in G |-> [l \in L |-> x]]
      /\ scratch' = [g \in G |-> [l \in L |-> Uninitialized]]
      /\ UNCHANGED <<host_vars, queue, buffers>>
  BY <1>2 DEF Start, Lids
<1> HIDE DEF p
<1>5. HasShape(items', p) /\ HasShape(scratch', p)
  BY <1>4 DEF HasShape
<1>6. Fresh(items', p)
  BY <1>4 DEF Fresh, IsItem
<1>7. Running(p, items', scratch', buffers, size)
  BY <1>1, <1>2, <1>3, <1>5, <1>6, StartRuns
<1>8. HostOK'
  BY <1>1, <1>4 DEF IInv, HostOK, host_vars
<1>9. QueueOK'
  BY <1>4 DEF IInv, QueueOK, host_vars
<1>10. DataOK'
  BY <1>4 DEF IInv, DataOK, host_vars
<1>11. DeviceOK'
  BY <1>1, <1>4, <1>7 DEF DeviceOK, host_vars, p
<1> QED
  BY <1>8, <1>9, <1>10, <1>11 DEF IInv

\* The buffer that the pass has written is read by the next one, or is what
\* the host calls ping_.
LEMMA FinishStep == ASSUME IInv, Finish PROVE IInv'
<1> DEFINE p == queue[1]
           q == Tail(queue)
<1>1. /\ queue # << >> /\ queue \in Seq(Passes) /\ size \in Nat
      /\ host # "initial" /\ 1 \in 1..Len(queue)
      /\ Running(p, items, scratch, buffers, size)
  BY DEF Finish, IInv, HostOK, QueueOK, DeviceOK
<1>2. pass = p /\ Sound(p)
  BY <1>1 DEF pass, IInv, QueueOK
<1>3. /\ queue' = q /\ items' = << >>
      /\ UNCHANGED <<host_vars, buffers>>
  BY DEF Finish
<1>4. AllDone(items, p)
  BY <1>1, <1>2 DEF Finish, AllDone, Running, HasShape, Groups, Lids
<1>5. IsTiling(buffers[p.dst], 0..(p.groups - 1), size)
  <2> HIDE DEF p
  <2> QED
    BY <1>1, <1>2, <1>4, FinishTiles
<1>6. /\ q \in Seq(Passes) /\ Len(q) = Len(queue) - 1 /\ Len(queue) \in Nat
      /\ \A k \in 1..Len(q) : k + 1 \in 1..Len(queue) /\ q[k] = queue[k + 1]
  BY <1>1
<1> HIDE DEF q
<1>7. QueueOK'
  <2>1. \A k \in 1..Len(q) : Sound(q[k]) /\ RoomFor(q[k].groups, buffers)
    BY <1>6 DEF IInv, QueueOK
  <2>2. ASSUME NEW k \in 1..Len(q), k > 1 PROVE Follows(q[k], q[k - 1])
    <3> DEFINE m == k + 1
    <3>1. m \in 1..Len(queue) /\ m > 1 /\ q[k] = queue[m]
      BY <1>6, <2>2
    <3>2. k - 1 \in 1..Len(q) /\ k - 1 + 1 = m - 1 /\ q[k - 1] = queue[m - 1]
      <4>1. k - 1 \in 1..Len(q) /\ k - 1 + 1 = m - 1
        BY <1>6, <2>2
      <4> HIDE DEF m
      <4> QED
        BY <1>6, <4>1
    <3> HIDE DEF m
    <3>3. Follows(queue[m], queue[m - 1])
      BY <3>1 DEF IInv, QueueOK
    <3> QED
      BY <3>1, <3>2, <3>3
  <2>3. ASSUME q # << >>
        PROVE  q[Len(q)].dst = ping_ /\ q[Len(q)].groups = pass_output_size
    <3>1. Len(q) \in 1..Len(q) /\ Len(q) + 1 = Len(queue)
      BY <1>6, <2>3
    <3>2. q[Len(q)] = queue[Len(queue)]
      BY <1>6, <3>1
    <3> QED
      BY <1>1, <3>2 DEF IInv, QueueOK
  <2>4. /\ q \in Seq(Passes)
        /\ \A k \in 1..Len(q) : Sound(q[k]) /\ RoomFor(q[k].groups, buffers)
        /\ \A k \in 1..Len(q) : k > 1 => Follows(q[k], q[k - 1])
        /\ q # << >> => q[Len(q)].dst = ping_ /\ q[Len(q)].groups = pass_output_size
    BY <1>6, <2>1, <2>2, <2>3
  <2> QED
    BY <1>3, <2>4 DEF QueueOK, host_vars
<1>8. HostOK'
  BY <1>1, <1>3 DEF IInv, HostOK, host_vars
<1>9. DataOK'
  <2>1. ASSUME q # << >>
        PROVE  IsTiling(InputOf(q[1], buffers), 0..(q[1].N - 1), size)
    <3>1. 1 \in 1..Len(q) /\ 2 \in 1..Len(queue) /\ q[1] = queue[2]
      <4>1. 1 \in 1..Len(q) /\ 1 + 1 = 2
        BY <1>6, <2>1
      <4> QED
        BY <1>6, <4>1
    <3>2. Follows(queue[2], queue[2 - 1])
      BY <3>1 DEF IInv, QueueOK
    <3>3. Follows(q[1], p)
      BY <3>1, <3>2
    <3> HIDE DEF p
    <3>4. InputOf(q[1], buffers) = buffers[p.dst] /\ q[1].N = p.groups
      BY <3>3 DEF Follows, InputOf
    <3> QED
      BY <1>5, <3>4
  <2>2. ASSUME q = << >>
        PROVE  IsTiling(buffers[ping_], 0..(pass_output_size - 1), size)
    <3>1. Len(queue) = 1
      BY <1>6, <2>2
    <3>2. p.dst = ping_ /\ p.groups = pass_output_size
      BY <1>1, <3>1 DEF IInv, QueueOK
    <3> QED
      BY <1>5, <3>2
  <2> QED
    BY <1>3, <2>1, <2>2 DEF DataOK, host_vars
<1>10. DeviceOK'
  BY <1>3 DEF DeviceOK
<1> QED
  BY <1>7, <1>8, <1>9, <1>10 DEF IInv
-----------------------------------------------------------------------------
(* The steps of the host.                                                  *)
LEMMA PowersAreWidths == \A k \in 1..10 : 2 ^ k \in Widths
<1> DEFINE Power == [k \in 1..10 |-> 2 ^ k]
<1>1. /\ Power[1] = 2 /\ Power[2] = 4 /\ Power[3] = 8
      /\ Power[4] = 16 /\ Power[5] = 32 /\ Power[6] = 64 /\ Power[7] = 128
      /\ Power[8] = 256 /\ Power[9] = 512 /\ Power[10] = 1024
  BY SMT
<1>2. \A k \in 1..10 : Power[k] = 2 ^ k
  OBVIOUS
<1> HIDE DEF Power
<1>3. \A k \in 1..10 : Power[k] \in Widths
  BY <1>1 DEF Widths
<1> QED
  BY <1>2, <1>3

\* The loop makes progress: the work groups of a small pass are no larger than
\* its input.
LEMMA SmallerWorkgroupFits ==
  ASSUME NEW n \in Nat, 2 <= n, n < 1024
  PROVE  SmallerWorkgroup(n) \in Widths /\ SmallerWorkgroup(n) <= n
<1> DEFINE All == {1, 2, 4, 8, 16, 32, 64, 128, 256, 512, 1024}
           S == {m \in All : m > n}
           m == Min(S)
<1>1. S \in SUBSET (0..1024) /\ S # {} /\ 1024 \in Nat
  <2>1. 1024 \in S
    OBVIOUS
  <2> QED
    BY <2>1
<1>2. m \in S /\ \A x \in S : m <= x
  <2> DEFINE n2 == 1024
  <2>1. n2 \in Nat /\ S \in SUBSET (0..n2) /\ S # {}
    BY <1>1
  <2> HIDE DEF S, n2
  <2>2. Min(S) \in S /\ \A x \in S : Min(S) <= x
    BY <2>1, MaxMin
  <2> QED
    BY <2>2
<1>3. SmallerWorkgroup(n) = m \div 2
  <2> DEFINE T == {k \in {2 ^ j : j \in 0..10} : k > n}
  <2>1. SmallerWorkgroup(n) = Min(T) \div 2
    BY Zenon DEF SmallerWorkgroup, p2ceil
  <2>2. T = S
    BY Powers, Zenon
  <2> HIDE DEF T, S
  <2> QED
    BY <2>1, <2>2
<1> HIDE DEF m
<1>4. /\ 4 \div 2 = 2 /\ 8 \div 2 = 4 /\ 16 \div 2 = 8
      /\ 32 \div 2 = 16 /\ 64 \div 2 = 32 /\ 128 \div 2 = 64 /\ 256 \div 2 = 128
      /\ 512 \div 2 = 256 /\ 1024 \div 2 = 512
  OBVIOUS
<1>5. m \in {4, 8, 16, 32, 64, 128, 256, 512, 1024}
  BY <1>2
<1> DEFINE h == m \div 2
<1>6. h \in {2, 4, 8, 16, 32, 64, 128, 256, 512} /\ h < m
  BY <1>4, <1>5
<1> HIDE DEF h
<1>7. h \in Widths /\ h \in All
  BY <1>6 DEF Widths
<1>8. h <= n
  <2>1. ASSUME h > n PROVE FALSE
    <3>1. h \in S
      BY <1>7, <2>1
    <3> QED
      BY <1>2, <1>5, <1>6, <3>1
  <2> QED
    BY <1>6, <2>1
<1> QED
  BY <1>3, <1>7, <1>8 DEF h

LEMMA PassSound ==
  ASSUME NEW kernel \in {"initial", "intermediate"}, NEW dst \in {"A", "B"},
         NEW src \in {"input", "A", "B"}, NEW n \in Nat,
         NEW groups \in Nat \ {0}, NEW tpb \in Widths,
         kernel = "intermediate" => src \in {"A", "B"} /\ src # dst
  PROVE  Sound(Pass(kernel, dst, src, n, groups, tpb))
<1>1. tpb \in Nat \ {0}
  BY WidthsHalved
<1>2. ValuesPerThread(n, groups * tpb) \in Nat
  BY <1>1, ValuesPerThreadType
<1> QED
  BY <1>2 DEF Pass, Sound, Passes

LEMMA InitIInv == Init => IInv
<1> SUFFICES ASSUME Init PROVE IInv
  OBVIOUS
<1>1. size \in Nat
  BY GenericReduceAssumption DEF Init
<1>2. workgroup_size \in Widths
  <2>1. PICK k \in 1..10 : workgroup_size = 2 ^ k
    BY GenericReduceAssumption DEF Init
  <2> QED
    BY <2>1, PowersAreWidths
<1>3. queue = << >> /\ items = << >> /\ host = "initial"
      /\ ping_ = "A" /\ pong_ = "B"
  BY DEF Init
<1>4. queue \in Seq(Passes) /\ Len(queue) = 0
  BY <1>3
<1> QED
  BY <1>1, <1>2, <1>3, <1>4 DEF IInv, HostOK, QueueOK, DataOK, DeviceOK

\* The first pass: its input is the vector.
LEMMA InitialStep == ASSUME IInv, ScheduleInitial PROVE IInv'
<1> DEFINE q == size \div workgroup_size
           workgroups == Max({1, q})
           p == Pass("initial", ping_, "input", size, workgroups, workgroup_size)
<1>1. /\ size \in Nat /\ workgroup_size \in Widths
      /\ ping_ \in {"A", "B"} /\ pong_ \in {"A", "B"} /\ ping_ # pong_
      /\ queue = << >> /\ items = << >>
  BY DEF IInv, HostOK, ScheduleInitial
<1>2. workgroups \in Nat \ {0}
  <2>1. workgroup_size \in Nat \ {0}
    BY <1>1, WidthsHalved
  <2>2. q \in Nat
    BY <1>1, <2>1, Division
  <2> HIDE DEF q
  <2> DEFINE S == {1, q}
             n == q + 1
  <2>3. S \in SUBSET (0..n) /\ S # {} /\ n \in Nat /\ 1 \in S
        /\ \A y \in S : y \in Nat
    BY <2>2
  <2>4. Max(S) \in S /\ \A y \in S : Max(S) >= y
    <3> HIDE DEF S, n
    <3> QED
      BY <2>3, MaxMin
  <2> QED
    BY <2>3, <2>4
<1>3. /\ host' = "loop" /\ pass_output_size' = workgroups /\ queue' = <<p>>
      /\ buffers' = [b \in {ping_, pong_} |->
                        [g \in 0..(workgroups - 1) |-> Uninitialized]]
      /\ UNCHANGED <<size, workgroup_size, ping_, pong_, items>>
  BY DEF ScheduleInitial, device_vars
<1>4. Sound(p)
  <2> HIDE DEF workgroups
  <2> QED
    BY <1>1, <1>2, PassSound
<1>5. p.kernel = "initial" /\ p.N = size /\ p.dst = ping_ /\ p.groups = workgroups
  BY DEF Pass
<1> HIDE DEF workgroups, p
<1>6. RoomFor(workgroups, buffers')
  BY <1>1, <1>3 DEF RoomFor
<1>7. HostOK'
  BY <1>1, <1>2, <1>3, <1>6 DEF HostOK
<1>8. QueueOK'
  <2>1. /\ queue' \in Seq(Passes) /\ Len(queue') = 1 /\ queue'[1] = p
    BY <1>3, <1>4 DEF Sound
  <2> QED
    BY <1>3, <1>4, <1>5, <1>6, <2>1 DEF QueueOK
<1>9. DataOK'
  <2>1. IsTiling(InputOf(p, buffers'), 0..(p.N - 1), size)
    <3> DEFINE I == 0..(size - 1)
               v == InputOf(p, buffers')
    <3>1. \A at \in I : v[at] = <<at>>
      BY <1>5 DEF InputOf
    <3> HIDE DEF v, I
    <3>2. \A at \in I : IsValue(v[at], I) /\ ToSet(v[at]) = {at}
      <4> SUFFICES ASSUME NEW at \in I
                   PROVE  IsValue(v[at], I) /\ ToSet(v[at]) = {at}
        OBVIOUS
      <4>1. IsValue(<<at>>, I) /\ ToSet(<<at>>) = {at}
        BY OneValue
      <4> QED
        BY <3>1, <4>1, Zenon
    <3>3. IsTiling(v, I, size)
      <4>1. \A at \in I : IsValue(v[at], I)
        BY <3>2
      <4>2. \A at1, at2 \in I : at1 # at2 => ToSet(v[at1]) \cap ToSet(v[at2]) = {}
        BY <3>2
      <4>3. \A at \in I : \E at1 \in I : at \in ToSet(v[at1])
        BY <3>2
      <4> QED
        BY <4>1, <4>2, <4>3 DEF IsTiling, Apart, I
    <3> QED
      BY <1>5, <3>3 DEF v, I
  <2> QED
    BY <1>3, <2>1 DEF DataOK
<1>10. DeviceOK'
  BY <1>1, <1>3 DEF DeviceOK
<1> QED
  BY <1>7, <1>8, <1>9, <1>10 DEF IInv

\* Another pass, which reduces what the last one leaves.
LEMMA IntermediateStep == ASSUME IInv, ScheduleIntermediate PROVE IInv'
<1> DEFINE n == pass_output_size
           tpb == IF n < workgroup_size THEN SmallerWorkgroup(n) ELSE workgroup_size
           groups == n \div tpb
           p == Pass("intermediate", pong_, ping_, n, groups, tpb)
<1>1. /\ size \in Nat /\ workgroup_size \in Widths
      /\ ping_ \in {"A", "B"} /\ pong_ \in {"A", "B"} /\ ping_ # pong_
      /\ host = "loop" /\ n \in Nat /\ n > 1 /\ RoomFor(n, buffers)
      /\ queue \in Seq(Passes)
  BY DEF IInv, HostOK, QueueOK, ScheduleIntermediate
<1>2. tpb \in Widths /\ tpb <= n
  <2>1. workgroup_size \in Nat /\ workgroup_size <= 1024
    BY <1>1 DEF Widths
  <2>2. CASE n < workgroup_size
    BY <1>1, <2>1, <2>2, SmallerWorkgroupFits
  <2>3. CASE ~ n < workgroup_size
    BY <1>1, <2>1, <2>3
  <2> QED
    BY <2>2, <2>3
<1>3. groups \in Nat \ {0} /\ groups <= n
  <2> HIDE DEF tpb
  <2>1. tpb \in Nat \ {0}
    BY <1>2, WidthsHalved
  <2>2. groups \in Nat /\ n % tpb \in 0..(tpb - 1) /\ n = groups * tpb + (n % tpb)
    BY <1>1, <2>1, Division
  <2> HIDE DEF groups
  <2>3. groups # 0
    BY <1>1, <1>2, <2>1, <2>2
  <2>4. groups * tpb >= groups
    <3>1. groups * (tpb - 1) >= 0
      BY <2>1, <2>2
    <3>2. groups * (tpb - 1) = groups * tpb - groups
      BY <2>1, <2>2
    <3>3. groups * tpb \in Nat
      BY <2>1, <2>2
    <3> QED
      BY <2>2, <3>1, <3>2, <3>3
  <2>5. groups * tpb \in Nat
    BY <2>1, <2>2
  <2> QED
    BY <1>1, <2>1, <2>2, <2>3, <2>4, <2>5
<1>4. /\ workgroup_size' = tpb /\ queue' = Append(queue, p)
      /\ ping_' = pong_ /\ pong_' = ping_ /\ pass_output_size' = groups
      /\ UNCHANGED <<host, size, buffers, items, scratch>>
  <2> HIDE DEF p
  <2>1. groups # 0
    BY <1>3
  <2> QED
    BY <2>1 DEF ScheduleIntermediate, device_vars, p
<1>5. Sound(p)
  <2> HIDE DEF groups, tpb
  <2> QED
    BY <1>1, <1>2, <1>3, PassSound
<1>6. /\ p.kernel = "intermediate" /\ p.N = n /\ p.dst = pong_ /\ p.src = ping_
      /\ p.groups = groups
  BY DEF Pass
<1> HIDE DEF n, tpb, groups, p
<1>7. RoomFor(groups, buffers)
  BY <1>1, <1>3 DEF RoomFor
<1> DEFINE m == Len(queue)
<1>8. /\ queue' \in Seq(Passes) /\ Len(queue') = m + 1 /\ m \in Nat
      /\ queue'[m + 1] = p /\ \A k \in 1..m : queue'[k] = queue[k]
  BY <1>1, <1>4, <1>5 DEF Sound
<1> HIDE DEF m
<1>9. HostOK'
  BY <1>1, <1>2, <1>3, <1>4, <1>7 DEF HostOK
<1>10. QueueOK'
  <2>1. \A k \in 1..(m + 1) : Sound(queue'[k]) /\ RoomFor(queue'[k].groups, buffers)
    <3> SUFFICES ASSUME NEW k \in 1..(m + 1)
                 PROVE  Sound(queue'[k]) /\ RoomFor(queue'[k].groups, buffers)
      OBVIOUS
    <3>1. CASE k = m + 1
      BY <1>5, <1>6, <1>7, <1>8, <3>1
    <3>2. CASE k # m + 1
      <4>1. k \in 1..m
        BY <1>8, <3>2
      <4> QED
        BY <1>8, <4>1 DEF IInv, QueueOK, m
    <3> QED
      BY <3>1, <3>2
  <2>2. ASSUME NEW k \in 1..(m + 1), k > 1 PROVE Follows(queue'[k], queue'[k - 1])
    <3>1. k - 1 \in 1..m /\ queue'[k - 1] = queue[k - 1]
      <4>1. k - 1 \in 1..m
        BY <1>8, <2>2
      <4> QED
        BY <1>8, <4>1
    <3>2. CASE k = m + 1
      <4>1. m \in 1..m /\ k - 1 = m /\ queue # << >>
        BY <1>8, <3>1, <3>2 DEF m
      <4>2. queue[m].dst = ping_ /\ queue[m].groups = n
        BY <4>1 DEF IInv, QueueOK, m, n
      <4>3. Follows(p, queue[m])
        BY <1>6, <4>2 DEF Follows
      <4> QED
        BY <1>8, <3>1, <3>2, <4>1, <4>3
    <3>3. CASE k # m + 1
      <4>1. k \in 1..m
        BY <1>8, <3>3
      <4>2. Follows(queue[k], queue[k - 1])
        BY <2>2, <4>1 DEF IInv, QueueOK, m
      <4> QED
        BY <1>8, <3>1, <4>1, <4>2
    <3> QED
      BY <3>2, <3>3
  <2> QED
    BY <1>4, <1>6, <1>8, <2>1, <2>2 DEF QueueOK
<1>11. DataOK'
  <2>1. CASE queue = << >>
    <3>1. m = 0 /\ queue'[1] = p /\ queue' # << >>
      BY <1>8, <2>1 DEF m
    <3>2. IsTiling(buffers[ping_], 0..(n - 1), size)
      BY <1>1, <2>1 DEF IInv, DataOK, n
    <3>3. InputOf(p, buffers) = buffers[ping_]
      BY <1>6 DEF InputOf
    <3>4. IsTiling(InputOf(p, buffers), 0..(p.N - 1), size)
      BY <1>6, <3>2, <3>3
    <3> QED
      BY <1>4, <3>1, <3>4 DEF DataOK
  <2>2. CASE queue # << >>
    <3>1. 1 \in 1..m /\ queue'[1] = queue[1] /\ queue' # << >>
      <4>1. 1 \in 1..m
        BY <1>1, <2>2 DEF m
      <4> QED
        BY <1>8, <4>1
    <3> QED
      BY <1>4, <2>2, <3>1 DEF IInv, DataOK
  <2> QED
    BY <2>1, <2>2
<1>12. DeviceOK'
  <2> SUFFICES ASSUME items # << >>
               PROVE  queue' # << >> /\ Running(queue'[1], items, scratch, buffers, size)
    BY <1>4 DEF DeviceOK
  <2>1. queue # << >> /\ Running(queue[1], items, scratch, buffers, size)
    BY DEF IInv, DeviceOK
  <2>2. 1 \in 1..m
    BY <1>1, <2>1 DEF m
  <2> QED
    BY <1>8, <2>1, <2>2
<1> QED
  BY <1>9, <1>10, <1>11, <1>12 DEF IInv

LEMMA ReturnStep == ASSUME IInv, Return PROVE IInv'
<1>1. /\ host = "loop" /\ host' = "returned" /\ pass_output_size = 1
      /\ UNCHANGED <<size, workgroup_size, pass_output_size, ping_, pong_, queue,
                     buffers, items, scratch>>
  BY DEF Return, device_vars, IInv, HostOK
<1>2. HostOK'
  BY <1>1 DEF IInv, HostOK
<1>3. QueueOK'
  BY <1>1 DEF IInv, QueueOK
<1>4. DataOK'
  BY <1>1 DEF IInv, DataOK
<1>5. DeviceOK'
  BY <1>1 DEF IInv, DeviceOK
<1> QED
  BY <1>2, <1>3, <1>4, <1>5 DEF IInv
-----------------------------------------------------------------------------
(* The theorems.                                                           *)
LEMMA NextIInv == ASSUME IInv, [Next]_vars PROVE IInv'
<1>1. CASE Host
  BY <1>1, InitialStep, IntermediateStep, ReturnStep DEF Host
<1>2. CASE Device
  <2>1. CASE Start
    BY <2>1, StartStep
  <2>2. ASSUME NEW g \in Groups,
               \/ \E l \in Lids : Gather(g, l) \/ Read(g, l) \/ Combine(g, l)
               \/ Barrier(g)
               \/ Write(g)
        PROVE  IInv'
    <3>1. ASSUME NEW l \in Lids, Gather(g, l) \/ Read(g, l) \/ Combine(g, l)
          PROVE  IInv'
      <4>1. CASE Gather(g, l)
        BY <4>1, GatherStep
      <4>2. CASE Read(g, l)
        BY <4>2, ReadStep
      <4>3. CASE Combine(g, l)
        BY <4>3, CombineStep
      <4> QED
        BY <3>1, <4>1, <4>2, <4>3
    <3>2. CASE Barrier(g)
      BY <3>2, BarrierStep
    <3>3. CASE Write(g)
      BY <3>3, WriteStep
    <3> QED
      BY <2>2, <3>1, <3>2, <3>3
  <2>3. CASE Finish
    BY <2>3, FinishStep
  <2> QED
    BY <1>2, <2>1, <2>2, <2>3 DEF Device
<1>3. CASE UNCHANGED vars
  <2>1. UNCHANGED <<size, workgroup_size, pass_output_size, ping_, pong_, host,
                    items, scratch, queue, buffers>>
    BY <1>3 DEF vars, host_vars, device_vars
  <2>2. HostOK' /\ QueueOK' /\ DataOK' /\ DeviceOK'
    BY <2>1 DEF IInv, HostOK, QueueOK, DataOK, DeviceOK
  <2> QED
    BY <2>2 DEF IInv
<1> QED
  BY <1>1, <1>2, <1>3 DEF Next

LEMMA SpecIInv == Spec => []IInv
<1>1. IInv /\ [Next]_vars => IInv'
  BY NextIInv
<1> QED
  BY <1>1, InitIInv, PTL DEF Spec

\* A group is in one phase at a time, and in a round the first r items write
\* the first r slots: each reads its own and one that nobody writes.
LEMMA PhaseHasNoRaces ==
  ASSUME IInv, NEW g \in Groups, NEW l \in Lids, NEW k \in Lids, l # k
  PROVE  Writes(g, l) \cap Reads(g, k) = {}
<1> DEFINE p == queue[1]
<1>1. /\ g \in 0..(p.groups - 1) /\ l \in 0..(p.TPB - 1) /\ k \in 0..(p.TPB - 1)
      /\ Sound(p) /\ Running(p, items, scratch, buffers, size)
  BY RunningPass
<1>2. p.TPB \in Widths /\ p.TPB \in Nat \ {0} /\ Phase(items[g], p.TPB)
  BY <1>1, WidthsHalved DEF Sound, Passes, Running
<1> HIDE DEF p
<1>3. CASE Gathering(items[g], p.TPB)
  <2>1. items[g][k].pc \in {"gather", "barrier"}
    BY <1>1, <1>3 DEF Gathering
  <2>2. Reads(g, k) = {}
    BY <2>1 DEF Reads
  <2> QED
    BY <2>2
<1>4. ASSUME NEW r \in Strides(p.TPB), Combining(items[g], p.TPB, r)
      PROVE  Writes(g, l) \cap Reads(g, k) = {}
  <2>1. r \in Nat \ {0} /\ l \in Nat /\ k \in Nat
    BY <1>1, <1>2, StridesHalved
  <2>2. /\ \/ l < r /\ items[g][l].pc \in {"read", "combine"} /\ items[g][l].i = r
           \/ items[g][l].pc = "barrier"
        /\ \/ k < r /\ items[g][k].pc \in {"read", "combine"} /\ items[g][k].i = r
           \/ items[g][k].pc = "barrier"
    BY <1>1, <1>4 DEF Combining
  <2>3. Writes(g, l) \subseteq {l} /\ (Writes(g, l) # {} => l < r)
    BY <2>2 DEF Writes
  <2>4. Reads(g, k) \subseteq {k, k + r}
    BY <2>2 DEF Reads
  <2>5. l < r => l # k + r
    BY <2>1
  <2> QED
    BY <2>3, <2>4, <2>5
<1>5. CASE Writing(items[g], p.TPB)
  <2>1. items[g][l].pc \in {"write", "done"}
    BY <1>1, <1>5 DEF Writing
  <2>2. Writes(g, l) = {}
    BY <2>1 DEF Writes
  <2> QED
    BY <2>2
<1> QED
  BY <1>2, <1>3, <1>4, <1>5 DEF Phase

(* The work items of a group never race on its local memory, for any size  *)
(* of the input and workgroups of 2, 4, ..., 1024 items: no item reads,    *)
(* between two barriers, a slot that another one writes.                   *)
THEOREM RacesExcluded == Spec => []NoRaces
<1>1. IInv => NoRaces
  BY PhaseHasNoRaces DEF NoRaces
<1> QED
  BY <1>1, SpecIInv, PTL

\* What the work items hold, as the property lists it, is the tiling.
LEMMA ItemsHoldTheInput ==
  ASSUME IInv, items # << >>
  PROVE  EachInputOnce(FlattenSeq([k \in 1..(pass.groups * pass.TPB) |->
             Holds((k - 1) \div pass.TPB, (k - 1) % pass.TPB)]))
<1> DEFINE p == queue[1]
           h == Held(p, items, scratch, buffers)
           J == Cells(p.groups, p.TPB)
           f == [k \in 1..(pass.groups * pass.TPB) |->
                    Holds((k - 1) \div pass.TPB, (k - 1) % pass.TPB)]
<1>1. /\ queue # << >> /\ queue \in Seq(Passes) /\ size \in Nat
      /\ Running(p, items, scratch, buffers, size)
  BY DEF IInv, DeviceOK, HostOK, QueueOK
<1>2. 1 \in 1..Len(queue) /\ pass = p
  BY <1>1 DEF pass
<1>3. Sound(p)
  BY <1>2 DEF IInv, QueueOK
<1>4. p.groups \in Nat \ {0} /\ p.TPB \in Nat \ {0}
  BY <1>3, WidthsHalved DEF Sound, Passes
<1>5. IsTiling(h, J, size)
  BY <1>1 DEF Running
<1>6. ASSUME NEW g \in 0..(p.groups - 1), NEW l \in 0..(p.TPB - 1)
      PROVE  Holds(g, l) = h[<<g, l>>]
  <2>1. Share(g, l) = ShareIn(p, buffers, g, l)
    BY <1>2, <1>3, ShareIsShareIn
  <2>2. h[<<g, l>>] = HeldAt(p, items, scratch, buffers, g, l)
    <3> HIDE DEF p
    <3> QED
      BY HeldIsHeldAt
  <2>3. Holds(g, l) = HeldAt(p, items, scratch, buffers, g, l)
    <3> DEFINE share == Share(g, l)
               item == items[g][l]
               out == buffers[p.dst][g]
    <3>1. Holds(g, l) = HeldBy(item, l, scratch[g], share, out)
      BY <1>2, Zenon DEF Holds, HeldBy
    <3> QED
      BY <2>1, <3>1, Zenon DEF HeldAt
  <2> QED
    BY <2>2, <2>3
<1> DEFINE G == p.groups
           T == p.TPB
<1>7. \A k \in 1..(G * T) :
         (k - 1) \div T \in 0..(G - 1) /\ (k - 1) % T \in 0..(T - 1)
  <2> HIDE DEF G, T
  <2> QED
    BY <1>4, CellOf DEF G, T
<1>8. f = InOneSequence(h, G, T)
  <2> DEFINE a(k) == (k - 1) \div T
             b(k) == (k - 1) % T
             D == 1..(G * T)
  <2>1. \A k \in D : Holds(a(k), b(k)) = h[<<a(k), b(k)>>]
    <3> SUFFICES ASSUME NEW k \in D PROVE Holds(a(k), b(k)) = h[<<a(k), b(k)>>]
      OBVIOUS
    <3>1. a(k) \in 0..(p.groups - 1) /\ b(k) \in 0..(p.TPB - 1)
      BY <1>7
    <3> HIDE DEF a, b, D, h, p
    <3> QED
      BY <1>6, <3>1
  <2>2. f = [k \in D |-> Holds(a(k), b(k))]
    BY <1>2
  <2>3. InOneSequence(h, G, T) = [k \in D |-> h[<<a(k), b(k)>>]]
    BY Zenon DEF InOneSequence
  <2> HIDE DEF a, b, D, h, f
  <2> QED
    BY <2>1, <2>2, <2>3
<1> HIDE DEF h, f, p
<1>9. Len(FlattenSeq(f)) = size /\ ToSet(FlattenSeq(f)) = 0..(size - 1)
  BY <1>1, <1>4, <1>5, <1>8, TilingIsWhole
<1> QED
  BY <1>9, Zenon DEF EachInputOnce, f

(* Every element of the input counts once in what the reduction returns,   *)
(* and in what the work items hold at every moment on the way: nothing is  *)
(* left over by the division of the work, combined twice, or lost in a     *)
(* round, for any size of the input and workgroups of 2, 4, ..., 1024      *)
(* items.                                                                  *)
THEOREM ResultComplete == Spec => []NothingLostOrDoubled
<1>1. ASSUME IInv, Complete PROVE EachInputOnce(buffers[ping_][0])
  <2> DEFINE v == buffers[ping_][0]
             out == buffers[ping_]
             n == size
  <2>1. IsTiling(buffers[ping_], 0..(pass_output_size - 1), size)
    BY <1>1 DEF IInv, DataOK, Complete
  <2>2. pass_output_size = 1 /\ n \in Nat
    BY <1>1 DEF IInv, HostOK, Complete
  <2>3. 0..(1 - 1) = {0}
    OBVIOUS
  <2>4. IsTiling(out, {0}, n)
    BY <2>1, <2>2, <2>3
  <2> HIDE DEF out, n
  <2>5. IsValue(out[0], 0..(n - 1)) /\ \A x \in 0..(n - 1) : x \in ToSet(out[0])
    BY <2>4 DEF IsTiling
  <2>6. Len(out[0]) = n /\ ToSet(out[0]) = 0..(n - 1)
    BY <2>2, <2>5, ValueOfAll
  <2> QED
    BY <2>6 DEF EachInputOnce, out, n
<1>2. IInv => NothingLostOrDoubled
  BY <1>1, ItemsHoldTheInput, Zenon DEF NothingLostOrDoubled
<1> QED
  BY <1>2, SpecIInv, PTL
=============================================================================
