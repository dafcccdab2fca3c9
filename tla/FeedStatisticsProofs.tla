------------------------ MODULE FeedStatisticsProofs ------------------------
(***************************************************************************)
(* The histograms of offline_feed_statistics, for every feed.              *)
(***************************************************************************)
EXTENDS FeedStatistics, FoldLemmas, SequenceTheorems

(* Smallest and largest elements of sets of integers.                      *)
LEMMA MaxMinOfInts ==
  ASSUME NEW n \in Nat, NEW S \in SUBSET ((-n)..n), S # {}
  PROVE  /\ Max(S) \in S /\ \A x \in S : Max(S) >= x
         /\ Min(S) \in S /\ \A x \in S : Min(S) <= x
<1> DEFINE T == {x + n : x \in S}
           m == n + n
<1>1. T \in SUBSET (0..m) /\ T # {} /\ m \in Nat
  <2>1. \A x \in S : x \in Int /\ -n <= x /\ x <= n
    OBVIOUS
  <2>2. \A x \in S : x + n \in 0..m
    BY <2>1
  <2>3. m \in Nat
    OBVIOUS
  <2> QED
    BY <2>2, <2>3
<1>2. \A x \in S : x + n \in T
  OBVIOUS
<1>3. \A y \in T : \E x \in S : y = x + n
  OBVIOUS
<1> HIDE DEF T, m
<1>4. /\ Max(T) \in T /\ \A y \in T : Max(T) >= y
      /\ Min(T) \in T /\ \A y \in T : Min(T) <= y
  BY <1>1, MaxMin
<1>5. \E x \in S : \A y \in S : x >= y
  <2>1. PICK x \in S : Max(T) = x + n
    BY <1>3, <1>4
  <2>2. ASSUME NEW y \in S PROVE x >= y
    <3>1. x + n >= y + n
      BY <1>2, <1>4, <2>1
    <3> QED
      BY <3>1
  <2> QED
    BY <2>2
<1>6. \E x \in S : \A y \in S : x <= y
  <2>1. PICK x \in S : Min(T) = x + n
    BY <1>3, <1>4
  <2>2. ASSUME NEW y \in S PROVE x <= y
    <3>1. x + n <= y + n
      BY <1>2, <1>4, <2>1
    <3> QED
      BY <3>1
  <2> QED
    BY <2>2
<1>7. Max(S) \in S /\ \A x \in S : Max(S) >= x
  BY <1>5 DEF Max
<1>8. Min(S) \in S /\ \A x \in S : Min(S) <= x
  BY <1>6 DEF Min
<1> QED
  BY <1>7, <1>8

LEMMA SequenceOf ==
  ASSUME NEW n \in Nat, NEW S, NEW f \in [1..n -> S]
  PROVE  f \in Seq(S) /\ Len(f) = n
  BY SeqDef

LEMMA MinOfTwo ==
  ASSUME NEW x \in Int, NEW y \in Int
  PROVE  Min({x, y}) = (IF x <= y THEN x ELSE y) /\ Max({x, y}) = (IF x <= y THEN y ELSE x)
<1> DEFINE S == {x, y}
           low == IF x <= y THEN x ELSE y
           high == IF x <= y THEN y ELSE x
<1>1. low \in S /\ \A z \in S : low <= z
  OBVIOUS
<1>2. high \in S /\ \A z \in S : high >= z
  OBVIOUS
<1>3. \A z \in S : z \in Int
  OBVIOUS
<1> HIDE DEF S, low, high
<1>4. Min(S) = low
  BY <1>1, <1>3 DEF Min
<1>5. Max(S) = high
  BY <1>2, <1>3 DEF Max
<1> QED
  BY <1>4, <1>5 DEF S, low, high
-----------------------------------------------------------------------------
(* Tallies.  Tally says of a histogram over the integers 0..top - 1 what   *)
(* IsTallyOf does, and what it holds when there are no values.             *)
SampleValues == (-SampleLimit)..(SampleLimit - 1)

IsHistogram(h, top) ==
    h \in [bins : [1..top -> Nat], underflow_count : Nat, overflow_count : Nat,
           observed_min : Int, observed_max : Int, nsamples : Nat]

Between(values, lo, hi) ==
    Cardinality({k \in 1..Len(values) : lo <= values[k] /\ values[k] < hi})

Extremes(h, values) ==
    IF Len(values) = 0
    THEN h.observed_min = SampleLimit /\ h.observed_max = -SampleLimit
    ELSE /\ \E k \in 1..Len(values) : h.observed_min = values[k]
         /\ \E k \in 1..Len(values) : h.observed_max = values[k]
         /\ \A k \in 1..Len(values) :
               h.observed_min <= values[k] /\ values[k] <= h.observed_max

Tally(h, top, values) ==
    /\ IsHistogram(h, top) /\ values \in Seq(SampleValues)
    /\ h.nsamples = Len(values)
    /\ h.underflow_count = Between(values, -SampleLimit, 0)
    /\ h.overflow_count = Between(values, top, SampleLimit)
    /\ \A i \in 1..top : h.bins[i] = Between(values, i - 1, i)
    /\ Extremes(h, values)

LEMMA RangeOfCuts ==
  ASSUME NEW top \in Nat \ {0}, NEW cuts, cuts = IntegerRange(0, top)
  PROVE  /\ DOMAIN cuts = 1..(top + 1) /\ cuts \in Seq(Int) /\ Len(cuts) = top + 1
         /\ \A i \in 1..(top + 1) : cuts[i] = i - 1
         /\ Head(cuts) = 0 /\ Last(cuts) = top
<1>1. cuts = [i \in 1..(top - 0 + 1) |-> 0 + i - 1]
  BY DEF IntegerRange
<1>2. DOMAIN cuts = 1..(top + 1) /\ \A i \in 1..(top + 1) : cuts[i] = i - 1
  BY <1>1
<1>3. cuts \in [1..(top + 1) -> Int]
  BY <1>1
<1>4. cuts \in Seq(Int) /\ Len(cuts) = top + 1
  BY <1>3, SeqDef
<1>5. Head(cuts) = 0
  <2>1. cuts # << >> /\ Head(cuts) = cuts[1]
    BY <1>4
  <2> QED
    BY <1>2, <2>1
<1>6. Last(cuts) = top
  BY <1>2, <1>4 DEF Last
<1> QED
  BY <1>2, <1>4, <1>5, <1>6

LEMMA BinOfSample ==
  ASSUME NEW top \in Nat \ {0}, NEW cuts, cuts = IntegerRange(0, top),
         NEW t \in 0..(top - 1)
  PROVE  sample2bin(cuts, t) = t + 1
<1>1. DOMAIN cuts = 1..(top + 1) /\ \A i \in 1..(top + 1) : cuts[i] = i - 1
  BY RangeOfCuts
<1>2. {i \in DOMAIN cuts : cuts[i] <= t} = 1..(t + 1)
  <2>1. \A i \in 1..(top + 1) : cuts[i] <= t <=> i <= t + 1
    BY <1>1
  <2>2. \A i : i \in 1..(t + 1) <=> i \in 1..(top + 1) /\ i <= t + 1
    OBVIOUS
  <2> QED
    BY <1>1, <2>1, <2>2
<1>3. Cardinality(1..(t + 1)) = t + 1
  BY FS_Interval
<1> QED
  BY <1>2, <1>3 DEF sample2bin

\* What weighted_sample does to each field.
Weighted(h2, h, top, t, w) ==
    /\ IsHistogram(h2, top)
    /\ h2.nsamples = h.nsamples + w
    /\ h2.underflow_count = h.underflow_count + (IF t < 0 THEN w ELSE 0)
    /\ h2.overflow_count = h.overflow_count + (IF t >= top THEN w ELSE 0)
    /\ \A i \in 1..top :
          h2.bins[i] = h.bins[i] + (IF i - 1 <= t /\ t < i THEN w ELSE 0)
    /\ h2.observed_min = IF h.observed_min <= t THEN h.observed_min ELSE t
    /\ h2.observed_max = IF h.observed_max <= t THEN t ELSE h.observed_max

LEMMA WeightedSample ==
  ASSUME NEW top \in Nat \ {0}, NEW h, IsHistogram(h, top), NEW t \in Int,
         NEW w \in Nat \ {0}
  PROVE  Weighted(weighted_sample(h, IntegerRange(0, top), t, w), h, top, t, w)
<1> DEFINE cuts == IntegerRange(0, top)
           b == Binned(h, cuts, t, w)
           h2 == weighted_sample(h, cuts, t, w)
<1>1. histogram_min(cuts) = 0 /\ histogram_max(cuts) = top
  BY RangeOfCuts DEF histogram_min, histogram_max
<1>2. h2 = [b EXCEPT !.nsamples = @ + w,
                     !.observed_min = Min({@, t}), !.observed_max = Max({@, t})]
  BY DEF weighted_sample
<1>3. /\ IsHistogram(b, top)
      /\ b.nsamples = h.nsamples
      /\ b.observed_min = h.observed_min /\ b.observed_max = h.observed_max
      /\ b.underflow_count = h.underflow_count + (IF t < 0 THEN w ELSE 0)
      /\ b.overflow_count = h.overflow_count + (IF t >= top THEN w ELSE 0)
      /\ \A i \in 1..top :
            b.bins[i] = h.bins[i] + (IF i - 1 <= t /\ t < i THEN w ELSE 0)
  <2>1. CASE t < 0
    <3>1. b = [h EXCEPT !.underflow_count = @ + w]
      BY <1>1, <2>1 DEF Binned
    <3> HIDE DEF b
    <3>2. ~ t >= top /\ \A i \in 1..top : ~ (i - 1 <= t)
      BY <2>1
    <3>3. /\ IsHistogram(b, top)
          /\ b.nsamples = h.nsamples
          /\ b.observed_min = h.observed_min /\ b.observed_max = h.observed_max
          /\ b.underflow_count = h.underflow_count + w
          /\ b.overflow_count = h.overflow_count
          /\ b.bins = h.bins
      BY <3>1 DEF IsHistogram
    <3>4. /\ h.overflow_count \in Nat
          /\ \A i \in 1..top : h.bins[i] \in Nat
      BY DEF IsHistogram
    <3> QED
      BY <2>1, <3>2, <3>3, <3>4
  <2>2. CASE t >= top
    <3>1. b = [h EXCEPT !.overflow_count = @ + w]
      BY <1>1, <2>2 DEF Binned
    <3> HIDE DEF b
    <3>2. ~ t < 0 /\ \A i \in 1..top : ~ (t < i)
      BY <2>2
    <3>3. /\ IsHistogram(b, top)
          /\ b.nsamples = h.nsamples
          /\ b.observed_min = h.observed_min /\ b.observed_max = h.observed_max
          /\ b.overflow_count = h.overflow_count + w
          /\ b.underflow_count = h.underflow_count
          /\ b.bins = h.bins
      BY <3>1 DEF IsHistogram
    <3>4. /\ h.underflow_count \in Nat
          /\ \A i \in 1..top : h.bins[i] \in Nat
      BY DEF IsHistogram
    <3> QED
      BY <2>2, <3>2, <3>3, <3>4
  <2>3. CASE 0 <= t /\ t < top
    <3> DEFINE j == t + 1
    <3>1. j \in 1..top /\ sample2bin(cuts, t) = j
      <4>1. t \in 0..(top - 1)
        BY <2>3
      <4> HIDE DEF cuts
      <4> QED
        BY <4>1, BinOfSample DEF cuts
    <3>2. b = [h EXCEPT !.bins[j] = @ + w]
      <4>1. ~ t < 0 /\ ~ t >= top
        BY <2>3
      <4> HIDE DEF j
      <4> QED
        BY <1>1, <3>1, <4>1 DEF Binned
    <3>3. \A i \in 1..top : (i - 1 <= t /\ t < i) <=> i = j
      BY <2>3
    <3> HIDE DEF b, j
    <3>4. \A i \in 1..top : h.bins[i] \in Nat
      BY DEF IsHistogram
    <3>5. /\ b.nsamples = h.nsamples
          /\ b.observed_min = h.observed_min /\ b.observed_max = h.observed_max
          /\ b.underflow_count = h.underflow_count
          /\ b.overflow_count = h.overflow_count
          /\ b.bins = [h.bins EXCEPT ![j] = @ + w]
      BY <3>2 DEF IsHistogram
    <3>6. b.bins \in [1..top -> Nat]
      BY <3>1, <3>4, <3>5 DEF IsHistogram
    <3>7. IsHistogram(b, top)
      BY <3>2, <3>6 DEF IsHistogram
    <3>8. \A i \in 1..top :
             b.bins[i] = h.bins[i] + (IF i - 1 <= t /\ t < i THEN w ELSE 0)
      <4>1. h.bins \in [1..top -> Nat]
        BY DEF IsHistogram
      <4> QED
        BY <3>3, <3>4, <3>5, <4>1
    <3>9. ~ t < 0 /\ ~ t >= top /\ h.underflow_count \in Nat /\ h.overflow_count \in Nat
      BY <2>3 DEF IsHistogram
    <3> QED
      BY <3>5, <3>7, <3>8, <3>9
  <2> QED
    BY <2>1, <2>2, <2>3
<1> HIDE DEF b, h2
<1>4. /\ Min({b.observed_min, t}) = IF b.observed_min <= t THEN b.observed_min ELSE t
      /\ Max({b.observed_max, t}) = IF b.observed_max <= t THEN t ELSE b.observed_max
  <2> DEFINE x == b.observed_min
             y == b.observed_max
  <2>1. x \in Int /\ y \in Int
    BY <1>3 DEF IsHistogram
  <2> HIDE DEF x, y
  <2>2. Min({x, t}) = (IF x <= t THEN x ELSE t) /\ Max({y, t}) = (IF y <= t THEN t ELSE y)
    BY <2>1, MinOfTwo
  <2> QED
    BY <2>2 DEF x, y
<1>5. /\ h2.nsamples = b.nsamples + w /\ h2.bins = b.bins
      /\ h2.underflow_count = b.underflow_count
      /\ h2.overflow_count = b.overflow_count
      /\ h2.observed_min = Min({b.observed_min, t})
      /\ h2.observed_max = Max({b.observed_max, t})
      /\ h2 = [bins |-> h2.bins, underflow_count |-> h2.underflow_count,
               overflow_count |-> h2.overflow_count,
               observed_min |-> h2.observed_min, observed_max |-> h2.observed_max,
               nsamples |-> h2.nsamples]
  BY <1>2, <1>3 DEF IsHistogram
<1>6. IsHistogram(h2, top)
  BY <1>3, <1>4, <1>5 DEF IsHistogram
<1>7. Weighted(h2, h, top, t, w)
  BY <1>3, <1>4, <1>5, <1>6 DEF Weighted
<1> QED
  BY <1>7 DEF h2

\* w more values, all of them t.
Extended(values2, values, t, w) ==
    /\ Len(values2) = Len(values) + w
    /\ \A k \in 1..Len(values) : values2[k] = values[k]
    /\ \A k \in (Len(values) + 1)..(Len(values) + w) : values2[k] = t

LEMMA BetweenExtended ==
  ASSUME NEW values, Len(values) \in Nat, NEW t, NEW w \in Nat,
         NEW values2, Extended(values2, values, t, w), NEW lo, NEW hi
  PROVE  /\ Between(values, lo, hi) \in Nat
         /\ Between(values2, lo, hi) =
               Between(values, lo, hi) + (IF lo <= t /\ t < hi THEN w ELSE 0)
<1> DEFINE n == Len(values)
           m == n + w
           S == {k \in 1..n : lo <= values[k] /\ values[k] < hi}
           T == {k \in (n + 1)..m : lo <= t /\ t < hi}
           U == {k \in 1..Len(values2) : lo <= values2[k] /\ values2[k] < hi}
<1>1. /\ n \in Nat /\ Len(values2) = m /\ m \in Nat
      /\ \A k \in 1..n : values2[k] = values[k]
      /\ \A k \in (n + 1)..m : values2[k] = t
  BY DEF Extended
<1> HIDE DEF n
<1>2. U = S \cup T
  <2>1. \A k : k \in 1..m <=> k \in 1..n \/ k \in (n + 1)..m
    BY <1>1
  <2> HIDE DEF m
  <2> QED
    BY <1>1, <2>1
<1>3. S \cap T = {}
  BY <1>1
<1>4. IsFiniteSet(S)
  <2>1. IsFiniteSet(1..n)
    BY <1>1, FS_Interval
  <2>2. S \in SUBSET (1..n)
    OBVIOUS
  <2> HIDE DEF S
  <2> QED
    BY <2>1, <2>2, FS_Subset
<1>5. IsFiniteSet(T) /\ Cardinality(T) = IF lo <= t /\ t < hi THEN w ELSE 0
  <2>1. CASE lo <= t /\ t < hi
    <3>1. T = (n + 1)..m
      BY <2>1
    <3>2. IsFiniteSet((n + 1)..m)
          /\ Cardinality((n + 1)..m) = IF n + 1 > m THEN 0 ELSE m - (n + 1) + 1
      BY <1>1, FS_Interval
    <3>3. (IF n + 1 > m THEN 0 ELSE m - (n + 1) + 1) = w
      BY <1>1
    <3> HIDE DEF T, m
    <3> QED
      BY <2>1, <3>1, <3>2, <3>3
  <2>2. CASE ~ (lo <= t /\ t < hi)
    <3>1. T = {}
      BY <2>2
    <3> QED
      BY <2>2, <3>1, FS_EmptySet
  <2> QED
    BY <2>1, <2>2
<1>6. Cardinality(S) \in Nat /\ Cardinality(S \cap T) = 0
  BY <1>3, <1>4, FS_CardinalityType, FS_EmptySet
<1> HIDE DEF S, T
<1>7. Cardinality(S \cup T) = Cardinality(S) + Cardinality(T) - Cardinality(S \cap T)
  BY <1>4, <1>5, FS_Union
<1>8. Between(values, lo, hi) = Cardinality(S) /\ Between(values2, lo, hi) = Cardinality(U)
  BY DEF Between, S, n
<1> DEFINE c == IF lo <= t /\ t < hi THEN w ELSE 0
<1>9. c \in Nat /\ Cardinality(T) = c
  BY <1>5
<1> HIDE DEF U, c
<1>10. Cardinality(U) = Cardinality(S) + c
  BY <1>2, <1>6, <1>7, <1>9
<1> QED
  BY <1>6, <1>8, <1>10 DEF c

LEMMA ExtremesExtended ==
  ASSUME NEW values \in Seq(SampleValues), NEW t \in SampleValues,
         NEW w \in Nat \ {0},
         NEW values2, Extended(values2, values, t, w),
         NEW h, NEW h2, NEW top, IsHistogram(h, top), Weighted(h2, h, top, t, w),
         Extremes(h, values)
  PROVE  Extremes(h2, values2)
<1> DEFINE n == Len(values)
           m == n + w
<1>1. /\ n \in Nat /\ Len(values2) = m /\ m \in Nat \ {0}
      /\ \A k \in 1..n : values2[k] = values[k]
      /\ \A k \in (n + 1)..m : values2[k] = t
      /\ m \in (n + 1)..m /\ m \in 1..m
      /\ \A k \in 1..m : k \in 1..n \/ k \in (n + 1)..m
  BY DEF Extended
<1>2. t \in Int /\ -SampleLimit <= t /\ t <= SampleLimit
      /\ \A k \in 1..n : values[k] \in Int
  BY HistogramAssumption DEF SampleValues
<1>3. /\ h2.observed_min = IF h.observed_min <= t THEN h.observed_min ELSE t
      /\ h2.observed_max = IF h.observed_max <= t THEN t ELSE h.observed_max
      /\ h.observed_min \in Int /\ h.observed_max \in Int
  BY DEF Weighted, IsHistogram
<1>4. \A k \in 1..n : k \in 1..m
  BY <1>1
<1> HIDE DEF n, m
<1>5. CASE n = 0
  <2>1. h.observed_min = SampleLimit /\ h.observed_max = -SampleLimit
    BY <1>5 DEF Extremes, n
  <2>2. h2.observed_min = t /\ h2.observed_max = t
    BY <1>2, <1>3, <2>1, HistogramAssumption
  <2>3. \A k \in 1..m : values2[k] = t
    BY <1>1, <1>5
  <2>4. \A k \in 1..m : h2.observed_min <= values2[k] /\ values2[k] <= h2.observed_max
    BY <1>2, <2>2, <2>3
  <2> QED
    BY <1>1, <2>2, <2>3, <2>4 DEF Extremes
<1>6. CASE n # 0
  <2>1. /\ \E k \in 1..n : h.observed_min = values[k]
        /\ \E k \in 1..n : h.observed_max = values[k]
        /\ \A k \in 1..n : h.observed_min <= values[k] /\ values[k] <= h.observed_max
    BY <1>6 DEF Extremes, n
  <2>2. \E k \in 1..m : h2.observed_min = values2[k]
    BY <1>1, <1>3, <1>4, <2>1
  <2>3. \E k \in 1..m : h2.observed_max = values2[k]
    BY <1>1, <1>3, <1>4, <2>1
  <2>4. \A k \in 1..m : h2.observed_min <= values2[k] /\ values2[k] <= h2.observed_max
    <3> SUFFICES ASSUME NEW k \in 1..m
                 PROVE  h2.observed_min <= values2[k] /\ values2[k] <= h2.observed_max
      OBVIOUS
    <3>1. CASE k \in 1..n
      BY <1>1, <1>2, <1>3, <2>1, <3>1
    <3>2. CASE k \in (n + 1)..m
      BY <1>1, <1>2, <1>3, <3>2
    <3> QED
      BY <1>1, <3>1, <3>2
  <2> QED
    BY <1>1, <2>2, <2>3, <2>4 DEF Extremes
<1> QED
  BY <1>5, <1>6

LEMMA TallyGrows ==
  ASSUME NEW top \in Nat \ {0}, NEW h, NEW values, Tally(h, top, values),
         NEW t \in SampleValues, NEW w \in Nat,
         NEW values2, values2 \in Seq(SampleValues), Extended(values2, values, t, w)
  PROVE  Tally(weighted_sample(h, IntegerRange(0, top), t, w), top, values2)
<1>1. IsHistogram(h, top) /\ values \in Seq(SampleValues) /\ Len(values) \in Nat
      /\ Extremes(h, values) /\ t \in Int
  BY DEF Tally, SampleValues
<1>2. CASE w = 0
  <2>1. values2 = values
    <3>1. Len(values2) = Len(values) /\ \A k \in 1..Len(values) : values2[k] = values[k]
      BY <1>1, <1>2 DEF Extended
    <3> QED
      BY <1>1, <3>1
  <2>2. weighted_sample(h, IntegerRange(0, top), t, w) = h
    BY <1>2 DEF weighted_sample
  <2> QED
    BY <2>1, <2>2
<1>3. CASE w # 0
  <2> DEFINE h2 == weighted_sample(h, IntegerRange(0, top), t, w)
  <2>1. Weighted(h2, h, top, t, w)
    BY <1>1, <1>3, WeightedSample
  <2> HIDE DEF h2
  <2>2. Extremes(h2, values2)
    BY <1>1, <1>3, <2>1, ExtremesExtended
  <2>3. \A lo, hi : /\ Between(values, lo, hi) \in Nat
                    /\ Between(values2, lo, hi) =
                          Between(values, lo, hi) + (IF lo <= t /\ t < hi THEN w ELSE 0)
    BY <1>1, BetweenExtended
  <2>4. -SampleLimit <= t /\ t < SampleLimit
    BY HistogramAssumption DEF SampleValues
  <2>5. /\ h.underflow_count = Between(values, -SampleLimit, 0)
        /\ h.overflow_count = Between(values, top, SampleLimit)
        /\ \A i \in 1..top : h.bins[i] = Between(values, i - 1, i)
        /\ h.nsamples = Len(values) /\ Len(values2) = Len(values) + w
    BY DEF Tally, Extended
  <2>6. /\ h2.underflow_count = h.underflow_count + (IF t < 0 THEN w ELSE 0)
        /\ h2.overflow_count = h.overflow_count + (IF t >= top THEN w ELSE 0)
        /\ \A i \in 1..top :
              h2.bins[i] = h.bins[i] + (IF i - 1 <= t /\ t < i THEN w ELSE 0)
        /\ h2.nsamples = h.nsamples + w /\ IsHistogram(h2, top)
    BY <2>1 DEF Weighted
  <2>7. h2.underflow_count = Between(values2, -SampleLimit, 0)
    BY <2>3, <2>4, <2>5, <2>6
  <2>8. h2.overflow_count = Between(values2, top, SampleLimit)
    <3>1. t >= top <=> top <= t
      BY <1>1
    <3> QED
      BY <2>3, <2>4, <2>5, <2>6, <3>1
  <2>9. \A i \in 1..top : h2.bins[i] = Between(values2, i - 1, i)
    <3> SUFFICES ASSUME NEW i \in 1..top
                 PROVE  h2.bins[i] = Between(values2, i - 1, i)
      OBVIOUS
    <3> DEFINE j == i - 1
    <3>1. h.bins[i] = Between(values, j, i)
      BY <2>5
    <3>2. h2.bins[i] = h.bins[i] + (IF j <= t /\ t < i THEN w ELSE 0)
      BY <2>6
    <3> HIDE DEF j
    <3>3. Between(values2, j, i) =
             Between(values, j, i) + (IF j <= t /\ t < i THEN w ELSE 0)
      BY <2>3
    <3> QED
      BY <3>1, <3>2, <3>3 DEF j
  <2> QED
    BY <2>2, <2>5, <2>6, <2>7, <2>8, <2>9 DEF Tally, h2
<1> QED
  BY <1>2, <1>3

LEMMA TallyIsTally ==
  ASSUME NEW top \in Nat \ {0}, NEW h, NEW values, Tally(h, top, values)
  PROVE  IsTallyOf(h, IntegerRange(0, top), values)
<1> DEFINE cuts == IntegerRange(0, top)
           count(lo, hi) ==
              Cardinality({k \in DOMAIN values : lo <= values[k] /\ values[k] < hi})
<1>1. /\ IsHistogram(h, top) /\ values \in Seq(SampleValues)
      /\ h.nsamples = Len(values)
      /\ h.underflow_count = Between(values, -SampleLimit, 0)
      /\ h.overflow_count = Between(values, top, SampleLimit)
      /\ \A i \in 1..top : h.bins[i] = Between(values, i - 1, i)
      /\ Extremes(h, values)
  BY DEF Tally
<1>2. /\ \A i \in 1..(top + 1) : cuts[i] = i - 1
      /\ histogram_min(cuts) = 0 /\ histogram_max(cuts) = top
  BY RangeOfCuts DEF histogram_min, histogram_max
<1>3. DOMAIN values = 1..Len(values)
  BY <1>1
<1>4. \A lo, hi : count(lo, hi) = Between(values, lo, hi)
  BY <1>3 DEF Between
<1> HIDE DEF cuts
<1>5. DOMAIN h.bins = 1..top
  BY <1>1 DEF IsHistogram
<1>6. \A i \in DOMAIN h.bins : h.bins[i] = Between(values, cuts[i], cuts[i + 1])
  <2> SUFFICES ASSUME NEW i \in 1..top
               PROVE  h.bins[i] = Between(values, cuts[i], cuts[i + 1])
    BY <1>5
  <2>1. i \in 1..(top + 1) /\ i + 1 \in 1..(top + 1) /\ (i + 1) - 1 = i
    OBVIOUS
  <2>2. cuts[i] = i - 1 /\ cuts[i + 1] = i
    BY <1>2, <2>1
  <2> QED
    BY <1>1, <2>2
<1>7. values # << >> => /\ h.observed_min = Min(ToSet(values))
                        /\ h.observed_max = Max(ToSet(values))
  <2> SUFFICES ASSUME values # << >>
               PROVE  h.observed_min = Min(ToSet(values))
                      /\ h.observed_max = Max(ToSet(values))
    OBVIOUS
  <2> DEFINE S == ToSet(values)
             low == h.observed_min
             high == h.observed_max
  <2>1. Len(values) # 0
    BY <1>1
  <2>2. S = {values[k] : k \in 1..Len(values)}
    BY <1>3 DEF ToSet
  <2>3. low \in S /\ high \in S /\ \A x \in S : low <= x /\ x <= high
    BY <1>1, <2>1, <2>2 DEF Extremes
  <2>4. \A x \in S : x \in Int
    <3>1. \A k \in 1..Len(values) : values[k] \in SampleValues
      BY <1>1
    <3>2. \A x \in SampleValues : x \in Int
      BY HistogramAssumption DEF SampleValues
    <3> QED
      BY <2>2, <3>1, <3>2
  <2> HIDE DEF S, low, high
  <2>5. Min(S) = low
    BY <2>3, <2>4 DEF Min
  <2>6. Max(S) = high
    BY <2>3, <2>4 DEF Max
  <2> QED
    BY <2>5, <2>6 DEF S, low, high
<1>8. /\ h.underflow_count = count(theoretical_min, histogram_min(cuts))
      /\ h.overflow_count = count(histogram_max(cuts), theoretical_max)
  BY <1>1, <1>2, <1>4 DEF theoretical_min, theoretical_max
<1>9. \A i \in DOMAIN h.bins : h.bins[i] = count(cuts[i], cuts[i + 1])
  BY <1>4, <1>6
<1>10. IsTallyOf(h, cuts, values)
  BY <1>1, <1>7, <1>8, <1>9, Zenon DEF IsTallyOf
<1> QED
  BY <1>10 DEF cuts

LEMMA EmptyTally ==
  ASSUME NEW top \in Nat \ {0}
  PROVE  Tally(EmptyHistogram(IntegerRange(0, top)), top, << >>)
<1> DEFINE cuts == IntegerRange(0, top)
           h == EmptyHistogram(cuts)
<1>1. Len(cuts) - 1 = top
  BY RangeOfCuts
<1> HIDE DEF cuts
<1>2. h = [bins |-> [i \in 1..top |-> 0], underflow_count |-> 0,
           overflow_count |-> 0, observed_min |-> SampleLimit,
           observed_max |-> -SampleLimit, nsamples |-> 0]
  BY <1>1 DEF EmptyHistogram, theoretical_min, theoretical_max
<1> HIDE DEF h
<1>3. IsHistogram(h, top)
  BY <1>2, HistogramAssumption DEF IsHistogram
<1>4. \A lo, hi : Between(<< >>, lo, hi) = 0
  <2> SUFFICES ASSUME NEW lo, NEW hi PROVE Between(<< >>, lo, hi) = 0
    OBVIOUS
  <2>1. {k \in 1..Len(<< >>) : lo <= << >>[k] /\ << >>[k] < hi} = {}
    OBVIOUS
  <2> QED
    BY <2>1, FS_EmptySet DEF Between
<1>5. Extremes(h, << >>)
  BY <1>2 DEF Extremes
<1>6. << >> \in Seq(SampleValues) /\ Len(<< >>) = 0
  OBVIOUS
<1>7. Tally(h, top, << >>)
  BY <1>2, <1>3, <1>4, <1>5, <1>6 DEF Tally
<1> QED
  BY <1>7 DEF h, cuts
-----------------------------------------------------------------------------
(* The interarrival times and the latencies.                               *)
Messages == [ts : Timestamps, pl : Latencies]

\* last_ts_ is the time of the last message; the histograms are tallies.
ArrivalInv ==
    /\ samples \in Seq(Messages)
    /\ samples # << >> => last_ts_ = samples[Len(samples)].ts
    /\ Tally(interarrival_, MaxInterarrival, Interarrivals)
    /\ Tally(processing_latency_, MaxLatency, ProcessingLatencies)

LEMMA InterarrivalsAre ==
  ASSUME NEW s \in Seq(Messages),
         NEW f, f = [k \in 1..(Max({1, Len(s)}) - 1) |-> s[k + 1].ts - s[k].ts]
  PROVE  /\ f \in Seq(SampleValues)
         /\ Len(f) = IF Len(s) = 0 THEN 0 ELSE Len(s) - 1
         /\ \A k \in 1..Len(f) : f[k] = s[k + 1].ts - s[k].ts
<1> DEFINE n == Len(s)
           m == IF n = 0 THEN 0 ELSE n - 1
<1>1. n \in Nat /\ \A k \in 1..n : s[k].ts \in 0..(SampleLimit - 1)
  <2>0. \A k \in 1..Len(s) : s[k] \in Messages
    OBVIOUS
  <2>1. \A k \in 1..Len(s) : s[k].ts \in Timestamps
    BY <2>0 DEF Messages
  <2>2. Timestamps \subseteq 0..(SampleLimit - 1)
    BY FeedStatisticsAssumption
  <2>3. n \in Nat
    OBVIOUS
  <2> QED
    BY <2>1, <2>2, <2>3
<1> HIDE DEF n
<1>0. m \in Nat
  BY <1>1
<1>2. Max({1, n}) - 1 = m
  <2>1. 1 \in Int /\ n \in Int
    BY <1>1
  <2>2. Max({1, n}) = IF 1 <= n THEN n ELSE 1
    BY <2>1, MinOfTwo
  <2> QED
    BY <1>1, <2>2
<1>3. f = [k \in 1..m |-> s[k + 1].ts - s[k].ts]
  BY <1>2 DEF n
<1>4. \A k \in 1..m : s[k + 1].ts - s[k].ts \in SampleValues
  <2> SUFFICES ASSUME NEW k \in 1..m PROVE s[k + 1].ts - s[k].ts \in SampleValues
    OBVIOUS
  <2>1. k \in 1..n /\ k + 1 \in 1..n
    BY <1>1
  <2> DEFINE a == s[k + 1].ts
             b == s[k].ts
  <2>2. a \in 0..(SampleLimit - 1) /\ b \in 0..(SampleLimit - 1)
    BY <1>1, <2>1
  <2> HIDE DEF a, b
  <2>3. a - b \in SampleValues
    BY <2>2, HistogramAssumption DEF SampleValues
  <2> QED
    BY <2>3 DEF a, b
<1> HIDE DEF m
<1>5. f \in [1..m -> SampleValues] /\ \A k \in 1..m : f[k] = s[k + 1].ts - s[k].ts
  BY <1>3, <1>4
<1>6. f \in Seq(SampleValues) /\ Len(f) = m
  BY <1>0, <1>5, SequenceOf
<1> QED
  BY <1>5, <1>6 DEF m, n

LEMMA LatenciesAre ==
  ASSUME NEW s \in Seq(Messages), NEW f, f = [k \in DOMAIN s |-> s[k].pl]
  PROVE  /\ f \in Seq(SampleValues) /\ Len(f) = Len(s)
         /\ \A k \in 1..Len(f) : f[k] = s[k].pl
<1>1. DOMAIN s = 1..Len(s) /\ Len(s) \in Nat
  OBVIOUS
<1>2. \A k \in 1..Len(s) : s[k].pl \in SampleValues
  <2>0. \A k \in 1..Len(s) : s[k] \in Messages
    OBVIOUS
  <2>1. \A k \in 1..Len(s) : s[k].pl \in Latencies
    BY <2>0 DEF Messages
  <2>2. Latencies \subseteq SampleValues
    BY FeedStatisticsAssumption, HistogramAssumption DEF SampleValues
  <2> QED
    BY <2>1, <2>2
<1>3. f \in [1..Len(s) -> SampleValues]
  BY <1>1, <1>2
<1>4. f \in Seq(SampleValues) /\ Len(f) = Len(s)
  BY <1>1, <1>3, SeqDef
<1> QED
  BY <1>1, <1>4

LEMMA InitArrivals == Init => ArrivalInv
<1> SUFFICES ASSUME Init PROVE ArrivalInv
  OBVIOUS
<1>1. /\ samples = << >>
      /\ interarrival_ = EmptyHistogram(IntegerRange(0, MaxInterarrival))
      /\ processing_latency_ = EmptyHistogram(IntegerRange(0, MaxLatency))
  BY DEF Init, InterarrivalCuts, LatencyCuts
<1>2. samples \in Seq(Messages) /\ Len(samples) = 0
  BY <1>1
<1>3. Interarrivals \in Seq(SampleValues) /\ Len(Interarrivals) = 0
  BY <1>2, InterarrivalsAre DEF Interarrivals
<1>4. ProcessingLatencies \in Seq(SampleValues) /\ Len(ProcessingLatencies) = 0
  BY <1>2, LatenciesAre DEF ProcessingLatencies
<1>5. Interarrivals = << >> /\ ProcessingLatencies = << >>
  BY <1>3, <1>4
<1>6. MaxInterarrival \in Nat \ {0} /\ MaxLatency \in Nat \ {0}
  BY FeedStatisticsAssumption
<1>7. /\ Tally(interarrival_, MaxInterarrival, << >>)
      /\ Tally(processing_latency_, MaxLatency, << >>)
  BY <1>1, <1>6, EmptyTally
<1> QED
  BY <1>1, <1>2, <1>5, <1>7 DEF ArrivalInv

LEMMA RecordArrivals ==
  ASSUME ArrivalInv, NEW ts \in Timestamps, NEW pl \in Latencies,
         record_sample(ts, pl)
  PROVE  ArrivalInv'
<1> DEFINE x == [ts |-> ts, pl |-> pl]
           n == Len(samples)
<1>1. /\ samples' = Append(samples, x) /\ last_ts_' = ts
      /\ interarrival_' =
            IF IsFirst THEN interarrival_
            ELSE weighted_sample(interarrival_, IntegerRange(0, MaxInterarrival),
                                 ts - last_ts_, 1)
      /\ processing_latency_' =
            weighted_sample(processing_latency_, IntegerRange(0, MaxLatency), pl, 1)
  BY DEF record_sample, sample, InterarrivalCuts, LatencyCuts
<1>2. /\ samples \in Seq(Messages)
      /\ samples # << >> => last_ts_ = samples[n].ts
      /\ Tally(interarrival_, MaxInterarrival, Interarrivals)
      /\ Tally(processing_latency_, MaxLatency, ProcessingLatencies)
  BY DEF ArrivalInv
<1>3. x \in Messages
  BY DEF Messages
<1> HIDE DEF x
<1>4. /\ samples' \in Seq(Messages) /\ Len(samples') = n + 1 /\ n \in Nat
      /\ samples'[n + 1] = x /\ \A k \in 1..n : samples'[k] = samples[k]
  BY <1>1, <1>2, <1>3
<1>5. samples' # << >> => last_ts_' = samples'[Len(samples')].ts
  BY <1>1, <1>4 DEF x
<1>6. MaxInterarrival \in Nat \ {0} /\ MaxLatency \in Nat \ {0}
  BY FeedStatisticsAssumption
<1>7. Tally(processing_latency_', MaxLatency, ProcessingLatencies')
  <2> DEFINE f == ProcessingLatencies
             g == ProcessingLatencies'
  <2>1. /\ f \in Seq(SampleValues) /\ Len(f) = n
        /\ \A k \in 1..Len(f) : f[k] = samples[k].pl
    BY <1>2, LatenciesAre DEF ProcessingLatencies
  <2>0. g = [k \in DOMAIN samples' |-> samples'[k].pl]
    BY DEF ProcessingLatencies
  <2>2. /\ g \in Seq(SampleValues) /\ Len(g) = n + 1
        /\ \A k \in 1..Len(g) : g[k] = samples'[k].pl
    <3> HIDE DEF g
    <3> QED
      BY <1>4, <2>0, LatenciesAre
  <2> HIDE DEF f, g
  <2>3. Extended(g, f, pl, 1)
    <3>1. \A k \in 1..n : k \in 1..(n + 1) /\ g[k] = f[k]
      BY <1>4, <2>1, <2>2
    <3>2. n + 1 \in 1..(n + 1) /\ g[n + 1] = pl
      BY <1>4, <2>2 DEF x
    <3>3. \A k \in (n + 1)..(n + 1) : k = n + 1
      BY <1>4
    <3> QED
      BY <2>1, <2>2, <3>1, <3>2, <3>3 DEF Extended
  <2>4. pl \in SampleValues
    BY FeedStatisticsAssumption, HistogramAssumption DEF SampleValues
  <2>5. Tally(processing_latency_, MaxLatency, f)
    BY <1>2 DEF f
  <2>6. Tally(processing_latency_', MaxLatency, g)
    BY <1>1, <1>6, <2>2, <2>3, <2>4, <2>5, TallyGrows
  <2> QED
    BY <2>6 DEF g
<1>8. Tally(interarrival_', MaxInterarrival, Interarrivals')
  <2> DEFINE f == Interarrivals
             g == Interarrivals'
  <2>1. /\ f \in Seq(SampleValues) /\ Len(f) = IF n = 0 THEN 0 ELSE n - 1
        /\ \A k \in 1..Len(f) : f[k] = samples[k + 1].ts - samples[k].ts
    BY <1>2, InterarrivalsAre DEF Interarrivals
  <2>2. /\ g \in Seq(SampleValues)
        /\ Len(g) = IF Len(samples') = 0 THEN 0 ELSE Len(samples') - 1
        /\ \A k \in 1..Len(g) : g[k] = samples'[k + 1].ts - samples'[k].ts
    BY <1>4, InterarrivalsAre DEF Interarrivals
  <2>3. Len(g) = n
    BY <1>4, <2>2
  <2>4. IsFirst <=> n = 0
    <3>1. processing_latency_.nsamples = Len(ProcessingLatencies)
      BY <1>2 DEF Tally
    <3>2. Len(ProcessingLatencies) = n
      BY <1>2, LatenciesAre DEF ProcessingLatencies
    <3> QED
      BY <3>1, <3>2 DEF IsFirst
  <2>5. Tally(interarrival_, MaxInterarrival, f)
    BY <1>2
  <2> HIDE DEF f, g
  <2>6. CASE n = 0
    <3>1. f = g
      BY <2>1, <2>2, <2>3, <2>6
    <3> QED
      BY <1>1, <2>4, <2>5, <2>6, <3>1 DEF g
  <2>7. CASE n # 0
    <3> DEFINE t == ts - last_ts_
    <3>1. last_ts_ = samples[n].ts
      BY <1>2, <2>7
    <3>2. t \in SampleValues /\ g[n] = t
      <4>1. n \in 1..n /\ n \in 1..Len(g)
        BY <1>4, <2>3, <2>7
      <4>2. g[n] = samples'[n + 1].ts - samples'[n].ts
        BY <2>2, <4>1
      <4>3. samples'[n + 1].ts = ts /\ samples'[n].ts = last_ts_
        BY <1>4, <3>1, <4>1 DEF x
      <4>4. g[n] \in SampleValues
        BY <2>2, <4>1
      <4> QED
        BY <4>2, <4>3, <4>4
    <3>3. Extended(g, f, t, 1)
      <4>1. Len(f) = n - 1 /\ Len(g) = Len(f) + 1
        BY <1>4, <2>1, <2>3, <2>7
      <4>2. ASSUME NEW k \in 1..(n - 1) PROVE g[k] = f[k]
        <5>1. k \in 1..n /\ k + 1 \in 1..n
          BY <1>4
        <5>2. g[k] = samples'[k + 1].ts - samples'[k].ts
          BY <2>2, <2>3, <5>1
        <5>3. f[k] = samples[k + 1].ts - samples[k].ts
          BY <2>1, <4>1
        <5>4. samples'[k + 1] = samples[k + 1] /\ samples'[k] = samples[k]
          BY <1>4, <5>1
        <5> QED
          BY <5>2, <5>3, <5>4
      <4>3. \A k \in (n - 1 + 1)..(n - 1 + 1) : k = n
        BY <1>4
      <4> HIDE DEF t
      <4> QED
        BY <3>2, <4>1, <4>2, <4>3 DEF Extended
    <3> HIDE DEF t
    <3>4. Tally(weighted_sample(interarrival_, IntegerRange(0, MaxInterarrival), t, 1),
                MaxInterarrival, g)
      BY <1>6, <2>2, <2>5, <3>2, <3>3, TallyGrows
    <3> QED
      BY <1>1, <2>4, <2>7, <3>4 DEF g, t
  <2> QED
    BY <2>6, <2>7
<1> QED
  BY <1>4, <1>5, <1>7, <1>8 DEF ArrivalInv

LEMMA NextArrivals == ASSUME ArrivalInv, [Next]_vars PROVE ArrivalInv'
<1>1. ASSUME NEW ts \in Timestamps, NEW pl \in Latencies, record_sample(ts, pl)
      PROVE  ArrivalInv'
  BY <1>1, RecordArrivals
<1>2. ASSUME UNCHANGED <<statistics, samples>> PROVE ArrivalInv'
  BY <1>2 DEF ArrivalInv, statistics, Interarrivals, ProcessingLatencies
<1>3. log_final_progress => UNCHANGED <<statistics, samples>>
  BY DEF log_final_progress
<1>4. print_csv => UNCHANGED <<statistics, samples>>
  BY DEF print_csv
<1>5. UNCHANGED vars => UNCHANGED <<statistics, samples>>
  BY DEF vars
<1> QED
  BY <1>1, <1>2, <1>3, <1>4, <1>5 DEF Next

LEMMA SpecArrivals == Spec => []ArrivalInv
<1>1. ArrivalInv /\ [Next]_vars => ArrivalInv'
  BY NextArrivals
<1> QED
  BY <1>1, InitArrivals, PTL DEF Spec

(* The histograms of the latencies and of the interarrival times are the   *)
(* tallies of what happened, for every feed: a timestamp that goes back    *)
(* counts below the range, and the first message, which has no             *)
(* interarrival time, is told by the latencies whatever its timestamp is.  *)
THEOREM ArrivalsCorrect == Spec => []ArrivalsTallied
<1>1. ArrivalInv => ArrivalsTallied
  <2> SUFFICES ASSUME ArrivalInv PROVE ArrivalsTallied
    OBVIOUS
  <2>1. MaxInterarrival \in Nat \ {0} /\ MaxLatency \in Nat \ {0}
    BY FeedStatisticsAssumption
  <2>2. /\ IsTallyOf(interarrival_, IntegerRange(0, MaxInterarrival), Interarrivals)
        /\ IsTallyOf(processing_latency_, IntegerRange(0, MaxLatency),
                     ProcessingLatencies)
    BY <2>1, TallyIsTally DEF ArrivalInv
  <2> QED
    BY <2>2 DEF ArrivalsTallied, InterarrivalCuts, LatencyCuts
<1> QED
  BY <1>1, SpecArrivals, PTL
-----------------------------------------------------------------------------
(* The ring of an estimator.  p gives the sampling period in which each of *)
(* n events is counted.                                                    *)
InPeriod(p, n, q) == Cardinality({i \in 1..n : p[i] = q})

InWindow(p, n, q) == Cardinality({i \in 1..n : q - Buckets < p[i] /\ p[i] <= q})

IsEstimator(e) ==
    e \in [buckets : [0..(Buckets - 1) -> Int], end_pos : 0..(Buckets - 1),
           running_total : Int, last_bucket : Int]

\* The ring is at period q: the slots hold the counts of the last periods.
RingAt(e, p, n, q) ==
    /\ IsEstimator(e)
    /\ e.last_bucket = q
    /\ e.running_total = InWindow(p, n, q)
    /\ \A k \in 0..(Buckets - 1) :
          e.buckets[(e.end_pos - k) % Buckets] = InPeriod(p, n, q - k)

\* The n events are in periods up to q.
UpTo(p, n, q) == n \in Nat /\ q \in Int /\ \A i \in 1..n : p[i] \in Int /\ p[i] <= q

LEMMA SlotBehind ==
  ASSUME NEW at \in 0..(Buckets - 1), NEW k \in 0..(Buckets - 1)
  PROVE  (at - k) % Buckets = IF k <= at THEN at - k ELSE at - k + Buckets
<1>1. Buckets \in Nat \ {0}
  BY FeedStatisticsAssumption
<1> QED
  BY <1>1

LEMMA SlotAfter ==
  ASSUME NEW at \in 0..(Buckets - 1)
  PROVE  (at + 1) % Buckets = IF at = Buckets - 1 THEN 0 ELSE at + 1
<1>1. Buckets \in Nat \ {0}
  BY FeedStatisticsAssumption
<1> DEFINE x == at + 1
<1>2. CASE at = Buckets - 1
  <2>1. at + 1 = Buckets
    BY <1>1, <1>2
  <2>2. Buckets % Buckets = 0
    BY <1>1
  <2> QED
    BY <1>2, <2>1, <2>2
<1>3. CASE at # Buckets - 1
  <2>1. x \in Nat /\ x < Buckets
    BY <1>1, <1>3
  <2> HIDE DEF x
  <2>2. x % Buckets = x
    BY <1>1, <2>1
  <2> QED
    BY <1>3, <2>2 DEF x
<1> QED
  BY <1>2, <1>3

LEMMA PartFinite ==
  ASSUME NEW n \in Nat, NEW S \in SUBSET (1..n)
  PROVE  IsFiniteSet(S) /\ Cardinality(S) \in Nat /\ Cardinality(S) <= n
<1> DEFINE N == 1..n
<1>1. IsFiniteSet(N) /\ Cardinality(N) = n
  BY FS_Interval
<1>2. S \in SUBSET N
  OBVIOUS
<1> HIDE DEF N
<1>3. IsFiniteSet(S) /\ Cardinality(S) <= n
  BY <1>1, <1>2, FS_Subset
<1> QED
  BY <1>3, FS_CardinalityType

LEMMA CountsTyped ==
  ASSUME NEW p, NEW n \in Nat, NEW q
  PROVE  /\ InPeriod(p, n, q) \in Nat
         /\ InWindow(p, n, q) \in Nat /\ InWindow(p, n, q) <= n
<1> DEFINE S == {i \in 1..n : p[i] = q}
           T == {i \in 1..n : q - Buckets < p[i] /\ p[i] <= q}
<1>1. S \in SUBSET (1..n) /\ T \in SUBSET (1..n)
  OBVIOUS
<1> HIDE DEF S, T
<1>2. Cardinality(S) \in Nat /\ Cardinality(T) \in Nat /\ Cardinality(T) <= n
  BY <1>1, PartFinite
<1> QED
  BY <1>2 DEF S, T, InPeriod, InWindow

LEMMA StillFunction ==
  ASSUME NEW D, NEW f \in [D -> Int], NEW x
  PROVE  [f EXCEPT ![x] = 0] \in [D -> Int]
<1> DEFINE g == [d \in D |-> IF d = x THEN 0 ELSE f[d]]
<1>1. \A d \in D : (IF d = x THEN 0 ELSE f[d]) \in Int
  OBVIOUS
<1>2. g \in [D -> Int]
  BY <1>1
<1>3. [f EXCEPT ![x] = 0] = g
  OBVIOUS
<1> QED
  BY <1>2, <1>3

\* The oldest period leaves the window, and a new one has no events yet.
LEMMA WindowMoves ==
  ASSUME NEW p, NEW n, NEW q, UpTo(p, n, q)
  PROVE  /\ InWindow(p, n, q + 1) =
               InWindow(p, n, q) - InPeriod(p, n, q - (Buckets - 1))
         /\ InPeriod(p, n, q + 1) = 0
<1> DEFINE old == q - (Buckets - 1)
           new == q + 1
           S == {i \in 1..n : p[i] = old}
           T == {i \in 1..n : q - Buckets < p[i] /\ p[i] <= q}
           U == {i \in 1..n : new - Buckets < p[i] /\ p[i] <= new}
<1>1. n \in Nat /\ q \in Int /\ Buckets \in Nat \ {0}
      /\ \A i \in 1..n : p[i] \in Int /\ p[i] <= q
  BY FeedStatisticsAssumption DEF UpTo
<1>0. new = q + 1 /\ old = q - (Buckets - 1)
  OBVIOUS
<1> HIDE DEF old, new
<1>2. T = U \cup S /\ U \cap S = {}
  <2>1. ASSUME NEW i \in 1..n
        PROVE  /\ i \in T <=> i \in U \/ i \in S
               /\ ~ (i \in U /\ i \in S)
    <3> DEFINE x == p[i]
    <3>1. x \in Int /\ x <= q
      BY <1>1
    <3> HIDE DEF x
    <3>2. /\ (q - Buckets < x /\ x <= q)
                <=> (new - Buckets < x /\ x <= new) \/ x = old
          /\ ~ ((new - Buckets < x /\ x <= new) /\ x = old)
      BY <1>0, <1>1, <3>1
    <3> QED
      BY <3>2 DEF x
  <2>2. \A i : /\ i \in T => i \in 1..n
               /\ i \in U => i \in 1..n
               /\ i \in S => i \in 1..n
    OBVIOUS
  <2> HIDE DEF S, T, U
  <2> QED
    BY <2>1, <2>2
<1>3. IsFiniteSet(S) /\ Cardinality(S) \in Nat
  <2>1. S \in SUBSET (1..n)
    OBVIOUS
  <2> HIDE DEF S
  <2> QED
    BY <1>1, <2>1, PartFinite
<1>4. IsFiniteSet(U) /\ Cardinality(U) \in Nat
  <2>1. U \in SUBSET (1..n)
    OBVIOUS
  <2> HIDE DEF U
  <2> QED
    BY <1>1, <2>1, PartFinite
<1>5. InPeriod(p, n, old) = Cardinality(S) /\ InWindow(p, n, q) = Cardinality(T)
      /\ InWindow(p, n, new) = Cardinality(U)
  BY Zenon DEF InPeriod, InWindow
<1> HIDE DEF S, T, U
<1>6. Cardinality(T) = Cardinality(U) + Cardinality(S)
  <2>1. Cardinality(U \cap S) = 0
    BY <1>2, FS_EmptySet
  <2>2. Cardinality(U \cup S) = Cardinality(U) + Cardinality(S) - Cardinality(U \cap S)
    BY <1>3, <1>4, FS_Union
  <2> QED
    BY <1>2, <1>3, <1>4, <2>1, <2>2
<1>7. InPeriod(p, n, new) = 0
  <2>1. {i \in 1..n : p[i] = new} = {}
    BY <1>0, <1>1
  <2> QED
    BY <2>1, FS_EmptySet DEF InPeriod
<1>8. InWindow(p, n, new) = InWindow(p, n, q) - InPeriod(p, n, old)
  BY <1>3, <1>4, <1>5, <1>6
<1> QED
  BY <1>7, <1>8 DEF old, new

LEMMA RotateKeeps ==
  ASSUME NEW e, NEW p, NEW n, NEW q, UpTo(p, n, q), RingAt(e, p, n, q)
  PROVE  RingAt(Rotate(e), p, n, q + 1)
<1> DEFINE pos == (e.end_pos + 1) % RingSize(e)
           r == Rotate(e)
           q2 == q + 1
<1>1. Buckets \in Nat \ {0} /\ n \in Nat /\ q \in Int
  BY FeedStatisticsAssumption DEF UpTo
<1>2. /\ e \in [buckets : [0..(Buckets - 1) -> Int], end_pos : 0..(Buckets - 1),
                running_total : Int, last_bucket : Int]
      /\ e.last_bucket = q /\ e.running_total = InWindow(p, n, q)
      /\ \A k \in 0..(Buckets - 1) :
            e.buckets[(e.end_pos - k) % Buckets] = InPeriod(p, n, q - k)
  BY DEF RingAt, IsEstimator
<1>3. RingSize(e) = Buckets
  <2>1. DOMAIN e.buckets = 0..(Buckets - 1)
    BY <1>2
  <2>2. Cardinality(0..(Buckets - 1)) = Buckets
    BY <1>1, FS_Interval
  <2> QED
    BY <2>1, <2>2 DEF RingSize
<1>4. e.end_pos \in 0..(Buckets - 1)
  BY <1>2
<1>5. pos = IF e.end_pos = Buckets - 1 THEN 0 ELSE e.end_pos + 1
  BY <1>3, <1>4, SlotAfter
<1>6. pos \in 0..(Buckets - 1)
  BY <1>1, <1>4, <1>5
<1>7. r = [e EXCEPT !.end_pos = pos, !.running_total = @ - e.buckets[pos],
                    !.buckets[pos] = 0, !.last_bucket = @ + 1]
  BY DEF Rotate
<1> HIDE DEF pos, r
<1>8. e.buckets[pos] = InPeriod(p, n, q - (Buckets - 1))
  <2> DEFINE k == Buckets - 1
  <2>1. k \in 0..(Buckets - 1) /\ (e.end_pos - k) % Buckets = pos
    <3>1. k \in 0..(Buckets - 1)
      BY <1>1
    <3>2. (e.end_pos - k) % Buckets =
             IF k <= e.end_pos THEN e.end_pos - k ELSE e.end_pos - k + Buckets
      BY <1>4, <3>1, SlotBehind
    <3> QED
      BY <1>1, <1>4, <1>5, <3>1, <3>2
  <2> HIDE DEF k
  <2>2. e.buckets[pos] = InPeriod(p, n, q - k)
    BY <1>2, <2>1
  <2> QED
    BY <2>2 DEF k
<1>9. /\ InWindow(p, n, q2) =
            InWindow(p, n, q) - InPeriod(p, n, q - (Buckets - 1))
      /\ InPeriod(p, n, q2) = 0 /\ q2 \in Int /\ q2 = q + 1
  BY <1>1, WindowMoves
<1> HIDE DEF q2
<1>10. /\ r.end_pos = pos /\ r.running_total = InWindow(p, n, q2)
       /\ r.last_bucket = q2
       /\ r.buckets = [e.buckets EXCEPT ![pos] = 0]
  BY <1>2, <1>7, <1>8, <1>9
<1>11. IsEstimator(r)
  <2>1. InWindow(p, n, q2) \in Int /\ q2 \in Int
    BY <1>1, <1>9, CountsTyped
  <2>2. r.buckets \in [0..(Buckets - 1) -> Int]
    <3> DEFINE old == e.buckets
    <3>1. old \in [0..(Buckets - 1) -> Int]
      BY <1>2
    <3> HIDE DEF old
    <3>2. [old EXCEPT ![pos] = 0] \in [0..(Buckets - 1) -> Int]
      BY <3>1, StillFunction
    <3> QED
      BY <1>10, <3>2 DEF old
  <2>3. r = [buckets |-> r.buckets, end_pos |-> r.end_pos,
             running_total |-> r.running_total, last_bucket |-> r.last_bucket]
    BY <1>2, <1>7
  <2> QED
    BY <1>6, <1>10, <2>1, <2>2, <2>3 DEF IsEstimator
<1>12. ASSUME NEW k \in 0..(Buckets - 1)
       PROVE  r.buckets[(pos - k) % Buckets] = InPeriod(p, n, q2 - k)
  <2>1. CASE k = 0
    <3>1. (pos - k) % Buckets = pos
      BY <1>1, <1>6, <2>1, SlotBehind
    <3>2. q2 - k = q2
      BY <1>9, <2>1
    <3> QED
      BY <1>2, <1>6, <1>9, <1>10, <3>1, <3>2
  <2>2. CASE k # 0
    <3> DEFINE j == k - 1
               slot == (pos - k) % Buckets
    <3>1. j \in 0..(Buckets - 1) /\ q2 - k = q - j
      BY <1>1, <1>9, <2>2
    <3>2. (e.end_pos - j) % Buckets =
             IF j <= e.end_pos THEN e.end_pos - j ELSE e.end_pos - j + Buckets
      BY <1>4, <3>1, SlotBehind
    <3>3. slot = IF k <= pos THEN pos - k ELSE pos - k + Buckets
      BY <1>6, SlotBehind
    <3>4. slot = (e.end_pos - j) % Buckets /\ slot # pos /\ slot \in 0..(Buckets - 1)
      <4>1. k \in Int /\ 0 < k /\ k < Buckets
        BY <1>1, <2>2
      <4> HIDE DEF slot
      <4> QED
        BY <1>1, <1>4, <1>5, <1>6, <3>2, <3>3, <4>1
    <3>5. e.buckets[slot] = InPeriod(p, n, q - j)
      <4> HIDE DEF slot, j
      <4> QED
        BY <1>2, <3>1, <3>4
    <3> HIDE DEF slot, j
    <3>6. r.buckets[slot] = e.buckets[slot]
      BY <1>2, <1>10, <3>4
    <3> QED
      BY <3>1, <3>5, <3>6 DEF slot
  <2> QED
    BY <2>1, <2>2
<1>13. RingAt(r, p, n, q2)
  BY <1>10, <1>11, <1>12 DEF RingAt
<1> QED
  BY <1>13 DEF r, q2

\* An event in the current period.
OneMore(p2, p, n, q) == p2[n + 1] = q /\ \A i \in 1..n : p2[i] = p[i]

\* Period q is one of those of the measurement period that ends with x.
InSpan(q, x) == x - Buckets < q /\ q <= x

LEMMA CountsExtended ==
  ASSUME NEW p, NEW p2, NEW n \in Nat, NEW m, m = n + 1, NEW q,
         OneMore(p2, p, n, q), NEW x
  PROVE  /\ InPeriod(p2, m, x) = InPeriod(p, n, x) + (IF x = q THEN 1 ELSE 0)
         /\ InWindow(p2, m, x) = InWindow(p, n, x) + (IF InSpan(q, x) THEN 1 ELSE 0)
<1> DEFINE S == {i \in 1..n : p[i] = x}
           S2 == {i \in 1..m : p2[i] = x}
           T == {i \in 1..n : x - Buckets < p[i] /\ p[i] <= x}
           T2 == {i \in 1..m : x - Buckets < p2[i] /\ p2[i] <= x}
<1>1. /\ \A i : i \in 1..m <=> i \in 1..n \/ i = m
      /\ m \notin 1..n
      /\ p2[m] = q /\ \A i \in 1..n : p2[i] = p[i]
  BY DEF OneMore
<1>2. IF x = q THEN S2 = S \cup {m} ELSE S2 = S
  BY <1>1
<1>3. IF InSpan(q, x) THEN T2 = T \cup {m} ELSE T2 = T
  BY <1>1 DEF InSpan
<1>4. S \in SUBSET (1..n) /\ T \in SUBSET (1..n)
  OBVIOUS
<1>5. m \notin S /\ m \notin T
  BY <1>1
<1>6. /\ InPeriod(p, n, x) = Cardinality(S) /\ InPeriod(p2, m, x) = Cardinality(S2)
      /\ InWindow(p, n, x) = Cardinality(T) /\ InWindow(p2, m, x) = Cardinality(T2)
  BY Zenon DEF InPeriod, InWindow
<1> HIDE DEF S, T, S2, T2
<1>7. /\ IsFiniteSet(S) /\ Cardinality(S) \in Nat
      /\ IsFiniteSet(T) /\ Cardinality(T) \in Nat
  BY <1>4, PartFinite
<1>8. /\ Cardinality(S \cup {m}) = Cardinality(S) + 1
      /\ Cardinality(T \cup {m}) = Cardinality(T) + 1
  BY <1>5, <1>7, FS_AddElement
<1>9. InPeriod(p2, m, x) = InPeriod(p, n, x) + (IF x = q THEN 1 ELSE 0)
  BY <1>2, <1>6, <1>7, <1>8
<1>10. InWindow(p2, m, x) = InWindow(p, n, x) + (IF InSpan(q, x) THEN 1 ELSE 0)
  <2>1. CASE InSpan(q, x)
    <3>1. T2 = T \cup {m}
      BY <1>3, <2>1
    <3> QED
      BY <1>6, <1>8, <2>1, <3>1
  <2>2. CASE ~ InSpan(q, x)
    <3>1. T2 = T
      BY <1>3, <2>2
    <3> QED
      BY <1>6, <1>7, <2>2, <3>1
  <2> QED
    BY <2>1, <2>2
<1> QED
  BY <1>9, <1>10

LEMMA SlotCounted ==
  ASSUME NEW D, NEW f \in [D -> Int], NEW x
  PROVE  /\ [f EXCEPT ![x] = @ + 1] \in [D -> Int]
         /\ \A d \in D : [f EXCEPT ![x] = @ + 1][d] = f[d] + (IF d = x THEN 1 ELSE 0)
<1> DEFINE g == [d \in D |-> IF d = x THEN f[d] + 1 ELSE f[d]]
<1>1. \A d \in D : (IF d = x THEN f[d] + 1 ELSE f[d]) \in Int
  OBVIOUS
<1>2. g \in [D -> Int]
  BY <1>1
<1>3. [f EXCEPT ![x] = @ + 1] = g
  OBVIOUS
<1>4. \A d \in D : g[d] = f[d] + (IF d = x THEN 1 ELSE 0)
  OBVIOUS
<1> QED
  BY <1>2, <1>3, <1>4

LEMMA CountedKeeps ==
  ASSUME NEW e, NEW p, NEW p2, NEW n, NEW m, m = n + 1, NEW q, UpTo(p, n, q),
         RingAt(e, p, n, q), OneMore(p2, p, n, q)
  PROVE  RingAt(Counted(e), p2, m, q)
<1> DEFINE r == Counted(e)
           D == 0..(Buckets - 1)
<1>1. Buckets \in Nat \ {0} /\ n \in Nat /\ q \in Int /\ 0 \in D
  BY FeedStatisticsAssumption DEF UpTo
<1>2. /\ e \in [buckets : [D -> Int], end_pos : D,
                running_total : Int, last_bucket : Int]
      /\ e.last_bucket = q /\ e.running_total = InWindow(p, n, q)
      /\ \A k \in D : e.buckets[(e.end_pos - k) % Buckets] = InPeriod(p, n, q - k)
  BY DEF RingAt, IsEstimator
<1>3. r = [e EXCEPT !.running_total = @ + 1, !.buckets[e.end_pos] = @ + 1]
  BY DEF Counted
<1> HIDE DEF r
<1>4. /\ r.end_pos = e.end_pos /\ r.last_bucket = q
      /\ r.running_total = InWindow(p, n, q) + 1
      /\ r.buckets = [e.buckets EXCEPT ![e.end_pos] = @ + 1]
      /\ r = [buckets |-> r.buckets, end_pos |-> r.end_pos,
              running_total |-> r.running_total, last_bucket |-> r.last_bucket]
  BY <1>2, <1>3
<1>5. e.end_pos \in D /\ e.buckets \in [D -> Int]
  BY <1>2
<1>6. /\ r.buckets \in [D -> Int]
      /\ \A j \in D : r.buckets[j] = e.buckets[j] + (IF j = e.end_pos THEN 1 ELSE 0)
  <2> DEFINE f == e.buckets
             x == e.end_pos
  <2>1. f \in [D -> Int]
    BY <1>5
  <2>2. r.buckets = [f EXCEPT ![x] = @ + 1]
    BY <1>4
  <2> HIDE DEF f, x, D
  <2>3. /\ [f EXCEPT ![x] = @ + 1] \in [D -> Int]
        /\ \A d \in D : [f EXCEPT ![x] = @ + 1][d] = f[d] + (IF d = x THEN 1 ELSE 0)
    BY <2>1, SlotCounted
  <2> QED
    BY <2>2, <2>3 DEF f, x
<1>7. r.buckets \in [D -> Int]
  BY <1>6
<1>8. InWindow(p2, m, q) = InWindow(p, n, q) + 1
  <2>1. InWindow(p2, m, q) = InWindow(p, n, q) + (IF InSpan(q, q) THEN 1 ELSE 0)
    BY <1>1, CountsExtended
  <2>2. InSpan(q, q)
    BY <1>1 DEF InSpan
  <2> QED
    BY <2>1, <2>2
<1>9. IsEstimator(r)
  <2>1. InWindow(p, n, q) + 1 \in Int
    BY <1>1, CountsTyped
  <2> QED
    BY <1>1, <1>4, <1>5, <1>7, <2>1 DEF IsEstimator
<1>10. ASSUME NEW k \in D
       PROVE  r.buckets[(r.end_pos - k) % Buckets] = InPeriod(p2, m, q - k)
  <2> DEFINE slot == (e.end_pos - k) % Buckets
             x == q - k
  <2>1. slot = IF k <= e.end_pos THEN e.end_pos - k ELSE e.end_pos - k + Buckets
    BY <1>5, SlotBehind
  <2>2. slot \in D /\ (slot = e.end_pos <=> k = 0) /\ (x = q <=> k = 0)
    <3> HIDE DEF slot
    <3> QED
      BY <1>1, <1>5, <2>1
  <2>3. e.buckets[slot] = InPeriod(p, n, x)
    BY <1>2
  <2> HIDE DEF slot, x
  <2>4. InPeriod(p2, m, x) = InPeriod(p, n, x) + (IF x = q THEN 1 ELSE 0)
    BY <1>1, CountsExtended
  <2>5. r.buckets[slot] = InPeriod(p2, m, x)
    BY <1>6, <2>2, <2>3, <2>4
  <2> QED
    BY <1>4, <2>5 DEF slot, x
<1>11. RingAt(r, p2, m, q)
  BY <1>4, <1>8, <1>9, <1>10 DEF RingAt
<1> QED
  BY <1>11 DEF r

\* Once the window is empty it stays empty, until there is an event.
LEMMA StaysEmpty ==
  ASSUME NEW p, NEW n, NEW q, UpTo(p, n, q), InWindow(p, n, q) = 0,
         NEW q2 \in Int, q <= q2
  PROVE  /\ InWindow(p, n, q2) = 0
         /\ \A k \in 0..(Buckets - 1) : InPeriod(p, n, q2 - k) = 0
<1>1. Buckets \in Nat \ {0} /\ n \in Nat /\ q \in Int
      /\ \A i \in 1..n : p[i] \in Int /\ p[i] <= q
  BY FeedStatisticsAssumption DEF UpTo
<1>2. \A i \in 1..n : p[i] <= q - Buckets
  <2> DEFINE T == {i \in 1..n : q - Buckets < p[i] /\ p[i] <= q}
  <2>1. T \in SUBSET (1..n) /\ InWindow(p, n, q) = Cardinality(T)
    BY DEF InWindow
  <2> HIDE DEF T
  <2>2. T = {}
    BY <1>1, <2>1, PartFinite, FS_EmptySet
  <2> QED
    BY <1>1, <2>2 DEF T
<1>3. InWindow(p, n, q2) = 0
  <2>1. {i \in 1..n : q2 - Buckets < p[i] /\ p[i] <= q2} = {}
    BY <1>1, <1>2
  <2> QED
    BY <2>1, FS_EmptySet DEF InWindow
<1>4. ASSUME NEW k \in 0..(Buckets - 1) PROVE InPeriod(p, n, q2 - k) = 0
  <2>1. {i \in 1..n : p[i] = q2 - k} = {}
    BY <1>1, <1>2
  <2> QED
    BY <2>1, FS_EmptySet DEF InPeriod
<1> QED
  BY <1>3, <1>4

LEMMA JumpKeeps ==
  ASSUME NEW e, NEW p, NEW n, NEW q, UpTo(p, n, q), RingAt(e, p, n, q),
         InWindow(p, n, q) = 0, NEW q2 \in Int, q <= q2
  PROVE  RingAt([e EXCEPT !.end_pos = 0, !.last_bucket = q2], p, n, q2)
<1> DEFINE r == [e EXCEPT !.end_pos = 0, !.last_bucket = q2]
           D == 0..(Buckets - 1)
<1>1. Buckets \in Nat \ {0} /\ n \in Nat /\ q \in Int /\ 0 \in D /\ q <= q
  BY FeedStatisticsAssumption DEF UpTo
<1>2. /\ e \in [buckets : [D -> Int], end_pos : D,
                running_total : Int, last_bucket : Int]
      /\ e.running_total = InWindow(p, n, q)
      /\ \A k \in D : e.buckets[(e.end_pos - k) % Buckets] = InPeriod(p, n, q - k)
  BY DEF RingAt, IsEstimator
<1>3. /\ r.end_pos = 0 /\ r.last_bucket = q2 /\ r.running_total = 0
      /\ r.buckets = e.buckets /\ IsEstimator(r)
  BY <1>1, <1>2 DEF IsEstimator
<1> HIDE DEF r
<1>4. \A k \in D : InPeriod(p, n, q - k) = 0
  BY <1>1, StaysEmpty
<1>5. /\ InWindow(p, n, q2) = 0
      /\ \A k \in D : InPeriod(p, n, q2 - k) = 0
  BY <1>1, StaysEmpty
<1>6. e.end_pos \in D
  BY <1>2
<1>7. ASSUME NEW j \in D PROVE e.buckets[j] = 0
  <2> DEFINE at == e.end_pos
             k == IF j <= at THEN at - j ELSE at - j + Buckets
  <2>1. k \in D
    BY <1>1, <1>6
  <2>2. (at - k) % Buckets = IF k <= at THEN at - k ELSE at - k + Buckets
    BY <1>6, <2>1, SlotBehind
  <2>3. (IF k <= at THEN at - k ELSE at - k + Buckets) = j
    BY <1>1, <1>6
  <2> HIDE DEF k
  <2>4. e.buckets[(at - k) % Buckets] = 0
    BY <1>2, <1>4, <2>1
  <2> QED
    BY <2>2, <2>3, <2>4
<1>8. ASSUME NEW k \in D
      PROVE  r.buckets[(r.end_pos - k) % Buckets] = InPeriod(p, n, q2 - k)
  <2> DEFINE slot == (0 - k) % Buckets
  <2>1. slot = IF k <= 0 THEN 0 - k ELSE 0 - k + Buckets
    BY <1>1, SlotBehind
  <2>2. slot \in D
    <3> HIDE DEF slot
    <3> QED
      BY <1>1, <2>1
  <2> HIDE DEF slot
  <2>3. r.buckets[slot] = 0
    BY <1>3, <1>7, <2>2
  <2> QED
    BY <1>3, <1>5, <2>3 DEF slot
<1>9. RingAt(r, p, n, q2)
  BY <1>3, <1>5, <1>8 DEF RingAt
<1> QED
  BY <1>9 DEF r
-----------------------------------------------------------------------------
(* The loop of sample(): a recursion on the periods that are over.         *)
IsRotated(g, e, periods) ==
    g = [k \in 0..periods |-> IF k = 0 THEN e ELSE Rotate(g[k - 1])]

LEMMA RotatedExists ==
  ASSUME NEW periods \in Nat, NEW e
  PROVE  \E g : IsRotated(g, e, periods)
<1> DEFINE Bad == {m \in 0..periods : ~ \E g : IsRotated(g, e, m)}
<1> SUFFICES ASSUME Bad # {} PROVE FALSE
  OBVIOUS
<1>1. PICK m \in Bad : \A k \in Bad : m <= k
  <2>1. Bad \in SUBSET (0..periods)
    OBVIOUS
  <2> HIDE DEF Bad
  <2> QED
    BY <2>1, SmallestNumber
<1>2. m \in 0..periods /\ ~ \E g : IsRotated(g, e, m)
  OBVIOUS
<1>3. CASE m = 0
  <2> DEFINE h == [k \in 0..0 |-> e]
  <2>1. IsRotated(h, e, 0)
    <3>1. \A k \in 0..0 : e = IF k = 0 THEN e ELSE Rotate(h[k - 1])
      OBVIOUS
    <3> QED
      BY <3>1 DEF IsRotated
  <2> QED
    BY <1>2, <1>3, <2>1
<1>4. CASE m # 0
  <2>1. m - 1 \in 0..periods /\ m - 1 \notin Bad
    BY <1>1, <1>2, <1>4
  <2>2. PICK g : IsRotated(g, e, m - 1)
    BY <2>1
  <2> DEFINE h == [k \in 0..m |-> IF k = 0 THEN e ELSE Rotate(g[k - 1])]
  <2>3. ASSUME NEW k \in 0..m, k # 0 PROVE h[k - 1] = g[k - 1]
    <3>1. k - 1 \in 0..(m - 1) /\ k - 1 \in 0..m
      BY <1>2, <2>3
    <3>2. /\ g[k - 1] = IF k - 1 = 0 THEN e ELSE Rotate(g[k - 1 - 1])
          /\ h[k - 1] = IF k - 1 = 0 THEN e ELSE Rotate(g[k - 1 - 1])
      BY <2>2, <3>1 DEF IsRotated
    <3> QED
      BY <3>2
  <2>4. IsRotated(h, e, m)
    <3>1. \A k \in 0..m : (IF k = 0 THEN e ELSE Rotate(g[k - 1]))
                             = (IF k = 0 THEN e ELSE Rotate(h[k - 1]))
      BY <2>3
    <3> QED
      BY <3>1 DEF IsRotated
  <2> QED
    BY <1>2, <2>4
<1> QED
  BY <1>3, <1>4

LEMMA RotatedRings ==
  ASSUME NEW periods \in Nat, NEW e, NEW g, IsRotated(g, e, periods),
         NEW p, NEW n, NEW q, UpTo(p, n, q), RingAt(e, p, n, q)
  PROVE  \A k \in 0..periods : UpTo(p, n, q + k) /\ RingAt(g[k], p, n, q + k)
<1>1. n \in Nat /\ q \in Int /\ \A i \in 1..n : p[i] \in Int /\ p[i] <= q
  BY DEF UpTo
<1>2. ASSUME NEW k \in Nat PROVE UpTo(p, n, q + k)
  BY <1>1 DEF UpTo
<1> DEFINE Bad == {k \in 0..periods : ~ RingAt(g[k], p, n, q + k)}
<1>3. ASSUME Bad # {} PROVE FALSE
  <2>1. PICK k \in Bad : \A j \in Bad : k <= j
    <3>1. Bad \in SUBSET (0..periods)
      OBVIOUS
    <3> HIDE DEF Bad
    <3> QED
      BY <1>3, <3>1, SmallestNumber
  <2>2. k \in 0..periods /\ ~ RingAt(g[k], p, n, q + k)
    OBVIOUS
  <2>3. g[k] = IF k = 0 THEN e ELSE Rotate(g[k - 1])
    BY <2>2 DEF IsRotated
  <2>4. CASE k = 0
    BY <1>1, <2>2, <2>3, <2>4
  <2>5. CASE k # 0
    <3> DEFINE j == k - 1
               x == q + j
    <3>1. j \in 0..periods /\ j \notin Bad /\ x + 1 = q + k
      BY <1>1, <2>1, <2>2, <2>5
    <3>2. RingAt(g[j], p, n, x) /\ UpTo(p, n, x)
      BY <1>2, <3>1
    <3> HIDE DEF j, x
    <3>3. RingAt(Rotate(g[j]), p, n, x + 1)
      BY <3>2, RotateKeeps
    <3> QED
      BY <2>2, <2>3, <2>5, <3>1, <3>3 DEF j
  <2> QED
    BY <2>4, <2>5
<1> QED
  BY <1>2, <1>3

-----------------------------------------------------------------------------
(* sample(): the ring at the period of the event, and an estimate for each *)
(* of the d periods from q on.  The estimates of the first c are issued    *)
(* one by one and the others, all zero, with a weight.                     *)
IssuedFor(us, p, n, q, d) ==
    \E c \in 0..d :
        /\ DOMAIN us = 1..(IF c < d THEN c + 1 ELSE c)
        /\ \A k \in 1..c : us[k].rate = InWindow(p, n, q + k - 1) /\ us[k].repeats = 1
        /\ c < d => us[c + 1].rate = 0 /\ us[c + 1].repeats = d - c
        /\ \A k \in (c + 1)..d : InWindow(p, n, q + k - 1) = 0

RotatedOf(e, periods) == CHOOSE g : IsRotated(g, e, periods)

\* The updates of a call of sample() that issues c estimates one by one.
UpdatesOf(g, c, periods) ==
    [k \in 1..c |-> [rate |-> g[k - 1].running_total, repeats |-> 1]]
        \o (IF c < periods THEN <<[rate |-> 0, repeats |-> periods - c]>> ELSE << >>)

LEMMA SampledIs ==
  ASSUME NEW e, NEW bucket, NEW periods, periods = Max({0, bucket - e.last_bucket}),
         NEW g, g = RotatedOf(e, periods), NEW c, c = Rotations(g, periods),
         e.end_pos # RingSize(e)
  PROVE  /\ Sampled(e, bucket).estimator = Counted(Jumped(g[c], bucket))
         /\ Sampled(e, bucket).updates = UpdatesOf(g, c, periods)
<1> DEFINE P == Max({0, bucket - e.last_bucket})
           G == RotatedOf(e, P)
           C == Rotations(G, P)
<1>1. Sampled(e, bucket) = [estimator |-> Counted(Jumped(G[C], bucket)),
                            updates |-> UpdatesOf(G, C, P)]
  BY DEF Sampled, RotatedOf, IsRotated, UpdatesOf
<1> HIDE DEF P
<1>2. periods = P
  BY DEF P
<1>3. g = G
  BY <1>2
<1>4. c = C
  BY <1>2, <1>3
<1> HIDE DEF G, C
<1> QED
  BY <1>1, <1>2, <1>3, <1>4

LEMMA UpdatesAre ==
  ASSUME NEW periods \in Nat, NEW c \in 0..periods, NEW g,
         NEW us, us = UpdatesOf(g, c, periods)
  PROVE  /\ DOMAIN us = 1..(IF c < periods THEN c + 1 ELSE c)
         /\ \A k \in 1..c : /\ us[k].rate = g[k - 1].running_total
                            /\ us[k].repeats = 1
         /\ c < periods => us[c + 1].rate = 0 /\ us[c + 1].repeats = periods - c
<1> DEFINE U == {g[k - 1].running_total : k \in 1..c} \cup {0}
           R == [rate : U, repeats : Nat]
           one == [k \in 1..c |-> [rate |-> g[k - 1].running_total, repeats |-> 1]]
           last == [rate |-> 0, repeats |-> periods - c]
<1>1. one \in [1..c -> R]
  OBVIOUS
<1>2. \A k \in 1..c : one[k].rate = g[k - 1].running_total /\ one[k].repeats = 1
  OBVIOUS
<1>3. last \in R /\ last.rate = 0 /\ last.repeats = periods - c
  OBVIOUS
<1>4. us = one \o (IF c < periods THEN <<last>> ELSE << >>)
  BY DEF UpdatesOf
<1> HIDE DEF one, last, R
<1>5. one \in Seq(R) /\ Len(one) = c
  BY <1>1, SequenceOf
<1>6. CASE c < periods
  <2>1. us = one \o <<last>>
    BY <1>4, <1>6
  <2>2. us = Append(one, last)
    BY <1>3, <1>5, <2>1
  <2>3. c \in Nat /\ last \in R
    BY <1>3
  <2>4. us \in Seq(R) /\ Len(us) = c + 1
    BY <1>5, <2>2, <2>3
  <2>5. us[c + 1] = last /\ \A k \in 1..c : us[k] = one[k]
    BY <1>5, <2>2, <2>3
  <2> QED
    BY <1>2, <1>3, <1>6, <2>4, <2>5
<1>7. CASE ~ c < periods
  <2>1. us = one
    BY <1>4, <1>5, <1>7
  <2> QED
    BY <1>2, <1>5, <1>7, <2>1
<1> QED
  BY <1>6, <1>7

LEMMA RotationsAre ==
  ASSUME NEW periods \in Nat, NEW g
  PROVE  /\ Rotations(g, periods) \in 0..periods
         /\ Rotations(g, periods) < periods =>
               ~ g[Rotations(g, periods)].running_total > 0
<1> DEFINE S == {n \in 0..periods : \A m \in 0..(n - 1) : g[m].running_total > 0}
           c == Max(S)
<1>1. Rotations(g, periods) = c
  BY DEF Rotations
<1>2. S \in SUBSET (0..periods) /\ 0 \in S
  OBVIOUS
<1>3. c \in S /\ \A x \in S : c >= x
  <2> HIDE DEF S
  <2> QED
    BY <1>2, MaxMin
<1>4. c \in 0..periods /\ \A m \in 0..(c - 1) : g[m].running_total > 0
  <2> HIDE DEF c
  <2> QED
    BY <1>3
<1>5. ASSUME c < periods PROVE ~ g[c].running_total > 0
  <2> HIDE DEF c
  <2> SUFFICES ASSUME g[c].running_total > 0 PROVE FALSE
    OBVIOUS
  <2> DEFINE d == c + 1
  <2>1. d \in 0..periods /\ \A m \in 0..(d - 1) : m \in 0..(c - 1) \/ m = c
    BY <1>4, <1>5
  <2>2. d \in S
    BY <1>4, <2>1
  <2> QED
    BY <1>3, <1>4, <2>2
<1> QED
  BY <1>1, <1>4, <1>5

LEMMA RingSizeIs == ASSUME NEW e, IsEstimator(e) PROVE RingSize(e) = Buckets
<1>1. Buckets \in Nat \ {0}
  BY FeedStatisticsAssumption
<1>2. DOMAIN e.buckets = 0..(Buckets - 1)
  BY DEF IsEstimator
<1>3. Cardinality(0..(Buckets - 1)) = Buckets
  BY <1>1, FS_Interval
<1> QED
  BY <1>2, <1>3 DEF RingSize

\* The period in which an event is counted.
Later(q, bucket) == IF bucket <= q THEN q ELSE bucket

LEMMA SampledKeeps ==
  ASSUME NEW e, NEW p, NEW p2, NEW n, NEW m, m = n + 1, NEW q, UpTo(p, n, q),
         RingAt(e, p, n, q), NEW bucket \in Int, NEW q2, q2 = Later(q, bucket),
         OneMore(p2, p, n, q2)
  PROVE  /\ RingAt(Sampled(e, bucket).estimator, p2, m, q2)
         /\ IssuedFor(Sampled(e, bucket).updates, p, n, q, q2 - q)
<1> DEFINE d == q2 - q
           g == RotatedOf(e, d)
           c == Rotations(g, d)
           us == UpdatesOf(g, c, d)
           at == q + c
<1>1. /\ n \in Nat /\ q \in Int /\ q2 \in Int /\ q <= q2 /\ d \in Nat /\ q + d = q2
      /\ IsEstimator(e) /\ e.last_bucket = q
  BY DEF UpTo, RingAt, Later
<1>2. d = Max({0, bucket - e.last_bucket})
  <2> DEFINE z == 0
             y == bucket - q
  <2>1. z \in Int /\ y \in Int /\ y = bucket - e.last_bucket
    BY <1>1
  <2>2. d = IF z <= y THEN y ELSE z
    BY <1>1 DEF Later
  <2> HIDE DEF y, z, d
  <2>3. Max({z, y}) = IF z <= y THEN y ELSE z
    BY <2>1, MinOfTwo
  <2> QED
    BY <2>1, <2>2, <2>3 DEF z
<1>3. e.end_pos # RingSize(e)
  <2>1. RingSize(e) = Buckets /\ e.end_pos \in 0..(Buckets - 1)
    BY <1>1, RingSizeIs DEF IsEstimator
  <2>2. Buckets \notin 0..(Buckets - 1)
    BY FeedStatisticsAssumption
  <2> QED
    BY <2>1, <2>2
<1> HIDE DEF d
<1>4. IsRotated(g, e, d)
  BY <1>1, RotatedExists DEF RotatedOf
<1> HIDE DEF g
<1>5. \A k \in 0..d : UpTo(p, n, q + k) /\ RingAt(g[k], p, n, q + k)
  BY <1>1, <1>4, RotatedRings
<1>6. c \in 0..d /\ (c < d => ~ g[c].running_total > 0)
  BY <1>1, RotationsAre
<1>7. /\ Sampled(e, bucket).estimator = Counted(Jumped(g[c], bucket))
      /\ Sampled(e, bucket).updates = us
  BY <1>2, <1>3, SampledIs DEF g
<1> HIDE DEF c
<1>8. UpTo(p, n, at) /\ RingAt(g[c], p, n, at) /\ at \in Int /\ at <= q2
  BY <1>1, <1>5, <1>6
<1> HIDE DEF at
<1>9. g[c].last_bucket = at /\ g[c].running_total = InWindow(p, n, at)
  BY <1>8 DEF RingAt
<1>10. c < d => InWindow(p, n, at) = 0
  <2>1. InWindow(p, n, at) \in Nat
    BY <1>1, CountsTyped
  <2> QED
    BY <1>6, <1>9, <2>1
<1>11. RingAt(Jumped(g[c], bucket), p, n, q2) /\ UpTo(p, n, q2)
  <2>1. UpTo(p, n, q2)
    BY <1>1 DEF UpTo
  <2>2. CASE at < bucket
    <3>1. c < d /\ q2 = bucket
      BY <1>1, <1>6, <2>2 DEF at, Later
    <3>2. RingAt([g[c] EXCEPT !.end_pos = 0, !.last_bucket = q2], p, n, q2)
      BY <1>1, <1>8, <1>10, <3>1, JumpKeeps
    <3> QED
      BY <1>9, <2>1, <2>2, <3>1, <3>2 DEF Jumped
  <2>3. CASE ~ at < bucket
    <3>1. at = q2
      BY <1>1, <1>6, <2>3 DEF at, Later
    <3> QED
      BY <1>8, <1>9, <2>1, <2>3, <3>1 DEF Jumped
  <2> QED
    BY <2>2, <2>3
<1>12. RingAt(Counted(Jumped(g[c], bucket)), p2, m, q2)
  <2> DEFINE j == Jumped(g[c], bucket)
  <2>1. RingAt(j, p, n, q2) /\ UpTo(p, n, q2)
    BY <1>11
  <2> HIDE DEF j
  <2>2. RingAt(Counted(j), p2, m, q2)
    BY <2>1, CountedKeeps
  <2> QED
    BY <2>2 DEF j
<1>13. IssuedFor(us, p, n, q, d)
  <2>1. /\ DOMAIN us = 1..(IF c < d THEN c + 1 ELSE c)
        /\ \A k \in 1..c : us[k].rate = g[k - 1].running_total /\ us[k].repeats = 1
        /\ c < d => us[c + 1].rate = 0 /\ us[c + 1].repeats = d - c
    BY <1>1, <1>6, UpdatesAre
  <2>2. ASSUME NEW k \in 1..c PROVE us[k].rate = InWindow(p, n, q + k - 1)
    <3> DEFINE j == k - 1
    <3>1. j \in 0..d /\ q + j = q + k - 1
      BY <1>1, <1>6
    <3>2. us[k].rate = g[j].running_total
      BY <2>1
    <3> HIDE DEF j, us
    <3>3. RingAt(g[j], p, n, q + j)
      BY <1>5, <3>1
    <3>4. g[j].running_total = InWindow(p, n, q + j)
      BY <3>3 DEF RingAt
    <3> QED
      BY <3>1, <3>2, <3>4
  <2>3. ASSUME NEW k \in (c + 1)..d PROVE InWindow(p, n, q + k - 1) = 0
    <3> DEFINE x == q + k - 1
    <3>1. x \in Int /\ at <= x /\ c < d
      BY <1>1, <1>6 DEF at
    <3> HIDE DEF x
    <3>2. InWindow(p, n, x) = 0
      BY <1>8, <1>10, <3>1, StaysEmpty
    <3> QED
      BY <3>2 DEF x
  <2> HIDE DEF us
  <2> QED
    BY <1>6, <2>1, <2>2, <2>3 DEF IssuedFor
<1> HIDE DEF us
<1> QED
  BY <1>7, <1>12, <1>13 DEF d

LEMMA FirstSampled ==
  ASSUME NEW p2, NEW q \in Int, p2[1] = q
  PROVE  /\ RingAt(Sampled(Estimator(Buckets), q).estimator, p2, 1, q)
         /\ Sampled(Estimator(Buckets), q).updates = << >>
<1> DEFINE e == Estimator(Buckets)
           r == [e EXCEPT !.end_pos = 0, !.last_bucket = q]
           D == 0..(Buckets - 1)
           zero == [i \in D |-> 0]
<1>1. Buckets \in Nat \ {0} /\ 0 \in D
  BY FeedStatisticsAssumption
<1>2. e = [buckets |-> zero, end_pos |-> Buckets, running_total |-> 0, last_bucket |-> 0]
  BY DEF Estimator
<1>3. zero \in [D -> Int] /\ DOMAIN zero = D /\ \A i \in D : zero[i] = 0
  OBVIOUS
<1>4. e.end_pos = RingSize(e)
  <2>1. Cardinality(D) = Buckets
    BY <1>1, FS_Interval
  <2> HIDE DEF zero, D
  <2> QED
    BY <1>2, <1>3, <2>1 DEF RingSize
<1>5. Sampled(e, q) = [estimator |-> Counted(r), updates |-> << >>]
  BY <1>4 DEF Sampled
<1> HIDE DEF e, zero
<1>6. /\ r.buckets = zero /\ r.end_pos = 0
      /\ r.running_total = 0 /\ r.last_bucket = q
      /\ r = [buckets |-> r.buckets, end_pos |-> r.end_pos,
              running_total |-> r.running_total, last_bucket |-> r.last_bucket]
  <2>1. /\ e \in [buckets : [D -> Int], end_pos : Int, running_total : Int,
                  last_bucket : Int]
        /\ e.buckets = zero /\ e.running_total = 0
    BY <1>1, <1>2, <1>3
  <2>2. r = [e EXCEPT !.end_pos = 0, !.last_bucket = q]
    OBVIOUS
  <2> HIDE DEF r, D
  <2>3. /\ r.buckets = e.buckets /\ r.end_pos = 0
        /\ r.running_total = e.running_total /\ r.last_bucket = q
        /\ r = [buckets |-> r.buckets, end_pos |-> r.end_pos,
                running_total |-> r.running_total, last_bucket |-> r.last_bucket]
    BY <2>1, <2>2
  <2> QED
    BY <2>1, <2>3
<1> HIDE DEF r
<1>7. IsEstimator(r)
  BY <1>1, <1>3, <1>6 DEF IsEstimator
<1>8. ASSUME NEW x PROVE InPeriod(p2, 0, x) = 0 /\ InWindow(p2, 0, x) = 0
  <2>1. 1..0 = {}
    OBVIOUS
  <2>2. /\ {i \in 1..0 : p2[i] = x} = {}
        /\ {i \in 1..0 : x - Buckets < p2[i] /\ p2[i] <= x} = {}
    BY <2>1
  <2> QED
    BY <2>2, FS_EmptySet DEF InPeriod, InWindow
<1>9. UpTo(p2, 0, q)
  BY DEF UpTo
<1>10. RingAt(r, p2, 0, q)
  <2>1. \A k \in D : r.buckets[(r.end_pos - k) % Buckets] = InPeriod(p2, 0, q - k)
    <3> SUFFICES ASSUME NEW k \in D
                 PROVE  r.buckets[(r.end_pos - k) % Buckets] = InPeriod(p2, 0, q - k)
      OBVIOUS
    <3> DEFINE j == (0 - k) % Buckets
    <3>1. j \in D
      BY <1>1
    <3> HIDE DEF j
    <3>2. r.buckets[j] = 0
      BY <1>3, <1>6, <3>1
    <3> QED
      BY <1>6, <1>8, <3>2 DEF j
  <2> QED
    BY <1>6, <1>7, <1>8, <2>1 DEF RingAt
<1>11. OneMore(p2, p2, 0, q)
  BY DEF OneMore
<1> DEFINE z == 0
<1>12. RingAt(r, p2, z, q) /\ UpTo(p2, z, q) /\ OneMore(p2, p2, z, q) /\ 1 = z + 1
  BY <1>9, <1>10, <1>11
<1> HIDE DEF z
<1>13. RingAt(Counted(r), p2, 1, q)
  BY <1>12, CountedKeeps
<1> QED
  BY <1>5, <1>13 DEF e

-----------------------------------------------------------------------------
(* The fold of the updates into the histogram is a chain: f[k] is the      *)
(* histogram after k of them.                                              *)
Update(h, u) == weighted_sample(h, RateCuts, u.rate, u.repeats)

IsUpdateFold(g, h, us, D) ==
    g = [s \in SUBSET D |->
            IF s = {} THEN h ELSE Update(g[s \ {Max(s)}], us[Max(s)])]

LEMMA HistoIsFold ==
  ASSUME NEW r, NEW bucket, NEW us, us = Sampled(r.rate_, bucket).updates
  PROVE  RateSampled(r, bucket).histo =
            (CHOOSE g : IsUpdateFold(g, r.histo, us, DOMAIN us))[DOMAIN us]
<1> DEFINE U == Sampled(r.rate_, bucket).updates
<1>1. RateSampled(r, bucket).histo =
         (CHOOSE g : IsUpdateFold(g, r.histo, U, DOMAIN U))[DOMAIN U]
  BY DEF RateSampled, FoldLeft, MapThenFoldSet, IsUpdateFold, Update
<1>2. us = U
  OBVIOUS
<1> HIDE DEF U
<1> QED
  BY <1>1, <1>2

LEMMA UpdateFoldExists ==
  ASSUME NEW h, NEW us, NEW n \in Nat
  PROVE  \E g : IsUpdateFold(g, h, us, 1..n)
<1> DEFINE Bad == {m \in 0..n : ~ \E g : IsUpdateFold(g, h, us, 1..m)}
<1> SUFFICES ASSUME Bad # {} PROVE FALSE
  BY n \in 0..n
<1>1. PICK m \in Bad : \A k \in Bad : m <= k
  <2>1. Bad \in SUBSET (0..n)
    OBVIOUS
  <2> HIDE DEF Bad
  <2> QED
    BY <2>1, SmallestNumber
<1>2. m \in 0..n /\ ~ \E g : IsUpdateFold(g, h, us, 1..m)
  OBVIOUS
<1>3. CASE m = 0
  <2> DEFINE g == [s \in SUBSET (1..m) |-> h]
  <2>1. \A s \in SUBSET (1..m) : s = {}
    BY <1>3
  <2>2. \A s \in SUBSET (1..m) :
           h = IF s = {} THEN h ELSE Update(g[s \ {Max(s)}], us[Max(s)])
    BY <2>1
  <2>3. IsUpdateFold(g, h, us, 1..m)
    BY <2>2 DEF IsUpdateFold
  <2> QED
    BY <1>2, <2>3
<1>4. CASE m # 0
  <2> DEFINE k == m - 1
             D == 1..m
             C == 1..k
  <2>1. k \in 0..n /\ k \notin Bad
    BY <1>1, <1>2, <1>4
  <2>2. PICK g : IsUpdateFold(g, h, us, C)
    BY <2>1
  <2>3. /\ m \in D /\ m \notin C /\ m \in Nat
        /\ \A x : x \in D <=> x \in C \/ x = m
        /\ D \in SUBSET (0..m) /\ \A x \in D : x <= m
    BY <1>2, <1>4
  <2> HIDE DEF C, D
  <2> DEFINE G(s) == IF m \in s THEN Update(g[s \ {m}], us[m]) ELSE g[s]
             f == [s \in SUBSET D |-> G(s)]
  <2>4. ASSUME NEW s \in SUBSET D, s # {}
        PROVE  Max(s) \in s /\ \A x \in s : x <= Max(s)
    <3>1. s \in SUBSET (0..m) /\ m \in Nat
      BY <2>3
    <3>2. Max(s) \in s /\ \A x \in s : Max(s) >= x
      BY <3>1, <2>4, MaxMin
    <3>3. \A x \in s : x \in Nat
      BY <3>1
    <3> QED
      BY <3>2, <3>3
  <2>5. ASSUME NEW s \in SUBSET D
        PROVE  G(s) = IF s = {} THEN h ELSE Update(f[s \ {Max(s)}], us[Max(s)])
    <3> DEFINE t == s \ {Max(s)}
    <3>1. CASE s = {}
      <4>1. g[{}] = h /\ m \notin s
        BY <2>2, <3>1 DEF IsUpdateFold
      <4> QED
        BY <3>1, <4>1
    <3>2. CASE m \in s
      <4>1. Max(s) \in s /\ m <= Max(s)
        BY <2>4, <3>2
      <4>2. Max(s) = m
        <5>1. Max(s) \in 0..m /\ Max(s) <= m
          BY <2>3, <4>1
        <5> QED
          BY <2>3, <4>1, <5>1
      <4>3. t \in SUBSET D /\ m \notin t
        BY <4>2
      <4>4. f[t] = g[t]
        BY <4>3
      <4> QED
        BY <3>2, <4>2, <4>4
    <3>3. CASE m \notin s /\ s # {}
      <4>1. s \in SUBSET C /\ t \in SUBSET D /\ m \notin t
        BY <2>3, <3>3
      <4>2. g[s] = Update(g[t], us[Max(s)])
        BY <2>2, <3>3, <4>1 DEF IsUpdateFold
      <4>3. f[t] = g[t]
        BY <4>1
      <4> QED
        BY <3>3, <4>2, <4>3
    <3> QED
      BY <3>1, <3>2, <3>3
  <2>6. f = [s \in SUBSET D |->
                IF s = {} THEN h ELSE Update(f[s \ {Max(s)}], us[Max(s)])]
    BY <2>5
  <2>7. IsUpdateFold(f, h, us, D)
    <3> HIDE DEF f
    <3> QED
      BY <2>6 DEF IsUpdateFold
  <2> QED
    BY <1>2, <2>7 DEF D
<1> QED
  BY <1>3, <1>4

Chain(f, h, us, n) == f[0] = h /\ \A k \in 1..n : f[k] = Update(f[k - 1], us[k])

LEMMA HistoSteps ==
  ASSUME NEW r, NEW bucket, NEW us, us = Sampled(r.rate_, bucket).updates,
         NEW n \in Nat, DOMAIN us = 1..n
  PROVE  \E f : Chain(f, r.histo, us, n) /\ RateSampled(r, bucket).histo = f[n]
<1> DEFINE g == CHOOSE x : IsUpdateFold(x, r.histo, us, 1..n)
           f == [k \in 0..n |-> g[1..k]]
<1>1. IsUpdateFold(g, r.histo, us, 1..n)
  BY UpdateFoldExists
<1>2. RateSampled(r, bucket).histo = g[1..n]
  BY HistoIsFold
<1> HIDE DEF g
<1>3. f[0] = r.histo
  <2>1. 1..0 = {}
    OBVIOUS
  <2> QED
    BY <1>1, <2>1 DEF IsUpdateFold
<1>4. ASSUME NEW k \in 1..n PROVE f[k] = Update(f[k - 1], us[k])
  <2> DEFINE s == 1..k
             j == k - 1
  <2>1. /\ k \in Nat /\ k \in s /\ s # {} /\ j \in 0..n
        /\ s \in SUBSET (1..n) /\ s \in SUBSET (0..k)
        /\ s \ {k} = 1..j /\ \A x \in s : x \in Nat /\ x <= k
    <3>1. k \in Nat /\ k \in s /\ j \in 0..n /\ \A x \in s : x \in Nat /\ x <= k
      OBVIOUS
    <3>2. \A x \in s : x \in 1..n /\ x \in 0..k
      OBVIOUS
    <3>3. \A x : x \in s /\ x # k <=> x \in 1..j
      OBVIOUS
    <3> HIDE DEF s
    <3> QED
      BY <3>1, <3>2, <3>3
  <2>2. f[k] = g[s] /\ f[j] = g[1..j]
    BY <2>1
  <2> HIDE DEF s, j, f
  <2>3. Max(s) \in s /\ \A x \in s : Max(s) >= x
    BY <2>1, MaxMin
  <2>4. Max(s) = k
    BY <2>1, <2>3
  <2>5. g[s] = Update(g[s \ {k}], us[k])
    BY <1>1, <2>1, <2>4 DEF IsUpdateFold
  <2> QED
    BY <2>1, <2>2, <2>5 DEF j
<1>5. RateSampled(r, bucket).histo = f[n]
  BY <1>2
<1> HIDE DEF f
<1>6. Chain(f, r.histo, us, n)
  BY <1>3, <1>4 DEF Chain
<1> QED
  BY <1>5, <1>6

\* So the histogram is the tally of the estimates before and those issued.
Prefix(v, k) == [i \in 1..k |-> v[i]]

\* values2 goes on after values with the estimates for d periods from q on.
GoesOn(values2, values, p, n, q, d) ==
    /\ values2 \in Seq(SampleValues) /\ Len(values2) = Len(values) + d
    /\ \A k \in 1..Len(values) : values2[k] = values[k]
    /\ \A k \in 1..d : values2[Len(values) + k] = InWindow(p, n, q + k - 1)

LEMMA TallyOfUpdates ==
  ASSUME NEW r, NEW bucket, NEW us, us = Sampled(r.rate_, bucket).updates,
         NEW p, NEW n, NEW q \in Int, NEW d \in Nat, IssuedFor(us, p, n, q, d),
         NEW values, Tally(r.histo, MaxRate, values),
         NEW values2, GoesOn(values2, values, p, n, q, d)
  PROVE  Tally(RateSampled(r, bucket).histo, MaxRate, values2)
<1> DEFINE len == Len(values)
           V(k) == Prefix(values2, len + k)
<1>1. PICK c \in 0..d :
         /\ DOMAIN us = 1..(IF c < d THEN c + 1 ELSE c)
         /\ \A k \in 1..c : us[k].rate = InWindow(p, n, q + k - 1) /\ us[k].repeats = 1
         /\ c < d => us[c + 1].rate = 0 /\ us[c + 1].repeats = d - c
         /\ \A k \in (c + 1)..d : InWindow(p, n, q + k - 1) = 0
  BY DEF IssuedFor
<1> DEFINE l == IF c < d THEN c + 1 ELSE c
<1>2. /\ values2 \in Seq(SampleValues) /\ Len(values2) = len + d /\ len \in Nat
      /\ values \in Seq(SampleValues)
      /\ \A k \in 1..len : values2[k] = values[k]
      /\ \A k \in 1..d : values2[len + k] = InWindow(p, n, q + k - 1)
      /\ MaxRate \in Nat \ {0} /\ RateCuts = IntegerRange(0, MaxRate)
  BY FeedStatisticsAssumption DEF GoesOn, Tally, RateCuts
<1>3. l \in Nat /\ c <= l /\ DOMAIN us = 1..l /\ l = IF c < d THEN c + 1 ELSE c
  BY <1>1
<1> HIDE DEF l
<1>4. PICK f : Chain(f, r.histo, us, l) /\ RateSampled(r, bucket).histo = f[l]
  BY <1>3, HistoSteps
<1>5. f[0] = r.histo /\ \A k \in 1..l : f[k] = Update(f[k - 1], us[k])
  BY <1>4 DEF Chain
<1> HIDE DEF len
<1>6. ASSUME NEW k \in 0..d
      PROVE  V(k) \in Seq(SampleValues) /\ Len(V(k)) = len + k
             /\ \A i \in 1..(len + k) : V(k)[i] = values2[i]
  <2> DEFINE m == len + k
  <2>1. m \in Nat /\ \A i \in 1..m : values2[i] \in SampleValues
    BY <1>2
  <2> HIDE DEF m
  <2>2. Prefix(values2, m) \in [1..m -> SampleValues]
    BY <2>1 DEF Prefix
  <2>3. Prefix(values2, m) \in Seq(SampleValues) /\ Len(Prefix(values2, m)) = m
    BY <2>1, <2>2, SequenceOf
  <2> QED
    BY <2>3 DEF Prefix, m
<1>7. V(0) = values /\ V(d) = values2
  <2>1. 0 \in 0..d /\ d \in 0..d
    OBVIOUS
  <2>2. V(0) \in Seq(SampleValues) /\ Len(V(0)) = len + 0
        /\ \A i \in 1..(len + 0) : V(0)[i] = values2[i]
    BY <1>6, <2>1
  <2>3. V(d) \in Seq(SampleValues) /\ Len(V(d)) = len + d
        /\ \A i \in 1..(len + d) : V(d)[i] = values2[i]
    BY <1>6, <2>1
  <2> HIDE DEF V
  <2>4. V(0) = values
    BY <1>2, <2>2 DEF len
  <2>5. V(d) = values2
    BY <1>2, <2>3
  <2> QED
    BY <2>4, <2>5
<1> HIDE DEF V
<1>8. ASSUME NEW j \in 0..d, NEW k \in 0..d, j <= k, NEW t,
             \A i \in (j + 1)..k : InWindow(p, n, q + i - 1) = t
      PROVE  Extended(V(k), V(j), t, k - j)
  <2>1. /\ Len(V(j)) = len + j /\ Len(V(k)) = len + k
        /\ \A i \in 1..(len + j) : V(j)[i] = values2[i]
        /\ \A i \in 1..(len + k) : V(k)[i] = values2[i]
    BY <1>6
  <2>2. len + k = (len + j) + (k - j)
    BY <1>2
  <2>3. \A i \in 1..(len + j) : V(k)[i] = V(j)[i]
    BY <1>2, <1>8, <2>1
  <2>4. ASSUME NEW i \in (len + j + 1)..(len + k) PROVE V(k)[i] = t
    <3> DEFINE x == i - len
    <3>1. x \in (j + 1)..k /\ x \in 1..d /\ len + x = i /\ i \in 1..(len + k)
      BY <1>2
    <3> HIDE DEF x
    <3>2. values2[i] = InWindow(p, n, q + x - 1)
      BY <1>2, <3>1
    <3> QED
      BY <1>8, <2>1, <3>1, <3>2
  <2>5. \A i \in (len + j + 1)..(len + j + (k - j)) : V(k)[i] = t
    BY <2>2, <2>4
  <2> QED
    BY <2>1, <2>2, <2>3, <2>5 DEF Extended
<1>9. ASSUME NEW h, NEW j \in 0..d, NEW k \in 0..d, j < k,
             Tally(h, MaxRate, V(j)), NEW u, u.repeats = k - j,
             \A i \in (j + 1)..k : InWindow(p, n, q + i - 1) = u.rate
      PROVE  Tally(Update(h, u), MaxRate, V(k))
  <2> DEFINE t == u.rate
             w == k - j
  <2>1. w \in Nat /\ Extended(V(k), V(j), t, w) /\ V(k) \in Seq(SampleValues)
    <3>1. w \in Nat
      BY <1>9
    <3>2. \A i \in (j + 1)..k : InWindow(p, n, q + i - 1) = t
      BY <1>9
    <3> HIDE DEF t
    <3>3. j <= k
      BY <1>9
    <3>4. Extended(V(k), V(j), t, k - j)
      BY <1>8, <3>2, <3>3
    <3> QED
      BY <1>6, <3>1, <3>4
  <2>2. t \in SampleValues
    <3> DEFINE i == len + k
    <3>1. k \in (j + 1)..k /\ k \in 1..d /\ i \in 1..Len(values2)
      BY <1>2, <1>9
    <3>2. values2[i] = InWindow(p, n, q + k - 1)
      BY <1>2, <3>1
    <3> HIDE DEF i
    <3>3. values2[i] \in SampleValues
      BY <1>2, <3>1
    <3> QED
      BY <1>9, <3>1, <3>2, <3>3
  <2>3. Update(h, u) = weighted_sample(h, IntegerRange(0, MaxRate), t, w)
    BY <1>2, <1>9 DEF Update
  <2> HIDE DEF t, w
  <2> QED
    BY <1>2, <1>9, <2>1, <2>2, <2>3, TallyGrows
<1>10. \A k \in 0..c : Tally(f[k], MaxRate, V(k))
  <2> DEFINE Bad == {k \in 0..c : ~ Tally(f[k], MaxRate, V(k))}
  <2> SUFFICES ASSUME Bad # {} PROVE FALSE
    OBVIOUS
  <2>1. PICK k \in Bad : \A j \in Bad : k <= j
    <3>1. Bad \in SUBSET (0..c) /\ c \in Nat
      OBVIOUS
    <3> HIDE DEF Bad
    <3> QED
      BY <3>1, SmallestNumber
  <2>2. k \in 0..c /\ ~ Tally(f[k], MaxRate, V(k))
    OBVIOUS
  <2>3. CASE k = 0
    BY <1>5, <1>7, <2>2, <2>3
  <2>4. CASE k # 0
    <3> DEFINE j == k - 1
    <3>1. j \in 0..d /\ k \in 0..d /\ j < k /\ j \notin Bad /\ j \in 0..c /\ k - j = 1
      BY <2>1, <2>2, <2>4
    <3>2. f[k] = Update(f[j], us[k])
      BY <1>3, <1>5, <2>2, <2>4
    <3>3. us[k].rate = InWindow(p, n, q + k - 1) /\ us[k].repeats = 1
      BY <1>1, <2>2, <2>4
    <3>4. \A i \in (j + 1)..k : i = k
      BY <2>2, <2>4
    <3>5. Tally(f[j], MaxRate, V(j))
      BY <3>1
    <3> HIDE DEF j
    <3>6. \A i \in (j + 1)..k : InWindow(p, n, q + i - 1) = us[k].rate
      BY <3>3, <3>4
    <3>7. Tally(Update(f[j], us[k]), MaxRate, V(k))
      BY <1>9, <3>1, <3>3, <3>5, <3>6
    <3> QED
      BY <2>2, <3>2, <3>7
  <2> QED
    BY <2>3, <2>4
<1>11. Tally(f[l], MaxRate, V(d))
  <2>1. CASE c < d
    <3>1. f[l] = Update(f[c], us[l]) /\ l = c + 1
      <4>1. l = c + 1 /\ l \in 1..l /\ l - 1 = c
        BY <1>1, <1>3, <2>1
      <4>2. f[l] = Update(f[l - 1], us[l])
        BY <1>5, <4>1
      <4> QED
        BY <4>1, <4>2
    <3>2. us[l].rate = 0 /\ us[l].repeats = d - c
      BY <1>1, <2>1, <3>1
    <3>3. c \in 0..d /\ d \in 0..d /\ c \in 0..c
      BY <1>1
    <3>4. Tally(f[c], MaxRate, V(c))
      BY <1>10, <3>3
    <3>5. \A i \in (c + 1)..d : InWindow(p, n, q + i - 1) = us[l].rate
      BY <1>1, <3>2
    <3>6. Tally(Update(f[c], us[l]), MaxRate, V(d))
      BY <1>9, <2>1, <3>2, <3>5, <3>3, <3>4
    <3> QED
      BY <3>1, <3>6
  <2>2. CASE ~ c < d
    <3>1. l = c /\ c = d
      BY <1>1, <1>3, <2>2
    <3> QED
      BY <1>10, <3>1
  <2> QED
    BY <2>1, <2>2
<1> QED
  BY <1>4, <1>7, <1>11

-----------------------------------------------------------------------------
(* The rate of one scale, whose sampling period is P: s are the messages.  *)
PeriodIn(s, P, i) == Max({s[j].ts \div P : j \in 1..i})

Periods(s, P) == [i \in 1..Len(s) |-> PeriodIn(s, P, i)]

EstimatesIn(s, P) ==
    [k \in 1..(Periods(s, P)[Len(s)] - Periods(s, P)[1]) |->
        InWindow(Periods(s, P), Len(s), Periods(s, P)[1] + k - 1)]

LEMMA BucketTyped ==
  ASSUME NEW x \in Messages, NEW P \in Nat \ {0}
  PROVE  x.ts \div P \in 0..SampleLimit
<1>1. x.ts \in Timestamps
  BY DEF Messages
<1>2. x.ts \in 0..(SampleLimit - 1)
  BY <1>1, FeedStatisticsAssumption
<1> DEFINE t == x.ts
<1> HIDE DEF t
<1>3. t \in Nat => t \div P \in Nat /\ t \div P <= t
  OBVIOUS
<1> QED
  BY <1>2, <1>3, HistogramAssumption DEF t

LEMMA PeriodTyped ==
  ASSUME NEW s \in Seq(Messages), NEW P \in Nat \ {0}, NEW i \in 1..Len(s)
  PROVE  /\ PeriodIn(s, P, i) \in 0..SampleLimit
         /\ \A j \in 1..i : s[j].ts \div P <= PeriodIn(s, P, i)
         /\ \E j \in 1..i : PeriodIn(s, P, i) = s[j].ts \div P
<1> DEFINE S == {s[j].ts \div P : j \in 1..i}
<1>1. ASSUME NEW j \in 1..i PROVE s[j].ts \div P \in 0..SampleLimit
  <2>1. j \in 1..Len(s)
    OBVIOUS
  <2>2. s[j] \in Messages
    BY <2>1
  <2> QED
    BY <2>2, BucketTyped
<1>2. S \in SUBSET (0..SampleLimit) /\ S # {}
  <2>1. 1 \in 1..i
    OBVIOUS
  <2> QED
    BY <1>1, <2>1
<1>3. Max(S) \in S /\ \A y \in S : Max(S) >= y
  <2> HIDE DEF S
  <2> QED
    BY <1>2, HistogramAssumption, MaxMin
<1>4. PeriodIn(s, P, i) = Max(S)
  BY DEF PeriodIn
<1>5. \A j \in 1..i : s[j].ts \div P \in S
  OBVIOUS
<1>6. \A y \in S : \E j \in 1..i : y = s[j].ts \div P
  OBVIOUS
<1> HIDE DEF S
<1>7. Max(S) \in 0..SampleLimit /\ \A y \in S : y \in Int
  <2>1. \A y \in S : y \in 0..SampleLimit
    BY <1>2
  <2>2. \A y \in 0..SampleLimit : y \in Int
    BY HistogramAssumption
  <2> QED
    BY <1>3, <2>1, <2>2
<1>8. \A y \in S : y <= Max(S)
  BY <1>3, <1>7
<1>9. \A j \in 1..i : s[j].ts \div P <= Max(S)
  BY <1>5, <1>8
<1>10. \E j \in 1..i : Max(S) = s[j].ts \div P
  BY <1>3, <1>6
<1> QED
  BY <1>4, <1>7, <1>9, <1>10

LEMMA PeriodsAre ==
  ASSUME NEW s \in Seq(Messages), NEW P \in Nat \ {0}, Len(s) # 0
  PROVE  /\ UpTo(Periods(s, P), Len(s), Periods(s, P)[Len(s)])
         /\ \A i \in 1..Len(s) : /\ Periods(s, P)[i] = PeriodIn(s, P, i)
                                 /\ Periods(s, P)[i] \in Nat
                                 /\ Periods(s, P)[1] <= Periods(s, P)[i]
<1> DEFINE n == Len(s)
           p == Periods(s, P)
<1>1. n \in Nat /\ 1 \in 1..n /\ n \in 1..n
  OBVIOUS
<1>2. \A i \in 1..n : p[i] = PeriodIn(s, P, i)
  BY DEF Periods
<1>3. \A i \in 1..n : p[i] \in 0..SampleLimit
  BY <1>2, PeriodTyped
<1>4. ASSUME NEW i \in 1..n, NEW j \in 1..n, i <= j PROVE p[i] <= p[j]
  <2>1. PICK k \in 1..i : PeriodIn(s, P, i) = s[k].ts \div P
    BY PeriodTyped
  <2>2. k \in 1..j
    BY <1>4
  <2>3. s[k].ts \div P <= PeriodIn(s, P, j)
    BY <2>2, PeriodTyped
  <2> QED
    BY <1>2, <2>1, <2>3
<1> HIDE DEF p, n
<1>5. \A i \in 1..n : p[i] \in Int /\ p[i] <= p[n] /\ p[1] <= p[i] /\ p[i] \in Nat
  BY <1>1, <1>3, <1>4, HistogramAssumption
<1>6. UpTo(p, n, p[n])
  BY <1>1, <1>5 DEF UpTo
<1> QED
  BY <1>2, <1>5, <1>6 DEF p, n

\* One more event, in the period b or in that of the last one.
Grown(p2, p, n, b) ==
    /\ \A i \in 1..n : p2[i] = p[i]
    /\ p2[n + 1] = IF n = 0 THEN b ELSE Later(p[n], b)

LEMMA PeriodsExtended ==
  ASSUME NEW s \in Seq(Messages), NEW x \in Messages, NEW P \in Nat \ {0},
         NEW s2, s2 = Append(s, x)
  PROVE  Grown(Periods(s2, P), Periods(s, P), Len(s), x.ts \div P)
<1> DEFINE n == Len(s)
           m == n + 1
           b == x.ts \div P
<1>1. /\ n \in Nat /\ s2 \in Seq(Messages) /\ Len(s2) = m /\ m = n + 1
      /\ s2[m] = x /\ \A i \in 1..n : s2[i] = s[i]
      /\ m \in 1..m
  OBVIOUS
<1> HIDE DEF m
<1>2. \A i \in 1..n : Periods(s, P)[i] = PeriodIn(s, P, i)
  BY DEF Periods
<1>3. \A i \in 1..m : Periods(s2, P)[i] = PeriodIn(s2, P, i)
  BY <1>1 DEF Periods
<1>4. ASSUME NEW i \in 1..n PROVE Periods(s2, P)[i] = Periods(s, P)[i]
  <2>1. \A j \in 1..i : s2[j].ts \div P = s[j].ts \div P
    <3>1. \A j \in 1..i : s2[j] = s[j]
      BY <1>1
    <3> QED
      BY <3>1
  <2>2. {s2[j].ts \div P : j \in 1..i} = {s[j].ts \div P : j \in 1..i}
    BY <2>1
  <2>3. PeriodIn(s2, P, i) = PeriodIn(s, P, i)
    BY <2>2 DEF PeriodIn
  <2>4. i \in 1..m
    BY <1>1
  <2> QED
    BY <1>2, <1>3, <2>3, <2>4
<1> DEFINE M2 == PeriodIn(s2, P, m)
<1>5. /\ M2 \in 0..SampleLimit
      /\ \A j \in 1..m : s2[j].ts \div P <= M2
      /\ \E j \in 1..m : M2 = s2[j].ts \div P
  BY <1>1, PeriodTyped
<1>6. s2[m].ts \div P = b /\ \A j \in 1..n : s2[j].ts \div P = s[j].ts \div P
  BY <1>1
<1>7. b \in Int
  BY BucketTyped, HistogramAssumption
<1> HIDE DEF n, b, M2
<1>8. CASE n = 0
  <2>1. \A j \in 1..m : j = m
    BY <1>1, <1>8
  <2>2. M2 = b
    BY <1>5, <1>6, <2>1
  <2> QED
    BY <1>1, <1>3, <1>4, <1>8, <2>2 DEF M2, n, b, Grown
<1>9. CASE n # 0
  <2> DEFINE M == PeriodIn(s, P, n)
  <2>0. n \in 1..Len(s) /\ n \in 1..n
    BY <1>1, <1>9 DEF n
  <2>1. /\ M \in 0..SampleLimit
        /\ \A j \in 1..n : s[j].ts \div P <= M
        /\ \E j \in 1..n : M = s[j].ts \div P
    BY <2>0, PeriodTyped
  <2> HIDE DEF M
  <2>2. \A j : j \in 1..m <=> j \in 1..n \/ j = m
    BY <1>1
  <2>3. M <= M2
    BY <1>5, <1>6, <2>1, <2>2
  <2>4. b <= M2
    BY <1>1, <1>5, <1>6
  <2>5. M2 = b \/ M2 <= M
    BY <1>5, <1>6, <2>1, <2>2
  <2>6. M \in Int /\ M2 \in Int
    <3>1. \A y \in 0..SampleLimit : y \in Int
      BY HistogramAssumption
    <3> QED
      BY <1>5, <2>1, <3>1
  <2>7. M2 = Later(M, b)
    BY <1>7, <2>3, <2>4, <2>5, <2>6 DEF Later
  <2>8. Periods(s, P)[n] = M /\ Periods(s2, P)[m] = M2
    BY <1>1, <1>2, <1>3, <2>0 DEF M, M2
  <2> QED
    BY <1>1, <1>4, <1>9, <2>7, <2>8 DEF n, b, Grown
<1> QED
  BY <1>8, <1>9

\* The estimates for the periods from that of the first of n events to that
\* of the last, which is not over.
Estimates(f, p, n) ==
    /\ f \in Seq(SampleValues) /\ Len(f) = p[n] - p[1]
    /\ \A k \in 1..(p[n] - p[1]) : f[k] = InWindow(p, n, p[1] + k - 1)

LEMMA EstimatesAre ==
  ASSUME NEW s \in Seq(Messages), NEW P \in Nat \ {0}, Len(s) # 0,
         Len(s) < SampleLimit
  PROVE  Estimates(EstimatesIn(s, P), Periods(s, P), Len(s))
<1> DEFINE p == Periods(s, P)
           n == Len(s)
           d == p[n] - p[1]
           f == EstimatesIn(s, P)
<1>1. n \in Nat /\ 1 \in 1..n /\ n \in 1..n /\ d \in Nat
  <2>1. n \in Nat /\ 1 \in 1..n /\ n \in 1..n
    OBVIOUS
  <2>2. p[1] \in Nat /\ p[n] \in Nat /\ p[1] <= p[n]
    BY <2>1, PeriodsAre
  <2> QED
    BY <2>1, <2>2
<1>2. f = [k \in 1..d |-> InWindow(p, n, p[1] + k - 1)]
  BY DEF EstimatesIn
<1>3. ASSUME NEW q PROVE InWindow(p, n, q) \in SampleValues
  <2>1. InWindow(p, n, q) \in Nat /\ InWindow(p, n, q) <= n
    BY <1>1, CountsTyped
  <2> QED
    BY <1>1, <2>1, HistogramAssumption DEF SampleValues
<1> HIDE DEF f, d
<1>4. f \in [1..d -> SampleValues]
      /\ \A k \in 1..d : f[k] = InWindow(p, n, p[1] + k - 1)
  BY <1>2, <1>3
<1>5. f \in Seq(SampleValues) /\ Len(f) = d
  BY <1>1, <1>4, SequenceOf
<1> HIDE DEF p, n
<1>6. Estimates(f, p, n)
  BY <1>4, <1>5 DEF Estimates, d
<1> QED
  BY <1>6 DEF f, p, n

\* The estimates issued when an event is counted in period q2.  It is not in
\* the measurement periods that end before.
LEMMA EstimatesGoOn ==
  ASSUME NEW s \in Seq(Messages), NEW x \in Messages, NEW P \in Nat \ {0},
         NEW s2, s2 = Append(s, x), Len(s) # 0, Len(s2) < SampleLimit,
         NEW p, p = Periods(s, P), NEW n, n = Len(s),
         NEW q, q = p[n], NEW q2, q2 = Later(q, x.ts \div P)
  PROVE  GoesOn(EstimatesIn(s2, P), EstimatesIn(s, P), p, n, q, q2 - q)
<1> DEFINE m == n + 1
           p2 == Periods(s2, P)
           first == p[1]
           c == q - first
           d == q2 - q
           f == EstimatesIn(s, P)
           g == EstimatesIn(s2, P)
<1>1. /\ n \in Nat /\ n # 0 /\ 1 \in 1..n /\ n \in 1..n /\ m \in Nat
      /\ s2 \in Seq(Messages) /\ Len(s2) = m /\ Len(s2) # 0 /\ Len(s) < SampleLimit
      /\ m = Len(s) + 1 /\ m = n + 1
  BY HistogramAssumption
<1> HIDE DEF m
<1>2. /\ \A i \in 1..n : p2[i] = p[i]
      /\ p2[m] = q2
  <2>1. Grown(p2, p, n, x.ts \div P)
    BY PeriodsExtended
  <2> HIDE DEF p2
  <2> QED
    BY <1>1, <2>1 DEF Grown
<1>3. first \in Nat /\ q \in Nat /\ first <= q /\ q2 \in Int /\ q <= q2
  <2>1. first \in Nat /\ q \in Nat /\ first <= q
    BY <1>1, PeriodsAre
  <2>2. x.ts \div P \in Int
    BY BucketTyped, HistogramAssumption
  <2> QED
    BY <2>1, <2>2 DEF Later
<1>4. /\ f \in Seq(SampleValues) /\ Len(f) = c
      /\ \A k \in 1..c : f[k] = InWindow(p, n, first + k - 1)
  <2>1. Estimates(f, p, n)
    BY <1>1, EstimatesAre
  <2> QED
    BY <2>1 DEF Estimates
<1>5. /\ g \in Seq(SampleValues) /\ Len(g) = p2[m] - p2[1]
      /\ \A k \in 1..(p2[m] - p2[1]) : g[k] = InWindow(p2, m, p2[1] + k - 1)
  <2>1. Estimates(EstimatesIn(s2, P), Periods(s2, P), Len(s2))
    BY <1>1, EstimatesAre
  <2>2. Estimates(g, p2, m)
    BY <1>1, <2>1
  <2> QED
    BY <2>2 DEF Estimates
<1> HIDE DEF f, g, p2
<1>6. /\ c \in Nat /\ d \in Nat /\ p2[m] - p2[1] = c + d /\ p2[1] = first
      /\ c + d = q2 - first /\ first + c = q
  BY <1>1, <1>2, <1>3
<1> HIDE DEF c, d, first
<1>7. ASSUME NEW k \in 1..(c + d) PROVE g[k] = InWindow(p, n, first + k - 1)
  <2> DEFINE y == first + k - 1
  <2>1. y \in Int /\ y < q2 /\ m = n + 1
    BY <1>1, <1>3, <1>6
  <2>2. g[k] = InWindow(p2, m, y)
    BY <1>5, <1>6
  <2>3. OneMore(p2, p, n, q2)
    BY <1>1, <1>2 DEF OneMore
  <2> HIDE DEF y, m
  <2>4. ~ InSpan(q2, y)
    BY <1>3, <2>1 DEF InSpan
  <2>5. InWindow(p2, m, y) = InWindow(p, n, y) + (IF InSpan(q2, y) THEN 1 ELSE 0)
    BY <1>1, <2>1, <2>3, CountsExtended
  <2>6. InWindow(p, n, y) \in Nat
    BY <1>1, CountsTyped
  <2> QED
    BY <2>2, <2>4, <2>5, <2>6 DEF y
<1>8. \A k \in 1..c : g[k] = f[k]
  <2>1. \A k \in 1..c : k \in 1..(c + d)
    BY <1>6
  <2> QED
    BY <1>4, <1>7, <2>1
<1>9. ASSUME NEW k \in 1..d PROVE g[c + k] = InWindow(p, n, q + k - 1)
  <2> DEFINE j == c + k
  <2>1. j \in 1..(c + d) /\ first + j - 1 = q + k - 1
    BY <1>3, <1>6
  <2> HIDE DEF j
  <2>2. g[j] = InWindow(p, n, first + j - 1)
    BY <1>7, <2>1
  <2> QED
    BY <2>1, <2>2 DEF j
<1>10. Len(g) = c + d
  BY <1>5, <1>6
<1>11. GoesOn(g, f, p, n, q, d)
  BY <1>1, <1>4, <1>5, <1>8, <1>9, <1>10 DEF GoesOn
<1> QED
  BY <1>11 DEF d, f, g

RateOK(r, s, P) ==
    IF Len(s) = 0
    THEN r = [rate_ |-> Estimator(Buckets), histo |-> EmptyHistogram(RateCuts)]
    ELSE /\ RingAt(r.rate_, Periods(s, P), Len(s), Periods(s, P)[Len(s)])
         /\ Tally(r.histo, MaxRate, EstimatesIn(s, P))

LEMMA FirstRate ==
  ASSUME NEW s \in Seq(Messages), NEW x \in Messages, NEW P \in Nat \ {0},
         NEW s2, s2 = Append(s, x), Len(s) = 0, Len(s2) < SampleLimit,
         NEW r, r = [rate_ |-> Estimator(Buckets), histo |-> EmptyHistogram(RateCuts)]
  PROVE  RateOK(RateSampled(r, x.ts \div P), s2, P)
<1> DEFINE b == x.ts \div P
           p2 == Periods(s2, P)
           us == Sampled(r.rate_, b).updates
           r2 == RateSampled(r, b)
<1>1. s2 \in Seq(Messages) /\ Len(s2) = 1 /\ 1 = Len(s) + 1
  OBVIOUS
<1>2. p2[1] = b /\ b \in Int
  <2>1. b \in Int
    BY BucketTyped, HistogramAssumption
  <2>2. Grown(p2, Periods(s, P), Len(s), b)
    BY PeriodsExtended
  <2> HIDE DEF b, p2
  <2>3. p2[1] = b
    BY <1>1, <2>2 DEF Grown
  <2> QED
    BY <2>1, <2>3
<1>3. r.rate_ = Estimator(Buckets) /\ r.histo = EmptyHistogram(IntegerRange(0, MaxRate))
  BY DEF RateCuts
<1>4. r2.rate_ = Sampled(r.rate_, b).estimator
  BY DEF RateSampled
<1> HIDE DEF b, p2, r2
<1>5. RingAt(Sampled(r.rate_, b).estimator, p2, 1, b) /\ us = << >>
  BY <1>2, <1>3, FirstSampled
<1>6. r2.histo = r.histo
  <2> DEFINE z == 0
  <2>1. z \in Nat /\ DOMAIN us = 1..z
    BY <1>5
  <2> HIDE DEF z, us
  <2>2. PICK f : Chain(f, r.histo, us, z) /\ RateSampled(r, b).histo = f[z]
    BY <2>1, HistoSteps DEF us
  <2> QED
    BY <2>2 DEF Chain, z, r2
<1>7. EstimatesIn(s2, P) = << >>
  <2>1. p2[1] - p2[1] = 0
    BY <1>2
  <2>0. Len(s2) # 0
    BY <1>1
  <2>2. Estimates(EstimatesIn(s2, P), Periods(s2, P), Len(s2))
    BY <1>1, <2>0, EstimatesAre
  <2>3. /\ EstimatesIn(s2, P) \in Seq(SampleValues)
        /\ Len(EstimatesIn(s2, P)) = p2[Len(s2)] - p2[1]
    BY <2>2 DEF Estimates, p2
  <2> QED
    BY <1>1, <2>1, <2>3
<1>8. Tally(r2.histo, MaxRate, EstimatesIn(s2, P))
  BY <1>3, <1>6, <1>7, EmptyTally, FeedStatisticsAssumption
<1>9. RingAt(r2.rate_, p2, 1, p2[1])
  BY <1>2, <1>4, <1>5
<1> QED
  BY <1>1, <1>8, <1>9 DEF RateOK, r2, b, p2

LEMMA NextRate ==
  ASSUME NEW s \in Seq(Messages), NEW x \in Messages, NEW P \in Nat \ {0},
         NEW s2, s2 = Append(s, x), Len(s) # 0, Len(s2) < SampleLimit,
         NEW r, RateOK(r, s, P)
  PROVE  RateOK(RateSampled(r, x.ts \div P), s2, P)
<1> DEFINE b == x.ts \div P
           p == Periods(s, P)
           p2 == Periods(s2, P)
           n == Len(s)
           m == n + 1
           q == p[n]
           q2 == Later(q, b)
           us == Sampled(r.rate_, b).updates
           r2 == RateSampled(r, b)
           f == EstimatesIn(s, P)
           g == EstimatesIn(s2, P)
           d == q2 - q
<1>1. /\ Len(s2) = m /\ m # 0 /\ n \in 1..n /\ n \in Nat /\ m = n + 1
  OBVIOUS
<1> HIDE DEF m
<1>2. RingAt(r.rate_, p, n, q) /\ Tally(r.histo, MaxRate, f)
  BY DEF RateOK
<1>3. UpTo(p, n, q)
  BY PeriodsAre
<1>4. b \in Int
  BY BucketTyped, HistogramAssumption
<1>5. OneMore(p2, p, n, q2) /\ p2[m] = q2
  <2>1. Grown(p2, p, n, b)
    BY PeriodsExtended
  <2> HIDE DEF p2, p, b
  <2>2. (\A i \in 1..n : p2[i] = p[i]) /\ p2[m] = q2
    BY <1>1, <2>1 DEF Grown
  <2> QED
    BY <1>1, <2>2 DEF OneMore
<1>6. GoesOn(g, f, p, n, q, d)
  BY EstimatesGoOn
<1>7. r2.rate_ = Sampled(r.rate_, b).estimator
  BY DEF RateSampled
<1>8. q \in Int /\ d \in Nat
  <2>1. q \in Int
    BY <1>3 DEF UpTo
  <2> HIDE DEF q, b
  <2> QED
    BY <1>4, <2>1 DEF Later
<1> HIDE DEF b, p, p2, n, q, q2, f, g, r2
<1>9. /\ RingAt(Sampled(r.rate_, b).estimator, p2, m, q2)
      /\ IssuedFor(us, p, n, q, d)
  BY <1>1, <1>2, <1>3, <1>4, <1>5, SampledKeeps DEF q2
<1> HIDE DEF us, d
<1>10. Tally(RateSampled(r, b).histo, MaxRate, g)
  BY <1>2, <1>6, <1>8, <1>9, TallyOfUpdates DEF us
<1>11. RingAt(r2.rate_, p2, m, p2[m])
  BY <1>5, <1>7, <1>9
<1> QED
  BY <1>1, <1>10, <1>11 DEF RateOK, r2, b, p2, g

-----------------------------------------------------------------------------
(* The three rates.                                                        *)
RateInv ==
    /\ samples \in Seq(Messages) /\ Len(samples) <= MaxSamples
    /\ \A s \in Scales : RateOK(rates[s], samples, Period[s])

LEMMA PeriodPositive == \A s \in Scales : Period[s] \in Nat \ {0}
<1>1. Buckets \in Nat \ {0}
  BY FeedStatisticsAssumption
<1> DEFINE B == Buckets * Buckets
<1>2. B \in Nat \ {0}
  BY <1>1
<1> HIDE DEF B
<1>3. Period = [usec |-> 1, msec |-> Buckets, sec |-> B]
  BY DEF Period, B
<1>4. Scales = {"usec", "msec", "sec"}
  BY <1>3 DEF Scales
<1> QED
  BY <1>1, <1>2, <1>3, <1>4

LEMMA InitRates == Init => RateInv
<1> SUFFICES ASSUME Init PROVE RateInv
  OBVIOUS
<1>1. samples \in Seq(Messages) /\ Len(samples) = 0 /\ MaxSamples \in Nat
  BY FeedStatisticsAssumption DEF Init
<1>2. \A s \in Scales : rates[s] = [rate_ |-> Estimator(Buckets),
                                    histo |-> EmptyHistogram(RateCuts)]
  BY DEF Init
<1>3. \A s \in Scales : RateOK(rates[s], samples, Period[s])
  BY <1>1, <1>2 DEF RateOK
<1> QED
  BY <1>1, <1>3 DEF RateInv

LEMMA RecordRates ==
  ASSUME RateInv, NEW ts \in Timestamps, NEW pl \in Latencies,
         record_sample(ts, pl)
  PROVE  RateInv'
<1> DEFINE x == [ts |-> ts, pl |-> pl]
           s2 == Append(samples, x)
<1>1. /\ samples' = s2 /\ Len(samples) < MaxSamples
      /\ rates' = [s \in Scales |-> RateSampled(rates[s], ts \div Period[s])]
  BY DEF record_sample
<1>2. samples \in Seq(Messages) /\ \A s \in Scales : RateOK(rates[s], samples, Period[s])
  BY DEF RateInv
<1>3. x \in Messages /\ x.ts = ts
  BY DEF Messages
<1> HIDE DEF x
<1>4. s2 \in Seq(Messages) /\ Len(s2) <= MaxSamples /\ Len(s2) < SampleLimit
  <2>1. MaxSamples \in 0..(SampleLimit - 1)
    BY FeedStatisticsAssumption
  <2>2. s2 \in Seq(Messages) /\ Len(s2) = Len(samples) + 1 /\ Len(samples) \in Nat
    BY <1>2, <1>3
  <2> HIDE DEF s2
  <2> QED
    BY <1>1, <2>1, <2>2, HistogramAssumption
<1>5. ASSUME NEW s \in Scales PROVE RateOK(rates'[s], s2, Period[s])
  <2> DEFINE r == rates[s]
             P == Period[s]
  <2>1. P \in Nat \ {0} /\ RateOK(r, samples, P)
    BY <1>2, PeriodPositive
  <2>2. rates'[s] = RateSampled(r, x.ts \div P)
    BY <1>1, <1>3
  <2> HIDE DEF P, r
  <2>3. CASE Len(samples) = 0
    <3>1. r = [rate_ |-> Estimator(Buckets), histo |-> EmptyHistogram(RateCuts)]
      BY <2>1, <2>3 DEF RateOK
    <3>2. RateOK(RateSampled(r, x.ts \div P), s2, P)
      BY <1>2, <1>3, <1>4, <2>1, <2>3, <3>1, FirstRate
    <3> QED
      BY <2>2, <3>2 DEF P
  <2>4. CASE Len(samples) # 0
    <3>1. RateOK(RateSampled(r, x.ts \div P), s2, P)
      BY <1>2, <1>3, <1>4, <2>1, <2>4, NextRate
    <3> QED
      BY <2>2, <3>1 DEF P
  <2> QED
    BY <2>3, <2>4
<1> HIDE DEF s2
<1> QED
  BY <1>1, <1>4, <1>5 DEF RateInv

LEMMA NextRates == ASSUME RateInv, [Next]_vars PROVE RateInv'
<1>1. ASSUME NEW ts \in Timestamps, NEW pl \in Latencies, record_sample(ts, pl)
      PROVE  RateInv'
  BY <1>1, RecordRates
<1>2. ASSUME UNCHANGED <<statistics, samples>> PROVE RateInv'
  BY <1>2 DEF RateInv, statistics
<1>3. log_final_progress => UNCHANGED <<statistics, samples>>
  BY DEF log_final_progress
<1>4. print_csv => UNCHANGED <<statistics, samples>>
  BY DEF print_csv
<1>5. UNCHANGED vars => UNCHANGED <<statistics, samples>>
  BY DEF vars
<1> QED
  BY <1>1, <1>2, <1>3, <1>4, <1>5 DEF Next

LEMMA SpecRates == Spec => []RateInv
<1>1. RateInv /\ [Next]_vars => RateInv'
  BY NextRates
<1> QED
  BY <1>1, InitRates, PTL DEF Spec

\* The invariant in the words of the specification.
LEMMA CountsOfScale ==
  ASSUME NEW s \in Scales, samples \in Seq(Messages), Len(samples) # 0,
         NEW p, p = Periods(samples, Period[s])
  PROVE  /\ \A i \in 1..Len(samples) : p[i] = PeriodOf(s, i) /\ p[i] \in Nat
         /\ p[1] <= p[Len(samples)]
         /\ \A x : EventsUpTo(s, x) = InWindow(p, Len(samples), x)
         /\ \A x : Cardinality({i \in DOMAIN samples : PeriodOf(s, i) = x}) =
                      InPeriod(p, Len(samples), x)
<1> DEFINE n == Len(samples)
<1>1. DOMAIN samples = 1..n /\ n \in 1..n
  OBVIOUS
<1>2. \A i \in 1..n : PeriodOf(s, i) = PeriodIn(samples, Period[s], i)
  BY DEF PeriodOf, PeriodIn
<1>3. Period[s] \in Nat \ {0}
  BY PeriodPositive
<1>4. \A i \in 1..n : p[i] = PeriodOf(s, i) /\ p[i] \in Nat /\ p[1] <= p[i]
  BY <1>2, <1>3, PeriodsAre
<1> HIDE DEF n
<1>5. ASSUME NEW x PROVE EventsUpTo(s, x) = InWindow(p, n, x)
  <2>1. {i \in DOMAIN samples : x - Buckets < PeriodOf(s, i) /\ PeriodOf(s, i) <= x}
           = {i \in 1..n : x - Buckets < p[i] /\ p[i] <= x}
    BY <1>1, <1>4
  <2> QED
    BY <2>1 DEF EventsUpTo, InWindow
<1>6. ASSUME NEW x
      PROVE  Cardinality({i \in DOMAIN samples : PeriodOf(s, i) = x}) = InPeriod(p, n, x)
  <2>1. {i \in DOMAIN samples : PeriodOf(s, i) = x} = {i \in 1..n : p[i] = x}
    BY <1>1, <1>4
  <2> QED
    BY <2>1 DEF InPeriod
<1> QED
  BY <1>1, <1>4, <1>5, <1>6 DEF n

LEMMA RatesAre ==
  ASSUME NEW s \in Scales, samples \in Seq(Messages), Len(samples) # 0
  PROVE  RatesOf(s) = EstimatesIn(samples, Period[s])
<1> DEFINE p == Periods(samples, Period[s])
           n == Len(samples)
<1>0. 1 \in 1..n /\ n \in 1..n /\ samples # << >>
  OBVIOUS
<1>1. /\ PeriodOf(s, 1) = p[1] /\ PeriodOf(s, n) = p[n]
      /\ \A x : EventsUpTo(s, x) = InWindow(p, n, x)
  BY <1>0, CountsOfScale
<1>2. RatesOf(s) = [k \in 1..(PeriodOf(s, n) - PeriodOf(s, 1)) |->
                       EventsUpTo(s, PeriodOf(s, 1) + k - 1)]
  BY <1>0 DEF RatesOf
<1>3. EstimatesIn(samples, Period[s]) =
         [k \in 1..(p[n] - p[1]) |-> InWindow(p, n, p[1] + k - 1)]
  BY DEF EstimatesIn
<1> HIDE DEF p, n
<1> QED
  BY <1>1, <1>2, <1>3

(* The estimates of a rate, one for each sampling period that is over,     *)
(* and the ring it makes them with, for every feed and on every scale: the *)
(* ring rotates over short gaps and starts afresh after long ones, and the *)
(* periods it skips are in the histogram with their weight.                *)
THEOREM RatesCorrect == Spec => []RatesTallied
<1>1. RateInv => RatesTallied
  <2> SUFFICES ASSUME RateInv, NEW s \in Scales
               PROVE  /\ IsTallyOf(rates[s].histo, RateCuts, RatesOf(s))
                      /\ samples # << >> => RingHoldsLastPeriods(s)
    BY DEF RatesTallied
  <2> DEFINE r == rates[s]
             p == Periods(samples, Period[s])
             n == Len(samples)
  <2>1. samples \in Seq(Messages) /\ RateOK(r, samples, Period[s])
        /\ MaxRate \in Nat \ {0} /\ RateCuts = IntegerRange(0, MaxRate)
    BY FeedStatisticsAssumption DEF RateInv, RateCuts
  <2>2. CASE n = 0
    <3>1. samples = << >> /\ RatesOf(s) = << >>
      BY <2>1, <2>2 DEF RatesOf
    <3>2. r.histo = EmptyHistogram(IntegerRange(0, MaxRate))
      BY <2>1, <2>2 DEF RateOK
    <3> HIDE DEF r
    <3>3. Tally(r.histo, MaxRate, << >>)
      BY <2>1, <3>2, EmptyTally
    <3>4. IsTallyOf(r.histo, IntegerRange(0, MaxRate), << >>)
      BY <2>1, <3>3, TallyIsTally
    <3> QED
      BY <2>1, <3>1, <3>4 DEF r
  <2>3. CASE n # 0
    <3>1. /\ RingAt(r.rate_, p, n, p[n])
          /\ Tally(r.histo, MaxRate, EstimatesIn(samples, Period[s]))
      BY <2>1, <2>3 DEF RateOK
    <3>2. RatesOf(s) = EstimatesIn(samples, Period[s])
      BY <2>1, <2>3, RatesAre
    <3>3. /\ p[n] = PeriodOf(s, n) /\ EventsUpTo(s, p[n]) = InWindow(p, n, p[n])
          /\ \A x : Cardinality({i \in DOMAIN samples : PeriodOf(s, i) = x}) =
                       InPeriod(p, n, x)
      <4>1. n \in 1..n
        BY <2>1, <2>3
      <4> QED
        BY <2>1, <2>3, <4>1, CountsOfScale
    <3> HIDE DEF r, p, n
    <3>4. IsTallyOf(r.histo, IntegerRange(0, MaxRate), RatesOf(s))
      BY <2>1, <3>1, <3>2, TallyIsTally
    <3>5. RingHoldsLastPeriods(s)
      <4>1. /\ r.rate_.last_bucket = p[n] /\ r.rate_.running_total = InWindow(p, n, p[n])
            /\ \A k \in 0..(Buckets - 1) :
                  r.rate_.buckets[(r.rate_.end_pos - k) % Buckets] =
                     InPeriod(p, n, p[n] - k)
        BY <3>1 DEF RingAt
      <4>2. \A k \in 0..(Buckets - 1) :
               r.rate_.buckets[(r.rate_.end_pos - k) % Buckets] =
                  Cardinality({i \in DOMAIN samples : PeriodOf(s, i) = p[n] - k})
        BY <3>3, <4>1
      <4> QED
        BY <3>3, <4>1, <4>2 DEF RingHoldsLastPeriods, r, n
    <3> QED
      BY <2>1, <3>4, <3>5 DEF r
  <2> QED
    BY <2>2, <2>3
<1> QED
  BY <1>1, SpecRates, PTL

-----------------------------------------------------------------------------
(* How a run ends.  The sampling periods of a slower rate are whole ones   *)
(* of a faster one: as long as the faster has not left its first period    *)
(* the slower has not.                                                     *)
LEMMA TimesLess ==
  ASSUME NEW d \in Nat \ {0}, NEW u \in Int, NEW v \in Int
  PROVE  /\ d * u \in Int
         /\ u <= v => d * u <= d * v
         /\ d * u < d * v => u < v
<1>1. u <= v => d * u <= d * v
  OBVIOUS
<1>2. v <= u => d * v <= d * u
  OBVIOUS
<1>3. d * u \in Int /\ d * v \in Int
  OBVIOUS
<1>4. d * u < d * v => u < v
  BY <1>2, <1>3
<1> QED
  BY <1>1, <1>3, <1>4

LEMMA Quotient ==
  ASSUME NEW u \in Nat, NEW d \in Nat \ {0}
  PROVE  /\ u \div d \in Nat
         /\ d * (u \div d) <= u /\ u < d * (u \div d + 1)
<1>1. u \div d \in Nat /\ u = d * (u \div d) + (u % d)
  OBVIOUS
<1>2. u % d \in 0..(d - 1)
  OBVIOUS
<1> DEFINE a == u \div d
           r == u % d
           b == d * a
<1>3. d * (a + 1) = d * a + d
  <2>1. a \in Nat
    BY <1>1
  <2> HIDE DEF a
  <2> QED
    BY <2>1
<1>4. b \in Int
  <2>1. a \in Nat
    BY <1>1
  <2> HIDE DEF a
  <2> QED
    BY <2>1
<1>5. r \in Nat /\ r < d /\ u = b + r
  BY <1>1, <1>2
<1> HIDE DEF r, b
<1>6. b <= u /\ u < b + d
  BY <1>4, <1>5
<1> QED
  BY <1>1, <1>3, <1>6 DEF b

Multiple(Q, P) == \E m \in Nat \ {0} : Q = P * m

LEMMA Coarser ==
  ASSUME NEW P \in Nat \ {0}, NEW m \in Nat \ {0}, NEW Q, Q = P * m,
         NEW x \in Nat, NEW y \in Nat, x \div P <= y \div P
  PROVE  x \div Q <= y \div Q
<1> DEFINE a == y \div Q
           b == y \div P
           c == x \div P
           e == x \div Q
<1>1. Q \in Nat \ {0} /\ \A z \in Int : Q * z = P * (m * z)
  OBVIOUS
<1>2. /\ a \in Nat /\ b \in Nat /\ c \in Nat /\ e \in Nat /\ c <= b
      /\ y < Q * (a + 1) /\ P * b <= y /\ x < P * (c + 1) /\ Q * e <= x
  BY <1>1, Quotient
<1> HIDE DEF a, b, c, e
<1> DEFINE f == m * e
           c1 == c + 1
           a1 == a + 1
           Pf == P * f
           Pc == P * c1
           Pb == P * b
           Qa == Q * a1
<1>3. /\ f \in Int /\ c1 \in Int /\ a1 \in Int
      /\ Pf \in Int /\ Pc \in Int /\ Pb \in Int /\ Qa \in Int
      /\ Q * e = Pf
  BY <1>1, <1>2
<1>4. y < Qa /\ Pb <= y /\ x < Pc /\ Pf <= x
  BY <1>2, <1>3
<1>5. Pf < Pc
  <2> HIDE DEF Pf, Pc
  <2> QED
    BY <1>3, <1>4
<1>6. f < c1
  <2> HIDE DEF f, c1
  <2> QED
    BY <1>3, <1>5, TimesLess
<1>7. f <= b
  <2> HIDE DEF f
  <2> QED
    BY <1>2, <1>3, <1>6
<1>8. Pf <= Pb
  <2> HIDE DEF f
  <2> QED
    BY <1>2, <1>3, <1>7, TimesLess
<1>9. Q * e < Qa
  <2> HIDE DEF Pf, Pb, Qa
  <2> QED
    BY <1>3, <1>4, <1>8
<1>10. e < a1
  <2> HIDE DEF a1
  <2> QED
    BY <1>1, <1>2, <1>3, <1>9, TimesLess
<1>11. e <= a
  BY <1>2, <1>10
<1> QED
  BY <1>11 DEF e, a

LEMMA StillFirst ==
  ASSUME NEW s \in Seq(Messages), Len(s) # 0, NEW P \in Nat \ {0},
         NEW Q, Multiple(Q, P), PeriodIn(s, P, Len(s)) = PeriodIn(s, P, 1)
  PROVE  PeriodIn(s, Q, Len(s)) = PeriodIn(s, Q, 1)
<1> DEFINE n == Len(s)
<1>0. PICK m \in Nat \ {0} : Q = P * m
  BY DEF Multiple
<1>1. n \in Nat /\ 1 \in 1..n /\ n \in 1..n /\ Q \in Nat \ {0}
  BY <1>0
<1>2. \A j \in 1..n : s[j].ts \in Nat
  <2>1. \A j \in 1..n : s[j] \in Messages
    OBVIOUS
  <2>2. \A j \in 1..n : s[j].ts \in Timestamps
    BY <2>1 DEF Messages
  <2> QED
    BY <2>2, FeedStatisticsAssumption
<1>3. ASSUME NEW T \in Nat \ {0} PROVE PeriodIn(s, T, 1) = s[1].ts \div T
  <2>1. PICK j \in 1..1 : PeriodIn(s, T, 1) = s[j].ts \div T
    BY <1>1, PeriodTyped
  <2>2. j = 1
    OBVIOUS
  <2> QED
    BY <2>1, <2>2
<1>4. \A j \in 1..n : s[j].ts \div P <= s[1].ts \div P
  <2>1. \A j \in 1..n : s[j].ts \div P <= PeriodIn(s, P, n)
    BY <1>1, PeriodTyped
  <2> QED
    BY <1>3, <2>1
<1>5. ASSUME NEW j \in 1..n PROVE s[j].ts \div Q <= s[1].ts \div Q
  <2> DEFINE x == s[j].ts
             y == s[1].ts
  <2>1. x \in Nat /\ y \in Nat /\ x \div P <= y \div P
    BY <1>1, <1>2, <1>4
  <2> HIDE DEF x, y
  <2>2. x \div Q <= y \div Q
    BY <1>0, <2>1, Coarser
  <2> QED
    BY <2>2 DEF x, y
<1>6. PICK j \in 1..n : PeriodIn(s, Q, n) = s[j].ts \div Q
  BY <1>1, PeriodTyped
<1>7. s[1].ts \div Q <= PeriodIn(s, Q, n)
  BY <1>1, PeriodTyped
<1>8. PeriodIn(s, Q, 1) = s[1].ts \div Q
  BY <1>1, <1>3
<1>9. PeriodIn(s, Q, 1) \in 0..SampleLimit /\ PeriodIn(s, Q, n) \in 0..SampleLimit
  BY <1>1, PeriodTyped
<1> QED
  BY <1>5, <1>6, <1>7, <1>8, <1>9, HistogramAssumption

LEMMA SecondsAreCoarser ==
  /\ "sec" \in Scales
  /\ \A s \in Scales : Multiple(Period["sec"], Period[s])
<1>1. Buckets \in Nat \ {0}
  BY FeedStatisticsAssumption
<1> DEFINE B == Buckets * Buckets
<1>2. B \in Nat \ {0} /\ B = 1 * B /\ B = B * 1
  BY <1>1
<1>3. B = Buckets * Buckets
  OBVIOUS
<1> HIDE DEF B
<1>4. Period = [usec |-> 1, msec |-> Buckets, sec |-> B]
  BY <1>3 DEF Period
<1>5. Scales = {"usec", "msec", "sec"}
  BY <1>4 DEF Scales
<1>6. Period["usec"] = 1 /\ Period["msec"] = Buckets /\ Period["sec"] = B
  BY <1>4
<1>7. /\ Period["sec"] = Period["usec"] * B
      /\ Period["sec"] = Period["msec"] * Buckets
      /\ Period["sec"] = Period["sec"] * 1
  BY <1>2, <1>3, <1>6
<1>8. 1 \in Nat \ {0}
  OBVIOUS
<1> QED
  BY <1>1, <1>2, <1>5, <1>7, <1>8 DEF Multiple

\* The numbers of samples in the histograms.
Passed(s) == PeriodOf(s, Len(samples)) - PeriodOf(s, 1)

LEMMA Sizes ==
  ASSUME ArrivalInv, RateInv
  PROVE  /\ Len(samples) \in Nat
         /\ processing_latency_.nsamples = Len(samples)
         /\ interarrival_.nsamples = IF Len(samples) = 0 THEN 0 ELSE Len(samples) - 1
         /\ Len(samples) = 0 => \A s \in Scales : rates[s].histo.nsamples = 0
         /\ Len(samples) # 0 =>
               \A s \in Scales : /\ rates[s].histo.nsamples = Passed(s)
                                 /\ Passed(s) \in Nat
<1>1. samples \in Seq(Messages) /\ Len(samples) \in Nat
  BY DEF RateInv
<1>2. processing_latency_.nsamples = Len(samples)
  <2>1. Len(ProcessingLatencies) = Len(samples)
    BY <1>1, LatenciesAre DEF ProcessingLatencies
  <2> QED
    BY <2>1 DEF ArrivalInv, Tally
<1>3. interarrival_.nsamples = IF Len(samples) = 0 THEN 0 ELSE Len(samples) - 1
  <2>1. Len(Interarrivals) = IF Len(samples) = 0 THEN 0 ELSE Len(samples) - 1
    BY <1>1, InterarrivalsAre DEF Interarrivals
  <2>2. interarrival_.nsamples = Len(Interarrivals)
    BY DEF ArrivalInv, Tally
  <2> QED
    BY <2>1, <2>2
<1>4. ASSUME NEW s \in Scales, Len(samples) = 0 PROVE rates[s].histo.nsamples = 0
  <2>1. rates[s].histo = EmptyHistogram(RateCuts)
    BY <1>4 DEF RateInv, RateOK
  <2> QED
    BY <2>1 DEF EmptyHistogram
<1>5. ASSUME NEW s \in Scales, Len(samples) # 0
      PROVE  rates[s].histo.nsamples = Passed(s) /\ Passed(s) \in Nat
  <2> DEFINE p == Periods(samples, Period[s])
             n == Len(samples)
             h == rates[s].histo
  <2>1. Tally(h, MaxRate, EstimatesIn(samples, Period[s]))
    BY <1>5 DEF RateInv, RateOK
  <2>2. Estimates(EstimatesIn(samples, Period[s]), p, n)
    <3>1. Len(samples) < SampleLimit
      <4>1. MaxSamples \in 0..(SampleLimit - 1) /\ Len(samples) <= MaxSamples
        BY FeedStatisticsAssumption DEF RateInv
      <4> QED
        BY <1>1, <4>1, HistogramAssumption
    <3>2. Period[s] \in Nat \ {0}
      BY PeriodPositive
    <3> QED
      BY <1>1, <1>5, <3>1, <3>2, EstimatesAre
  <2>3. 1 \in 1..n /\ n \in 1..n
    BY <1>1, <1>5
  <2>4. /\ PeriodOf(s, 1) = p[1] /\ PeriodOf(s, n) = p[n] /\ p[1] <= p[n]
        /\ p[1] \in Nat /\ p[n] \in Nat
    BY <1>1, <1>5, <2>3, CountsOfScale
  <2> HIDE DEF p, h
  <2>5. h.nsamples = p[n] - p[1]
    BY <2>1, <2>2 DEF Tally, Estimates
  <2>6. Passed(s) = p[n] - p[1]
    BY <2>4 DEF Passed
  <2> QED
    BY <2>4, <2>5, <2>6 DEF h
<1> QED
  BY <1>1, <1>2, <1>3, <1>4, <1>5

LEMMA SlowestLast ==
  ASSUME RateInv, Len(samples) # 0, NEW s \in Scales, Passed(s) = 0
  PROVE  PeriodOf("sec", Len(samples)) = PeriodOf("sec", 1)
<1> DEFINE n == Len(samples)
           P == Period[s]
           Q == Period["sec"]
<1>1. samples \in Seq(Messages) /\ P \in Nat \ {0}
  BY PeriodPositive DEF RateInv
<1>2. Multiple(Q, P)
  BY SecondsAreCoarser
<1>3. \A t, i : PeriodOf(t, i) = PeriodIn(samples, Period[t], i)
  BY DEF PeriodOf, PeriodIn
<1>4. PeriodIn(samples, P, n) = PeriodIn(samples, P, 1)
  <2>1. 1 \in 1..n /\ n \in 1..n
    BY <1>1
  <2>2. PeriodIn(samples, P, 1) \in 0..SampleLimit
        /\ PeriodIn(samples, P, n) \in 0..SampleLimit
    BY <1>1, <2>1, PeriodTyped
  <2>3. PeriodIn(samples, P, n) - PeriodIn(samples, P, 1) = 0
    BY <1>3 DEF Passed
  <2> HIDE DEF P
  <2> QED
    BY <2>2, <2>3, HistogramAssumption
<1> HIDE DEF P, Q
<1>5. PeriodIn(samples, Q, n) = PeriodIn(samples, Q, 1)
  BY <1>1, <1>2, <1>4, StillFirst
<1> QED
  BY <1>3, <1>5 DEF Q

\* A report failed because of what the histograms still say, and the summary
\* says what they do.
EndInv ==
    /\ status = "failed" => LogThrows
    /\ status # "unprinted"
    /\ status = "printed" =>
          csv = IF CanPrint THEN processing_latency_.nsamples ELSE 0

LEMMA InitEnd == Init => EndInv
  BY DEF Init, EndInv

LEMMA NextEnd == ASSUME ArrivalInv, RateInv, EndInv, [Next]_vars PROVE EndInv'
<1>1. ASSUME NEW ts \in Timestamps, NEW pl \in Latencies, record_sample(ts, pl)
      PROVE  EndInv'
  BY <1>1 DEF record_sample, EndInv
<1>2. CASE log_final_progress
  BY <1>2 DEF log_final_progress, EndInv, statistics, LogThrows, SomeRateEmpty
<1>3. CASE print_csv
  <2>1. ~ (CanPrint /\ SomeRateEmpty)
    <3> SUFFICES ASSUME CanPrint, NEW s \in Scales, rates[s].histo.nsamples = 0
                 PROVE  FALSE
      BY DEF SomeRateEmpty
    <3>1. rates[s].histo.nsamples > 0
      BY DEF CanPrint
    <3> QED
      BY <3>1
  <2>2. /\ status' = "printed"
        /\ csv' = IF CanPrint THEN processing_latency_.nsamples ELSE 0
        /\ UNCHANGED <<rates, interarrival_, processing_latency_>>
    BY <1>3, <2>1 DEF print_csv, statistics
  <2>3. CanPrint' = CanPrint
    BY <2>2 DEF CanPrint
  <2> QED
    BY <2>2, <2>3 DEF EndInv
<1>4. CASE UNCHANGED vars
  BY <1>4 DEF vars, statistics, EndInv, LogThrows, SomeRateEmpty, CanPrint
<1> QED
  BY <1>1, <1>2, <1>3, <1>4 DEF Next

LEMMA SpecEnd == Spec => [](ArrivalInv /\ RateInv /\ EndInv)
<1>1. ArrivalInv /\ RateInv /\ EndInv /\ [Next]_vars => EndInv'
  BY NextEnd
<1> QED
  BY <1>1, InitEnd, SpecArrivals, SpecRates, PTL DEF Spec

(* log_progress looks at the interarrival times only, and that is enough   *)
(* as soon as a period of the slowest rate is over, for every feed: the    *)
(* others have left their first period before.                             *)
THEOREM ReportsFailOnlyAtFirst == Spec => []FailsOnlyInFirstPeriod
<1>1. ArrivalInv /\ RateInv /\ EndInv => FailsOnlyInFirstPeriod
  <2> SUFFICES ASSUME ArrivalInv, RateInv, EndInv, status = "failed"
               PROVE  /\ Len(samples) >= 2
                      /\ PeriodOf("sec", Len(samples)) = PeriodOf("sec", 1)
    BY DEF FailsOnlyInFirstPeriod
  <2>1. interarrival_.nsamples > 0 /\ SomeRateEmpty
    BY DEF EndInv, LogThrows
  <2>2. Len(samples) >= 2
    BY <2>1, Sizes
  <2>3. PICK s \in Scales : rates[s].histo.nsamples = 0
    BY <2>1 DEF SomeRateEmpty
  <2>4. Len(samples) # 0 /\ Passed(s) = 0
    BY <2>2, <2>3, Sizes
  <2> QED
    BY <2>2, <2>4, SlowestLast
<1> QED
  BY <1>1, SpecEnd, PTL

(* print_csv never throws, and once a sampling period of the slowest rate  *)
(* is over its row counts all the messages of the feed.                    *)
THEOREM SummaryCorrect == Spec => []SummaryComplete
<1>1. ArrivalInv /\ RateInv /\ EndInv => SummaryComplete
  <2> SUFFICES ASSUME ArrivalInv, RateInv, EndInv, status = "printed",
                      samples # << >>,
                      PeriodOf("sec", Len(samples)) > PeriodOf("sec", 1)
               PROVE  csv = Len(samples)
    BY DEF EndInv, SummaryComplete, SlowestPeriodOver
  <2> DEFINE n == Len(samples)
             a == PeriodOf("sec", 1)
             b == PeriodOf("sec", n)
  <2>1. csv = IF CanPrint THEN n ELSE 0
    BY Sizes DEF EndInv
  <2>2. samples \in Seq(Messages) /\ n \in Nat /\ n # 0
    BY DEF RateInv
  <2>3. \A s \in Scales : rates[s].histo.nsamples = Passed(s) /\ Passed(s) \in Nat
    BY <2>2, Sizes
  <2>4. a \in Int /\ b \in Int /\ b > a
    <3>1. 1 \in 1..n /\ n \in 1..n /\ "sec" \in Scales
      BY <2>2, SecondsAreCoarser
    <3>2. a \in Nat /\ b \in Nat
      BY <2>2, <3>1, CountsOfScale
    <3>3. b > a
      OBVIOUS
    <3> HIDE DEF a, b
    <3> QED
      BY <3>2, <3>3
  <2> HIDE DEF a, b
  <2>5. ASSUME NEW s \in Scales PROVE rates[s].histo.nsamples > 0
    <3>1. Passed(s) # 0
      <4> SUFFICES ASSUME Passed(s) = 0 PROVE FALSE
        OBVIOUS
      <4>1. b = a
        BY <2>2, SlowestLast DEF a, b
      <4> QED
        BY <2>4, <4>1
    <3> QED
      BY <2>3, <3>1
  <2>6. n # 1
    <3> SUFFICES ASSUME n = 1 PROVE FALSE
      OBVIOUS
    <3>1. b = a
      BY DEF a, b
    <3> QED
      BY <2>4, <3>1
  <2>7. interarrival_.nsamples > 0 /\ processing_latency_.nsamples > 0
    <3>1. processing_latency_.nsamples = n
          /\ interarrival_.nsamples = IF n = 0 THEN 0 ELSE n - 1
      BY Sizes
    <3> HIDE DEF n
    <3> QED
      BY <2>2, <2>6, <3>1
  <2>8. CanPrint
    BY <2>5, <2>7 DEF CanPrint
  <2> QED
    BY <2>1, <2>8
<1> QED
  BY <1>1, SpecEnd, PTL
-----------------------------------------------------------------------------
(* Quantiles.  What a histogram knows of its values is how many of them    *)
(* are not above the numbers around its bins.                              *)
AtOrBelow(values, y) == Cardinality({k \in 1..Len(values) : values[k] <= y})

LEMMA ValuesTyped ==
  ASSUME NEW values \in Seq(SampleValues)
  PROVE  /\ Len(values) \in Nat
         /\ \A k \in 1..Len(values) : /\ values[k] \in Int
                                      /\ -SampleLimit <= values[k]
                                      /\ values[k] < SampleLimit
<1>1. \A k \in 1..Len(values) : values[k] \in SampleValues
  OBVIOUS
<1>2. \A x \in SampleValues : x \in Int /\ -SampleLimit <= x /\ x < SampleLimit
  BY HistogramAssumption DEF SampleValues
<1> QED
  BY <1>1, <1>2

LEMMA CountsAdd ==
  ASSUME NEW values \in Seq(SampleValues), NEW lo \in Int, NEW hi \in Int, lo <= hi
  PROVE  /\ AtOrBelow(values, lo) \in Nat
         /\ Between(values, lo + 1, hi + 1) \in Nat
         /\ AtOrBelow(values, hi) =
               AtOrBelow(values, lo) + Between(values, lo + 1, hi + 1)
<1> DEFINE D == 1..Len(values)
           S == {k \in D : values[k] <= lo}
           T == {k \in D : lo + 1 <= values[k] /\ values[k] < hi + 1}
           U == {k \in D : values[k] <= hi}
<1>1. IsFiniteSet(D) /\ \A k \in D : values[k] \in Int
  <2>1. \A k \in D : values[k] \in Int
    BY ValuesTyped
  <2>2. IsFiniteSet(D)
    BY FS_Interval
  <2> QED
    BY <2>1, <2>2
<1> HIDE DEF D
<1>2. U = S \cup T
  BY <1>1
<1>3. S \cap T = {}
  BY <1>1
<1>4. S \in SUBSET D /\ T \in SUBSET D
  OBVIOUS
<1>5. /\ AtOrBelow(values, lo) = Cardinality(S) /\ AtOrBelow(values, hi) = Cardinality(U)
      /\ Between(values, lo + 1, hi + 1) = Cardinality(T)
  BY DEF AtOrBelow, Between, D
<1> HIDE DEF S, T, U
<1>6. IsFiniteSet(S) /\ IsFiniteSet(T)
  BY <1>1, <1>4, FS_Subset
<1>7. Cardinality(S) \in Nat /\ Cardinality(T) \in Nat /\ Cardinality(S \cap T) = 0
  BY <1>3, <1>6, FS_CardinalityType, FS_EmptySet
<1>8. Cardinality(S \cup T) = Cardinality(S) + Cardinality(T) - Cardinality(S \cap T)
  BY <1>6, FS_Union
<1> QED
  BY <1>2, <1>5, <1>7, <1>8

LEMMA CountIsZero ==
  ASSUME NEW values \in Seq(SampleValues), NEW y \in Int
  PROVE  (AtOrBelow(values, y) # 0) <=> (\E k \in 1..Len(values) : values[k] <= y)
<1> DEFINE S == {k \in 1..Len(values) : values[k] <= y}
<1>1. IsFiniteSet(S)
  <2>1. IsFiniteSet(1..Len(values)) /\ S \in SUBSET (1..Len(values))
    BY ValuesTyped, FS_Interval
  <2> HIDE DEF S
  <2> QED
    BY <2>1, FS_Subset
<1>2. AtOrBelow(values, y) = Cardinality(S)
  BY DEF AtOrBelow
<1>3. S # {} <=> \E k \in 1..Len(values) : values[k] <= y
  OBVIOUS
<1> HIDE DEF S
<1>4. Cardinality(S) = 0 <=> S = {}
  BY <1>1, FS_EmptySet
<1> QED
  BY <1>2, <1>3, <1>4

LEMMA CountIsAll ==
  ASSUME NEW values \in Seq(SampleValues), NEW y \in Int,
         \A k \in 1..Len(values) : values[k] <= y
  PROVE  AtOrBelow(values, y) = Len(values)
<1>1. {k \in 1..Len(values) : values[k] <= y} = 1..Len(values)
  OBVIOUS
<1>2. Cardinality(1..Len(values)) = Len(values)
  <2>1. Len(values) \in Nat
    BY ValuesTyped
  <2> DEFINE n == Len(values)
  <2> HIDE DEF n
  <2>2. n \in Nat
    BY <2>1 DEF n
  <2>3. Cardinality(1..n) = n
    BY <2>2, FS_Interval
  <2> QED
    BY <2>3 DEF n
<1> QED
  BY <1>1, <1>2 DEF AtOrBelow

LEMMA CountUpTo ==
  ASSUME NEW values \in Seq(SampleValues), NEW y \in Int
  PROVE  AtOrBelow(values, y) \in Nat /\ AtOrBelow(values, y) <= Len(values)
<1> DEFINE S == {k \in 1..Len(values) : values[k] <= y}
           n == Len(values)
<1>1. n \in Nat /\ S \in SUBSET (1..n) /\ AtOrBelow(values, y) = Cardinality(S)
  BY ValuesTyped DEF AtOrBelow
<1> HIDE DEF S, n
<1>2. IsFiniteSet(1..n) /\ Cardinality(1..n) = n
  BY <1>1, FS_Interval
<1>3. IsFiniteSet(S) /\ Cardinality(S) <= n
  BY <1>1, <1>2, FS_Subset
<1>4. Cardinality(S) \in Nat
  BY <1>3, FS_CardinalityType
<1> QED
  BY <1>1, <1>3, <1>4 DEF n

\* A histogram in terms of these counts.
CountsIn(h, top, values) ==
    /\ h.nsamples = Len(values)
    /\ h.underflow_count = AtOrBelow(values, -1)
    /\ h.overflow_count = Len(values) - AtOrBelow(values, top - 1)
    /\ DOMAIN h.bins = 1..top
    /\ \A i \in 1..top : h.bins[i] = AtOrBelow(values, i - 1) - AtOrBelow(values, i - 2)
    /\ \A i \in 1..(top + 1) : Cumulated(h, i) = AtOrBelow(values, i - 2)

LEMMA CountsOfTally ==
  ASSUME NEW top \in Nat \ {0}, NEW h, NEW values, Tally(h, top, values)
  PROVE  CountsIn(h, top, values)
<1> DEFINE C(y) == AtOrBelow(values, y)
           bins == h.bins
           n == Len(values)
<1>1. /\ IsHistogram(h, top) /\ values \in Seq(SampleValues)
      /\ h.nsamples = n
      /\ h.underflow_count = Between(values, -SampleLimit, 0)
      /\ h.overflow_count = Between(values, top, SampleLimit)
      /\ \A i \in 1..top : bins[i] = Between(values, i - 1, i)
  BY DEF Tally
<1>2. bins \in [1..top -> Nat] /\ DOMAIN bins = 1..top
  BY <1>1 DEF IsHistogram
<1>3. \A y \in Int : C(y) \in Nat /\ C(y) <= n
  BY <1>1, CountUpTo
<1>4. \A lo, hi \in Int : lo <= hi => C(hi) = C(lo) + Between(values, lo + 1, hi + 1)
  BY <1>1, CountsAdd
<1>5. C((-SampleLimit) - 1) = 0
  <2>1. (-SampleLimit) - 1 \in Int
    BY HistogramAssumption
  <2>2. ASSUME NEW k \in 1..n, values[k] <= (-SampleLimit) - 1 PROVE FALSE
    BY <1>1, <2>2, ValuesTyped, HistogramAssumption
  <2> QED
    BY <1>1, <2>1, <2>2, CountIsZero
<1>6. C(SampleLimit - 1) = n
  <2>1. SampleLimit - 1 \in Int
    BY HistogramAssumption
  <2>2. \A k \in 1..n : values[k] <= SampleLimit - 1
    BY <1>1, ValuesTyped, HistogramAssumption
  <2> QED
    BY <1>1, <2>1, <2>2, CountIsAll
<1>7. n \in Nat
  BY <1>1
<1>8. ASSUME NEW i \in 1..top PROVE bins[i] = C(i - 1) - C(i - 2)
  <2>1. i - 2 \in Int /\ i - 1 \in Int /\ i - 2 <= i - 1
        /\ (i - 2) + 1 = i - 1 /\ (i - 1) + 1 = i
    OBVIOUS
  <2>2. C(i - 1) = C(i - 2) + Between(values, i - 1, i)
    BY <1>4, <2>1
  <2>3. C(i - 1) \in Nat /\ C(i - 2) \in Nat
    BY <1>3, <2>1
  <2>4. bins[i] \in Nat /\ bins[i] = Between(values, i - 1, i)
    BY <1>1, <1>2
  <2> HIDE DEF C, bins
  <2> QED
    BY <2>2, <2>3, <2>4
<1> HIDE DEF C, bins, n
<1>9. h.underflow_count = C(-1)
  <2> DEFINE lo == (-SampleLimit) - 1
  <2>1. CASE SampleLimit = 0
    <3>1. n = 0
      <4> SUFFICES ASSUME n # 0 PROVE FALSE
        OBVIOUS
      <4>1. 1 \in 1..n
        BY <1>7
      <4>2. -SampleLimit <= values[1] /\ values[1] < SampleLimit /\ values[1] \in Int
        BY <1>1, <4>1, ValuesTyped DEF n
      <4> QED
        BY <2>1, <4>2
    <3>2. \A y \in Int : C(y) = 0
      BY <1>3, <3>1
    <3>3. Between(values, -SampleLimit, 0) = 0
      <4>1. {k \in 1..Len(values) : -SampleLimit <= values[k] /\ values[k] < 0} = {}
        BY <3>1 DEF n
      <4> QED
        BY <4>1, FS_EmptySet DEF Between
    <3> QED
      BY <1>1, <3>2, <3>3
  <2>2. CASE SampleLimit # 0
    <3>1. lo \in Int /\ -1 \in Int /\ lo <= -1 /\ lo + 1 = -SampleLimit /\ (-1) + 1 = 0
      BY <2>2, HistogramAssumption
    <3>2. C(-1) = C(lo) + Between(values, -SampleLimit, 0)
      BY <1>4, <3>1
    <3>3. C(lo) = 0 /\ C(-1) \in Nat
      BY <1>3, <1>5, <3>1
    <3>4. h.underflow_count \in Nat
      BY <1>1 DEF IsHistogram
    <3> HIDE DEF lo
    <3> QED
      BY <1>1, <3>2, <3>3, <3>4
  <2> QED
    BY <2>1, <2>2
<1>10. h.overflow_count = n - C(top - 1)
  <2>1. h.overflow_count \in Nat /\ C(top - 1) \in Nat /\ C(top - 1) <= n
    BY <1>1, <1>3 DEF IsHistogram
  <2>2. CASE top <= SampleLimit
    <3>1. top - 1 \in Int /\ SampleLimit - 1 \in Int /\ top - 1 <= SampleLimit - 1
          /\ (top - 1) + 1 = top /\ (SampleLimit - 1) + 1 = SampleLimit
      BY <2>2, HistogramAssumption
    <3>2. C(SampleLimit - 1) = C(top - 1) + Between(values, top, SampleLimit)
      BY <1>4, <3>1
    <3> QED
      BY <1>1, <1>6, <1>7, <2>1, <3>2
  <2>3. CASE SampleLimit < top
    <3>1. {k \in 1..Len(values) : top <= values[k] /\ values[k] < SampleLimit} = {}
      BY <1>1, <2>3, ValuesTyped, HistogramAssumption
    <3>2. Between(values, top, SampleLimit) = 0
      BY <3>1, FS_EmptySet DEF Between
    <3>3. \A k \in 1..Len(values) : values[k] <= top - 1
      BY <1>1, <2>3, ValuesTyped, HistogramAssumption
    <3>4. C(top - 1) = n
      BY <1>1, <3>3, CountIsAll DEF C, n
    <3> QED
      BY <1>1, <1>7, <3>2, <3>4
  <2> QED
    BY <2>2, <2>3, HistogramAssumption
<1>11. ASSUME NEW i \in 1..(top + 1)
       PROVE  Cumulated(h, i) = C(i - 2)
  <2> DEFINE Bad == {j \in 0..top : SumFunctionOnSet(bins, 1..j) # C(j - 1) - C(-1)}
  <2>1. Bad = {}
    <3> SUFFICES ASSUME Bad # {} PROVE FALSE
      OBVIOUS
    <3>1. PICK j \in Bad : \A k \in Bad : j <= k
      <4>1. Bad \in SUBSET (0..top)
        OBVIOUS
      <4> HIDE DEF Bad
      <4> QED
        BY <4>1, SmallestNumber
    <3>2. CASE j = 0
      <4>1. 1..j = {} /\ SumFunctionOnSet(bins, {}) = 0
        <5>1. 1..j = {}
          BY <3>2
        <5> QED
          BY <5>1, FS_EmptySet, SumUnfolded
      <4>2. C(j - 1) - C(-1) = 0
        <5>1. j - 1 = -1
          BY <3>2
        <5>2. C(-1) \in Nat
          BY <1>3
        <5> QED
          BY <5>1, <5>2
      <4> QED
        BY <3>1, <4>1, <4>2
    <3>3. CASE j # 0
      <4> DEFINE m == j - 1
      <4>1. m \in 0..top /\ m < j /\ j \in 1..top /\ 1..j = (1..m) \cup {j} /\ j \notin 1..m
        BY <3>1, <3>3
      <4>2. SumFunctionOnSet(bins, 1..m) = C(m - 1) - C(-1)
        BY <3>1, <4>1
      <4>3. IsFiniteSet(1..m)
        BY <4>1, FS_Interval
      <4>4. \A k \in (1..m) \cup {j} : bins[k] \in Int
        BY <1>2, <4>1
      <4> DEFINE D == 1..m
      <4>5. SumFunctionOnSet(bins, D \cup {j}) = bins[j] + SumFunctionOnSet(bins, D)
        <5>1. IsFiniteSet(D) /\ j \notin D /\ \A k \in D \cup {j} : bins[k] \in Int
          BY <4>1, <4>3, <4>4
        <5> HIDE DEF D
        <5> QED
          BY <5>1, SumAdd
      <4>6. bins[j] = C(j - 1) - C(j - 2) /\ m - 1 = j - 2
        BY <1>8, <4>1
      <4>7. C(j - 1) \in Nat /\ C(j - 2) \in Nat /\ C(-1) \in Nat
        <5>1. j - 1 \in Int /\ j - 2 \in Int /\ -1 \in Int
          BY <4>1
        <5> QED
          BY <1>3, <5>1
      <4>8. SumFunctionOnSet(bins, 1..j) # C(j - 1) - C(-1)
        BY <3>1
      <4>9. SumFunctionOnSet(bins, 1..j) = bins[j] + SumFunctionOnSet(bins, D)
        BY <4>1, <4>5
      <4>10. SumFunctionOnSet(bins, D) = C(j - 2) - C(-1)
        BY <4>2, <4>6
      <4> HIDE DEF D, m, Bad
      <4> QED
        BY <4>6, <4>7, <4>8, <4>9, <4>10
    <3> QED
      BY <3>2, <3>3
  <2>2. SumFunctionOnSet(bins, 1..(i - 1)) = C(i - 2) - C(-1)
    <3>1. i - 1 \in 0..top /\ (i - 1) - 1 = i - 2
      OBVIOUS
    <3> QED
      BY <2>1, <3>1
  <2>3. Cumulated(h, i) = h.underflow_count + SumFunctionOnSet(bins, 1..(i - 1))
    BY DEF Cumulated, SumFunctionOnSet, bins
  <2>4. C(i - 2) \in Nat /\ C(-1) \in Nat
    BY <1>3
  <2> QED
    BY <1>9, <2>2, <2>3, <2>4
<1> QED
  BY <1>1, <1>2, <1>8, <1>9, <1>10, <1>11 DEF CountsIn, C, bins, n
-----------------------------------------------------------------------------
(* Interpolation: a share of the width of a bin is within the bin, and a   *)
(* higher quantile has no smaller share.                                   *)
LEMMA SharesGrow ==
  ASSUME NEW B \in Nat \ {0}, NEW u \in Nat, NEW v \in Nat, u <= v
  PROVE  u \div B \in Nat /\ v \div B \in Nat /\ u \div B <= v \div B
<1> DEFINE c == u \div B
           d == v \div B
           d1 == d + 1
<1>1. /\ c \in Nat /\ d \in Nat /\ d1 \in Int
      /\ B * c <= u /\ v < B * d1
  BY Quotient
<1> HIDE DEF c, d
<1>2. B * c \in Int /\ B * d1 \in Int
  <2> HIDE DEF d1
  <2> QED
    BY <1>1
<1>3. B * c < B * d1
  <2> DEFINE x == B * c
             y == B * d1
  <2>1. x \in Int /\ y \in Int /\ x <= u /\ v < y
    BY <1>1, <1>2
  <2> HIDE DEF x, y
  <2>2. x < y
    BY <2>1
  <2> QED
    BY <2>2 DEF x, y
<1>4. c < d1
  <2> HIDE DEF d1
  <2> QED
    BY <1>1, <1>3, TimesLess
<1> QED
  BY <1>1, <1>4 DEF c, d

LEMMA WholeShare ==
  ASSUME NEW B \in Nat \ {0}, NEW D \in Nat
  PROVE  B * D \in Nat /\ (B * D) \div B = D
<1> DEFINE u == B * D
           c == u \div B
           c1 == c + 1
           D1 == D + 1
<1>1. u \in Nat /\ B * D1 = u + B /\ B * D1 \in Int
  OBVIOUS
<1> HIDE DEF u
<1>2. c \in Nat /\ c1 \in Int /\ B * c <= u /\ u < B * c1
  BY <1>1, Quotient
<1> HIDE DEF c
<1>3. D < c1
  <2>1. B * D < B * c1
    BY <1>2 DEF u
  <2> HIDE DEF c1
  <2> QED
    BY <1>2, <2>1, TimesLess
<1>4. c < D1
  <2>1. B * c < B * D1
    <3> DEFINE x == B * c
               y == B * D1
    <3>1. x \in Int /\ y \in Int /\ x <= u /\ y = u + B
      BY <1>1, <1>2
    <3> HIDE DEF x, y
    <3>2. x < y
      BY <1>1, <3>1
    <3> QED
      BY <3>2 DEF x, y
  <2> HIDE DEF D1
  <2>2. D1 \in Int
    BY DEF D1
  <2> QED
    BY <1>2, <2>1, <2>2, TimesLess
<1> QED
  BY <1>1, <1>2, <1>3, <1>4 DEF c, u

\* What interpolate is asked for: q is between the ends of the bin.
IsBin(a, b, cum, bin, n, q) ==
    /\ a \in Int /\ b \in Int /\ a <= b
    /\ cum \in Nat /\ bin \in Nat \ {0} /\ n \in Nat /\ q \in Nat
    /\ 100 * cum <= q * n /\ q * n <= 100 * (cum + bin)

LEMMA Interpolated ==
  ASSUME NEW a, NEW b, NEW cum, NEW bin, NEW n, NEW q, IsBin(a, b, cum, bin, n, q),
         NEW e, e = interpolate(a, b, cum, bin, n, q)
  PROVE  e \in Int /\ a <= e /\ e <= b
<1> DEFINE x == q * n
           A == x - 100 * cum
           B == 100 * bin
           D == b - a
           u == A * D
           v == B * D
<1>1. /\ a \in Int /\ b \in Int /\ D \in Nat /\ x \in Nat
      /\ cum \in Nat /\ bin \in Nat \ {0} /\ 100 * cum <= x /\ x <= 100 * (cum + bin)
  <2>1. n \in Nat /\ q \in Nat
    BY DEF IsBin
  <2>2. x \in Nat
    BY <2>1
  <2> HIDE DEF x
  <2>3. /\ a \in Int /\ b \in Int /\ a <= b /\ cum \in Nat /\ bin \in Nat \ {0}
        /\ 100 * cum <= x /\ x <= 100 * (cum + bin)
    BY DEF IsBin, x
  <2>4. D \in Nat
    BY <2>3
  <2> QED
    BY <2>2, <2>3, <2>4
<1> HIDE DEF x
<1>2. A \in Nat /\ B \in Nat \ {0} /\ A <= B
  BY <1>1
<1>3. e = a + u \div B
  BY DEF interpolate, x
<1> HIDE DEF A, B
<1>4. u \in Nat /\ v \in Nat /\ u <= v
  <2>1. D \in Nat
    BY <1>1
  <2> HIDE DEF D
  <2> QED
    BY <1>2, <2>1
<1>5. v \div B = D
  <2>1. D \in Nat
    BY <1>1
  <2> HIDE DEF D
  <2> QED
    BY <1>2, <2>1, WholeShare
<1> HIDE DEF u, v
<1>6. u \div B \in Nat /\ u \div B <= D
  BY <1>2, <1>4, <1>5, SharesGrow
<1> DEFINE c == u \div B
<1>7. c \in Nat /\ c <= D /\ e = a + c
  BY <1>3, <1>6
<1> HIDE DEF c
<1> QED
  BY <1>1, <1>7 DEF D

LEMMA InterpolatedGrows ==
  ASSUME NEW a, NEW b, NEW cum, NEW bin, NEW n,
         NEW q, IsBin(a, b, cum, bin, n, q), NEW q2, IsBin(a, b, cum, bin, n, q2), q <= q2,
         NEW e, e = interpolate(a, b, cum, bin, n, q),
         NEW f, f = interpolate(a, b, cum, bin, n, q2)
  PROVE  e <= f
<1> DEFINE x == q * n
           y == q2 * n
           A == x - 100 * cum
           C == y - 100 * cum
           B == 100 * bin
           D == b - a
           u == A * D
           v == C * D
<1>1. n \in Nat /\ q \in Nat /\ q2 \in Nat
  BY DEF IsBin
<1>2. x \in Nat /\ y \in Nat /\ x <= y
  BY <1>1
<1> HIDE DEF x, y
<1>3. /\ a \in Int /\ b \in Int /\ a <= b /\ cum \in Nat /\ bin \in Nat \ {0}
      /\ 100 * cum <= x
  BY DEF IsBin, x
<1>4. A \in Nat /\ C \in Nat /\ A <= C /\ B \in Nat \ {0} /\ D \in Nat
  BY <1>2, <1>3
<1>5. e = a + u \div B /\ f = a + v \div B
  BY DEF interpolate, x, y
<1> HIDE DEF A, C, B, D
<1>6. u \in Nat /\ v \in Nat /\ u <= v
  BY <1>4
<1> HIDE DEF u, v
<1>7. u \div B \in Nat /\ v \div B \in Nat /\ u \div B <= v \div B
  BY <1>4, <1>6, SharesGrow
<1> DEFINE c == u \div B
           d == v \div B
<1>8. c \in Nat /\ d \in Nat /\ c <= d /\ e = a + c /\ f = a + d
  BY <1>5, <1>7
<1> HIDE DEF c, d
<1> QED
  BY <1>3, <1>8
-----------------------------------------------------------------------------
(* The true quantile, in terms of the counts: it is the first value that   *)
(* has a fraction of at least q up to it.                                  *)
Reaches(values, q, y) == q * Len(values) <= 100 * AtOrBelow(values, y)

IsQuantile(values, q, x) ==
    /\ x \in Int /\ \E k \in 1..Len(values) : values[k] = x
    /\ Reaches(values, q, x)
    /\ \A y \in Int : y < x => AtOrBelow(values, y) = 0 \/ ~ Reaches(values, q, y)

LEMMA TrueQuantileIs ==
  ASSUME NEW values \in Seq(SampleValues), Len(values) # 0, NEW q \in 0..100
  PROVE  IsQuantile(values, q, TrueQuantile(values, q))
<1> DEFINE V == {values[k] : k \in 1..Len(values)}
           S == {x \in V : Reaches(values, q, x)}
           n == Len(values)
<1>1. n \in Nat /\ n # 0 /\ \A k \in 1..n : values[k] \in (-SampleLimit)..SampleLimit
  BY ValuesTyped, HistogramAssumption
<1>2. TrueQuantile(values, q) = Min(S)
  <2>1. DOMAIN values = 1..Len(values)
    OBVIOUS
  <2>2. ToSet(values) = V
    BY <2>1 DEF ToSet
  <2>3. \A x : AtOrBelow(values, x) = Cardinality({k \in DOMAIN values : values[k] <= x})
    BY <2>1 DEF AtOrBelow
  <2>4. \A x : Reaches(values, q, x) <=>
                  AtMost(q, Cardinality({k \in DOMAIN values : values[k] <= x}), Len(values))
    BY <2>3 DEF Reaches, AtMost
  <2> HIDE DEF V
  <2>5. S = {x \in ToSet(values) :
                AtMost(q, Cardinality({k \in DOMAIN values : values[k] <= x}), Len(values))}
    BY <2>2, <2>4
  <2> QED
    BY <2>5 DEF TrueQuantile
<1>3. V \in SUBSET ((-SampleLimit)..SampleLimit) /\ V # {}
  <2>1. 1 \in 1..n
    BY <1>1
  <2> QED
    BY <1>1, <2>1
<1>4. \A x \in V : x \in Int
  BY <1>3
<1>5. Max(V) \in V /\ \A x \in V : Max(V) >= x
  <2> HIDE DEF V
  <2> QED
    BY <1>3, HistogramAssumption, MaxMinOfInts
<1>6. Max(V) \in S
  <2>1. Max(V) \in Int /\ \A k \in 1..Len(values) : values[k] <= Max(V)
    BY <1>4, <1>5
  <2>2. AtOrBelow(values, Max(V)) = n
    <3> DEFINE y == Max(V)
    <3> HIDE DEF y
    <3>1. y \in Int /\ \A k \in 1..Len(values) : values[k] <= y
      BY <2>1 DEF y
    <3>2. AtOrBelow(values, y) = Len(values)
      BY <3>1, CountIsAll
    <3> QED
      BY <3>2 DEF y
  <2> HIDE DEF n
  <2>3. q * n <= 100 * n
    BY <1>1
  <2>4. Reaches(values, q, Max(V))
    BY <2>2, <2>3 DEF Reaches, n
  <2> QED
    BY <1>5, <2>4
<1> DEFINE x == Min(S)
<1>7. x \in S /\ \A y \in S : x <= y
  <2>1. S \in SUBSET ((-SampleLimit)..SampleLimit) /\ S # {}
    BY <1>3, <1>6
  <2> HIDE DEF S
  <2> QED
    BY <2>1, HistogramAssumption, MaxMinOfInts
<1>8. x \in Int /\ x \in V /\ Reaches(values, q, x)
  BY <1>4, <1>7
<1> HIDE DEF x
<1>9. ASSUME NEW y \in Int, y < x, AtOrBelow(values, y) # 0, Reaches(values, q, y)
      PROVE  FALSE
  <2> DEFINE W == {z \in V : z <= y}
  <2>1. W # {}
    <3>1. \E k \in 1..Len(values) : values[k] <= y
      BY <1>9, CountIsZero
    <3> QED
      BY <3>1
  <2>2. W \in SUBSET ((-SampleLimit)..SampleLimit)
    BY <1>3
  <2>3. Max(W) \in W /\ \A z \in W : Max(W) >= z
    <3> HIDE DEF W
    <3> QED
      BY <2>1, <2>2, HistogramAssumption, MaxMinOfInts
  <2> DEFINE z == Max(W)
  <2>4. z \in V /\ z \in Int /\ z <= y
    BY <1>4, <2>3
  <2>5. \A k \in 1..Len(values) : values[k] <= y <=> values[k] <= z
    <3>1. ASSUME NEW k \in 1..Len(values), values[k] <= y PROVE values[k] <= z
      <4>1. values[k] \in W /\ values[k] \in Int
        BY <1>4, <3>1
      <4> HIDE DEF W
      <4> QED
        BY <2>3, <2>4, <4>1
    <3>2. ASSUME NEW k \in 1..Len(values), values[k] <= z PROVE values[k] <= y
      <4>1. values[k] \in Int
        BY <1>4
      <4> HIDE DEF z
      <4> QED
        BY <2>4, <3>2, <4>1
    <3> QED
      BY <3>1, <3>2
  <2> HIDE DEF z
  <2>6. {k \in 1..Len(values) : values[k] <= y} = {k \in 1..Len(values) : values[k] <= z}
    BY <2>5
  <2>7. Reaches(values, q, z)
    BY <1>9, <2>6 DEF Reaches, AtOrBelow
  <2>8. z \in S
    BY <2>4, <2>7
  <2> HIDE DEF S
  <2> QED
    BY <1>7, <1>8, <1>9, <2>4, <2>8 DEF x
<1>10. \E k \in 1..Len(values) : values[k] = x
  BY <1>8
<1>11. IsQuantile(values, q, x)
  <2> HIDE DEF S, V, n
  <2> QED
    BY <1>8, <1>9, <1>10 DEF IsQuantile
<1> QED
  BY <1>2, <1>11 DEF x

LEMMA QuantilesGrow ==
  ASSUME NEW values \in Seq(SampleValues), NEW q \in 0..100, NEW q2 \in 0..100, q <= q2,
         NEW x, IsQuantile(values, q, x), NEW y, IsQuantile(values, q2, y)
  PROVE  x <= y
<1> SUFFICES ASSUME y < x PROVE FALSE
  BY DEF IsQuantile
<1> DEFINE n == Len(values)
           a == AtOrBelow(values, y)
<1>1. n \in Nat /\ x \in Int /\ y \in Int /\ a \in Nat
  BY ValuesTyped, CountUpTo DEF IsQuantile
<1>2. a # 0
  <2>1. PICK k \in 1..Len(values) : values[k] = y
    BY DEF IsQuantile
  <2>2. values[k] <= y
    BY <1>1, <2>1
  <2> QED
    BY <1>1, <2>2, CountIsZero
<1>3. ~ (q * n <= 100 * a) /\ q2 * n <= 100 * a
  BY <1>1, <1>2 DEF IsQuantile, Reaches
<1> HIDE DEF n, a
<1>4. q * n <= q2 * n /\ q * n \in Nat /\ q2 * n \in Nat
  BY <1>1
<1> DEFINE u == q * n
           v == q2 * n
<1>5. u \in Nat /\ v \in Nat /\ u <= v /\ ~ (u <= 100 * a) /\ v <= 100 * a
  BY <1>3, <1>4
<1> HIDE DEF u, v
<1> QED
  BY <1>1, <1>5
-----------------------------------------------------------------------------
(* What estimated_quantile finds: the part of the histogram that holds the *)
(* true quantile x, and it interpolates there.                             *)
LEMMA FirstReached ==
  ASSUME NEW values \in Seq(SampleValues), NEW q \in 0..100,
         NEW x, IsQuantile(values, q, x), NEW y \in Int
  PROVE  /\ q * Len(values) \in Nat /\ Len(values) \in Nat
         /\ AtOrBelow(values, y) \in Nat /\ AtOrBelow(values, y) <= Len(values)
         /\ x \in Int /\ AtOrBelow(values, x) \in Nat
         /\ x <= y => AtOrBelow(values, y) # 0 /\ Reaches(values, q, y)
         /\ y < x => /\ AtOrBelow(values, y) = 0 \/ ~ Reaches(values, q, y)
                     /\ 100 * AtOrBelow(values, y) <= q * Len(values)
                     /\ AtOrBelow(values, y) < AtOrBelow(values, x)
<1> DEFINE n == Len(values)
           u == q * n
           a == AtOrBelow(values, x)
           b == AtOrBelow(values, y)
<1>1. x \in Int /\ n \in Nat /\ b \in Nat /\ b <= n
  BY ValuesTyped, CountUpTo DEF IsQuantile
<1>2. a \in Nat /\ a # 0
  <2>1. PICK k \in 1..Len(values) : values[k] = x
    BY DEF IsQuantile
  <2>2. values[k] <= x
    BY <1>1, <2>1
  <2> QED
    BY <1>1, <2>2, CountIsZero, CountUpTo
<1>3. u \in Nat
  <2> HIDE DEF n
  <2> QED
    BY <1>1
<1>4. u <= 100 * a
  BY DEF IsQuantile, Reaches
<1>5. ASSUME x <= y PROVE a <= b
  <2>1. b = a + Between(values, x + 1, y + 1) /\ Between(values, x + 1, y + 1) \in Nat
    BY <1>1, <1>5, CountsAdd
  <2> HIDE DEF a, b
  <2> QED
    BY <1>1, <1>2, <2>1
<1>6. ASSUME y < x PROVE a = b + Between(values, y + 1, x + 1)
                         /\ Between(values, y + 1, x + 1) \in Nat
  BY <1>1, <1>6, CountsAdd
<1>7. y < x => b = 0 \/ ~ (u <= 100 * b)
  BY DEF IsQuantile, Reaches
<1>8. Reaches(values, q, y) <=> u <= 100 * b
  BY DEF Reaches
<1> HIDE DEF n, u, a, b
<1>9. x <= y => b # 0 /\ u <= 100 * b
  BY <1>1, <1>2, <1>3, <1>4, <1>5
<1>10. y < x => 100 * b <= u /\ b < a
  BY <1>1, <1>2, <1>3, <1>4, <1>7
<1> QED
  BY <1>1, <1>2, <1>3, <1>7, <1>8, <1>9, <1>10 DEF n, u, a, b

LEMMA EstimateBelow ==
  ASSUME NEW top \in Nat \ {0}, NEW h, NEW values, Tally(h, top, values),
         NEW q \in 0..100, NEW x, IsQuantile(values, q, x), x < 0
  PROVE  /\ estimated_quantile(h, IntegerRange(0, top), q) =
               interpolate(h.observed_min, 0, 0, AtOrBelow(values, -1), Len(values), q)
         /\ IsBin(h.observed_min, 0, 0, AtOrBelow(values, -1), Len(values), q)
         /\ h.observed_min <= x
<1> DEFINE n == Len(values)
           u == q * n
           c == AtOrBelow(values, -1)
           cuts == IntegerRange(0, top)
<1>1. values \in Seq(SampleValues) /\ IsHistogram(h, top) /\ Extremes(h, values)
  BY DEF Tally
<1>2. h.underflow_count = c /\ h.nsamples = n
  BY CountsOfTally DEF CountsIn
<1>3. -1 \in Int /\ x <= -1 /\ x \in Int
  <2>1. x \in Int
    BY DEF IsQuantile
  <2> QED
    BY <2>1
<1>4. u \in Nat /\ n \in Nat /\ c \in Nat /\ c # 0 /\ u <= 100 * c
  <2> DEFINE m == -1
  <2>1. m \in Int /\ x <= m /\ c = AtOrBelow(values, m)
    BY <1>3
  <2> HIDE DEF m, c
  <2>2. u \in Nat /\ n \in Nat /\ c \in Nat /\ c # 0 /\ Reaches(values, q, m)
    BY <1>1, <2>1, FirstReached
  <2> QED
    BY <2>1, <2>2 DEF Reaches
<1>5. histogram_min(cuts) = 0
  BY RangeOfCuts DEF histogram_min
<1>6. h.observed_min \in Int /\ h.observed_min <= x
  <2>1. PICK k \in 1..Len(values) : values[k] = x
    BY DEF IsQuantile
  <2>2. Len(values) # 0
    BY <2>1
  <2>3. h.observed_min <= values[k]
    BY <1>1, <2>1, <2>2 DEF Extremes
  <2> QED
    BY <1>1, <2>1, <2>3 DEF IsHistogram
<1> HIDE DEF cuts, c
<1>7. h.underflow_count > 0 /\ AtMost(q, h.underflow_count, h.nsamples)
  <2>1. c > 0 /\ q * n <= 100 * c
    BY <1>4
  <2> QED
    BY <1>2, <2>1 DEF AtMost
<1>8. estimated_quantile(h, cuts, q) = interpolate(h.observed_min, 0, 0, c, n, q)
  BY <1>2, <1>5, <1>7 DEF estimated_quantile
<1>9. IsBin(h.observed_min, 0, 0, c, n, q)
  <2>1. h.observed_min <= 0 /\ q \in Nat /\ 0 + c = c /\ 100 * 0 = 0
    BY <1>3, <1>4, <1>6
  <2>2. 100 * 0 <= q * n /\ q * n <= 100 * (0 + c)
    <3> HIDE DEF n
    <3>1. u \in Nat /\ u <= 100 * (0 + c)
      BY <1>4
    <3> HIDE DEF u
    <3>2. 100 * 0 <= u /\ u <= 100 * (0 + c)
      BY <3>1
    <3> QED
      BY <3>2 DEF u
  <2> HIDE DEF n
  <2> QED
    BY <1>4, <1>6, <2>1, <2>2 DEF IsBin
<1> QED
  BY <1>6, <1>8, <1>9 DEF cuts, c

\* Above the underflow it looks on.
LEMMA NoUnderflow ==
  ASSUME NEW top \in Nat \ {0}, NEW h, NEW values, Tally(h, top, values),
         NEW q \in 0..100, NEW x, IsQuantile(values, q, x), 0 <= x
  PROVE  ~ (h.underflow_count > 0 /\ AtMost(q, h.underflow_count, h.nsamples))
<1> DEFINE c == AtOrBelow(values, -1)
<1>1. values \in Seq(SampleValues) /\ x \in Int
  BY DEF Tally, IsQuantile
<1>2. h.underflow_count = c /\ h.nsamples = Len(values)
  BY CountsOfTally DEF CountsIn
<1>3. c \in Nat /\ (c = 0 \/ ~ Reaches(values, q, -1))
  <2>1. -1 \in Int /\ -1 < x
    BY <1>1
  <2> QED
    BY <1>1, <2>1, FirstReached
<1>4. Reaches(values, q, -1) <=> AtMost(q, c, Len(values))
  BY DEF Reaches, AtMost
<1> HIDE DEF c
<1> QED
  BY <1>2, <1>3, <1>4

\* The bins at which it can end are not before the quantile.
LEMMA HoldersAre ==
  ASSUME NEW top \in Nat \ {0}, NEW h, NEW values, Tally(h, top, values),
         NEW q \in 0..100, NEW x, IsQuantile(values, q, x)
  PROVE  /\ \A i \in Holders(h, q) : i \in 1..top /\ x < i
         /\ x \in 0..(top - 1) => x + 1 \in Holders(h, q)
<1> DEFINE C(y) == AtOrBelow(values, y)
<1>1. values \in Seq(SampleValues) /\ x \in Int
  BY DEF Tally, IsQuantile
<1>2. /\ h.nsamples = Len(values) /\ DOMAIN h.bins = 1..top
      /\ \A i \in 1..top : h.bins[i] = C(i - 1) - C(i - 2)
      /\ \A i \in 1..(top + 1) : Cumulated(h, i) = C(i - 2)
  <2>1. CountsIn(h, top, values)
    BY CountsOfTally
  <2> QED
    BY <2>1 DEF CountsIn
<1>3. \A y \in Int : /\ C(y) \in Nat
                     /\ x <= y => C(y) # 0 /\ Reaches(values, q, y)
                     /\ y < x => (C(y) = 0 \/ ~ Reaches(values, q, y)) /\ C(y) < C(x)
  BY <1>1, FirstReached
<1>4. \A y : Reaches(values, q, y) <=> AtMost(q, C(y), Len(values))
  BY DEF Reaches, AtMost
<1> HIDE DEF C
<1>5. ASSUME NEW i \in 1..top
      PROVE  i \in Holders(h, q) <=> C(i - 1) > C(i - 2) /\ Reaches(values, q, i - 1)
  <2>1. i + 1 \in 1..(top + 1) /\ (i + 1) - 2 = i - 1 /\ i - 1 \in Int /\ i - 2 \in Int
    OBVIOUS
  <2>2. Cumulated(h, i + 1) = C(i - 1)
    BY <1>2, <2>1
  <2>3. C(i - 1) \in Nat /\ C(i - 2) \in Nat
    BY <1>3, <2>1
  <2>4. h.bins[i] > 0 <=> C(i - 1) > C(i - 2)
    BY <1>2, <2>3
  <2>5. i \in Holders(h, q) <=> h.bins[i] > 0 /\ AtMost(q, C(i - 1), Len(values))
    BY <1>2, <2>2 DEF Holders
  <2> QED
    BY <1>4, <2>4, <2>5
<1>6. ASSUME NEW i \in Holders(h, q) PROVE i \in 1..top /\ x < i
  <2>1. i \in 1..top
    BY <1>2 DEF Holders
  <2>2. C(i - 1) > C(i - 2) /\ Reaches(values, q, i - 1)
    BY <1>5, <2>1
  <2>3. i - 1 \in Int /\ i - 2 \in Int
    BY <2>1
  <2>4. C(i - 1) # 0
    BY <1>3, <2>2, <2>3
  <2>5. ~ (i - 1 < x)
    BY <1>3, <2>2, <2>3, <2>4
  <2> QED
    BY <1>1, <2>1, <2>5
<1>7. ASSUME x \in 0..(top - 1) PROVE x + 1 \in Holders(h, q)
  <2> DEFINE i == x + 1
  <2>1. i \in 1..top /\ i - 1 = x /\ i - 2 = x - 1 /\ x - 1 \in Int /\ x - 1 < x
    BY <1>7
  <2>2. C(x - 1) < C(x) /\ C(x - 1) \in Nat /\ C(x) \in Nat
    BY <1>1, <1>3, <2>1
  <2>3. Reaches(values, q, x)
    BY DEF IsQuantile
  <2> HIDE DEF i
  <2>4. i \in Holders(h, q)
    BY <1>5, <2>1, <2>2, <2>3
  <2> QED
    BY <2>4 DEF i
<1> QED
  BY <1>6, <1>7

Interpolates(e, a, b, cum, bin, n, q) ==
    e = interpolate(a, b, cum, bin, n, q) /\ IsBin(a, b, cum, bin, n, q)

InsideBin(e, values, x, q) ==
    Interpolates(e, x, x + 1, AtOrBelow(values, x - 1),
                 AtOrBelow(values, x) - AtOrBelow(values, x - 1), Len(values), q)

LEMMA EstimateInside ==
  ASSUME NEW top \in Nat \ {0}, NEW h, NEW values, Tally(h, top, values),
         NEW q \in 0..100, NEW x, IsQuantile(values, q, x), x \in 0..(top - 1)
  PROVE  InsideBin(estimated_quantile(h, IntegerRange(0, top), q), values, x, q)
<1> DEFINE a == AtOrBelow(values, x - 1)
           b == AtOrBelow(values, x)
           n == Len(values)
           u == q * n
           i == x + 1
           cuts == IntegerRange(0, top)
<1>1. values \in Seq(SampleValues)
  BY DEF Tally
<1>2. /\ i \in 1..top /\ i \in 1..(top + 1) /\ i + 1 \in 1..(top + 1)
      /\ i - 1 = x /\ i - 2 = x - 1 /\ x - 1 \in Int /\ x - 1 < x
  OBVIOUS
<1>3. h.nsamples = n /\ h.bins[i] = b - a /\ Cumulated(h, i) = a
  <2>1. CountsIn(h, top, values)
    BY CountsOfTally
  <2>2. /\ h.nsamples = n
        /\ h.bins[i] = AtOrBelow(values, i - 1) - AtOrBelow(values, i - 2)
        /\ Cumulated(h, i) = AtOrBelow(values, i - 2)
    BY <1>2, <2>1 DEF CountsIn
  <2>3. AtOrBelow(values, i - 1) = b /\ AtOrBelow(values, i - 2) = a
    BY <1>2
  <2> HIDE DEF i, a, b
  <2> QED
    BY <2>2, <2>3
<1>4. /\ u \in Nat /\ n \in Nat /\ a \in Nat /\ b \in Nat
      /\ 100 * a <= u /\ a < b /\ u <= 100 * b
  <2>1. u \in Nat /\ n \in Nat /\ a \in Nat /\ b \in Nat /\ 100 * a <= u /\ a < b
    BY <1>1, <1>2, FirstReached
  <2>2. Reaches(values, q, x)
    BY DEF IsQuantile
  <2> QED
    BY <2>1, <2>2 DEF Reaches
<1>5. Min(Holders(h, q)) = i /\ Holders(h, q) # {}
  <2> DEFINE S == Holders(h, q)
  <2>1. i \in S /\ \A j \in S : j \in 1..top /\ x < j
    BY HoldersAre
  <2> HIDE DEF S
  <2>2. \A j \in S : j \in Int /\ i <= j
    BY <2>1
  <2> HIDE DEF i
  <2>3. Min(S) = i
    BY <2>1, <2>2 DEF Min
  <2> QED
    BY <2>1, <2>3 DEF S
<1>6. cuts[i] = x /\ cuts[i + 1] = x + 1
  <2>1. \A j \in 1..(top + 1) : cuts[j] = j - 1
    BY RangeOfCuts
  <2>2. cuts[i] = i - 1 /\ cuts[i + 1] = (i + 1) - 1
    BY <1>2, <2>1
  <2> HIDE DEF cuts
  <2> QED
    BY <1>2, <2>2
<1>7. ~ (h.underflow_count > 0 /\ AtMost(q, h.underflow_count, h.nsamples))
  BY NoUnderflow
<1> HIDE DEF cuts, n, i, a, b
<1>8. estimated_quantile(h, cuts, q) = interpolate(x, x + 1, a, b - a, n, q)
  BY <1>3, <1>5, <1>6, <1>7 DEF estimated_quantile
<1>9. IsBin(x, x + 1, a, b - a, n, q)
  <2>1. q \in Nat /\ b - a \in Nat \ {0} /\ a + (b - a) = b /\ x \in Int /\ x <= x + 1
    BY <1>4
  <2>2. q * n <= 100 * (a + (b - a)) /\ 100 * a <= q * n
    BY <1>4, <2>1
  <2> QED
    BY <1>4, <2>1, <2>2 DEF IsBin
<1> QED
  BY <1>8, <1>9 DEF cuts, n, a, b, InsideBin, Interpolates

\* The last value is the estimate of the last quantile only.
AboveBins(e, h, top, values, q) ==
    /\ h.observed_max \in Int /\ top <= h.observed_max
    /\ IF q * Len(values) < 100 * Len(values)
       THEN Interpolates(e, top, h.observed_max, AtOrBelow(values, top - 1),
                         Len(values) - AtOrBelow(values, top - 1), Len(values), q)
       ELSE e = h.observed_max

LEMMA EstimateAbove ==
  ASSUME NEW top \in Nat \ {0}, NEW h, NEW values, Tally(h, top, values),
         NEW q \in 0..100, NEW x, IsQuantile(values, q, x), top <= x
  PROVE  AboveBins(estimated_quantile(h, IntegerRange(0, top), q), h, top, values, q)
<1> DEFINE a == AtOrBelow(values, top - 1)
           n == Len(values)
           u == q * n
           cuts == IntegerRange(0, top)
           y == top - 1
           over == h.overflow_count
<1>1. values \in Seq(SampleValues) /\ IsHistogram(h, top) /\ Extremes(h, values)
  BY DEF Tally
<1>2. x \in Int /\ y \in Int /\ y < x /\ top + 1 \in 1..(top + 1)
      /\ (top + 1) - 2 = y
  BY DEF IsQuantile
<1>3. h.nsamples = n /\ over = n - a /\ Cumulated(h, top + 1) = a
  <2>1. CountsIn(h, top, values)
    BY CountsOfTally
  <2>2. /\ h.nsamples = n /\ over = n - a
        /\ Cumulated(h, top + 1) = AtOrBelow(values, (top + 1) - 2)
    BY <1>2, <2>1 DEF CountsIn
  <2>3. AtOrBelow(values, (top + 1) - 2) = a
    BY <1>2
  <2> QED
    BY <2>2, <2>3
<1>4. /\ u \in Nat /\ n \in Nat /\ a \in Nat /\ 100 * a <= u /\ a < n
  <2>1. /\ u \in Nat /\ n \in Nat /\ a \in Nat /\ 100 * a <= u
        /\ AtOrBelow(values, x) \in Nat /\ a < AtOrBelow(values, x)
    BY <1>1, <1>2, FirstReached
  <2>2. AtOrBelow(values, x) <= n
    BY <1>1, <1>2, CountUpTo
  <2> DEFINE b == AtOrBelow(values, x)
  <2>3. b \in Nat /\ a < b /\ b <= n
    BY <2>1, <2>2
  <2> HIDE DEF b
  <2>4. a < n
    BY <2>1, <2>3
  <2> QED
    BY <2>1, <2>4
<1>5. h.observed_max \in Int /\ x <= h.observed_max
  <2>1. PICK k \in 1..Len(values) : values[k] = x
    BY DEF IsQuantile
  <2>2. Len(values) # 0
    BY <2>1
  <2>3. values[k] <= h.observed_max
    BY <1>1, <2>1, <2>2 DEF Extremes
  <2> QED
    BY <1>1, <2>1, <2>3 DEF IsHistogram
<1>6. Holders(h, q) = {}
  <2> SUFFICES ASSUME NEW j \in Holders(h, q) PROVE FALSE
    OBVIOUS
  <2>1. j \in 1..top /\ x < j
    BY HoldersAre
  <2> QED
    BY <1>2, <2>1
<1>7. histogram_max(cuts) = top /\ Len(cuts) = top + 1
  BY RangeOfCuts DEF histogram_max
<1>8. ~ (h.underflow_count > 0 /\ AtMost(q, h.underflow_count, h.nsamples))
  <2>1. 0 <= x
    BY <1>2
  <2> QED
    BY <2>1, NoUnderflow
<1>9. over > 0 /\ a + over = n
  BY <1>3, <1>4
<1> HIDE DEF cuts, y, over, a, n
<1>10. estimated_quantile(h, cuts, q) =
          IF q * n < 100 * n THEN interpolate(top, h.observed_max, a, n - a, n, q)
                             ELSE h.observed_max
  <2>1. estimated_quantile(h, cuts, q) =
           IF h.overflow_count > 0
              /\ q * h.nsamples < 100 * (Cumulated(h, Len(cuts)) + h.overflow_count)
           THEN interpolate(histogram_max(cuts), h.observed_max, Cumulated(h, Len(cuts)),
                            h.overflow_count, h.nsamples, q)
           ELSE h.observed_max
    BY <1>6, <1>8 DEF estimated_quantile
  <2>2. h.overflow_count = over /\ Cumulated(h, Len(cuts)) = a
    BY <1>3, <1>7 DEF over
  <2> QED
    BY <1>3, <1>7, <1>9, <2>1, <2>2
<1>11. ASSUME u < 100 * n PROVE IsBin(top, h.observed_max, a, n - a, n, q)
  <2>1. /\ q \in Nat /\ n - a \in Nat \ {0} /\ a + (n - a) = n
        /\ top \in Int /\ top <= h.observed_max
    BY <1>2, <1>4, <1>5
  <2>2. u <= 100 * (a + (n - a))
    <3> DEFINE m == a + (n - a)
    <3>1. m = n /\ u \in Nat /\ n \in Nat /\ u < 100 * n
      BY <1>4, <1>11, <2>1
    <3> HIDE DEF u, m
    <3>2. u <= 100 * m
      BY <3>1
    <3> QED
      BY <3>2 DEF m
  <2> QED
    BY <1>4, <1>5, <2>1, <2>2 DEF IsBin
<1>12. top <= h.observed_max
  BY <1>2, <1>5
<1> QED
  BY <1>5, <1>10, <1>11, <1>12 DEF cuts, AboveBins, Interpolates, a, n

\* An estimate in the bin of x.
InBinOf(e, h, top, x) ==
    /\ e \in Int /\ x \in Int
    /\ x < 0 => h.observed_min <= e /\ e <= 0
    /\ 0 <= x /\ x < top => x <= e /\ e <= x + 1
    /\ top <= x => top <= e /\ e <= h.observed_max

LEMMA EstimateWithinBin ==
  ASSUME NEW top \in Nat \ {0}, NEW h, NEW values, Tally(h, top, values),
         NEW q \in 0..100, NEW x, IsQuantile(values, q, x)
  PROVE  InBinOf(estimated_quantile(h, IntegerRange(0, top), q), h, top, x)
<1> DEFINE n == Len(values)
           e == estimated_quantile(h, IntegerRange(0, top), q)
<1>0. x \in Int
  BY DEF IsQuantile
<1>1. ASSUME x < 0 PROVE e \in Int /\ h.observed_min <= e /\ e <= 0
  <2> DEFINE c == AtOrBelow(values, -1)
  <2>1. /\ e = interpolate(h.observed_min, 0, 0, c, n, q)
        /\ IsBin(h.observed_min, 0, 0, c, n, q)
    BY <1>1, EstimateBelow
  <2> HIDE DEF c, n, e
  <2> QED
    BY <2>1, Interpolated
<1>2. ASSUME 0 <= x, x < top PROVE e \in Int /\ x <= e /\ e <= x + 1
  <2> DEFINE a == AtOrBelow(values, x - 1)
             b == AtOrBelow(values, x)
             w == b - a
             y == x + 1
  <2>1. x \in 0..(top - 1)
    BY <1>0, <1>2
  <2>2. InsideBin(e, values, x, q)
    BY <2>1, EstimateInside
  <2> HIDE DEF e
  <2>4. e = interpolate(x, y, a, w, n, q) /\ IsBin(x, y, a, w, n, q)
    BY <2>2 DEF InsideBin, Interpolates
  <2> HIDE DEF w, n, a, y
  <2>3. e \in Int /\ x <= e /\ e <= y
    BY <2>4, Interpolated
  <2> QED
    BY <2>3 DEF y
<1>3. ASSUME top <= x PROVE e \in Int /\ top <= e /\ e <= h.observed_max
  <2> DEFINE a == AtOrBelow(values, top - 1)
             w == n - a
             z == h.observed_max
  <2>0. AboveBins(e, h, top, values, q)
    BY <1>3, EstimateAbove
  <2> HIDE DEF e
  <2>1. /\ z \in Int /\ top <= z
        /\ IF q * n < 100 * n
           THEN e = interpolate(top, z, a, w, n, q) /\ IsBin(top, z, a, w, n, q)
           ELSE e = z
    BY <2>0 DEF AboveBins, Interpolates
  <2> HIDE DEF w, a, z
  <2>2. CASE q * n < 100 * n
    <3>1. e = interpolate(top, z, a, w, n, q) /\ IsBin(top, z, a, w, n, q)
      BY <2>1, <2>2
    <3> HIDE DEF n
    <3>2. e \in Int /\ top <= e /\ e <= z
      BY <3>1, Interpolated
    <3> QED
      BY <3>2 DEF z
  <2>3. CASE ~ (q * n < 100 * n)
    <3>1. e = z
      BY <2>1, <2>3
    <3> QED
      BY <2>1, <3>1 DEF z
  <2> QED
    BY <2>2, <2>3
<1> HIDE DEF e
<1>4. e \in Int
  BY <1>0, <1>1, <1>2, <1>3
<1>5. InBinOf(e, h, top, x)
  BY <1>0, <1>1, <1>2, <1>3, <1>4 DEF InBinOf
<1> QED
  BY <1>5 DEF e

LEMMA EstimatesGrow ==
  ASSUME NEW top \in Nat \ {0}, NEW h, NEW values, Tally(h, top, values),
         NEW q \in 0..100, NEW q2 \in 0..100, q <= q2,
         NEW x, IsQuantile(values, q, x), NEW y, IsQuantile(values, q2, y)
  PROVE  estimated_quantile(h, IntegerRange(0, top), q)
            <= estimated_quantile(h, IntegerRange(0, top), q2)
<1> DEFINE n == Len(values)
           e == estimated_quantile(h, IntegerRange(0, top), q)
           f == estimated_quantile(h, IntegerRange(0, top), q2)
<1> SUFFICES e <= f
  OBVIOUS
<1>1. x <= y
  <2>1. values \in Seq(SampleValues)
    BY DEF Tally
  <2> QED
    BY <2>1, QuantilesGrow
<1>2. /\ e \in Int /\ x \in Int
      /\ x < 0 => e <= 0
      /\ 0 <= x /\ x < top => x <= e /\ e <= x + 1
      /\ top <= x => top <= e /\ e <= h.observed_max
  <2>1. InBinOf(e, h, top, x)
    BY EstimateWithinBin
  <2> HIDE DEF e
  <2> QED
    BY <2>1 DEF InBinOf
<1>3. /\ f \in Int /\ y \in Int
      /\ y < 0 => f <= 0
      /\ 0 <= y /\ y < top => y <= f /\ f <= y + 1
      /\ top <= y => top <= f /\ f <= h.observed_max
  <2>1. InBinOf(f, h, top, y)
    BY EstimateWithinBin
  <2> HIDE DEF f
  <2> QED
    BY <2>1 DEF InBinOf
<1> HIDE DEF e, f
<1>4. CASE y < 0
  <2> DEFINE c == AtOrBelow(values, -1)
             z == h.observed_min
  <2>0. x < 0
    BY <1>1, <1>2, <1>3, <1>4
  <2>1. e = interpolate(z, 0, 0, c, n, q) /\ IsBin(z, 0, 0, c, n, q)
    BY <2>0, EstimateBelow DEF e
  <2>2. f = interpolate(z, 0, 0, c, n, q2) /\ IsBin(z, 0, 0, c, n, q2)
    BY <1>4, EstimateBelow DEF f
  <2> HIDE DEF c, n, z
  <2> QED
    BY <2>1, <2>2, InterpolatedGrows
<1>5. CASE 0 <= x /\ x = y /\ y < top
  <2> DEFINE a == AtOrBelow(values, x - 1)
             b == AtOrBelow(values, x)
             w == b - a
             z == x + 1
  <2>0. x \in 0..(top - 1)
    BY <1>2, <1>5
  <2>1. e = interpolate(x, z, a, w, n, q) /\ IsBin(x, z, a, w, n, q)
    <3>1. InsideBin(e, values, x, q)
      BY <2>0, EstimateInside DEF e
    <3> QED
      BY <3>1 DEF InsideBin, Interpolates
  <2>2. f = interpolate(x, z, a, w, n, q2) /\ IsBin(x, z, a, w, n, q2)
    <3>1. IsQuantile(values, q2, x)
      BY <1>5
    <3>2. InsideBin(f, values, x, q2)
      BY <2>0, <3>1, EstimateInside DEF f
    <3> QED
      BY <3>2 DEF InsideBin, Interpolates
  <2> HIDE DEF w, n, z, a
  <2> QED
    BY <2>1, <2>2, InterpolatedGrows
<1>6. CASE top <= x
  <2> DEFINE a == AtOrBelow(values, top - 1)
             w == n - a
             z == h.observed_max
  <2>0. top <= y
    BY <1>1, <1>2, <1>3, <1>6
  <2>1. IF q * n < 100 * n
        THEN e = interpolate(top, z, a, w, n, q) /\ IsBin(top, z, a, w, n, q)
        ELSE e = z
    <3>1. AboveBins(e, h, top, values, q)
      BY <1>6, EstimateAbove DEF e
    <3> QED
      BY <3>1 DEF AboveBins, Interpolates
  <2>2. IF q2 * n < 100 * n
        THEN f = interpolate(top, z, a, w, n, q2) /\ IsBin(top, z, a, w, n, q2)
        ELSE f = z
    <3>1. AboveBins(f, h, top, values, q2)
      BY <2>0, EstimateAbove DEF f
    <3> QED
      BY <3>1 DEF AboveBins, Interpolates
  <2>3. e <= z
    BY <1>2, <1>6
  <2>4. q2 * n < 100 * n => q * n < 100 * n
    <3> DEFINE u == q * n
               v == q2 * n
    <3>1. n \in Nat
      <4>1. values \in Seq(SampleValues)
        BY DEF Tally
      <4> QED
        BY <4>1
    <3> HIDE DEF n
    <3>2. u \in Nat /\ v \in Nat /\ u <= v
      BY <3>1
    <3> HIDE DEF u, v
    <3>3. v < 100 * n => u < 100 * n
      BY <3>1, <3>2
    <3> QED
      BY <3>3 DEF u, v
  <2> HIDE DEF w, a, z
  <2>5. CASE q2 * n < 100 * n
    <3>1. e = interpolate(top, z, a, w, n, q) /\ IsBin(top, z, a, w, n, q)
      BY <2>1, <2>4, <2>5
    <3>2. f = interpolate(top, z, a, w, n, q2) /\ IsBin(top, z, a, w, n, q2)
      BY <2>2, <2>5
    <3> HIDE DEF n
    <3> QED
      BY <3>1, <3>2, InterpolatedGrows
  <2>6. CASE ~ (q2 * n < 100 * n)
    BY <2>2, <2>3, <2>6
  <2> QED
    BY <2>5, <2>6
<1>7. CASE x < 0 /\ 0 <= y
  BY <1>2, <1>3, <1>7
<1>8. CASE 0 <= x /\ x < y /\ x < top
  BY <1>2, <1>3, <1>8
<1> QED
  BY <1>1, <1>2, <1>3, <1>4, <1>5, <1>6, <1>7, <1>8

\* QuantilesTrue of one histogram.
EstimatesTrue(h, cuts, values) ==
    LET estimates == {<<q, estimated_quantile(h, cuts, q)>> : q \in Quantiles}
    IN  values # << >> =>
            \A e \in estimates :
                /\ WithinABin(e[2], TrueQuantile(values, e[1]), h, cuts)
                /\ \A f \in estimates : e[1] <= f[1] => e[2] <= f[2]

LEMMA TallyEstimates ==
  ASSUME NEW top \in Nat \ {0}, NEW h, NEW values, Tally(h, top, values)
  PROVE  EstimatesTrue(h, IntegerRange(0, top), values)
<1> DEFINE cuts == IntegerRange(0, top)
           E(q) == estimated_quantile(h, cuts, q)
           X(q) == TrueQuantile(values, q)
<1>1. /\ \A i \in 1..(top + 1) : cuts[i] = i - 1
      /\ histogram_min(cuts) = 0 /\ histogram_max(cuts) = top
  BY RangeOfCuts DEF histogram_min, histogram_max
<1>2. Quantiles \subseteq 0..100
  BY FeedStatisticsAssumption
<1>3. ASSUME values # << >>, NEW q \in Quantiles PROVE IsQuantile(values, q, X(q))
  <2>1. values \in Seq(SampleValues)
    BY DEF Tally
  <2>2. Len(values) # 0
    BY <1>3, <2>1
  <2> QED
    BY <1>2, <2>1, <2>2, TrueQuantileIs
<1>4. ASSUME values # << >>, NEW q \in Quantiles PROVE WithinABin(E(q), X(q), h, cuts)
  <2> DEFINE e == E(q)
             x == X(q)
             i == x + 1
  <2>1. /\ e \in Int /\ x \in Int
        /\ x < 0 => h.observed_min <= e /\ e <= 0
        /\ 0 <= x /\ x < top => x <= e /\ e <= x + 1
        /\ top <= x => top <= e /\ e <= h.observed_max
    <3>1. IsQuantile(values, q, x) /\ q \in 0..100
      BY <1>2, <1>3, <1>4
    <3>2. InBinOf(e, h, top, x)
      BY <3>1, EstimateWithinBin
    <3> HIDE DEF x, e
    <3> QED
      BY <3>2 DEF InBinOf
  <2> HIDE DEF e, x
  <2>2. CASE x < 0
    BY <1>1, <2>1, <2>2 DEF WithinABin, e, x
  <2>3. CASE top <= x
    BY <1>1, <2>1, <2>3 DEF WithinABin, e, x
  <2>4. CASE 0 <= x /\ x < top
    <3>1. x \in 0..(top - 1) /\ i \in 1..(top + 1) /\ i + 1 \in 1..(top + 1)
      BY <2>1, <2>4
    <3>2. sample2bin(cuts, x) = i
      BY <3>1, BinOfSample
    <3>3. cuts[i] = x /\ cuts[i + 1] = x + 1
      <4>1. cuts[i] = i - 1 /\ cuts[i + 1] = (i + 1) - 1
        BY <1>1, <3>1
      <4> HIDE DEF cuts
      <4> QED
        BY <2>1, <4>1
    <3> HIDE DEF cuts, i
    <3>4. WithinABin(e, x, h, cuts)
      BY <1>1, <2>1, <2>4, <3>2, <3>3 DEF WithinABin
    <3> QED
      BY <3>4 DEF e, x
  <2> QED
    BY <2>1, <2>2, <2>3, <2>4
<1>5. ASSUME values # << >>, NEW q \in Quantiles, NEW q2 \in Quantiles, q <= q2
      PROVE  E(q) <= E(q2)
  <2> DEFINE x == X(q)
             y == X(q2)
  <2>1. IsQuantile(values, q, x) /\ IsQuantile(values, q2, y)
    BY <1>3, <1>5
  <2>2. q \in 0..100 /\ q2 \in 0..100
    BY <1>2
  <2> HIDE DEF x, y
  <2> QED
    BY <1>5, <2>1, <2>2, EstimatesGrow
<1> HIDE DEF cuts, E, X
<1>6. SUFFICES ASSUME values # << >>, NEW q \in Quantiles, NEW q2 \in Quantiles
               PROVE  /\ WithinABin(E(q), X(q), h, cuts)
                      /\ q <= q2 => E(q) <= E(q2)
  BY DEF EstimatesTrue, cuts, E, X
<1> QED
  BY <1>4, <1>5, <1>6

(* The quantiles that are reported, for every feed: each estimate is in    *)
(* the bin of the true quantile, underflow and overflow included, and a    *)
(* higher quantile is never a lower estimate.                              *)
THEOREM QuantilesCorrect == Spec => []QuantilesTrue
<1>1. ArrivalInv /\ RateInv => QuantilesTrue
  <2> SUFFICES ASSUME ArrivalInv, RateInv PROVE QuantilesTrue
    OBVIOUS
  <2>1. /\ MaxRate \in Nat \ {0} /\ MaxInterarrival \in Nat \ {0}
        /\ MaxLatency \in Nat \ {0}
    BY FeedStatisticsAssumption
  <2>2. ASSUME NEW s \in Scales
        PROVE  EstimatesTrue(rates[s].histo, RateCuts, RatesOf(s))
    <3>1. samples \in Seq(Messages) /\ RateOK(rates[s], samples, Period[s])
      BY DEF RateInv
    <3>2. CASE Len(samples) = 0
      <4>1. RatesOf(s) = << >>
        BY <3>1, <3>2 DEF RatesOf
      <4> QED
        BY <4>1 DEF EstimatesTrue
    <3>3. CASE Len(samples) # 0
      <4>1. Tally(rates[s].histo, MaxRate, RatesOf(s))
        BY <3>1, <3>3, RatesAre DEF RateOK
      <4> QED
        BY <2>1, <4>1, TallyEstimates DEF RateCuts
    <3> QED
      BY <3>2, <3>3
  <2>3. EstimatesTrue(interarrival_, InterarrivalCuts, Interarrivals)
    BY <2>1, TallyEstimates DEF ArrivalInv, InterarrivalCuts
  <2>4. EstimatesTrue(processing_latency_, LatencyCuts, ProcessingLatencies)
    BY <2>1, TallyEstimates DEF ArrivalInv, LatencyCuts
  <2> QED
    BY <2>2, <2>3, <2>4 DEF QuantilesTrue, EstimatesTrue
<1> QED
  BY <1>1, SpecArrivals, SpecRates, PTL
=============================================================================
