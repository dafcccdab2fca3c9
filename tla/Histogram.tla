------------------------------ MODULE Histogram -----------------------------
(***************************************************************************)
(* histogram, over integers: counts of samples in bins, of the samples     *)
(* below and above the bins, and the extremes.  The binning strategy is    *)
(* its sequence of cuts: bin i holds the samples from cut i up to cut      *)
(* i + 1, as in explicit_cuts_binning.  integer_range_binning has a cut at *)
(* every integer of its range.  Quantiles are given in hundredths, and     *)
(* the arithmetic on them, done with doubles in the code, is exact here.   *)
(***************************************************************************)
EXTENDS Integers, SequencesExt, FiniteSetsExt

CONSTANT
    SampleLimit      \* bound: samples lie between its negative and itself

ASSUME HistogramAssumption == SampleLimit \in Nat

\* numeric_limits of the sample type.
theoretical_min == -SampleLimit
theoretical_max == SampleLimit

\* integer_range_binning(h_min, h_max)
IntegerRange(h_min, h_max) == [i \in 1..(h_max - h_min + 1) |-> h_min + i - 1]

\* What the constructors of the binning strategies demand.
ValidCuts(cuts) ==
    Len(cuts) >= 2 /\ \A i \in 2..Len(cuts) : cuts[i - 1] < cuts[i]

histogram_min(cuts) == Head(cuts)
histogram_max(cuts) == Last(cuts)

\* sample2bin, bins counted from 1: upper_bound on the cuts.
sample2bin(cuts, t) == Cardinality({i \in DOMAIN cuts : cuts[i] <= t})

\* The constructor.
EmptyHistogram(cuts) ==
    [bins |-> [i \in 1..(Len(cuts) - 1) |-> 0],
     underflow_count |-> 0, overflow_count |-> 0,
     observed_min |-> theoretical_max, observed_max |-> theoretical_min,
     nsamples |-> 0]
-----------------------------------------------------------------------------
\* weighted_sample: the bin, or one of the two counts beside them.
Binned(h, cuts, t, weight) ==
    IF t < histogram_min(cuts)
    THEN [h EXCEPT !.underflow_count = @ + weight]
    ELSE IF t >= histogram_max(cuts)
    THEN [h EXCEPT !.overflow_count = @ + weight]
    ELSE [h EXCEPT !.bins[sample2bin(cuts, t)] = @ + weight]

weighted_sample(h, cuts, t, weight) ==
    IF weight = 0 THEN h
    ELSE [Binned(h, cuts, t, weight) EXCEPT
             !.nsamples = @ + weight,
             !.observed_min = Min({@, t}), !.observed_max = Max({@, t})]

sample(h, cuts, t) == weighted_sample(h, cuts, t, 1)
-----------------------------------------------------------------------------
\* The samples before bin i.
Cumulated(h, i) == h.underflow_count + FoldFunctionOnSet(+, 0, h.bins, 1..(i - 1))

\* histogram_binning_linear_interpolation, for a bin [x_a, x_b) of `bin'
\* samples that has `cum' samples before it: floor of
\* x_a + (q - y_a) * (x_b - x_a) / s with y_a = cum / n and s = bin / n.
interpolate(x_a, x_b, cum, bin, n, q) ==
    x_a + ((q * n - 100 * cum) * (x_b - x_a)) \div (100 * bin)

\* q <= samples / n
AtMost(q, samples, n) == q * n <= 100 * samples

\* Faulty variant: a bin that just reaches q is passed over.
HoldersStrict(h, q) ==
    {i \in DOMAIN h.bins :
        /\ h.bins[i] > 0
        /\ q * h.nsamples < 100 * Cumulated(h, i + 1)}

\* The bins at which the loop of estimated_quantile can end.
Holders(h, q) ==
    {i \in DOMAIN h.bins : /\ h.bins[i] > 0
                           /\ AtMost(q, Cumulated(h, i + 1), h.nsamples)}

\* estimated_quantile: the first of underflow, bins and overflow whose
\* cumulated count reaches q.  It throws if there is no sample.
estimated_quantile(h, cuts, q) ==
    LET i == Min(Holders(h, q))
        below == Cumulated(h, Len(cuts))
    IN  IF h.underflow_count > 0 /\ AtMost(q, h.underflow_count, h.nsamples)
        THEN interpolate(h.observed_min, histogram_min(cuts),
                         0, h.underflow_count, h.nsamples, q)
        ELSE IF Holders(h, q) # {}
        THEN interpolate(cuts[i], cuts[i + 1], Cumulated(h, i), h.bins[i],
                         h.nsamples, q)
        ELSE IF h.overflow_count > 0
                /\ q * h.nsamples < 100 * (below + h.overflow_count)
        THEN interpolate(histogram_max(cuts), h.observed_max,
                         below, h.overflow_count, h.nsamples, q)
        ELSE h.observed_max
-----------------------------------------------------------------------------
\* The reference: h holds exactly the samples of a sequence.
IsTallyOf(h, cuts, values) ==
    LET count(lo, hi) ==
            Cardinality({k \in DOMAIN values : lo <= values[k] /\ values[k] < hi})
    IN  /\ h.nsamples = Len(values)
        /\ h.underflow_count = count(theoretical_min, histogram_min(cuts))
        /\ h.overflow_count = count(histogram_max(cuts), theoretical_max)
        /\ \A i \in DOMAIN h.bins : h.bins[i] = count(cuts[i], cuts[i + 1])
        /\ values # << >> => /\ h.observed_min = Min(ToSet(values))
                             /\ h.observed_max = Max(ToSet(values))

\* The smallest sample such that a fraction of at least q is not above it.
TrueQuantile(values, q) ==
    Min({x \in ToSet(values) :
            AtMost(q, Cardinality({k \in DOMAIN values : values[k] <= x}),
                   Len(values))})

\* An estimate is as good as its bin: it lies between the bounds of the bin
\* of the true quantile, both included.
WithinABin(estimate, x, h, cuts) ==
    IF x < histogram_min(cuts)
    THEN h.observed_min <= estimate /\ estimate <= histogram_min(cuts)
    ELSE IF x >= histogram_max(cuts)
    THEN histogram_max(cuts) <= estimate /\ estimate <= h.observed_max
    ELSE LET i == sample2bin(cuts, x)
         IN  cuts[i] <= estimate /\ estimate <= cuts[i + 1]
=============================================================================
