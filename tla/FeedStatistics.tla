--------------------------- MODULE FeedStatistics ---------------------------
(***************************************************************************)
(* offline_feed_statistics: the event rates of a feed on three time        *)
(* scales, its interarrival times and its processing latencies, each in a  *)
(* histogram, with reports on the way and a summary at the end.  A step is *)
(* a call of sample(), or one of the calls at the end of a program.        *)
(***************************************************************************)
EXTENDS EventRateEstimator, Histogram

CONSTANTS
    Buckets,         \* sampling periods in a measurement period
    MaxRate,         \* the end of the range of each rate histogram
    MaxInterarrival, \* max_interarrival_time_nanoseconds
    MaxLatency,      \* max_processing_latency_nanoseconds
    Intervals,       \* values of reporting_interval_seconds
    Timestamps,      \* timestamps of the messages
    Latencies,       \* their processing latencies
    Quantiles,       \* the quantiles of the reports, in hundredths
    MaxSamples       \* bound: the number of messages

ASSUME FeedStatisticsAssumption ==
    /\ Buckets \in Nat \ {0}
    /\ {MaxRate, MaxInterarrival, MaxLatency} \subseteq Nat \ {0, 1}
    /\ Intervals \subseteq Nat /\ Timestamps \subseteq Nat
    /\ Latencies \subseteq Nat /\ MaxSamples \in Nat
    /\ Timestamps \cup Latencies \cup {MaxSamples} \subseteq 0..(SampleLimit - 1)
    /\ Quantiles \subseteq 0..100

\* The rates are measured per microsecond, millisecond and second.  What is
\* the measurement period of one is the sampling period of the next.
Period == [usec |-> 1, msec |-> Buckets, sec |-> Buckets * Buckets]
Scales == DOMAIN Period
Second == Buckets * Period["sec"]

RateCuts == IntegerRange(0, MaxRate)
InterarrivalCuts == IntegerRange(0, MaxInterarrival)
LatencyCuts == IntegerRange(0, MaxLatency)

ASSUME CutsAssumption ==
    \A cuts \in {RateCuts, InterarrivalCuts, LatencyCuts} : ValidCuts(cuts)

VARIABLES
    rates,               \* per_sec_rate_, per_msec_rate_, per_usec_rate_
    interarrival_,       \* histogram of the times between messages
    processing_latency_, \* histogram of the latencies
    last_ts_,            \* the timestamp of the last message
    last_report_ts_,     \* the timestamp of the last report
    reporting_interval_, \* from the configuration
    status,              \* what the program does next, or "failed"
    samples,             \* the messages
    csv                  \* the number of samples in the summary, -1 before

statistics == <<rates, interarrival_, processing_latency_, last_ts_>>
vars == <<statistics, last_report_ts_, reporting_interval_, status, samples, csv>>

Init ==
    /\ rates = [s \in Scales |-> [rate_ |-> Estimator(Buckets),
                                  histo |-> EmptyHistogram(RateCuts)]]
    /\ interarrival_ = EmptyHistogram(InterarrivalCuts)
    /\ processing_latency_ = EmptyHistogram(LatencyCuts)
    /\ last_ts_ = 0 /\ last_report_ts_ = 0
    /\ reporting_interval_ \in {i * Second : i \in Intervals}
    /\ status = "reading"
    /\ samples = << >> /\ csv = -1
-----------------------------------------------------------------------------
\* event_rate_histogram::sample
RateSampled(r, bucket) ==
    LET e == Sampled(r.rate_, bucket)
    IN  [rate_ |-> e.estimator,
         histo |-> FoldLeft(LAMBDA h, u :
                               weighted_sample(h, RateCuts, u.rate, u.repeats),
                            r.histo, e.updates)]

\* A quantile of an empty histogram throws.
SomeRateEmpty == \E s \in Scales : rates[s].histo.nsamples = 0

\* Faulty variant: the interarrival times are not looked at.
LogThrowsUnguarded == SomeRateEmpty

\* log_progress: nothing is logged before the first interarrival time.
LogThrows == interarrival_.nsamples > 0 /\ SomeRateEmpty

\* Faulty variant: a zero timestamp marks the first message.
IsFirstByTimestamp == last_ts_ = 0

\* The latencies tell whether there was a message before.
IsFirst == processing_latency_.nsamples = 0

ReportDue(ts) == ts - last_report_ts_ > reporting_interval_

\* record_sample
record_sample(ts, pl) ==
    /\ status = "reading" /\ Len(samples) < MaxSamples
    /\ rates' = [s \in Scales |-> RateSampled(rates[s], ts \div Period[s])]
    /\ interarrival_' =
          IF IsFirst THEN interarrival_
          ELSE sample(interarrival_, InterarrivalCuts, ts - last_ts_)
    /\ last_ts_' = ts
    /\ processing_latency_' = sample(processing_latency_, LatencyCuts, pl)
    /\ samples' = Append(samples, [ts |-> ts, pl |-> pl])
    /\ \/ /\ ~ReportDue(ts)
          /\ UNCHANGED <<last_report_ts_, status>>
       \/ /\ ReportDue(ts) /\ LogThrows'
          /\ status' = "failed"
          /\ UNCHANGED last_report_ts_
       \/ /\ ReportDue(ts) /\ ~LogThrows'
          /\ last_report_ts_' = ts
          /\ UNCHANGED status
    /\ UNCHANGED <<reporting_interval_, csv>>

\* The end of the file: a last report.
log_final_progress ==
    /\ status = "reading"
    /\ status' = IF LogThrows THEN "failed" ELSE "reported"
    /\ UNCHANGED <<statistics, last_report_ts_, reporting_interval_, samples, csv>>

\* Faulty variant: as log_progress, only the interarrival times are looked at.
CanPrintArrivals == interarrival_.nsamples > 0

\* All histograms have samples.
CanPrint ==
    /\ \A s \in Scales : rates[s].histo.nsamples > 0
    /\ interarrival_.nsamples > 0
    /\ processing_latency_.nsamples > 0

\* print_csv: a row of quantiles, or of empty fields with zero samples.  The
\* statistics of a security are printed without a last report before.
print_csv ==
    /\ status \in {"reading", "reported"}
    /\ IF CanPrint /\ SomeRateEmpty
       THEN status' = "unprinted" /\ csv' = csv
       ELSE /\ status' = "printed"
            /\ csv' = IF CanPrint THEN processing_latency_.nsamples ELSE 0
    /\ UNCHANGED <<statistics, last_report_ts_, reporting_interval_, samples>>

Next ==
    \/ \E ts \in Timestamps, pl \in Latencies : record_sample(ts, pl)
    \/ log_final_progress
    \/ print_csv

Spec == Init /\ [][Next]_vars
-----------------------------------------------------------------------------
\* The sampling period in which a message is counted: a message that is older
\* than one before it is counted with that one.
PeriodOf(s, i) == Max({samples[j].ts \div Period[s] : j \in 1..i})

\* The messages counted in the measurement period that ends with a sampling
\* period.
EventsUpTo(s, period) ==
    Cardinality({i \in DOMAIN samples :
                    /\ period - Buckets < PeriodOf(s, i)
                    /\ PeriodOf(s, i) <= period})

\* The values each histogram stands for.
RatesOf(s) ==
    IF samples = << >> THEN << >>
    ELSE LET first == PeriodOf(s, 1)
         IN  [k \in 1..(PeriodOf(s, Len(samples)) - first) |->
                 EventsUpTo(s, first + k - 1)]
Interarrivals ==
    [k \in 1..(Max({1, Len(samples)}) - 1) |-> samples[k + 1].ts - samples[k].ts]
ProcessingLatencies == [k \in DOMAIN samples |-> samples[k].pl]

\* The ring of a rate holds the counts of the last periods, the current one
\* at end_pos_ and the older ones behind it.
RingHoldsLastPeriods(s) ==
    LET e == rates[s].rate_
        now == PeriodOf(s, Len(samples))
    IN  /\ e.last_bucket = now
        /\ e.running_total = EventsUpTo(s, now)
        /\ \A k \in 0..(Buckets - 1) :
              e.buckets[(e.end_pos - k) % Buckets] =
                  Cardinality({i \in DOMAIN samples : PeriodOf(s, i) = now - k})

(* "a tally of the observed event rates": on every scale, each sampling    *)
(* period that is over is counted once in the histogram, with the number   *)
(* of messages of the measurement period up to it, and the ring holds what *)
(* the next ones need, across bursts, gaps shorter and longer than the     *)
(* ring, and timestamps that go back.                                      *)
RatesTallied ==
    \A s \in Scales :
        /\ IsTallyOf(rates[s].histo, RateCuts, RatesOf(s))
        /\ samples # << >> => RingHoldsLastPeriods(s)

(* The other two histograms agree with each other and with the messages:   *)
(* a latency for each, an interarrival time for each but the first, the    *)
(* negative ones of timestamps that go back counted below the range.       *)
ArrivalsTallied ==
    /\ IsTallyOf(interarrival_, InterarrivalCuts, Interarrivals)
    /\ IsTallyOf(processing_latency_, LatencyCuts, ProcessingLatencies)

(* "The inverse of the accumulated density function": an estimated         *)
(* quantile is never farther from the quantile of the samples than its     *)
(* bin, and a higher quantile is never a lower estimate.                   *)
QuantilesTrue ==
    \A x \in {<<rates[s].histo, RateCuts, RatesOf(s)>> : s \in Scales}
             \cup {<<interarrival_, InterarrivalCuts, Interarrivals>>,
                   <<processing_latency_, LatencyCuts, ProcessingLatencies>>} :
        LET estimates == {<<q, estimated_quantile(x[1], x[2], q)>> : q \in Quantiles}
        IN  x[3] # << >> =>
                \A e \in estimates :
                    /\ WithinABin(e[2], TrueQuantile(x[3], e[1]), x[1], x[2])
                    /\ \A f \in estimates : e[1] <= f[1] => e[2] <= f[2]

(* "if we have no samples in the interrival histogram logging progress does *)
(* not work, so don't do it": that test lets a report fail only while all  *)
(* the messages are in one sampling period of the slowest rate.  Once a    *)
(* period is over on that scale one is over on the others, and no report   *)
(* is cut short after its first line.                                      *)
FailsOnlyInFirstPeriod ==
    status = "failed" =>
        /\ Len(samples) >= 2
        /\ PeriodOf("sec", Len(samples)) = PeriodOf("sec", 1)

\* A sampling period of the slowest rate is over.
SlowestPeriodOver ==
    samples # << >> /\ PeriodOf("sec", Len(samples)) > PeriodOf("sec", 1)

(* print_csv does not throw, since its test covers all the histograms; and *)
(* that test lets every feed through of which a sampling period is over on *)
(* the slowest scale: its row has all its messages.                        *)
SummaryComplete ==
    /\ status # "unprinted"
    /\ status = "printed" /\ SlowestPeriodOver => csv = Len(samples)

(* "nsamples: the number of samples received" (offline_feed_statistics.hpp:*)
(* 78), of every feed that is printed.  A feed without a sampling period   *)
(* that is over on some scale has 0 there.                                 *)
SummaryCountsSamples == status = "printed" => csv = Len(samples)
=============================================================================
