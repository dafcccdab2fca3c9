------------------------- MODULE EventRateEstimator -------------------------
(***************************************************************************)
(* event_rate_estimator: how many events there were in the last N sampling *)
(* periods, estimated once for every sampling period, with a ring of N     *)
(* counters.  An event in a new period first issues the estimates of the   *)
(* periods that are over; while the ring holds events they are issued one  *)
(* by one, and all that follow an empty ring at once.                      *)
(*                                                                         *)
(* The estimator is a record of the fields of the class.                   *)
(***************************************************************************)
EXTENDS Integers, SequencesExt, FiniteSetsExt

\* The constructor: end_pos_ past the ring means that there was no event.
Estimator(n) ==
    [buckets |-> [i \in 0..(n - 1) |-> 0], end_pos |-> n,
     running_total |-> 0, last_bucket |-> 0]

RingSize(e) == Cardinality(DOMAIN e.buckets)

\* rotate: the slot after end_pos_ holds the oldest period and is reused.
Rotate(e) ==
    LET pos == (e.end_pos + 1) % RingSize(e)
    IN  [e EXCEPT !.end_pos = pos, !.running_total = @ - e.buckets[pos],
                  !.buckets[pos] = 0, !.last_bucket = @ + 1]

\* Faulty variant: the loop stops one period early.
RotationsOneLess(rotated, periods) ==
    Max({0} \cup {n \in 0..(periods - 1) :
        \A m \in 0..(n - 1) : rotated[m].running_total > 0})

\* The loop of sample(): until the ring is empty or at the new period.
Rotations(rotated, periods) ==
    Max({n \in 0..periods :
        \A m \in 0..(n - 1) : rotated[m].running_total > 0})

\* An event in the current period.
Counted(e) ==
    [e EXCEPT !.running_total = @ + 1, !.buckets[e.end_pos] = @ + 1]

\* The jump of sample() over the periods after the ring is empty.
Jumped(e, bucket) ==
    IF e.last_bucket < bucket
    THEN [e EXCEPT !.end_pos = 0, !.last_bucket = bucket] ELSE e

\* sample(), given the sampling period of the event, and the calls of
\* update().  An event of an earlier period runs neither the loop nor the
\* jump, and is counted in the current period.
Sampled(e, bucket) ==
    LET periods == Max({0, bucket - e.last_bucket})
        rotated[k \in 0..periods] == IF k = 0 THEN e ELSE Rotate(rotated[k - 1])
        n == Rotations(rotated, periods)
        one(k) == [rate |-> rotated[k - 1].running_total, repeats |-> 1]
        zeros == [rate |-> 0, repeats |-> periods - n]
    IN  IF e.end_pos = RingSize(e)
        THEN [estimator |-> Counted([e EXCEPT !.end_pos = 0,
                                              !.last_bucket = bucket]),
              updates |-> << >>]
        ELSE [estimator |-> Counted(Jumped(rotated[n], bucket)),
              updates |-> [k \in 1..n |-> one(k)]
                            \o (IF n < periods THEN <<zeros>> ELSE << >>)]
=============================================================================
