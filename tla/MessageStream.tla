--------------------------- MODULE MessageStream ---------------------------
(***************************************************************************)
(* What a replay and a feed handler promise together: the consumer gets    *)
(* the messages of the producer, each once and in order, some at a time.   *)
(***************************************************************************)
EXTENDS Integers, SequencesExt

CONSTANT MaxCount     \* the number of messages of the stream

VARIABLES produced, consumed

vars == <<produced, consumed>>

Init == produced = << >> /\ consumed = << >>

Produce ==
    /\ Len(produced) < MaxCount
    /\ produced' = Append(produced, Len(produced))
    /\ UNCHANGED consumed

Consume ==
    /\ consumed' \in {SubSeq(produced, 1, n) : n \in 1..Len(produced)}
    /\ IsStrictPrefix(consumed, consumed')
    /\ UNCHANGED produced

Next == Produce \/ Consume

Spec == Init /\ [][Next]_vars
=============================================================================
