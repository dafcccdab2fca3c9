--------------------------- MODULE MCInsideOutput ---------------------------
(* InsideOutput, and with it ComputeBook, on a small instance: order ids   *)
(* and securities are interchangeable.                                     *)
EXTENDS InsideOutput, TLC

Symmetry == Permutations(OrderIds) \cup Permutations(Stocks)

\* Bound: the outputs are followed from what they missed with one book only.
\* With two books a state in which one of them has missed something is checked
\* and not left.
MissedWithOneBook ==
    Cardinality(DOMAIN books_) < 2 \/ (udp_out = file_out /\ inside_out = file_out)
=============================================================================
