------------------------------- MODULE MCEhs -------------------------------
(* Ehs on a small instance: connections and paths are interchangeable.     *)
EXTENDS Ehs, TLC

Symmetry == Permutations(Connections) \cup Permutations(Paths)
=============================================================================
