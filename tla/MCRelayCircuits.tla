-------------------------- MODULE MCRelayCircuits ---------------------------
(* Instances of RelayCircuits for TLC. *)
EXTENDS RelayCircuits, TLC

Symmetry == Permutations(Circuits) \cup Permutations(Links) \cup Permutations(Outs)
=============================================================================
