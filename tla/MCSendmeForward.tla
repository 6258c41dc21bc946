-------------------------- MODULE MCSendmeForward --------------------------
(* Model checking of SendmeForward: windows of two increments, as the real  *)
(* ones are of ten, and a stream window of one increment, as the real one.  *)
EXTENDS SendmeForward, TLC

StreamSymmetry == Permutations(Streams)
=============================================================================
