----------------------------- MODULE MCFaultFeed -----------------------------
(* Instances of FaultFeed for TLC. *)
EXTENDS FaultFeed

CONSTANTS l, j1, s1, f1, f2

Symmetry == Permutations(FaultIds)
==============================================================================
