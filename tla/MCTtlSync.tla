----------------------------- MODULE MCTtlSync -----------------------------
(* Instances of TtlSync for TLC. *)
EXTENDS TtlSync, TLC

CONSTANTS c1, c2, s1, t1, t2, t3, bg

\* Identical threads may be exchanged; used by the runs that check only
\* invariants and action properties.
Symmetry == Permutations(Clients) \cup Permutations(Timers)
=============================================================================
