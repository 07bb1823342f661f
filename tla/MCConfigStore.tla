---------------------------- MODULE MCConfigStore ----------------------------
(* Instances of ConfigStore for TLC: two keys, one of them unset by default. *)
EXTENDS ConfigStore, TLC

CONSTANTS p1, p2, r, w, k1, k2

Defaults == k1 :> 0
FirstFiles == {k2 :> 0}
NamedKeys == {k1 :> 1, k2 :> 1, NoConfig}
\* Bound: once two things have gone wrong, no property speaks of the state.
OneExcuse == \A e1, e2 \in excuses : e1 = e2
Symmetry == Permutations(Puts) \cup Permutations(Writers)
==============================================================================
