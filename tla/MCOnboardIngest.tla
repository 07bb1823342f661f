--------------------------- MODULE MCOnboardIngest ---------------------------
(* Instances of OnboardIngest for TLC. *)
EXTENDS OnboardIngest

CONSTANTS loop, hand

\* No backfill, and one whose end is soon past.
Live == [start |-> NoTime, end |-> NoTime]
Backfill == [start |-> 0, end |-> 1]
BackfillOnly == {Backfill}
WithAndWithoutStart == {Backfill, [start |-> NoTime, end |-> 1]}
==============================================================================
