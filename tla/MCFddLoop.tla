----------------------------- MODULE MCFddLoop -----------------------------
(* Instances of FddLoop for TLC: backfill settings on an axis of a few points. *)
EXTENDS FddLoop

CONSTANT hand

\* Windows that do not divide the range, two step sizes of one key, two starts,
\* two ends.
A  == [on |-> TRUE, start |-> 1, end |-> 4, step |-> 2]
A3 == [on |-> TRUE, start |-> 1, end |-> 4, step |-> 3]
B  == [on |-> TRUE, start |-> 0, end |-> 4, step |-> 2]
C  == [on |-> TRUE, start |-> 1, end |-> 3, step |-> 2]
Bad == [on |-> TRUE, start |-> 3, end |-> 3, step |-> 1]
Open == [on |-> TRUE, start |-> 0, end |-> NoEnd, step |-> 2]
Off == [on |-> FALSE, start |-> 0, end |-> NoEnd, step |-> 3]

Closed == {A, A3, B, C, Bad}
Both == {A, Open}
==============================================================================
