---------------------------- MODULE MCRuleFiles ----------------------------
(* Instances of RuleFiles for TLC: two files, three rules, two of one flag.    *)
EXTENDS RuleFiles, TLC

CONSTANTS x, y, s1, c1

TwoFiles == 1..2
\* A rule that fits the equipment, its edited version, and one that does not fit.
X1 == [flag |-> x, fits |-> TRUE, edited |-> FALSE]
X2 == [flag |-> x, fits |-> TRUE, edited |-> TRUE]
Y1 == [flag |-> y, fits |-> FALSE, edited |-> FALSE]
Three == {X1, X2, Y1}
Two == {X1, Y1}
Both == {<<Y1, X1>>}
\* Readers share nothing but the directory: a cache is checked without the
\* syncers, which saves their product.
Apart == {{loop, s1}, {cache}}
Seed == (x :> NoDef) @@ (y :> Y1)
==============================================================================
