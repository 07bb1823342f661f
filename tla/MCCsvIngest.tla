---------------------------- MODULE MCCsvIngest ----------------------------
(* Instances of CsvIngest for TLC: files of a few lines, settings that move   *)
(* the start, the end and the creation of points.                             *)
EXTENDS CsvIngest

CONSTANTS hand, ahu, vav, x

All == [on |-> TRUE, sources |-> <<vav, ahu>>, start |-> 0, end |-> 2, create |-> TRUE]
Later == [on |-> TRUE, sources |-> <<ahu>>, start |-> 1, end |-> 2, create |-> TRUE]
Mapped == [on |-> TRUE, sources |-> <<ahu>>, start |-> 0, end |-> 1, create |-> FALSE]
Off == [on |-> FALSE, sources |-> <<>>, start |-> 0, end |-> 2, create |-> TRUE]
Cfgs == {All, Later, Mapped}

\* Two files of one name in different directories feed the same points.
Stem == [s \in Sources |-> "data"]
Most == [s \in Sources |-> IF s = ahu THEN 2 ELSE 1]
None == [s \in Sources |-> IF s = ahu THEN 2 ELSE 0]
Bodies == {{[t |-> 1, vals |-> {x}]}}
============================================================================
