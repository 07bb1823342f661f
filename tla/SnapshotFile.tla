---------------------------- MODULE SnapshotFile ----------------------------
(***************************************************************************)
(* What the unified TTL file promises about its Brick part, whoever writes *)
(* it: the file is a snapshot of the database, taken no earlier than the   *)
(* last start of the API process, or it is damaged (truncated or torn)     *)
(* until somebody writes it again.                                         *)
(***************************************************************************)
EXTENDS Integers

CONSTANTS Empty, Torn
VARIABLES db, file, base   \* base: database version at the last start

vars == <<db, file, base>>

Init == db = 0 /\ file \in {0, Empty} /\ base = 0

Commit == db' = db + 1 /\ UNCHANGED <<file, base>>
Snapshot == file' \in base .. db /\ UNCHANGED <<db, base>>
Damage == file' \in {Empty, Torn} /\ UNCHANGED <<db, base>>
Restart == base' = db /\ UNCHANGED <<db, file>>

Next == Commit \/ Snapshot \/ Damage \/ Restart
Spec == Init /\ [][Next]_vars
=============================================================================
