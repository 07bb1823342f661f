---------------------------- MODULE MCDataModel ----------------------------
(* Instances of DataModel for TLC: one or two sites, two devices that give    *)
(* their zone temperature the same name, bodies of an import by hand.         *)
EXTENDS DataModel

CONSTANTS c1, c2, ahu, padded, zn, hw, k1, k2, raw, cfg, bad, brick

TrimNames == [n \in Names |-> IF n = padded THEN ahu ELSE n]
\* The padded site is described by the other name.
AlikeNames == [n \in Names |-> Names]
TwoObjects == <<<<1, zn>>, <<2, zn>>>>
SameName == [o \in Range(TwoObjects) |-> zn]
Normalized == [m \in Modbus |-> IF m = bad THEN Null ELSE cfg]

\* A site with a unit, a point of each kind; an object of the other device may
\* be discovered beside it.
Unit == [site |-> 1, name |-> ahu, feeds |-> Null, fedBy |-> Null, meta |-> {}]
Zone == [site |-> 1, ext |-> zn, bac |-> <<2, zn>>, equip |-> 2, polling |-> TRUE, mb |-> Null, tag |-> Null]
Meter == [site |-> 1, ext |-> hw, bac |-> Null, equip |-> Null, polling |-> FALSE, mb |-> cfg, tag |-> brick]
OneSite == {[sites |-> 1 :> ahu, equip |-> 2 :> Unit, points |-> (3 :> Zone @@ 4 :> Meter), fresh |-> 5]}

\* Rows by hand.
R == [Blank EXCEPT !.polling = Null, !.mb = Omit]
E == [eid |-> Null, site |-> Null, name |-> Null, feeds |-> Null, fedBy |-> Null, meta |-> {}]
Hand == {
  \* a stale or a live id, equipment by name
  [points |-> <<[R EXCEPT !.pid = 3, !.ename = padded, !.ext = zn, !.sname = ahu, !.mb = raw]>>, equipment |-> <<>>],
  \* the same key twice, BACnet and Modbus; a link by name
  [points |-> <<[R EXCEPT !.ext = zn, !.bac = <<1, zn>>, !.sname = ahu, !.tag = brick],
               [R EXCEPT !.ext = zn, !.mb = raw, !.ename = ahu, !.sname = ahu]>>,
   equipment |-> <<[E EXCEPT !.site = 1, !.name = padded, !.feeds = ahu, !.meta = {k1}]>>],
  [points |-> <<[R EXCEPT !.ext = hw, !.site = 1, !.mb = bad]>>, equipment |-> <<>>],
  [points |-> <<>>, equipment |-> <<[E EXCEPT !.eid = 2, !.meta = {k2}],
                                    [E EXCEPT !.name = ahu, !.site = 1, !.fedBy = 2]>>]}
SomePatches == {[equip |-> 2, bac |-> Null], [equip |-> Null, polling |-> FALSE, mb |-> cfg]}
Symmetry2 == Permutations(Clients)
============================================================================
