--------------------------- MODULE MCBacnetScrape ---------------------------
(* An instance of BacnetScrape for TLC: two objects of one device, a Modbus   *)
(* register, two sites, and lists of gateways for one site or for all.        *)
EXTENDS BacnetScrape, TLC

CONSTANTS p1, p2, p3, s1, s2

O(n) == <<12, n>>
Two == {O(1), O(2)}
Reg == {<<99, 1>>}
Of == [p \in Points |-> IF p = p3 THEN s2 ELSE s1]
G(u, s) == [url |-> u, site |-> s]
AllGateways == {G(0, Null), G(1, s1), G(2, s2)}
Env == G(0, Null)
ListsPut == {<<G(1, s1), G(2, s2)>>, <<G(0, Null)>>, Null, Bad}
Start0 == p1 :> [bac |-> O(1), mb |-> Null, polling |-> TRUE]
          @@ p2 :> [bac |-> O(2), mb |-> Null, polling |-> TRUE]
          @@ p3 :> [bac |-> Null, mb |-> <<99, 1>>, polling |-> TRUE]
Changes == {[polling |-> FALSE], [bac |-> O(1)]}
=============================================================================
