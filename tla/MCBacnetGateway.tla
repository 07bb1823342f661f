--------------------------- MODULE MCBacnetGateway ---------------------------
(* Instances of BacnetGateway for TLC: this host's gateway and a remote one,  *)
(* devices 1 and 12, a point of each network's device 1 and one without       *)
(* address.                                                                   *)
EXTENDS BacnetGateway, TLC

CONSTANTS c1, c2, p1, p2, local, remote, docker, caddy, lan, far, a, b

Leads == [u \in {docker, caddy, lan, far} |-> IF u = far THEN remote ELSE local]
One == <<1>>
OneTwo == <<1, 2>>
Numbers == {One, OneTwo}
PointRows == (p1 :> <<One, a>>) @@ (p2 :> Null)
FarOnly == <<far>>
Settings == {FarOnly, <<>>}
Small == (local :> {<<One, a>>, <<OneTwo, a>>}) @@ (remote :> {<<One, a>>})
Grown == (local :> {<<One, b>>, <<OneTwo, a>>}) @@ (remote :> {<<One, a>>})
Networks == {Small, Grown}
Symmetry == Permutations(Clients)
==============================================================================
