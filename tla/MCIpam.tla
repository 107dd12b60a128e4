------------------------------- MODULE MCIpam -------------------------------
(* Small networks and request sets for Ipam.                               *)
EXTENDS Ipam, TLC

V4Pool(n) == [f \in Fam |-> IF f = "v4" THEN n ELSE 0]
Pair(a, b) == [f \in Fam |-> IF f = "v4" THEN a ELSE b]

\* A /29-like V4 network: 0 and 5 are reserved, 1 is the gateway, 2..4 the pool.
RacePoolSize == V4Pool(6)
RaceStart == V4Pool(2)
RaceEnd == V4Pool(4)
RaceGateways == Pair({1}, {})
RaceRequests == {Pair(DynamicAllocType, Unset), Pair(3, Unset)}
NoLastIp == {Unset}
Symmetry == Permutations(Clients)

\* A dual-stack network whose V6 subnet is larger than its V6 allocation CIDR.
DualPoolSize == Pair(4, 4)
DualNetSize == Pair(4, 6)
DualStart == Pair(1, 1)
DualEnd == Pair(2, 2)
DualGateways == Pair({}, {5})
DualRequests == {Pair(DynamicAllocType, DynamicAllocType), Pair(NoneAllocType, 5),
                 Pair(2, 1), Pair(7, Unset)}
DualLastIps == {1}
=============================================================================
