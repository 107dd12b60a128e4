----------------------------- MODULE MCNetRules -----------------------------
(* Manifests for NetRules.  The widths of the code are scaled down: IPv4      *)
(* addresses and indexes of 4 bits, IPv6 addresses of 5, at most 8 addresses   *)
(* in the pools of a network, 4 bits in a byte.                               *)
EXTENDS NetRules, TLC

Cidr(fam, base, prefix) == [fam |-> fam, base |-> base, prefix |-> prefix]
L2 == [net |-> NoCidr, cidr |-> NoCidr, gws |-> {}, start |-> Unset, end |-> Unset,
       last |-> Unset, plain |-> FALSE, alloc |-> NoAlloc]
L3(c) == [L2 EXCEPT !.net = c]

\* The smallest, two middle and a too large subnet, one of the wrong family and one that
\* cannot be parsed.
V4Nets == {Cidr("v4", 8, 3), Cidr("v4", 4, 2), Cidr("v4", 8, 1), Cidr("v4", 0, 0),
           Cidr("v6", 4, 3), Cidr("bad", 0, 0)}
V6Nets == {Cidr("v6", 0, 0), Cidr("v6", 8, 2), Cidr("v6", 16, 4), Cidr("v4", 4, 2)}
V6Cidrs == {NoCidr, Cidr("v6", 8, 2), Cidr("v6", 8, 3), Cidr("v6", 16, 4), Cidr("v6", 9, 5),
            Cidr("v4", 4, 2)}

\* Ends of the pool: left out, and in, at the border of and outside of the subnets.
V4Parts ==
    {L2, [L2 EXCEPT !.start = 5]}
      \cup {[L3(c) EXCEPT !.start = a, !.end = b, !.gws = g] :
              c \in V4Nets, a \in {Unset, 4, 9, 11}, b \in {Unset, 6, 11, 15},
              g \in {{}, {5}, {10}}}
      \cup {[L3(Cidr("v4", 8, 1)) EXCEPT !.start = 10, !.end = 14, !.last = l, !.plain = TRUE] :
              l \in {2, 9, 11, 13, 14, 15}}
V6Parts ==
    {L2, [L2 EXCEPT !.cidr = Cidr("v6", 8, 3)]}
      \cup {[L3(c) EXCEPT !.cidr = d, !.start = a, !.end = b, !.gws = g] :
              c \in V6Nets, d \in V6Cidrs, a \in {Unset, 10}, b \in {Unset, 9, 11},
              g \in {{}, {9}, {7}, {16}, {18}, {26}}}

\* The rest of a manifest: VNIs and devices, types and network IDs, tenants.
Links ==
    {[kind |-> "DanmNet", nid |-> "short", type |-> "ipvlan", device |-> d, devicePool |-> "",
      tenants |-> FALSE, vlan |-> v, vxlan |-> x] : d \in {"ens3", "ens4"}, v \in {0, 7}, x \in {0, 9}}
Names ==
    {[kind |-> k, nid |-> n, type |-> t, device |-> d, devicePool |-> p, tenants |-> a,
      vlan |-> v, vxlan |-> 0] :
        k \in {"DanmNet", "ClusterNetwork"}, n \in {"", "short", "long"},
        t \in {"", "sriov", "static"}, d \in {"", "ens3"}, p \in {"", "pool"},
        a \in BOOLEAN, v \in {0, 7}}
Plain == CHOOSE l \in Links : l.vlan = 0 /\ l.vxlan = 0 /\ l.device = "ens3"

Pools(l, a, b) == [v4 |-> a, v6 |-> b] @@ l
SmallV4 == L3(Cidr("v4", 4, 2))

MCManifests ==
    {Pools(Plain, a, L2) : a \in V4Parts}
      \cup {Pools(Plain, a, b) : a \in {L2, SmallV4}, b \in V6Parts}
      \cup {Pools(Plain, L3(c), L3(d)) : c \in V4Nets, d \in V6Nets}
      \cup {Pools(l, L2, L2) : l \in Links \cup Names}

\* Updates: other links, larger, smaller and no subnets, other gateways and ends.
MCEdits ==
    {Pools(l, L2, L2) : l \in Links}
      \cup {Pools(Plain, a, b) :
              a \in {L2, SmallV4, L3(Cidr("v4", 8, 1)),
                     [L3(Cidr("v4", 8, 1)) EXCEPT !.start = 9, !.end = 15],
                     [SmallV4 EXCEPT !.gws = {5}]},
              b \in {L2, L3(Cidr("v6", 0, 0)), [L3(Cidr("v6", 0, 0)) EXCEPT !.gws = {9}]}}
=============================================================================
