---------------------------- MODULE MCNetWatcher ----------------------------
(* Small sets of networks and devices for NetWatcher.                        *)
EXTENDS NetWatcher, TLC

Net(id, device, vlan, vxlan) == [id |-> id, device |-> <<device>>, vlan |-> vlan, vxlan |-> vxlan]
Cards == {<<"ens4">>, <<"ens5">>}

\* A network that moves between VLANs, devices and names: its VxLAN interface keeps its
\* name and VNI on another device, its VLAN interface its VNI and device under another name.
OneNetwork == [n \in Networks |->
    {Net("a", "ens4", 5, 7), Net("a", "ens5", 6, 7), Net("b", "ens5", 6, 0)}]

\* A network that moves from one VLAN to another.
TwoVlans == [n \in Networks |-> {Net("a", "ens4", 5, 0), Net("a", "ens4", 6, 0)}]

\* ens4 has addresses of both families, ens5 only one of IPv6.
Addresses == [i \in Nodes |-> [d \in Cards |-> IF d = <<"ens4">> THEN {4, 6} ELSE {6}]]
Symmetry == Permutations(Nodes)
=============================================================================
