---------------------------- MODULE MCTenantNet ----------------------------
(* Small TenantConfigs and manifests for TenantNet.                         *)
EXTENDS TenantNet, TLC

Profile(n, slash, type, range) == [name |-> n, slash |-> slash, vniType |-> type, vniRange |-> range]
Net(type, device, devicePool, nid) ==
    [type |-> type, device |-> device, devicePool |-> devicePool, nid |-> nid,
     vlan |-> 0, vxlan |-> 0, uid |-> 0]

\* A device pool, the same card under two VNI types (VNI 0 is never handed out), and a
\* card without VNIs.
MCHostDevices ==
    <<Profile("nokia.k8s.io/vf", TRUE, "vlan", {1}), Profile("ens4", FALSE, "vxlan", {0, 1, 2}),
      Profile("ens4", FALSE, "vlan", {1}), Profile("ens5", FALSE, "", {})>>

\* Networks that leave the card open, ask for one, for the pool, for a card that is not
\* offered; with a NetworkID that is too long, or from the TenantConfig.
MCManifests ==
    {Net("ipvlan", "", "", "short"), Net("ipvlan", "ens4", "", "long"),
     Net("sriov", "", "nokia.k8s.io/vf", ""), Net("static", "", "", ""),
     Net("ipvlan", "ens6", "", "short")}

Symmetry == Permutations(Workers) \cup Permutations(Names)
=============================================================================
