------------------------------- MODULE MCNic -------------------------------
(* Every Pod with one connection or two, of every kind, and some with three. *)
EXTENDS Nic

Ask(a, b) == [f \in Families |-> IF f = 4 THEN a ELSE b]
Connection(type, req, cidr) ==
    [type |-> type, req |-> req, cidr |-> cidr, prefix |-> <<>>, pool |-> "", vlan |-> FALSE,
     proutes |-> {}, own |-> {}, overlap |-> FALSE, kernel |-> TRUE, allowed |-> TRUE]

Kinds ==
    LET ipvlan == Connection("ipvlan", Ask("dynamic", "dynamic"), {4, 6})
        sriov == [Connection("sriov", Ask("dynamic", ""), {4}) EXCEPT !.pool = "vfs"]
        static == [Connection("flannel", Ask("", ""), {}) EXCEPT !.own = {4, 6}] IN
    { ipvlan,
      [ipvlan EXCEPT !.prefix = <<"net">>, !.req = Ask("dynamic", "none")],
      [ipvlan EXCEPT !.prefix = <<"eth", 0>>, !.cidr = {4}],
      [ipvlan EXCEPT !.allowed = FALSE],
      Connection("IPVLAN", Ask("dynamic", ""), {}),
      Connection("macvlan", Ask("dynamic", "none"), {4, 6}),
      sriov,
      [sriov EXCEPT !.vlan = TRUE, !.cidr = {4, 6}, !.req = Ask("dynamic", "dynamic")],
      [sriov EXCEPT !.pool = "unknown"],
      static,
      [static EXCEPT !.req = Ask("", "none"), !.prefix = <<"net">>],
      [static EXCEPT !.cidr = {4}, !.own = {4}, !.overlap = TRUE],
      [static EXCEPT !.cidr = {4}, !.req = Ask("", "dynamic")],
      [static EXCEPT !.own = {}, !.req = Ask("", "dynamic")],
      [static EXCEPT !.own = {}, !.req = Ask("dynamic", ""), !.proutes = {4}],
      [static EXCEPT !.own = {}, !.kernel = FALSE, !.prefix = <<"eth", 0>>],
      [static EXCEPT !.own = {}, !.kernel = FALSE, !.prefix = <<"net">>, !.cidr = {6},
                     !.req = Ask("", "dynamic")] }

\* A native, a static and an IPVLAN connection at once, and two connections that may share
\* a name, which the first one of a Pod never does.
Triples == {<<i, j, k>> : i \in {k \in Kinds : k.pool = "vfs"},
                          j \in {k \in Kinds : k.type = "flannel" /\ k.own = {4, 6} /\ k.req[6] # ""},
                          k \in {k \in Kinds : k.prefix # <<>> /\ k.allowed /\ k.type = "ipvlan"}}
    \cup {<<i, j, k>> : i \in {k \in Kinds : k.type = "macvlan"},
                       j, k \in {k \in Kinds : k.prefix = <<"net">>}}

MCPods == {[conns |-> s, naming |-> n] :
              s \in {<<k>> : k \in Kinds} \cup {<<j, k>> : j, k \in Kinds} \cup Triples,
              n \in {"", "legacy"}}
MCPodDevices == [p \in {"vfs", "unknown"} |-> IF p = "vfs" THEN <<"vf0", "vf1">> ELSE Nil]
=============================================================================
