-------------------------------- MODULE Nic --------------------------------
(***************************************************************************)
(* The network interfaces of one Pod, from CNI ADD to CNI DEL: what the      *)
(* goroutines of pkg/metacni do to the Pod's network namespace, to the CNI   *)
(* plugins they delegate to (pkg/cnidel, with cmd/fakeipam as their IPAM),   *)
(* to the DanmEps and to the addresses (pkg/danmep).                         *)
(*                                                                           *)
(* Module Cni is about the processes, their timeouts and crashes; here one   *)
(* process runs at a time, and what is at stake is the interfaces.           *)
(***************************************************************************)
EXTENDS Integers, Sequences, FiniteSets, TLC

CONSTANTS
    Pods,        \* annotations of the Pod, each with the naming scheme of the node
    PodDevices,  \* the devices Kubelet has allocated to the Pod, by DevicePool
    DpdkDevices, \* devices bound to a user space driver
    MaxFaults,   \* bound: calls of the API server, the kernel or a plugin that fail
    MaxDels      \* bound: CNI DEL invocations of Kubelet

VARIABLES
    pod,        \* the Pod: its connections and the naming scheme
    phase,      \* the CNI process and what Kubelet knows of it
    next,       \* the connection setupNetworking comes to next
    devices,    \* allocatedDevices, by DevicePool
    pc,         \* the goroutine of each connection
    mem,        \* its DanmEp, as it has it in memory
    ep,         \* the DanmEp in the API server
    reserved,   \* addresses reserved by DANM, as connection and family
    held,       \* connections a plugin holds an interface for
    own,        \* connections a plugin's own IPAM holds addresses for
    links,      \* the interfaces in the Pod's network namespace
    host,       \* interfaces left in the network namespace of the host
    faults, dels,
    lost,       \* connections whose reservation no DanmEp tells of (history)
    abandoned,  \* connections whose set-up failed with an interface in place (history)
    unread,     \* connections whose plugin's result could not be read (history)
    missed,     \* what a DEL could not clean up: a connection's "nic" or "ep" (history)
    foreign     \* addresses freed that DANM has not reserved (history)

process == <<phase, next, devices, pc, mem>>
kernel == <<links, host>>
plugins == <<held, own>>
api == <<ep, reserved>>
history == <<lost, abandoned, unread, missed, foreign>>
vars == <<pod, process, kernel, plugins, api, faults, dels, history>>

-----------------------------------------------------------------------------
Families == {4, 6}
conns == pod.conns
Conns == DOMAIN conns

\* An address: none has been asked for, "none" has been asked for, a request nobody
\* has served, an address of DANM's or one of the plugin's own IPAM.
Addresses == {"", "none", "dynamic", "danm", "own"}
NoAddress == [f \in Families |-> ""]
NoDevice == "no device"

\* What stands for a DanmEp that is not there.
NoEp == [name |-> <<>>, addr |-> NoAddress, device |-> NoDevice]

Init ==
    /\ pod \in Pods
    /\ phase = "setup" /\ next = 1
    /\ devices = [p \in DOMAIN PodDevices |-> <<"unread">>]
    /\ pc = [i \in Conns |-> "off"]
    /\ mem = [i \in Conns |-> NoEp]
    /\ ep = [i \in Conns |-> NoEp]
    /\ reserved = {} /\ held = {} /\ own = {} /\ links = {} /\ host = {}
    /\ faults = 0 /\ dels = 0
    /\ lost = {} /\ abandoned = {} /\ unread = {} /\ missed = {} /\ foreign = {}

Goto(i, l) == pc' = [pc EXCEPT ![i] = l]
Fault == faults < MaxFaults /\ faults' = faults + 1

\* A goroutine panics and the process ends with all that runs in it; an address
\* reserved for a DanmEp that has not been created yet is lost.
Panic ==
    /\ phase' = "panicked"
    /\ pc' = [i \in Conns |-> "off"]
    /\ lost' = lost \cup {i \in Conns : pc[i] = "create" /\ \E f \in Families : <<i, f>> \in reserved}
    /\ UNCHANGED <<pod, next, devices, mem, kernel, plugins, api, dels, abandoned, unread, missed, foreign>>

-----------------------------------------------------------------------------
(* The main goroutine                                                       *)

IsDeviceNeeded(c) == c.type = "sriov"

Nil == <<"nil">>
Allocations == UNION {{PodDevices[p][k] : k \in DOMAIN PodDevices[p]} : p \in DOMAIN PodDevices}
Device == Allocations \ {"unread", "nil"}

\* The names that ep.go takes from the endpoint ID, Host(i) and those of Dummies, are not
\* those of a prefix.
IsConnection(c) ==
    /\ c.req \in [Families -> {"", "none", "dynamic"}]
    /\ {c.cidr, c.own, c.proutes} \subseteq SUBSET Families
    /\ {c.vlan, c.overlap, c.kernel, c.allowed} \subseteq BOOLEAN
    /\ Len(c.prefix) \in Nat /\ c.prefix = [k \in 1 .. Len(c.prefix) |-> c.prefix[k]]
    /\ c.prefix # <<>> => c.prefix[1] \notin {"host", "dummy"}
    /\ IsDeviceNeeded(c) => c.pool \in DOMAIN PodDevices

ASSUME NicAssumption ==
    /\ \A p \in Pods : /\ Len(p.conns) \in Nat
                       /\ p.conns = [i \in 1 .. Len(p.conns) |-> p.conns[i]]
                       /\ \A i \in 1 .. Len(p.conns) : IsConnection(p.conns[i])
    /\ \A p \in DOMAIN PodDevices : PodDevices[p] = Nil \/ PodDevices[p] \in Seq(Device)
    /\ NoDevice \notin DpdkDevices
    /\ MaxFaults \in Nat /\ MaxDels \in Nat

isTenantAllowed(c) == c.allowed

\* getAllocatedDevices: a pool Kubelet knows nothing of, or that cannot be read, is left
\* in the map as a nil pointer.
Allocated(p) == IF devices[p] = <<"unread">> THEN PodDevices[p] ELSE devices[p]

popDevice(p) ==
    /\ mem' = [mem EXCEPT ![next].device = Allocated(p)[Len(Allocated(p))]]
    /\ devices' = [devices EXCEPT ![p] = SubSeq(Allocated(p), 1, Len(Allocated(p)) - 1)]

\* setupNetworking: the network is read, and refused when the Pod's namespace is not on
\* its list, when it cannot be read, or when it has no device; a goroutine is started.
createIface ==
    LET c == conns[next]
        p == c.pool
        started == Goto(next, "reserve") /\ UNCHANGED <<devices, mem, faults>>
        refused == Goto(next, "err") /\ UNCHANGED <<mem, faults>> IN
    /\ phase = "setup" /\ next <= Len(conns)
    /\ next' = next + 1
    /\ \/ Fault /\ Goto(next, "err") /\ UNCHANGED <<devices, mem>>
       \/ ~isTenantAllowed(c) /\ refused /\ UNCHANGED devices
       \/ isTenantAllowed(c) /\ ~IsDeviceNeeded(c) /\ started
       \/ /\ isTenantAllowed(c) /\ IsDeviceNeeded(c) /\ Allocated(p) \notin {Nil, <<>>}
          /\ popDevice(p)
          /\ Goto(next, "reserve") /\ UNCHANGED faults
       \/ /\ isTenantAllowed(c) /\ IsDeviceNeeded(c) /\ Allocated(p) = <<>>
          /\ refused /\ devices' = [devices EXCEPT ![p] = <<>>]
       \/ /\ isTenantAllowed(c) /\ IsDeviceNeeded(c) /\ devices[p] = <<"unread">>
          /\ \/ PodDevices[p] = Nil /\ UNCHANGED faults
             \/ Fault
          /\ Goto(next, "err") /\ devices' = [devices EXCEPT ![p] = Nil] /\ UNCHANGED mem
    /\ UNCHANGED <<pod, phase, kernel, plugins, api, dels, history>>

\* The second connection to such a pool dereferences the nil pointer.
popDevicePanics ==
    /\ phase = "setup" /\ next <= Len(conns)
    /\ isTenantAllowed(conns[next]) /\ IsDeviceNeeded(conns[next])
    /\ devices[conns[next].pool] = Nil
    /\ Panic /\ UNCHANGED faults

-----------------------------------------------------------------------------
(* createNic: the address and the DanmEp                                    *)

IsNative(c) == c.type \in {"sriov", "macvlan"}
IsDelegationRequired(c) == c.type \notin {"ipvlan", "IPVLAN"}

IsDanmIpamNeededForDelegation(c) ==
    \/ IsNative(c)
    \/ \E f \in Families : c.req[f] = "none"
    \/ \E f \in Families : c.req[f] # "" /\ f \in c.cidr

isIpReservationNeeded(c) == IsDanmIpamNeededForDelegation(c) \/ c.type = "ipvlan"

\* What ipam.Reserve makes of a request.  A dynamic and a static request differ only in
\* which address they get (module Ipam).
Served(r) == IF r = "dynamic" THEN "danm" ELSE r
Asks(c) == {f \in Families : c.req[f] = "dynamic"}

calculateIfaceName(c, i) ==
    CASE i = 1 -> <<"eth", 0>>
      [] i > 1 /\ c.prefix # <<>> /\ pod.naming = "legacy" -> c.prefix
      [] i > 1 /\ c.prefix # <<>> /\ pod.naming # "legacy" -> Append(c.prefix, i - 1)
      [] i > 1 /\ c.prefix = <<>> -> <<"eth", i - 1>>
Names == {calculateIfaceName(conns[i], i) : i \in Conns}

\* The part of a DanmEp that tells of the interface.
Iface == [name : {<<>>} \cup Names, addr : [Families -> Addresses], device : {NoDevice} \cup Device]

\* CreateDanmEp, first half: the addresses are reserved, or the request is kept as it is.
ReserveIps(i) ==
    LET c == conns[i]
        named(a) == mem' = [mem EXCEPT ![i].name = calculateIfaceName(c, i), ![i].addr = a] IN
    /\ pc[i] = "reserve"
    /\ \/ /\ ~isIpReservationNeeded(c)
          /\ named(c.req)
          /\ Goto(i, "create")
          /\ UNCHANGED <<reserved, faults>>
       \/ /\ isIpReservationNeeded(c) /\ Asks(c) \subseteq c.cidr
          /\ named([f \in Families |-> Served(c.req[f])])
          /\ reserved' = reserved \cup ({i} \X Asks(c))
          /\ Goto(i, "create")
          /\ UNCHANGED faults
       \/ /\ isIpReservationNeeded(c)
          /\ (~(Asks(c) \subseteq c.cidr) /\ UNCHANGED faults) \/ Fault
          /\ Goto(i, "err")
          /\ UNCHANGED <<mem, reserved>>
    /\ UNCHANGED <<pod, phase, next, devices, kernel, plugins, ep, dels, history>>

\* CreateDanmEp, second half: the DanmEp is created and the network is read again.
CreateDanmEp(i) ==
    /\ pc[i] = "create"
    /\ \/ /\ ep' = [ep EXCEPT ![i] = mem[i]]
          /\ Goto(i, "plug")
          /\ UNCHANGED <<faults, lost>>
       \/ /\ Fault
          /\ lost' = IF \E f \in Families : <<i, f>> \in reserved THEN lost \cup {i} ELSE lost
          /\ Goto(i, "err")
          /\ UNCHANGED ep
    /\ UNCHANGED <<pod, phase, next, devices, mem, kernel, plugins, reserved, dels,
                   abandoned, unread, missed, foreign>>

\* The network cannot be read again: createNic uses it nevertheless.
RefreshPanics(i) == pc[i] = "plug" /\ Fault /\ Panic

-----------------------------------------------------------------------------
(* createNic: the interface                                                 *)

Link(n, i, a, u) == [name |-> n, of |-> i, addr |-> a, up |-> u, dummy |-> FALSE]
Linked(n) == \E l \in links : l.name = n
IsAddress(a) == a \notin {"", "none"}

\* What is on an interface that has been given the addresses of a DanmEp.
OnLink(a) == [f \in Families |-> IF IsAddress(a[f]) THEN a[f] ELSE ""]

Host(i) == <<"host", i>>

\* createContainerIface: an IPVLAN interface is created on the host and moved into the
\* network namespace of the Pod, still under the name taken from the endpoint ID.
createContainerIface(i) ==
    /\ pc[i] = "plug" /\ conns[i].type = "ipvlan"
    /\ \/ /\ links' = links \cup {Link(Host(i), i, NoAddress, FALSE)}
          /\ Goto(i, "configure")
          /\ UNCHANGED <<host, faults, abandoned>>
       \/ /\ Fault /\ Goto(i, "fail")
          /\ \/ UNCHANGED <<host, abandoned>>
             \/ host' = host \cup {i} /\ abandoned' = abandoned \cup {i}
          /\ UNCHANGED links
    /\ UNCHANGED <<pod, phase, next, devices, mem, plugins, api, dels, lost, unread, missed, foreign>>

\* configureLink: the addresses are added, the interface gets its name, unless another
\* one has it, and is set up.
configureLink(i) ==
    LET old == {l \in links : l.name = Host(i)}
        a == OnLink(mem[i].addr) IN
    /\ pc[i] = "configure"
    /\ \/ /\ ~Linked(mem[i].name)
          /\ links' = (links \ old) \cup {Link(mem[i].name, i, a, TRUE)}
          /\ Goto(i, "post")
          /\ UNCHANGED <<faults, abandoned>>
       \/ /\ \/ Linked(mem[i].name) /\ UNCHANGED faults
                /\ links' = (links \ old) \cup {Link(Host(i), i, a, FALSE)}
             \/ Fault /\ \E b \in {NoAddress, a}, n \in {Host(i), mem[i].name} :
                            /\ n = Host(i) \/ (~Linked(n) /\ b = a)
                            /\ links' = (links \ old) \cup {Link(n, i, b, FALSE)}
          /\ Goto(i, "fail")
          /\ abandoned' = abandoned \cup {i}
    /\ UNCHANGED <<pod, phase, next, devices, mem, host, plugins, api, dels, lost, unread, missed, foreign>>

\* AddIpvlanInterface does nothing for a type that is not spelt in lower case;
\* AddIpToResult dereferences nil when an address is not one.
NoInterface(i) ==
    /\ pc[i] = "plug" /\ conns[i].type = "IPVLAN"
    /\ \A f \in Families : mem[i].addr[f] # "dynamic"
    /\ Goto(i, "post")
    /\ UNCHANGED <<pod, phase, next, devices, mem, kernel, plugins, api, faults, dels, history>>

AddIpToResultPanics(i) ==
    /\ pc[i] = "plug" /\ conns[i].type = "IPVLAN"
    /\ \E f \in Families : mem[i].addr[f] = "dynamic"
    /\ Panic /\ UNCHANGED faults

-----------------------------------------------------------------------------
(* createNic: delegation                                                    *)

\* getCniIpamConfig: the families DANM passes addresses of to the plugin.
IpamIps(a) == {f \in Families : IsAddress(a[f])}

\* getSriovCniConfig, getMacvlanCniConfig, readCniConfigFile: with addresses to pass on
\* the IPAM of the plugin is fakeipam; a native plugin has none otherwise, a static one
\* has the one of its configuration file.
IpamOf(c, ips) == IF ips # {} THEN "fakeipam" ELSE IF IsNative(c) THEN "" ELSE "own"

\* fakeipam repeats the addresses it is given.
reserveIp(ips, a) == [f \in Families |-> IF f \in ips THEN a[f] ELSE ""]

\* The addresses the plugin gives its interface.
Given(c, a) ==
    LET ips == IF isIpReservationNeeded(c) THEN IpamIps(a) ELSE {} IN
    CASE IpamOf(c, ips) = "fakeipam" -> reserveIp(ips, a)
      [] IpamOf(c, ips) = "own" -> [f \in Families |-> IF f \in c.own THEN "own" ELSE ""]
      [] OTHER -> NoAddress

IsDpdk(i) == mem[i].device \in DpdkDevices

\* Whether the plugin puts an interface into the network namespace.
MakesLink(i) == conns[i].kernel /\ ~IsDpdk(i)

\* Mutant: the first answer of the plugin is kept.
KeepAddress(a, g) == a

setEpIfaceAddress(a, g) == [f \in Families |-> IF g[f] # "" THEN g[f] ELSE a[f]]

\* createDelegatedInterface: the DanmEp has to be updated.
IsChanged(old, new) == \E f \in Families : old[f] # new[f] /\ old[f] # "none"

\* The plugin fails when the name or the device is taken.
IsPluginRefused(i) ==
    \/ MakesLink(i) /\ Linked(mem[i].name)
    \/ mem[i].device # NoDevice /\ \E j \in held : mem[j].device = mem[i].device

\* The plugin has run with ADD, and given the interface the addresses g.
execCniPlugin(i, g) ==
    /\ held' = held \cup {i}
    /\ own' = IF \E f \in Families : g[f] = "own" THEN own \cup {i} ELSE own
    /\ links' = IF MakesLink(i) THEN links \cup {Link(mem[i].name, i, OnLink(g), TRUE)} ELSE links

\* A result that cannot be decoded is dropped, and the delegation counts as successful.
DelegateInterfaceSetup(i) ==
    LET c == conns[i]
        g == Given(c, mem[i].addr)
        taken == IsPluginRefused(i)
        done == execCniPlugin(i, g)
        new == setEpIfaceAddress(mem[i].addr, g) IN
    /\ pc[i] = "plug" /\ IsDelegationRequired(c)
    /\ \/ /\ ~taken /\ done
          /\ mem' = [mem EXCEPT ![i].addr = new]
          /\ Goto(i, IF IsChanged(mem[i].addr, new) THEN "update" ELSE "post")
          /\ UNCHANGED <<faults, unread>>
       \/ /\ ~taken /\ Fault /\ done
          /\ unread' = unread \cup {i}
          /\ Goto(i, "post")
          /\ UNCHANGED mem
       \/ /\ (taken /\ UNCHANGED faults) \/ Fault
          /\ Goto(i, "fail")
          /\ UNCHANGED <<mem, plugins, links, unread>>
    /\ UNCHANGED <<pod, phase, next, devices, host, api, dels, lost, abandoned, missed, foreign>>

UpdateDanmEp(i) ==
    /\ pc[i] = "update"
    /\ \/ ep' = [ep EXCEPT ![i] = mem[i]] /\ Goto(i, "post") /\ UNCHANGED <<faults, abandoned>>
       \/ Fault /\ Goto(i, "fail") /\ abandoned' = abandoned \cup {i} /\ UNCHANGED ep
    /\ UNCHANGED <<pod, phase, next, devices, mem, kernel, plugins, reserved, dels,
                   lost, unread, missed, foreign>>

-----------------------------------------------------------------------------
(* createNic: post-processing                                               *)

\* createDummyInterface stands in for a device with a user space driver; with a VLAN it
\* is a VLAN interface on top of another dummy.
Dummy(n, i, a, u) == [Link(n, i, a, u) EXCEPT !.dummy = TRUE]
LowerDummies(i, u) == IF conns[i].vlan THEN {Dummy(<<"dummy", i>>, i, NoAddress, u)} ELSE {}
Dummies(i) == {Dummy(mem[i].name, i, OnLink(mem[i].addr), TRUE)} \cup LowerDummies(i, TRUE)

\* setDanmEpSysctls and disableDadOnIface: without an IPv6 address IPv6 is switched off,
\* which removes the addresses there are; with one, the address is set again.
V6Address(i, a) ==
    CASE mem[i].addr[6] = "" -> ""
      [] IsAddress(mem[i].addr[6]) /\ conns[i].type # "ipvlan" -> mem[i].addr[6]
      [] OTHER -> a
Processed(ls, i) ==
    {IF l.name = mem[i].name THEN [l EXCEPT !.addr[6] = V6Address(i, @)] ELSE l : l \in ls}

\* Mutant: that no address was asked for is forgotten.
NoneUnparsable(i) == mem[i].addr[6] \in {"none", "dynamic"} /\ conns[i].type # "ipvlan"

\* addIpRoutes: the source of policy routes has to be an address.
IsSourceUnparsable(i) == \E f \in conns[i].proutes : mem[i].addr[f] = "dynamic"

\* A request that has not been served is taken for an address.
IsUnparsable(i) ==
    \/ mem[i].addr[6] = "dynamic" /\ conns[i].type # "ipvlan"
    \/ IsSourceUnparsable(i)

DummyFails(i) == IsDpdk(i) /\ Linked(mem[i].name)

\* What createDummyInterface may have created when one of its calls fails; the lower dummy
\* is there before the name of the upper one may turn out to be taken.
UnfinishedDummies(i) ==
    IF ~IsDpdk(i) THEN {{}}
    ELSE {{}, LowerDummies(i, FALSE), LowerDummies(i, TRUE)} \cup
         {LowerDummies(i, TRUE) \cup {Dummy(mem[i].name, i, a, FALSE)} :
             a \in IF DummyFails(i) THEN {} ELSE {NoAddress, OnLink(mem[i].addr)}}

\* PostProcessInterface.  An interface that is not there is skipped.  Each call may fail,
\* addIpRoutes at the end among them.
PostProcessInterface(i) ==
    LET ls == IF IsDpdk(i) THEN links \cup Dummies(i) ELSE links
        found == \E l \in ls : l.name = mem[i].name
        fails == Goto(i, "fail") /\ abandoned' = abandoned \cup {i} IN
    /\ pc[i] = "post"
    /\ \/ /\ ~DummyFails(i) /\ (found => ~IsUnparsable(i))
          /\ links' = Processed(ls, i)
          /\ Goto(i, "ok")
          /\ UNCHANGED <<faults, abandoned>>
       \/ DummyFails(i) /\ fails /\ links' = links \cup LowerDummies(i, TRUE) /\ UNCHANGED faults
       \/ /\ Fault /\ fails
          /\ \/ \E created \in UnfinishedDummies(i) : links' = links \cup created
             \/ ~DummyFails(i) /\ links' = Processed(ls, i)
    /\ UNCHANGED <<pod, phase, next, devices, mem, host, plugins, api, dels, lost, unread, missed, foreign>>

ParsePanics(i) ==
    /\ pc[i] = "post" /\ ~DummyFails(i) /\ Linked(mem[i].name) /\ IsUnparsable(i)
    /\ Panic /\ UNCHANGED faults

-----------------------------------------------------------------------------
(* DeleteDanmEp, and the end of ADD                                         *)

\* Mutant: any address is taken for one of the network's CIDR.
AnyAddress(c, a, f) == IsAddress(a[f]) /\ f \in c.cidr

\* The plugin's own IPAM may hand out addresses of the network's CIDR, too.
InCidr(c, a, f) == f \in c.cidr /\ (a[f] = "danm" \/ (a[f] = "own" /\ c.overlap))

WasIpAllocatedByDanm(c, a, f) == InCidr(c, a, f)

\* GarbageCollectIps frees both addresses of a DanmEp if one is of the network's CIDR;
\* resetIp looks at each once more.
Freed(i, e) ==
    IF \E f \in Families : WasIpAllocatedByDanm(conns[i], e.addr, f)
    THEN {i} \X {f \in Families : InCidr(conns[i], e.addr, f)}
    ELSE {}

\* Mutant: the DanmEp goes, its addresses stay.
DeleteEpOnly(i, e) ==
    /\ ep' = [ep EXCEPT ![i] = NoEp]
    /\ UNCHANGED <<reserved, foreign>>

DeleteDanmEp(i, e) ==
    /\ reserved' = reserved \ Freed(i, e)
    /\ foreign' = foreign \cup (Freed(i, e) \ reserved)
    /\ ep' = [ep EXCEPT ![i] = NoEp]

\* The IPv4 address cannot be freed, or after it the IPv6 address, or the DanmEp cannot be
\* deleted after both.
DeleteFails(i, e) ==
    /\ UNCHANGED ep
    /\ \E fs \in {{}, {4}, Families} :
          LET freed == {x \in Freed(i, e) : x[2] \in fs} IN
          /\ reserved' = reserved \ freed
          /\ foreign' = foreign \cup (freed \ reserved)

\* Mutant: the error is not looked at.
SetupIgnored(i) ==
    /\ pc[i] = "fail" /\ Goto(i, "ok")
    /\ UNCHANGED <<pod, phase, next, devices, mem, kernel, plugins, api, faults, dels, history>>

\* The set-up has failed: the DanmEp is deleted; the interface is not.
SetupFails(i) ==
    /\ pc[i] = "fail"
    /\ \/ DeleteDanmEp(i, mem[i]) /\ UNCHANGED faults
       \/ Fault /\ DeleteFails(i, mem[i])
    /\ Goto(i, "err")
    /\ UNCHANGED <<pod, phase, next, devices, mem, kernel, plugins, dels, lost, abandoned, unread, missed>>

\* GetAggregatedResult: every result has been pushed.
AllResults == next > Len(conns) /\ \A i \in Conns : pc[i] \in {"ok", "err"}

\* CreateInterfaces: the ADD succeeds, or goes on as a DEL.
AddReturns ==
    /\ phase = "setup" /\ AllResults
    /\ phase' = IF \A i \in Conns : pc[i] = "ok" THEN "up" ELSE "list"
    /\ pc' = [i \in Conns |-> "off"]
    /\ UNCHANGED <<pod, next, devices, mem, kernel, plugins, api, faults, dels, history>>

-----------------------------------------------------------------------------
(* DEL                                                                      *)

\* Kubelet calls DEL once the ADD is over, and again as it pleases.
DeleteInterfaces ==
    /\ phase \in {"up", "panicked", "returned", "gone"} /\ dels < MaxDels
    /\ dels' = dels + 1
    /\ phase' = "list"
    /\ UNCHANGED <<pod, next, devices, pc, mem, kernel, plugins, api, faults, history>>

\* FindByCid: a goroutine is started for each DanmEp.  DEL succeeds even if they cannot
\* be listed.
FindByCid ==
    /\ phase = "list"
    /\ \/ /\ phase' = "del"
          /\ pc' = [i \in Conns |-> IF ep[i] # NoEp THEN "del" ELSE "off"]
          /\ mem' = ep
          /\ UNCHANGED <<faults, missed>>
       \/ /\ Fault
          /\ phase' = "returned"
          /\ missed' = missed \cup (Conns \X {"nic", "ep"})
          /\ UNCHANGED <<pc, mem>>
    /\ UNCHANGED <<pod, next, devices, kernel, plugins, api, dels, lost, abandoned, unread, foreign>>

\* deleteInterface, when the network cannot be read: a DanmEp with addresses is kept.
NetworkMissing(i) ==
    /\ pc[i] = "del" /\ Fault
    /\ \E f \in Families : mem[i].addr[f] # ""
    /\ missed' = missed \cup ({i} \X {"nic", "ep"})
    /\ Goto(i, "off")
    /\ UNCHANGED <<pod, phase, next, devices, mem, kernel, plugins, api, dels,
                   lost, abandoned, unread, foreign>>

\* One without addresses is not, and the network that is missing is dereferenced.
DeleteDanmEpPanics(i) ==
    /\ pc[i] = "del" /\ mem[i].addr = NoAddress
    /\ Fault /\ Panic

\* Mutant: the address is freed before the interface is gone.
FreeFirst(i) ==
    /\ pc[i] = "del" /\ DeleteDanmEp(i, mem[i]) /\ Goto(i, "delep")
    /\ UNCHANGED <<pod, phase, next, devices, mem, kernel, plugins, faults, dels,
                   lost, abandoned, unread, missed>>

\* The interface of that name is deleted, whosever it is.
deleteContainerIface(i) ==
    /\ conns[i].type = "ipvlan"
    /\ links' = {l \in links : l.name # mem[i].name}
    /\ UNCHANGED plugins

\* The plugin is called with DEL.  One that is given addresses calls fakeipam, which
\* frees nothing, and not its own IPAM.
DelegateInterfaceDelete(i) ==
    LET c == conns[i]
        ips == {f \in Families : WasIpAllocatedByDanm(c, mem[i].addr, f)} IN
    /\ IsDelegationRequired(c)
    /\ held' = held \ {i}
    /\ own' = IF IpamOf(c, ips) = "fakeipam" THEN own ELSE own \ {i}
    /\ links' = IF MakesLink(i) THEN {l \in links : l.name # mem[i].name} ELSE links

deleteNic(i) ==
    /\ pc[i] = "del"
    /\ Goto(i, "delep")
    /\ \/ (deleteContainerIface(i) \/ DelegateInterfaceDelete(i)) /\ UNCHANGED <<faults, missed>>
       \/ /\ (conns[i].type = "IPVLAN" /\ UNCHANGED faults) \/ Fault
          /\ missed' = missed \cup {<<i, "nic">>}
          /\ UNCHANGED <<links, plugins>>
    /\ UNCHANGED <<pod, phase, next, devices, mem, host, api, dels, lost, abandoned, unread, foreign>>

\* deleteInterface: the DanmEp is deleted whatever has become of the interface.
deleteInterface(i) ==
    /\ pc[i] = "delep"
    /\ \/ DeleteDanmEp(i, mem[i]) /\ UNCHANGED <<faults, missed>>
       \/ Fault /\ missed' = missed \cup {<<i, "ep">>} /\ DeleteFails(i, mem[i])
    /\ Goto(i, "off")
    /\ UNCHANGED <<pod, phase, next, devices, mem, kernel, plugins, dels, lost, abandoned, unread>>

DelReturns ==
    /\ phase = "del" /\ \A i \in Conns : pc[i] = "off"
    /\ phase' = "returned"
    /\ UNCHANGED <<pod, next, devices, pc, mem, kernel, plugins, api, faults, dels, history>>

\* The sandbox of the Pod, and with it its network namespace, is removed.
RemoveNetns ==
    /\ phase = "returned"
    /\ phase' = "gone" /\ links' = {}
    /\ UNCHANGED <<pod, next, devices, pc, mem, host, plugins, api, faults, dels, history>>

-----------------------------------------------------------------------------
createNic(i) ==
    \/ ReserveIps(i) \/ CreateDanmEp(i) \/ RefreshPanics(i)
    \/ createContainerIface(i) \/ configureLink(i)
    \/ NoInterface(i) \/ AddIpToResultPanics(i)
    \/ DelegateInterfaceSetup(i) \/ UpdateDanmEp(i)
    \/ PostProcessInterface(i) \/ ParsePanics(i)
    \/ SetupFails(i)

DelNic(i) ==
    \/ NetworkMissing(i) \/ DeleteDanmEpPanics(i)
    \/ deleteNic(i) \/ deleteInterface(i)

Next ==
    \/ createIface \/ popDevicePanics \/ AddReturns
    \/ \E i \in Conns : createNic(i) \/ DelNic(i)
    \/ DeleteInterfaces \/ FindByCid \/ DelReturns \/ RemoveNetns

Spec == Init /\ [][Next]_vars

-----------------------------------------------------------------------------
Running == {"reserve", "create", "plug", "configure", "update", "post", "fail"}

LinkNames == Names \cup {Host(i) : i \in Conns} \cup {<<"dummy", i>> : i \in Conns}

\* Types; and no goroutine outlives the CNI process it was started in.
TypeOK ==
    /\ pod \in Pods
    /\ phase \in {"setup", "up", "panicked", "list", "del", "returned", "gone"}
    /\ next \in 1 .. Len(conns) + 1
    /\ devices \in [DOMAIN PodDevices -> {<<"unread">>, Nil} \cup Seq(Device)]
    /\ pc \in [Conns -> CASE phase = "setup" -> Running \cup {"off", "ok", "err"}
                          [] phase = "del" -> {"off", "del", "delep"}
                          [] OTHER -> {"off"}]
    /\ {mem, ep} \subseteq [Conns -> Iface]
    /\ links \subseteq [name : LinkNames, of : Conns, addr : [Families -> Addresses],
                        up : BOOLEAN, dummy : BOOLEAN]
    /\ reserved \cup foreign \subseteq Conns \X Families
    /\ UNION {held, own, host, lost, abandoned, unread} \subseteq Conns
    /\ missed \subseteq Conns \X {"nic", "ep"}
    /\ faults \in 0 .. MaxFaults /\ dels \in 0 .. MaxDels

\* Connections that are to have an interface in the Pod's network namespace.
WantsLink(i) == conns[i].type = "ipvlan" \/ (IsDelegationRequired(conns[i]) /\ (conns[i].kernel \/ IsDpdk(i)))

\* When CreateInterfaces reports success, every connection has exactly one interface of
\* its own under the name its DanmEp tells, set up, and no device serves two of them,
\* whatever the order in which the goroutines named, moved and delegated.
UpPodsHaveLinks ==
    phase = "up" =>
        /\ \A i \in Conns : WantsLink(i) =>
              Cardinality({l \in links : l.name = ep[i].name /\ l.of = i /\ l.up}) = 1
        /\ \A i, j \in Conns : (ep[i].device = ep[j].device /\ ep[i].device # NoDevice) => i = j

\* Two connections of a Pod may have one name under the legacy naming scheme; both are set
\* up only when at most one of them is a kernel interface.
SharesName(i) ==
    \E j \in Conns \ {i} : calculateIfaceName(conns[j], j) = calculateIfaceName(conns[i], i)

\* The DanmEps of a running Pod tell the addresses its interfaces have, whoever assigned
\* them, and svcwatcher may rely on them.  Not told are addresses of a plugin's own IPAM
\* when its result could not be read, or when the Pod had asked for none.
AddressesAgree ==
    phase = "up" =>
        \A l \in links : \A f \in Families :
            LET a == ep[l.of].addr[f]
                assigned == {"danm", "own"} IN
            (l.name = ep[l.of].name /\ ~SharesName(l.of)) =>
                /\ a \in assigned => l.addr[f] = a
                /\ l.addr[f] \in assigned =>
                      l.addr[f] = a \/ l.of \in unread \/ conns[l.of].req[f] = "none"

\* An address DANM has freed is on no interface of the Pod that leads to the network:
\* DEL removes the interface first.  Exceptions are set-ups that failed with the
\* interface in place (createNic deletes the DanmEp alone), interfaces that could not
\* be deleted, dummies, and IPv6 addresses that a connection of the same name has set.
AddressesOwned ==
    \A l \in links : \A f \in Families :
        l.addr[f] = "danm" =>
            \/ <<l.of, f>> \in reserved
            \/ l.of \in abandoned \/ <<l.of, "nic">> \in missed
            \/ l.dummy
            \/ f = 6 /\ SharesName(l.of)

\* A Pod that is gone leaves nothing behind: no DanmEp, no reserved address, no interface
\* or address held by a plugin; but for a DEL that failed on the way, for set-ups that
\* failed after the plugin had succeeded (the plugin's DEL is never called), and for
\* addresses of the plugin's IPAM that look like DANM's.
NothingLeft ==
    phase = "gone" =>
        \A i \in Conns :
            /\ ep[i] # NoEp => <<i, "ep">> \in missed
            /\ (\E f \in Families : <<i, f>> \in reserved) => i \in lost \/ <<i, "ep">> \in missed
            /\ i \in held \cup host => i \in abandoned \/ <<i, "nic">> \in missed
            /\ i \in own => i \in abandoned \/ <<i, "nic">> \in missed \/ conns[i].overlap

\* DeleteDanmEp frees an address DANM has not reserved only if the plugin's own IPAM
\* hands out addresses of the network's CIDR, or if a call had failed in between.
FreesOwnOnly == foreign # {} => faults > 0 \/ \E i \in Conns : conns[i].overlap

\* Without a failing call the CNI process panics only on a request nobody serves (a
\* network without CIDR and a plugin without addresses), or when two connections use a
\* DevicePool Kubelet knows nothing of.
PanicsHaveCause ==
    phase = "panicked" =>
        \/ faults > 0
        \/ \E i \in Conns : ~isIpReservationNeeded(conns[i]) /\ Asks(conns[i]) # {}
        \/ \E i, j \in Conns : i # j /\ IsDeviceNeeded(conns[i]) /\ conns[i].pool = conns[j].pool
                                     /\ PodDevices[conns[i].pool] = Nil
=============================================================================
