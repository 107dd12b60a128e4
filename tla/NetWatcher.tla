---------------------------- MODULE NetWatcher ----------------------------
(***************************************************************************)
(* The network watcher (pkg/netcontrol, cmd/netwatcher): one process per     *)
(* node keeps a VLAN and a VxLAN host interface for every network that asks  *)
(* for one.  It learns of networks from one informer per API, which runs     *)
(* the handlers of its events one after the other; the handlers of           *)
(* NetworkAttachmentDefinitions (NADs) also write to the API server.         *)
(*                                                                           *)
(* An informer hands a handler pointers into its cache.  For a network the   *)
(* object of one event is the old object of the next one, so what a handler  *)
(* writes to it is what the next one reads: known holds that object.         *)
(* Handlers of different APIs only meet in the kernel, one request at a      *)
(* time, so a handler is one step.                                           *)
(***************************************************************************)
EXTENDS Integers, Sequences, SequencesExt, FiniteSets

CONSTANTS
    Nodes,      \* nodes of the cluster, each with a watcher
    Networks,   \* names of networks
    Specs,      \* for every network, the specs its users give it
    Devices,    \* names of the physical network devices of every node
    DeviceIps,  \* for every node and device, the families (4, 6) of its global addresses
    MaxEdits,   \* bound: creations, modifications and deletions of networks
    MaxUpsets   \* bound: resyncs, watches that end, processes or nodes that go down, and
                \* requests to the kernel or the API server that fail, all together

DanmNetKind == "DanmNet"
TenantNetworkKind == "TenantNetwork"
ClusterNetworkKind == "ClusterNetwork"
NadKind == "NetworkAttachmentDefinition"
Kinds == {DanmNetKind, TenantNetworkKind, ClusterNetworkKind, NadKind}

\* Names of host interfaces: a device, the VLAN interface netId.vlan, the VxLAN
\* interface vx_netId.  The empty name stands for no device.
VlanName(netId, vlan) == <<netId, "vlan", vlan>>
VxlanName(netId) == <<"vx", netId>>

\* What the watcher reads of a network; 0 is no VNI.
NoSpec == [id |-> "", device |-> <<>>, vlan |-> 0, vxlan |-> 0]

ASSUME WatcherAssumption ==
    /\ \A d \in Devices : d \in Seq(STRING) /\ Len(d) = 1
    /\ Nodes # {} /\ IsFiniteSet(Networks)
    /\ \A n \in Networks : \A s \in Specs[n] :
          /\ s = [id |-> s.id, device |-> s.device, vlan |-> s.vlan, vxlan |-> s.vxlan]
          /\ s.device \in Devices \cup {<<>>} /\ s.vlan \in Nat /\ s.vxlan \in Nat
          /\ \A m \in Networks \ {n} : \A t \in Specs[m] : t.id # s.id
    /\ \A i \in Nodes : \A d \in Devices : DeviceIps[i][d] \subseteq {4, 6}
    /\ {MaxEdits, MaxUpsets} \subseteq Nat

VARIABLES
    kind,     \* the API every network belongs to
    api,      \* the networks in the API server, with their versions
    rev,      \* the version of the latest write
    watch,    \* for every node and API: "off", "up", or "lost"
    queue,    \* for every node and API: events whose handler has not run yet
    known,    \* for every node and network: the object of the latest event
    links,    \* the VLAN and VxLAN interfaces of every node
    edits,    \* changes of networks by users so far
    upsets,   \* resyncs, losses and failures so far
    excused,  \* for every node, networks the watcher lost track of (history)
    unpatched \* NADs whose host interface nobody wrote to them (history)

bounds == <<edits, upsets>>
history == <<excused, unpatched>>
vars == <<kind, api, rev, watch, queue, known, links, bounds, history>>

-----------------------------------------------------------------------------
(* Host interfaces (net.go).  Every operator returns the interfaces of the   *)
(* node and whether it failed; fault is the kernel request that fails.       *)

NoFault == <<>>
LinkFaults == {"del", "add", "up"} \X {"vlan", "vxlan"}
Result(ls, err) == [links |-> ls, err |-> err]
LinkNames(ls) == {l.name : l \in ls}

\* A VLAN or VxLAN interface goes with the device it is on.
DelLink(ls, name) == {l \in ls : l.name # name /\ l.parent # name}

deleteHostInterface(ls, type, ifId, ifName, fault) ==
    IF ifId = 0 \/ ifName \notin LinkNames(ls) THEN Result(ls, FALSE)
    ELSE IF fault = <<"del", type>> THEN Result(ls, TRUE)
    ELSE Result(DelLink(ls, ifName), FALSE)

\* Mutant: the interface is named after the device.
VlanOfDevice(vlanId, netId, hdev) == IF vlanId = 0 THEN hdev ELSE VlanName(hdev, vlanId)

determineVlanHdev(vlanId, netId, hdev) == IF vlanId = 0 THEN hdev ELSE VlanName(netId, vlanId)

\* Mutant: only the VLAN interface is deleted.
DeletesVlanOnly(s, ls, fault) ==
    deleteHostInterface(ls, "vlan", s.vlan, determineVlanHdev(s.vlan, s.id, s.device), fault)

\* Both interfaces are tried, whatever happens to the first one.
deleteNetworks(s, ls, fault) ==
    IF s.device = <<>> THEN Result(ls, FALSE)
    ELSE LET vx == deleteHostInterface(ls, "vxlan", s.vxlan, VxlanName(s.id), fault)
             vl == deleteHostInterface(vx.links, "vlan", s.vlan,
                                       determineVlanHdev(s.vlan, s.id, s.device), fault)
         IN Result(vl.links, vx.err \/ vl.err)

\* An interface that cannot be set up stays behind.
addLink(ls, type, link, fault) ==
    IF fault = <<"add", type>> THEN Result(ls, TRUE)
    ELSE IF fault = <<"up", type>> THEN Result(ls \cup {[link EXCEPT !.up = FALSE]}, TRUE)
    ELSE Result(ls \cup {link}, FALSE)

\* An interface of that name will do, whatever it is on.
shouldInterfaceBeCreated(ls, ifId, ifName) == ifId # 0 /\ ifName \notin LinkNames(ls)
IsPresent(ls, device) == device \in Devices \cup LinkNames(ls)

setupVlan(ls, s, fault) ==
    LET name == determineVlanHdev(s.vlan, s.id, s.device)
    IN IF ~shouldInterfaceBeCreated(ls, s.vlan, name) THEN Result(ls, FALSE)
       ELSE IF ~IsPresent(ls, s.device) THEN Result(ls, TRUE)
       ELSE addLink(ls, "vlan", [name |-> name, vni |-> s.vlan, parent |-> s.device,
                                 group |-> <<>>, up |-> TRUE], fault)

\* The multicast group of a VxLAN: as many VNIs as the group prefix has host addresses.
getMulticastIp(family, vxlanId) == <<family, vxlanId>>

\* The families of the global addresses of a device; interfaces on top of it have none.
parseVxlanHostIp(i, device) == IF device \in Devices THEN DeviceIps[i][device] ELSE {}

VxlanGroup(i, s) ==
    getMulticastIp(IF 4 \in parseVxlanHostIp(i, s.device) THEN 4 ELSE 6, s.vxlan)

setupVxlan(i, ls, s, fault) ==
    IF ~shouldInterfaceBeCreated(ls, s.vxlan, VxlanName(s.id)) THEN Result(ls, FALSE)
    ELSE IF ~IsPresent(ls, s.device) \/ parseVxlanHostIp(i, s.device) = {} THEN Result(ls, TRUE)
    ELSE addLink(ls, "vxlan", [name |-> VxlanName(s.id), vni |-> s.vxlan, parent |-> s.device,
                               group |-> VxlanGroup(i, s), up |-> TRUE], fault)

\* The VxLAN interface is only tried when the VLAN interface did not fail.
setupHost(i, s, ls, fault) ==
    IF s.device = <<>> THEN Result(ls, FALSE)
    ELSE LET vl == setupVlan(ls, s, fault)
         IN IF vl.err THEN vl ELSE setupVxlan(i, vl.links, s, fault)

\* The interface Pods are connected to.
DetermineHostDeviceName(s) ==
    IF s.vxlan # 0 THEN VxlanName(s.id) ELSE determineVlanHdev(s.vlan, s.id, s.device)

\* Mutant: the device is not looked at.
UnchangedVni(old, new, f) == old[f] = new[f]

\* zeroVnis: what becomes of s, the old or the new spec of an update.  A VNI that does
\* not change on a device that does not change is set to 0 in both.
Unchanged(old, new, f) == old[f] = new[f] /\ old.device = new.device

zeroVnis(s, old, new) ==
    [s EXCEPT !.vlan = IF Unchanged(old, new, "vlan") THEN 0 ELSE @,
              !.vxlan = IF Unchanged(old, new, "vxlan") THEN 0 ELSE @]

-----------------------------------------------------------------------------
(* The API server, the informers and the events they deliver.                *)

NoObj == [spec |-> NoSpec, ver |-> 0]
NoKnown == [spec |-> NoSpec, orig |-> NoSpec, ver |-> 0]
InApi(n) == api[n].ver # 0

\* Types of events: a network was written, an informer resyncs, a network was deleted,
\* and a deletion the informer only finds out about when it lists the networks again.
Event(type, n, obj) == [type |-> type, net |-> n, obj |-> obj]

\* The watchers of an API get the event, the others miss it.
Deliver(q, e) ==
    [i \in Nodes |-> [k \in Kinds |->
        IF k = kind[e.net] /\ watch[i][k] = "up" THEN Append(q[i][k], e) ELSE q[i][k]]]

\* What users or a NAD handler do to a network.  A node whose watcher does not run or
\* has not found the API will not know.
Write(n, obj, q) ==
    /\ api' = [api EXCEPT ![n] = obj]
    /\ rev' = rev + 1
    /\ queue' = IF obj = NoObj THEN Deliver(q, Event("del", n, api[n]))
                               ELSE Deliver(q, Event("put", n, obj))

Unseen(i, n, obj) ==
    IF watch[i][kind[n]] = "off" /\ InApi(n) /\ api[n].spec # obj.spec THEN {n} ELSE {}

UserWrites(n, obj) ==
    /\ edits < MaxEdits
    /\ edits' = edits + 1
    /\ Write(n, obj, queue)
    /\ excused' = [i \in Nodes |-> excused[i] \cup Unseen(i, n, obj)]
    /\ UNCHANGED <<kind, watch, known, links, upsets, unpatched>>

\* A user creates or modifies a network.  The device of a NAD may be the one the watcher
\* wrote there.  With an unchanged spec it is also the allocation or release of an address,
\* which changes the network but nothing the watcher reads.
PutNetwork(n) ==
    \E s \in Specs[n] :
    \E d \in {s.device} \cup (IF InApi(n) /\ kind[n] = NadKind THEN {api[n].spec.device} ELSE {}) :
        UserWrites(n, [spec |-> [s EXCEPT !.device = d], ver |-> rev + 1])

DeleteNetwork(n) == InApi(n) /\ UserWrites(n, NoObj)

\* What the informer has of a network once its queued events are handled.
Cached(i, n) ==
    LET q == queue[i][kind[n]]
        at == {j \in DOMAIN q : q[j].net = n /\ q[j].type # "sync"}
    IN IF at = {} THEN known[i][n].ver # 0
       ELSE \E j \in at : q[j].type = "put" /\ \A k \in at : k <= j

OfKind(k) == {n \in Networks : kind[n] = k}
Puts(k) == SetToSeq({Event("put", n, api[n]) : n \in {m \in OfKind(k) : InApi(m)}})
Tombstones(i, k) ==
    SetToSeq({Event("tomb", n, NoObj) : n \in {m \in OfKind(k) : ~InApi(m) /\ Cached(i, m)}})

\* The informers resync every ten minutes.
Resync(i, k) ==
    /\ watch[i][k] = "up" /\ upsets < MaxUpsets
    /\ LET known_nets == {n \in OfKind(k) : Cached(i, n)}
       IN /\ known_nets # {}
          /\ queue' = [queue EXCEPT ![i][k] =
                          @ \o SetToSeq({Event("sync", n, NoObj) : n \in known_nets})]
    /\ upsets' = upsets + 1
    /\ UNCHANGED <<kind, api, rev, watch, known, links, edits, history>>

\* WatchErrorHandler, the errors it ignores: the informer goes on with a new list.
WatchClosed(i, k) ==
    /\ watch[i][k] = "up" /\ upsets < MaxUpsets
    /\ watch' = [watch EXCEPT ![i][k] = "lost"]
    /\ upsets' = upsets + 1
    /\ UNCHANGED <<kind, api, rev, queue, known, links, edits, history>>

Relist(i, k) ==
    /\ watch[i][k] = "lost"
    /\ watch' = [watch EXCEPT ![i][k] = "up"]
    /\ queue' = [queue EXCEPT ![i][k] = @ \o Tombstones(i, k) \o Puts(k)]
    /\ UNCHANGED <<kind, api, rev, known, links, bounds, history>>

\* History: the watcher has set up interfaces of a network, or was about to, that the
\* network does not ask for any more.
IsBehind(i, n) ==
    \/ known[i][n].ver # 0 /\ known[i][n].orig # api[n].spec
    \/ \E e \in ToSet(queue[i][kind[n]]) :
          e.net = n /\ e.type # "sync" /\ (e.type # "put" \/ e.obj.spec # api[n].spec)

IsDown(i) == \A k \in Kinds : watch[i][k] = "off"

\* WatchErrorHandler, every other error: the process exits and is started again.  What
\* has happened to the networks since its last events it will never know.  When the
\* node itself went down, its interfaces are gone too.
WatchErrorHandler(i, reboots) ==
    /\ ~IsDown(i) /\ upsets < MaxUpsets
    /\ watch' = [watch EXCEPT ![i] = [k \in Kinds |-> "off"]]
    /\ queue' = [queue EXCEPT ![i] = [k \in Kinds |-> <<>>]]
    /\ known' = [known EXCEPT ![i] = [n \in Networks |-> NoKnown]]
    /\ links' = IF reboots THEN [links EXCEPT ![i] = {}] ELSE links
    /\ excused' = [excused EXCEPT ![i] =
          IF reboots THEN {}
          ELSE @ \cup {n \in Networks : IsBehind(i, n)}]
    /\ upsets' = upsets + 1
    /\ UNCHANGED <<kind, api, rev, edits, unpatched>>

\* NewWatcher: every API is asked for a few times; one that is not installed, or does not
\* answer, is not watched.  Without any the process exits and is started again.
Apis == {kind[n] : n \in Networks}

NewWatcher(i) ==
    /\ IsDown(i)
    /\ \E found \in SUBSET Apis :
          /\ found # {}
          /\ upsets + Cardinality(Apis \ found) <= MaxUpsets
          /\ upsets' = upsets + Cardinality(Apis \ found)
          /\ watch' = [watch EXCEPT ![i] = [k \in Kinds |-> IF k \in found THEN "up" ELSE "off"]]
          /\ queue' = [queue EXCEPT ![i] =
                          [k \in Kinds |-> IF k \in found THEN Puts(k) ELSE <<>>]]
    /\ UNCHANGED <<kind, api, rev, known, links, edits, history>>

-----------------------------------------------------------------------------
(* The handlers (netcontrol.go).                                             *)

\* The next event of an informer is a creation, an update, a resync or a deletion.
IsNext(i, k, op) ==
    /\ queue[i][k] # <<>>
    /\ LET e == Head(queue[i][k])
       IN op = CASE e.type = "put" -> IF known[i][e.net].ver = 0 THEN "add" ELSE "update"
                 [] e.type = "sync" -> "sync"
                 [] OTHER -> "delete"

Popped(i, k) == [queue EXCEPT ![i][k] = Tail(@)]
NextEvent(i, k) == Head(queue[i][k])

\* What a handler leaves behind: the object in the cache, the interfaces, and whether it
\* lost track of the network.
Handled(i, n, obj, r, lost) ==
    /\ known' = [known EXCEPT ![i][n] = obj]
    /\ links' = [links EXCEPT ![i] = r.links]
    /\ excused' = [excused EXCEPT ![i] = IF lost THEN @ \cup {n} ELSE @]
    /\ UNCHANGED <<kind, watch, edits>>

Quietly(i, k) == queue' = Popped(i, k) /\ UNCHANGED <<api, rev, unpatched>>

CountFault(fault) ==
    /\ fault # NoFault => upsets < MaxUpsets
    /\ upsets' = IF fault = NoFault THEN upsets ELSE upsets + 1

\* Adding a network: its interfaces are created.  The object received is also kept as it
\* came (orig), for the history only.
KnownAs(o, cached) == [spec |-> cached, orig |-> o.spec, ver |-> o.ver]

AddNetwork(i, k, fault) ==
    /\ IsNext(i, k, "add") /\ CountFault(fault)
    /\ LET e == NextEvent(i, k)
           r == setupHost(i, e.obj.spec, links[i], fault)
       IN Handled(i, e.net, KnownAs(e.obj, e.obj.spec), r, r.err)
    /\ Quietly(i, k)

AddDanmNet(i, fault) == AddNetwork(i, DanmNetKind, fault)
AddTenantNetwork(i, fault) == AddNetwork(i, TenantNetworkKind, fault)
AddClusterNetwork(i, fault) == AddNetwork(i, ClusterNetworkKind, fault)

\* Old interfaces go, new ones come, except those zeroVnis spares.
Replaced(i, old, new, fault) ==
    LET del == deleteNetworks(zeroVnis(old, old, new), links[i], fault)
        add == setupHost(i, zeroVnis(new, old, new), del.links, fault)
    IN Result(add.links, del.err \/ add.err)

\* History: a change the watcher cannot follow, because the cached object no longer has
\* the VNI, or because the name of the interface changes and its VNI does not.
IsRenamed(old, new) == old.id # new.id /\ zeroVnis(new, old, new) # new
CannotFollow(o, s) == o.orig # s /\ (o.spec # o.orig \/ IsRenamed(o.orig, s))

\* The object of an update event is the one in the cache already when the informer
\* resyncs.
UpdateEvent(i, k) ==
    LET e == NextEvent(i, k)
        o == known[i][e.net]
    IN [net |-> e.net, old |-> o, isSync |-> e.type = "sync",
        new |-> IF e.type = "sync" THEN o ELSE KnownAs(e.obj, e.obj.spec)]

IsUpdate(i, k) == IsNext(i, k, "update") \/ IsNext(i, k, "sync")

\* The handler zeroes the VNIs of the DanmNets in the cache.
UpdateDanmNet(i, fault) ==
    /\ IsUpdate(i, DanmNetKind) /\ CountFault(fault)
    /\ LET u == UpdateEvent(i, DanmNetKind)
           r == Replaced(i, u.old.spec, u.new.spec, fault)
       IN Handled(i, u.net, [u.new EXCEPT !.spec = zeroVnis(@, u.old.spec, @)],
                  r, r.err \/ CannotFollow(u.old, u.new.orig))
    /\ Quietly(i, DanmNetKind)

\* TenantNetworks and ClusterNetworks are converted to DanmNets first: the handler
\* zeroes copies.
UpdateConverted(i, k, fault) ==
    /\ IsUpdate(i, k) /\ CountFault(fault)
    /\ LET u == UpdateEvent(i, k)
           r == Replaced(i, u.old.spec, u.new.spec, fault)
       IN Handled(i, u.net, u.new, r, r.err \/ CannotFollow(u.old, u.new.orig))
    /\ Quietly(i, k)

UpdateTenantNetwork(i, fault) == UpdateConverted(i, TenantNetworkKind, fault)
UpdateClusterNetwork(i, fault) == UpdateConverted(i, ClusterNetworkKind, fault)

\* A deletion event holds the last state of the network, unless it was missed: then the
\* object is the one of the cache.
DeleteOf(i, k, fault) ==
    /\ IsNext(i, k, "delete") /\ CountFault(fault)
    /\ LET e == NextEvent(i, k)
           o == known[i][e.net]
           r == deleteNetworks(IF e.type = "del" THEN e.obj.spec ELSE o.spec, links[i], fault)
       IN Handled(i, e.net, NoKnown, r,
                  r.err \/ (e.type = "tomb" /\ k = DanmNetKind /\ o.spec # o.orig))
    /\ Quietly(i, k)

DeleteDanmNet(i, fault) == DeleteOf(i, DanmNetKind, fault)
DeleteTenantNetwork(i, fault) == DeleteOf(i, TenantNetworkKind, fault)
DeleteClusterNetwork(i, fault) == DeleteOf(i, ClusterNetworkKind, fault)
DeleteNad(i, fault) == DeleteOf(i, NadKind, fault)

\* PatchCniConf and the update of the NAD.  The cached object is patched whether or not
\* the API server takes it: it refuses an object that has changed, and nothing changes
\* when the object is the same.
HasVni(s) == s.vlan # 0 \/ s.vxlan # 0

\* Mutant: a device that is set already stays.
KeepsDevice(s, device) == IF s.device = <<>> THEN [s EXCEPT !.device = device] ELSE s

PatchCniConf(s, device) == [s EXCEPT !.device = device]

\* Mutant: the NAD is written over whatever has become of it.
PutNadUnversioned(n, obj, q, refused) ==
    IF refused \/ ~InApi(n) \/ api[n].spec = obj.spec
    THEN queue' = q /\ UNCHANGED <<api, rev>>
    ELSE Write(n, [spec |-> obj.spec, ver |-> rev + 1], q)

PutNad(n, obj, q, refused) ==
    IF refused \/ api[n].ver # obj.ver \/ api[n].spec = obj.spec
    THEN queue' = q /\ UNCHANGED <<api, rev>>
    ELSE Write(n, [spec |-> obj.spec, ver |-> rev + 1], q)

ApiFault == <<"put", "nad">>

\* History: the NAD is still as the handler got it, and the handler did not write, or
\* not write its interface.
Unpatched(n, o, writes, isUnpatched) ==
    unpatched' = IF o.ver # api[n].ver THEN unpatched
                 ELSE IF isUnpatched THEN unpatched \cup {n}
                 ELSE IF writes THEN unpatched \ {n} ELSE unpatched

AddNad(i, fault) ==
    /\ IsNext(i, NadKind, "add") /\ CountFault(fault)
    /\ LET e == NextEvent(i, NadKind)
           s == e.obj.spec
           r == setupHost(i, s, links[i], fault)
           patched == PatchCniConf(s, DetermineHostDeviceName(s))
           patches == ~r.err /\ HasVni(s)
       IN /\ Handled(i, e.net, KnownAs(e.obj, IF patches THEN patched ELSE s), r,
                     r.err \/ (patches /\ s.device = <<>>))
          /\ IF patches
             THEN PutNad(e.net, [e.obj EXCEPT !.spec = patched], Popped(i, NadKind),
                         fault = ApiFault)
             ELSE queue' = Popped(i, NadKind) /\ UNCHANGED <<api, rev>>
          /\ Unpatched(e.net, e.obj, patches, HasVni(s) /\ (~patches \/ fault = ApiFault))

\* History: a VLAN interface on the VxLAN interface of the same NAD, whose name the watcher
\* has written there, goes with it and is not set up again.
GoesAlong(i, old, new) ==
    /\ new.vlan # 0 /\ Unchanged(old, new, "vlan") /\ ~Unchanged(old, new, "vxlan")
    /\ \E l \in links[i] : l.name = VlanName(old.id, old.vlan) /\ l.parent = VxlanName(old.id)

\* The NAD is patched when the name of its interface changes; the VNIs may have been
\* zeroed by then.
UpdateNad(i, fault) ==
    /\ IsUpdate(i, NadKind) /\ CountFault(fault)
    /\ LET u == UpdateEvent(i, NadKind)
           old == u.old.spec
           new == u.new.spec
           r == Replaced(i, old, new, fault)
           parentUpdateNeeded == DetermineHostDeviceName(old) # DetermineHostDeviceName(new)
           patched == PatchCniConf(new, DetermineHostDeviceName(zeroVnis(new, old, new)))
           obj == [u.new EXCEPT !.spec = IF parentUpdateNeeded THEN patched ELSE new]
       IN /\ Handled(i, u.net, obj, r, \/ r.err \/ IsRenamed(old, new)
                                      \/ (parentUpdateNeeded /\ new.device = <<>>)
                                      \/ GoesAlong(i, old, new))
          /\ IF parentUpdateNeeded
             THEN PutNad(u.net, [spec |-> patched, ver |-> u.new.ver], Popped(i, NadKind),
                         fault = ApiFault)
             ELSE queue' = Popped(i, NadKind) /\ UNCHANGED <<api, rev>>
          /\ Unpatched(u.net, u.new, parentUpdateNeeded,
                       /\ HasVni(new)
                       /\ \/ parentUpdateNeeded /\ fault = ApiFault
                          \/ obj.spec.device # DetermineHostDeviceName(new))

-----------------------------------------------------------------------------
Init ==
    /\ kind \in [Networks -> Kinds]
    /\ api = [n \in Networks |-> NoObj]
    /\ rev = 0
    /\ watch = [i \in Nodes |-> [k \in Kinds |-> "off"]]
    /\ queue = [i \in Nodes |-> [k \in Kinds |-> <<>>]]
    /\ known = [i \in Nodes |-> [n \in Networks |-> NoKnown]]
    /\ links = [i \in Nodes |-> {}]
    /\ edits = 0 /\ upsets = 0
    /\ excused = [i \in Nodes |-> {}]
    /\ unpatched = {}

Users == \E n \in Networks : PutNetwork(n) \/ DeleteNetwork(n)

Informers(i) ==
    \E k \in Kinds : Resync(i, k) \/ WatchClosed(i, k) \/ Relist(i, k)

Handlers(i) ==
    \E fault \in {NoFault} \cup (IF upsets < MaxUpsets THEN LinkFaults ELSE {}) :
        \/ AddDanmNet(i, fault) \/ UpdateDanmNet(i, fault) \/ DeleteDanmNet(i, fault)
        \/ AddTenantNetwork(i, fault) \/ UpdateTenantNetwork(i, fault)
        \/ DeleteTenantNetwork(i, fault)
        \/ AddClusterNetwork(i, fault) \/ UpdateClusterNetwork(i, fault)
        \/ DeleteClusterNetwork(i, fault)

NadHandlers(i) ==
    \E fault \in {NoFault} \cup (IF upsets < MaxUpsets THEN LinkFaults \cup {ApiFault} ELSE {}) :
        AddNad(i, fault) \/ UpdateNad(i, fault) \/ DeleteNad(i, fault)

Next ==
    \/ Users
    \/ \E i \in Nodes :
          \/ Informers(i) \/ NewWatcher(i) \/ Handlers(i) \/ NadHandlers(i)
          \/ \E reboots \in BOOLEAN : WatchErrorHandler(i, reboots)

Spec == Init /\ [][Next]_vars

-----------------------------------------------------------------------------
(* Properties                                                                *)

SpecOf == {NoSpec} \cup UNION {Specs[n] : n \in Networks}
Ids == {s.id : s \in SpecOf}
Vnis == {s.vlan : s \in SpecOf} \cup {s.vxlan : s \in SpecOf}
Names == {VlanName(id, v) : id \in Ids, v \in Vnis} \cup {VxlanName(id) : id \in Ids}
Parents == Devices \cup {<<>>} \cup Names
AnySpec == [id : Ids, device : Parents, vlan : Vnis, vxlan : Vnis]
Objects == [spec : AnySpec, ver : 0 .. rev]
Events == [type : {"put", "sync", "del", "tomb"}, net : Networks, obj : Objects]
Links == [name : Names, vni : Vnis, parent : Parents,
          group : {<<>>} \cup ({4, 6} \X Vnis), up : BOOLEAN]

\* Type invariant: objects have specs of users up to the device of a NAD and the VNIs
\* that were zeroed, and no two interfaces of a node have the same name.
TypeOK ==
    /\ kind \in [Networks -> Kinds]
    /\ api \in [Networks -> Objects] /\ rev \in Nat
    /\ watch \in [Nodes -> [Kinds -> {"off", "up", "lost"}]]
    /\ queue \in [Nodes -> [Kinds -> Seq(Events)]]
    /\ known \in [Nodes -> [Networks -> [spec : AnySpec, orig : AnySpec, ver : 0 .. rev]]]
    /\ links \in [Nodes -> SUBSET Links]
    /\ \A i \in Nodes : \A l, m \in links[i] : l.name = m.name => l = m
    /\ edits \in 0 .. MaxEdits /\ upsets \in 0 .. MaxUpsets
    /\ excused \in [Nodes -> SUBSET Networks] /\ unpatched \subseteq Networks

\* The watcher of a node has handled all there is to know of a network.
IsUpToDate(i, n) == watch[i][kind[n]] = "up" /\ queue[i][kind[n]] = <<>>

\* The names of the interfaces a spec asks for.
WantedNames(s) ==
    IF s.device = <<>> THEN {}
    ELSE (IF s.vlan # 0 THEN {VlanName(s.id, s.vlan)} ELSE {})
         \cup (IF s.vxlan # 0 THEN {VxlanName(s.id)} ELSE {})

\* The interface is set up for the spec: on its device, which a patched NAD no longer
\* names, and with its VNI and multicast group.
IsFor(i, l, s) ==
    /\ l.up
    /\ s.device \in Devices => l.parent = s.device
    /\ IF l.name = VxlanName(s.id)
       THEN l.vni = s.vxlan /\ (s.device \in Devices => l.group = VxlanGroup(i, s))
       ELSE l.vni = s.vlan

\* On every node a network has the VLAN and VxLAN interfaces it asks for, on its device
\* and with its VNI, once the handlers have run: after any sequence of changes, resyncs,
\* lost watches, restarts and reboots the watcher did not lose track in.
NetworksHaveLinks ==
    \A i \in Nodes : \A n \in Networks :
        InApi(n) /\ IsUpToDate(i, n) /\ n \notin excused[i] =>
            \A name \in WantedNames(api[n].spec) :
                \E l \in links[i] : l.name = name /\ IsFor(i, l, api[n].spec)

\* No interface outlives the network, or the VNI of a network, it was created for: the
\* handlers of updates and deletions remove what the earlier ones created.
NoOrphanLinks ==
    \A i \in Nodes : \A n \in Networks : \A l \in links[i] :
        /\ IsUpToDate(i, n) /\ n \notin excused[i]
        /\ \E s \in Specs[n] : l.name \in WantedNames(s)
        => InApi(n) /\ l.name \in WantedNames(api[n].spec)

\* Once all watchers are done with a NAD, its CNI configuration names the host interface
\* Pods have to be connected to, however the updates of the watchers raced with each
\* other and with users.
NadsNameTheirLink ==
    \A n \in Networks :
        /\ kind[n] = NadKind /\ InApi(n) /\ HasVni(api[n].spec) /\ n \notin unpatched
        /\ \A i \in Nodes : IsUpToDate(i, n)
        => api[n].spec.device = DetermineHostDeviceName(api[n].spec)

\* The documentation of the watcher: when a VNI or the host device of a network is
\* modified, the old host interface is deleted.  Unlike NoOrphanLinks this also speaks of
\* networks whose VNIs were zeroed in the cache of the informer.
OldLinksDeleted ==
    \A i \in Nodes : \A n \in Networks : \A l \in links[i] :
        IsUpToDate(i, n) /\ InApi(n) => l.name \in WantedNames(api[n].spec)

\* A watcher that updates a NAD changes its device and nothing a user has written there
\* since.
PatchesKeepEdits ==
    [][\A n \in Networks : edits' = edits =>
          api'[n].spec = [api[n].spec EXCEPT !.device = api'[n].spec.device]]_vars

\* The watchers come to rest: a change of a NAD by a user is followed by at most one
\* patch, they do not go on patching against each other.  Except over a NAD with a VLAN
\* and a VxLAN whose NetworkID and VLAN change and whose VxLAN does not: a watcher that
\* follows it has zeroed the VxLAN and writes the VLAN interface (netcontrol.go:439), one
\* that has just been started the VxLAN interface.
FollowedAlike ==
    \A n \in Networks : \A s, t \in Specs[n] :
        s.vxlan = t.vxlan /\ s.vxlan # 0 /\ s.vlan # t.vlan => s.id = t.id
OnePatchPerEdit == FollowedAlike => rev <= 2 * edits
=============================================================================
