----------------------------- MODULE TenantNet -----------------------------
(***************************************************************************)
(* Virtual network identifiers of TenantNetworks: the admission webhook      *)
(* (pkg/admit) reserves a VNI while it admits the creation of a network and  *)
(* frees it while it admits the deletion (pkg/confman).  The reservations    *)
(* are bitmaps in the one TenantConfig object, edited with the same          *)
(* optimistic concurrency as the allocations of a network.                   *)
(*                                                                           *)
(* The webhook is called before the API server stores or deletes the         *)
(* network, so a VNI and its network never change in one step.               *)
(***************************************************************************)
EXTENDS Integers, Sequences

CONSTANTS
    Workers,       \* admission requests in flight
    Names,         \* names of TenantNetworks
    DeviceNames,   \* names of interfaces and device pools; "" is none
    HostDevices,   \* interface profiles: [name, slash, vniType, vniRange], in their order
    NetworkIds,    \* network types the TenantConfig maps to a NetworkID
    Manifests,     \* manifests users create
    AdminEdits,    \* what updates of the TenantConfig do to alloc: "keeps", "omits"
    MaxRequests,   \* bound: requests of users, the administrator and Pods together
    MaxFails       \* bound: API calls of the webhook that fail for another reason than a conflict

Profiles == DOMAIN HostDevices

\* The attributes of a network the webhook looks at.  A NetworkID is absent, short
\* enough for a host interface name, or too long; 0 is no VNI.  The UID, which the API
\* server gives a network, tells it from another one of the same name.
Manifest == [type : {"ipvlan", "sriov", "static"}, device : DeviceNames, devicePool : DeviceNames,
             nid : {"", "short", "long"}, vlan : Nat, vxlan : Nat, uid : Nat]

\* The rules of a TenantConfig.  A profile has a VNI type if and only if it has a range,
\* and no VNI the bitmap of mutateConfigManifest has no bit for; the NetworkIDs of
\* NetworkIds are short enough for a host interface name.
MaxAllowedVni == 5000

validateIfaceConfig(p) ==
    /\ p.name # ""
    /\ (p.vniType = "") <=> (p.vniRange = {})
    /\ p.vniType \in {"", "vlan", "vxlan"}
    /\ \A v \in p.vniRange : v <= MaxAllowedVni

validateTenantconfig ==
    /\ HostDevices # <<>> \/ NetworkIds # {}
    /\ \A i \in Profiles : validateIfaceConfig(HostDevices[i])
    /\ "" \notin NetworkIds

ASSUME ConfigAssumption ==
    /\ "" \in DeviceNames
    /\ HostDevices \in Seq([name : DeviceNames, slash : BOOLEAN,
                            vniType : STRING, vniRange : SUBSET Nat])
    /\ NetworkIds \subseteq STRING
    /\ validateTenantconfig
    /\ Manifests \subseteq Manifest
    /\ AdminEdits \subseteq {"keeps", "omits"}
    /\ MaxRequests \in Nat /\ MaxFails \in Nat

VARIABLES
    conf,      \* the TenantConfig in the API server: a bitmap per profile, and its version
    networks,  \* the TenantNetworks in the API server, by name
    pods,      \* the networks DanmEps refer to
    task,      \* what each admission request is doing
    requests,  \* requests so far
    fails,     \* API failures so far
    freed,     \* networks still stored whose VNI has been freed (history)
    disturbed, \* a VNI was freed twice for one network, or forgotten by an update (history)
    denied     \* a request has been denied after its VNI was reserved (history)

objects == <<networks, pods>>
history == <<freed, disturbed, denied>>
vars == <<conf, objects, task, requests, fails, history>>

-----------------------------------------------------------------------------
NoName == ""
NoNet == [type |-> "ipvlan", device |-> "", devicePool |-> "", nid |-> "",
          vlan |-> 0, vxlan |-> 0, uid |-> 0]

Stored(n) == n \in DOMAIN networks

IsStored(n, m) == Stored(n) /\ networks[n] = m

IsTypeDynamic(t) == t \in {"ipvlan", "sriov"}

\* The rules for TenantNetworks that are checked before anything is reserved.
validateNetworkByType(m) ==
    /\ m.vlan = 0 /\ m.vxlan = 0
    /\ IF m.type = "sriov" THEN m.devicePool # "" /\ m.device = ""
       ELSE m.device = "" \/ m.devicePool = ""

\* The rule that is checked after it.
postValidateManifest(m) ==
    /\ m.nid # ""
    /\ ~(m.nid = "long" /\ IsTypeDynamic(m.type) /\ (m.vlan # 0 \/ m.vxlan # 0))

\* The first profile with a property, 0 when none has it.
FirstProfile(P(_)) ==
    IF \E i \in Profiles : P(i)
    THEN CHOOSE i \in Profiles : P(i) /\ \A j \in 1 .. i - 1 : ~P(j)
    ELSE 0

getIfaceIndex(n, vniType) ==
    FirstProfile(LAMBDA i : HostDevices[i].name = n /\ HostDevices[i].vniType = vniType)

\* The profiles allocateDetailsForDynamicBackends may attach the network to: the
\* first one that was asked for, or any network card.
Candidates(m) ==
    LET asked == FirstProfile(LAMBDA i :
            \/ m.devicePool # "" /\ m.devicePool = HostDevices[i].name
            \/ m.device = HostDevices[i].name /\ ~HostDevices[i].slash)
    IN IF asked # 0 THEN {asked}
       ELSE IF m.devicePool # "" \/ m.device # "" THEN {}
       ELSE {i \in Profiles : ~HostDevices[i].slash}

\* attachNetworkToIfaceProfile: the profile becomes the device of the network, and a
\* virtual profile whose VNI the network does not have yet needs a reservation.
WithDevice(m, i) ==
    IF m.device = "" /\ m.devicePool = "" THEN [m EXCEPT !.device = HostDevices[i].name] ELSE m

NeedsVni(m, i) ==
    \/ HostDevices[i].vniType = "vlan" /\ m.vlan = 0
    \/ HostDevices[i].vniType = "vxlan" /\ m.vxlan = 0

WithVni(m, i, vni) ==
    IF HostDevices[i].vniType = "vlan" THEN [m EXCEPT !.vlan = vni] ELSE [m EXCEPT !.vxlan = vni]

WithNetworkId(m) == IF m.type \in NetworkIds THEN [m EXCEPT !.nid = "short"] ELSE m

\* Mutant: the smallest VNI of the range, taken or not.
ReserveTaken(c, i) ==
    CHOOSE v \in HostDevices[i].vniRange \ {0} : \A u \in HostDevices[i].vniRange \ {0} : v <= u

\* reserveVni: the VNIs of the range that are free in a copy of the TenantConfig; the
\* smallest one is chosen.
FreeVnis(c, i) == HostDevices[i].vniRange \ c.alloc[i]
reserveVni(c, i) == CHOOSE v \in FreeVnis(c, i) : \A u \in FreeVnis(c, i) : v <= u

\* Mutant: only VLANs are looked at.
VlanOf(m) == m.vlan

\* The VNI confman.Free resets for a network, and the profile it belongs to.
VniOf(m) == IF m.vxlan # 0 THEN m.vxlan ELSE m.vlan
VniProfile(m) ==
    getIfaceIndex(IF m.devicePool # "" THEN m.devicePool ELSE m.device,
                  IF m.vxlan # 0 THEN "vxlan" ELSE "vlan")

\* mutateConfigManifest: a virtual profile without a bitmap is given a new one, in
\* which VNI 0 is taken.
NewAlloc == [i \in Profiles |-> IF HostDevices[i].vniType = "" THEN {} ELSE {0}]

-----------------------------------------------------------------------------
\* An admission request: how far it is, the name and the manifest of the network as
\* mutated so far, the profile chosen for it, and its copy of the TenantConfig.
Conf == [alloc : [Profiles -> SUBSET Nat], rv : Nat]
Task == [pc : {"idle", "create", "reserve", "reserveget", "post", "store",
               "delete", "free", "freeget", "remove"},
         name : Names \cup {NoName}, tnet : Manifest, iface : {0} \cup Profiles, tconf : Conf]

NewConf == [alloc |-> NewAlloc, rv |-> 0]
Idle == [pc |-> "idle", name |-> NoName, tnet |-> NoNet, iface |-> 0, tconf |-> NewConf]

Init ==
    /\ conf = NewConf
    /\ networks = [n \in {} |-> NoNet]
    /\ pods = {}
    /\ task = [w \in Workers |-> Idle]
    /\ requests = 0 /\ fails = 0
    /\ freed = {} /\ disturbed = FALSE /\ denied = FALSE

At(w, l) == task[w].pc = l

\* The request goes on, or it is over.
Goto(w, l) == task' = [task EXCEPT ![w].pc = l]
Done(w) == task' = [task EXCEPT ![w] = Idle]

NewRequest == requests < MaxRequests /\ requests' = requests + 1

\* The API server asks the webhook to admit the creation of a network.
ValidateNetwork(w) ==
    /\ At(w, "idle") /\ NewRequest
    /\ \E n \in Names, m \in Manifests :
          IF validateNetworkByType(m)
          THEN task' = [task EXCEPT ![w].pc = "create", ![w].name = n,
                                    ![w].tnet = [m EXCEPT !.uid = requests + 1]]
          ELSE UNCHANGED task
    /\ UNCHANGED <<conf, objects, fails, history>>

\* The webhook's call of the API server fails, and with it the admission.
CallFails(w) ==
    /\ fails < MaxFails
    /\ fails' = fails + 1
    /\ Done(w)

\* addTenantSpecificDetails up to the reservation: the TenantConfig is read, and a
\* network of a dynamic type attached to a profile.
addTenantSpecificDetails(w) ==
    LET m == task[w].tnet IN
    /\ At(w, "create")
    /\ \/ ~IsTypeDynamic(m.type) /\ Goto(w, "post") /\ UNCHANGED fails
       \/ IsTypeDynamic(m.type) /\ Candidates(m) = {} /\ Done(w) /\ UNCHANGED fails
       \/ /\ IsTypeDynamic(m.type)
          /\ \E i \in Candidates(m) :
                task' = [task EXCEPT ![w].pc = IF NeedsVni(m, i) THEN "reserve" ELSE "post",
                                     ![w].tnet = WithDevice(m, i),
                                     ![w].iface = i, ![w].tconf = conf]
          /\ UNCHANGED fails
       \/ CallFails(w)
    /\ UNCHANGED <<conf, objects, requests, history>>

\* Mutant: the PUT carries no resource version.
PutUnversioned(w, new) == conf' = [alloc |-> new, rv |-> conf.rv + 1]

\* updateTenantConf: the PUT of the changed copy is stored, or refused because the
\* object has been modified; it may also fail, before or after it was stored.
Put(w, new) ==
    /\ task[w].tconf.rv = conf.rv
    /\ conf' = [alloc |-> new, rv |-> IF new = conf.alloc THEN conf.rv ELSE conf.rv + 1]

PutConflicts(w) == task[w].tconf.rv # conf.rv /\ UNCHANGED conf

\* One pass of the loop of confman.Reserve.
Reserve(w) ==
    LET t   == task[w]
        i   == getIfaceIndex(HostDevices[t.iface].name, HostDevices[t.iface].vniType)
        vni == reserveVni(t.tconf, i)
        new == [t.tconf.alloc EXCEPT ![i] = @ \cup {vni}]
    IN
    /\ At(w, "reserve")
    /\ \/ FreeVnis(t.tconf, i) = {} /\ Done(w) /\ UNCHANGED <<conf, fails>>
       \/ /\ FreeVnis(t.tconf, i) # {}
          /\ \/ /\ Put(w, new)
                /\ task' = [task EXCEPT ![w].pc = "post", ![w].tnet = WithVni(@, t.iface, vni)]
                /\ UNCHANGED fails
             \/ PutConflicts(w) /\ Goto(w, "reserveget") /\ UNCHANGED fails
             \/ (Put(w, new) \/ UNCHANGED conf) /\ CallFails(w)
    /\ UNCHANGED <<objects, requests, history>>

\* The TenantConfig is read, again after a conflict.
Read(w, from, to) ==
    /\ At(w, from)
    /\ \/ task' = [task EXCEPT ![w].pc = to, ![w].tconf = conf] /\ UNCHANGED fails
       \/ CallFails(w)
    /\ UNCHANGED <<conf, objects, requests, history>>

ReserveRefresh(w) == Read(w, "reserveget", "reserve")

\* The NetworkID of the type is filled in, the last rule is checked, and the webhook
\* answers.  A denial does not free the VNI.
Respond(w) ==
    LET m == WithNetworkId(task[w].tnet) IN
    /\ At(w, "post")
    /\ \/ /\ postValidateManifest(m)
          /\ task' = [task EXCEPT ![w].pc = "store", ![w].tnet = m]
          /\ UNCHANGED denied
       \/ /\ ~postValidateManifest(m)
          /\ Done(w)
          /\ denied' = (denied \/ VniOf(m) # 0)
    /\ UNCHANGED <<conf, objects, requests, fails, freed, disturbed>>

\* The API server stores the admitted network, unless the name is in use.
StoreNetwork(w) ==
    LET t == task[w] IN
    /\ At(w, "store")
    /\ Done(w)
    /\ \/ /\ ~Stored(t.name)
          /\ networks' = [n \in DOMAIN networks \cup {t.name} |->
                             IF n = t.name THEN t.tnet ELSE networks[n]]
          /\ UNCHANGED denied
       \/ /\ Stored(t.name)
          /\ denied' = (denied \/ VniOf(t.tnet) # 0)
          /\ UNCHANGED networks
    /\ UNCHANGED <<conf, pods, requests, fails, freed, disturbed>>

\* The API server asks the webhook to admit the deletion of a network; Pods that are
\* connected to it keep it.
DeleteNetwork(w) ==
    /\ At(w, "idle") /\ NewRequest
    /\ \E n \in DOMAIN networks :
          IF n \in pods
          THEN UNCHANGED task
          ELSE task' = [task EXCEPT ![w].pc = IF IsTypeDynamic(networks[n].type)
                                              THEN "delete" ELSE "remove",
                                    ![w].name = n, ![w].tnet = networks[n]]
    /\ UNCHANGED <<conf, objects, fails, history>>

GetTenantConfig(w) == Read(w, "delete", "free")

\* The history of a release: it is not the first one for the network when the network
\* has been through it before, or is gone by now.
VniFreed(w) ==
    LET t == task[w] IN
    /\ freed' = freed \cup (IF IsStored(t.name, t.tnet) THEN {t.name} ELSE {})
    /\ disturbed' = (disturbed \/ t.name \in freed \/ ~IsStored(t.name, t.tnet))

\* One pass of the loop of confman.Free.  A network without a VNI, or whose profile
\* is gone, has nothing to free.
Free(w) ==
    LET m   == task[w].tnet
        i   == VniProfile(m)
        new == [task[w].tconf.alloc EXCEPT ![i] = @ \ {VniOf(m)}]
    IN
    /\ At(w, "free")
    /\ \/ /\ VniOf(m) = 0 \/ i = 0
          /\ Goto(w, "remove")
          /\ UNCHANGED <<conf, fails, freed, disturbed>>
       \/ /\ VniOf(m) # 0 /\ i # 0
          /\ \/ /\ Put(w, new)
                /\ VniFreed(w)
                /\ (Goto(w, "remove") /\ UNCHANGED fails) \/ CallFails(w)
             \/ PutConflicts(w) /\ Goto(w, "freeget") /\ UNCHANGED <<fails, freed, disturbed>>
             \/ CallFails(w) /\ UNCHANGED <<conf, freed, disturbed>>
    /\ UNCHANGED <<objects, requests, denied>>

FreeRefresh(w) == Read(w, "freeget", "free")

\* The API server deletes the network the webhook let go, unless it is gone by now.
RemoveNetwork(w) ==
    LET gone == IF IsStored(task[w].name, task[w].tnet) THEN {task[w].name} ELSE {} IN
    /\ At(w, "remove")
    /\ Done(w)
    /\ networks' = [n \in DOMAIN networks \ gone |-> networks[n]]
    /\ freed' = freed \ gone
    /\ UNCHANGED <<conf, pods, requests, fails, disturbed, denied>>

\* The administrator updates the TenantConfig, from a manifest that has the bitmaps
\* or from one that has not.
ValidateTenantConfig ==
    /\ NewRequest
    /\ \E e \in AdminEdits :
          /\ conf' = [alloc |-> IF e = "keeps" THEN conf.alloc ELSE NewAlloc, rv |-> conf.rv + 1]
          /\ disturbed' = (disturbed \/ (e = "omits" /\ conf.alloc # NewAlloc))
    /\ UNCHANGED <<objects, task, fails, freed, denied>>

\* A Pod is connected to a network, which makes a DanmEp, and is removed again.
PodConnects ==
    /\ NewRequest
    /\ \E n \in DOMAIN networks \ pods : pods' = pods \cup {n}
    /\ UNCHANGED <<conf, networks, task, fails, history>>

PodLeaves ==
    /\ \E n \in pods : pods' = pods \ {n}
    /\ UNCHANGED <<conf, networks, task, requests, fails, history>>

WorkerStep(w) ==
    \/ addTenantSpecificDetails(w) \/ Reserve(w) \/ ReserveRefresh(w) \/ Respond(w)
    \/ StoreNetwork(w) \/ GetTenantConfig(w) \/ Free(w) \/ FreeRefresh(w) \/ RemoveNetwork(w)

Next ==
    \/ \E w \in Workers : ValidateNetwork(w) \/ DeleteNetwork(w) \/ WorkerStep(w)
    \/ ValidateTenantConfig \/ PodConnects \/ PodLeaves

Spec == Init /\ [][Next]_vars

-----------------------------------------------------------------------------
\* The types of the API objects and of what each admission request keeps.
TypeOK ==
    /\ conf \in Conf
    /\ DOMAIN networks \subseteq Names
    /\ \A n \in DOMAIN networks : networks[n] \in Manifest
    /\ pods \subseteq Names
    /\ task \in [Workers -> Task]
    /\ requests \in Nat /\ fails \in Nat
    /\ freed \subseteq DOMAIN networks
    /\ disturbed \in BOOLEAN /\ denied \in BOOLEAN

\* Stored networks whose VNI has not been freed, and requests that have reserved one
\* for a network that is not stored yet.
LiveNets == {n \in DOMAIN networks : n \notin freed /\ VniOf(networks[n]) # 0}
Reserving == {w \in Workers : task[w].pc \in {"post", "store"} /\ VniOf(task[w].tnet) # 0}

\* The profile and the VNI of each.
VniIn(m) == <<VniProfile(m), VniOf(m)>>
HeldVnis == {VniIn(networks[n]) : n \in LiveNets} \cup {VniIn(task[w].tnet) : w \in Reserving}

\* As long as no VNI was freed twice or forgotten by an update (confadmit.go:107), the
\* VNI of every network, stored or about to be, is reserved in the TenantConfig,
\* whatever creations, deletions and updates of the TenantConfig conflict or fail.
VniRecorded == ~disturbed => \A h \in HeldVnis : h[1] \in Profiles /\ h[2] \in conf.alloc[h[1]]

\* Under the same condition no two networks, stored or about to be, have the same VNI on
\* the same interface.
VniExclusivity ==
    /\ \A m, n \in LiveNets : m # n => VniIn(networks[m]) # VniIn(networks[n])
    /\ \A v, w \in Reserving : v # w => VniIn(task[v].tnet) # VniIn(task[w].tnet)
    /\ \A n \in LiveNets, w \in Reserving : VniIn(networks[n]) # VniIn(task[w].tnet)

VniExclusive == ~disturbed => VniExclusivity

\* Without API failures, and as long as no request is denied after its reservation,
\* every VNI that is reserved belongs to a network, stored or about to be.
NoVniLeak ==
    fails = 0 /\ ~denied =>
        \A i \in Profiles : \A v \in conf.alloc[i] \ {0} : <<i, v>> \in HeldVnis

\* The VNIs of the profiles, those whose bit is clear, and what the network of each
\* request has reserved and not freed.
Vnis == UNION {{<<i, v>> : v \in HostDevices[i].vniRange \ {0}} : i \in Profiles}
FreeVniSet == {h \in Vnis : h[2] \notin conf.alloc[h[1]]}
VniHeld ==
    LET live == {networks[n] : n \in LiveNets} \cup {task[w].tnet : w \in Reserving} IN
    [uid \in 1 .. MaxRequests |-> {VniIn(m) : m \in {n \in live : n.uid = uid}}]

\* Reservations and releases of VNIs implement an allocator with a lock (module Allocator)
\* whose owners are the networks, each known by its UID from its admission to its
\* deletion: no admission request undoes what another one has stored, and a VNI is taken
\* from the range of its profile.
Atomic == INSTANCE Allocator WITH
        Owners <- 1 .. MaxRequests, Items <- Vnis,
        free <- FreeVniSet, held <- VniHeld, broken <- disturbed
ImplementsAllocator == Atomic!Spec

=============================================================================
