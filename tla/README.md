# TLA+ models of DANM

DANM connects Kubernetes Pods to several networks. Its programs share no memory and
no lock: they meet in the objects of the Kubernetes API server, which they edit
concurrently with optimistic concurrency (a PUT of an outdated copy is refused and the
writer starts over). This directory models the parts that allocate something from such
an object, the rules that admit one, the CNI plugin that ties allocations and interfaces
to Pods, the goroutines inside one CNI call, and the two watchers, of networks and of
Services. It states what must not go wrong, checks it with TLC, and proves all of the safety properties
that hold with TLAPS for every size of the system.

## 1. The system

| Component | State | Operations | Interacts with |
|---|---|---|---|
| IPAM (`pkg/ipam`, `pkg/bitarray`) | two bitmaps, two pools and LastIp in a network object | `Reserve`, `Free`, `GarbageCollectIps` | API server; called by `pkg/danmep` |
| DanmEps (`pkg/danmep`) | DanmEp objects, each with its addresses | `CreateDanmEp`, `DeleteDanmEp`, `FindBy...` | IPAM, API server |
| CNI plugin (`pkg/metacni`, `cmd/danm`) | per call: goroutines, a result list | ADD (`CreateInterfaces`), DEL (`DeleteInterfaces`) | Kubelet, DanmEps, delegates (`pkg/cnidel`), netlink (`pkg/danmep/ep.go`) |
| Result synchronisation (`pkg/syncher`) | the slice of results, a mutex | `PushResult`, `GetAggregatedResult`, `MergeCniResults` | the goroutines of one CNI call |
| Container interfaces and delegation (`pkg/danmep/ep.go`, `pkg/cnidel`, `cmd/fakeipam`) | interfaces in a Pod's network namespace, what plugins hold | set-up and deletion of one interface | netlink, other CNI plugins, Kubelet's device manager |
| Webhook (`pkg/admit`, `cmd/webhook`) | none | `ValidateNetwork`, `DeleteNetwork`, `ValidateTenantConfig` | API server (before an object is stored or deleted) |
| VNI allocation (`pkg/confman`) | a bitmap per interface profile in the TenantConfig | `Reserve`, `Free` | webhook, API server |
| Network watcher (`pkg/netcontrol`, `cmd/netwatcher`) | VLAN and VxLAN interfaces of the host, the informers' caches | handlers of four informers | API server (NADs are also written), netlink |
| Service watcher (`pkg/svccontrol`) | Endpoints objects | informer handlers for Services, DanmEps, Pods | API server |

What is hard: writers of one object interleave between their read and their PUT; a PUT
may fail after it was stored; a CNI process may be killed, or give up after 30 seconds
while its goroutines go on; Kubelet repeats DEL and restarts Pods with the same UID; the
webhook acts before the object it acts for exists or is gone; the result list is read
without its mutex; the service watcher's goroutines work from a cache that lags, and some
of their writes carry no version; the network watcher writes to the objects of its own cache, and
those of all nodes patch one NetworkAttachmentDefinition. `PROJECT.json` lists each hazard at its line, with the properties
that are about it.

What makes each part correct:

- IPAM: an address is held by one Pod at a time and its bit is set; the reserved bits
  stay set; what is freed can be given out again; every call returns.
- DanmEps and CNI: every DanmEp's address is reserved, no two have the same; a Pod whose
  ADD succeeded has all of its DanmEps; a failed ADD leaves nothing behind.
- Interfaces: each connection of a Pod has its interface under the name and with the addresses
  of its DanmEp; an address is free only when no interface has it; a removed Pod leaves nothing.
- Syncher: no result is lost; a success is complete and without errors; eth0 is first.
- Webhook and VNIs: no two networks have the same VNI on one interface; each VNI is
  reserved while its network exists and not longer; the pools of an admitted network are such
  that the allocations work.
- Network watcher: once its events are handled, a node has the host interfaces the networks ask
  for and no others; the watchers come to rest.
- Service watcher: once every change is handled, the Endpoints list exactly the addresses of
  the DanmEps a Service selects, each once and as ready as its Pod.

## 2. Modules

| Module | Models | Extended by |
|---|---|---|
| `Allocator` | what an allocator promises: items change hands in one step | instantiated by `Ipam`, `TenantNet` |
| `IpamPool` | allocation arithmetic on a copy of a network: `allocateIps`, `allocateAddress`, `resetIp` | `Ipam`; instantiated by `NetRules` |
| `Ipam` | clients that run `Reserve` and `GarbageCollectIps` against the API object | `MCIpam`, `IpamProofs` |
| `NetRules` | the validation rules of networks, the pools and bitmaps made of a manifest, the search loop | `MCNetRules`, `NetRulesProofs` |
| `TenantNet` | admission of TenantNetworks, VNIs, updates of the TenantConfig | `MCTenantNet`, `TenantNetProofs` |
| `Cni` | ADD and DEL processes, their goroutines, DanmEps and addresses | `MCCni`, `CniProofs` |
| `Nic` | what the goroutines of a Pod's ADD and DEL do to interfaces, plugins, DanmEps, addresses | `MCNic`, `NicProofs` |
| `Syncher` | the result list of one CNI call | `MCSyncher`, `SyncherProofs` |
| `NetWatcher` | the informers and handlers of the network watcher on every node, host interfaces, NADs | `MCNetWatcher`, `NetWatcherProofs` |
| `SvcWatcher` | the three event handlers of the service watcher, Endpoints and their cache | `MCSvcWatcher`, `SvcWatcherProofs` |

The `MC` modules give the constants values for TLC, the `Proofs` modules hold the theorems of
section 4.

How they fit together: `NetRules` establishes what `PoolAssumption` of `IpamPool` asks for, and
that `FreeIndex`, the closed form `IpamPool` uses, is what the search loop computes. `Ipam`
implements `Allocator`, which is what `Cni` and `Nic` take `ipam.Reserve` and `ipam.Free` for;
`TenantNet` implements it too. `Cni` abstracts the set-up of an interface to success or failure,
`Nic` has it in detail, with one CNI process at a time. `Syncher` is the wait at the end of ADD
and DEL.

Definitions have the names of the functions they model; `map` in `PROJECT.json` gives the
lines. Definitions whose comment begins with "Mutant" are deliberate bugs that are used
nowhere in the specifications: each property has one that it must detect.

**IpamPool, Ipam.** An address is its offset in the allocation CIDR, a bitmap is the set of
offsets whose bit is set, a resource version is a number. A client is a goroutine on some
node. The steps of a call are the points where it meets the API server: the caller's read
(`GetNetworkFromInterface`, `GetNetworkFromEp`), one pass of the loop (`Reserve`, `Free`),
the PUT (`ReservePut`, `FreePut`) and the read after a conflict (`ReserveRefresh`,
`FreeRefresh`). `netInfo` is the copy the caller passed in, `tempNet` the one being edited:
both are needed because the code compares the edited copy with the former (ipam.go:38).
A PUT may also fail before or after it was stored. LastIp is kept with its notation,
because `net.ParseIP` does not parse the `/prefix` form `Reserve` stores: `LastIpIndex` is
then 0 and the search begins at the beginning of the pool. `PoolAssumption` is what
`NetRules` shows the validators to establish (Start < End inside of the CIDR, which is not larger than
the subnet; no gateway right behind a pool that ends with its last byte, where `Set` would panic). A
gateway further away sets no bit of the pool, and is allowed.

**Allocator.** Items are free or held by one owner; `Acquire`, `Release` and `Fail` change them in
one step, and `broken` allows anything once it is set. For `Ipam` the items are addresses, the
owners clients, and `broken` is `unwritten`; for `TenantNet` they are VNIs of a profile, the
owners networks (by UID), and `broken` is `disturbed`.

**NetRules.** A manifest is a record with a part per family (subnet, allocation CIDR, gateways,
ends of the pool, LastIp, bitmap) and the fields the other rules are about. Addresses are numbers
of a small width; widths, the 8 million limit and the size of a byte are constants that keep the
relations they have in the code (an index is as wide as an IPv4 address and narrower than an IPv6
one). A request is admitted in one step and stored in another, with a Pod that comes and goes in
between; the powers of two (`Exp2`) are a recursive function, so that they can be reasoned about.
`ManifestAssumption` says what the manifests are: V4 has one field for subnet and allocation CIDR, and an
update carries either the stored bitmap or none; one with a bitmap that the user made up is not modelled.
`resized` records that an update kept the bitmap of another CIDR. The shipped webhook
configuration does not register UPDATE of networks (webhook.yaml:47), so these paths are what the
code does when it is registered. A search has one step per iteration of the loop.

**TenantNet.** A worker is an admission request in flight. `ValidateNetwork` is the whole
handler for CREATE, split where it calls the API server: validation, the choice of the
profile with the first read of the TenantConfig, each pass of `confman.Reserve`, and the
answer with the post-validation. `StoreNetwork` and `RemoveNetwork` are the API server's
steps after the answer, `PodConnects` and `PodLeaves` the DanmEps of Pods. The random choice
of a profile is nondeterministic. The rules for TenantConfigs (`validateTenantconfig`)
restrict `HostDevices`; `ConfigAssumption` asks for a TenantConfig that passes them.

**Cni.** A process has a main goroutine, one `createNic` goroutine per interface and calls of
`DeleteDanmEp` in progress (`del`), which are steps: read the network, free the address,
delete the object. `ipam.Reserve` and `ipam.Free` are single steps here; `Ipam` justifies
that. A timeout is possible whenever results are missing. `AddSucceeds` reads the list of results at once; that the reader
takes no lock is what `Syncher` is about. A process that ends takes its
goroutines with it. Kubelet calls ADD once per container and DEL as often as it likes once
ADD is over. Creating the interface itself (netlink, delegates) succeeds or fails.
Only networks whose addresses DANM allocates are in scope; the others are in `Nic`.

**Nic.** One Pod with any number of connections (three in the run), each of a backend (`ipvlan`, the native delegates
`sriov` and `macvlan`, a static delegate such as flannel), with requested addresses, CIDRs, a
device pool, an interface prefix, policy routes. A goroutine goes through `reserve`, `create`, `plug`,
`configure`, `update` and `post`; every call of the API server, the kernel or a plugin may fail,
and what the code then cleans up, and what not, is modelled. `links` is the Pod's namespace, `held` and `own`
are what plugins hold, with `cmd/fakeipam` as their IPAM or one of their own. After ADD
Kubelet calls DEL, possibly again, and removes the namespace. History variables: `lost`,
`abandoned`, `unread`, `missed` and `foreign` say which failure explains what is left over.
`NicAssumption` says of which kind the constants are, that a prefix is none of the names
ep.go makes from an endpoint ID, and that a connection that needs a device names a pool of the configuration.

**Syncher.** `append` is two steps, the new length and then the element, since the reader
takes no lock: a data race, of which this is one possible outcome. `torn` records that it
happened.

**NetWatcher.** A node has an informer per API (DanmNet, TenantNetwork, ClusterNetwork, NAD) with
a queue of events. The informers hand out pointers into their cache: `known` is the object of the
latest event, which the next handler gets as the old one, with what the handlers have written to it.
`TenantNetwork`s and `ClusterNetwork`s are converted to a copy first, so that `zeroVnis` only hurts
DanmNets. A handler is one step; the handlers of NADs also update the NAD, with its version. Users create,
change and delete networks, also without a change the watcher looks at (an
allocation); informers resync, lose their watch and list again; the process or the node
restarts; requests to the kernel and to the API server fail. The history variable `excused` has the
networks a node's watcher lost track of: changed or deleted while it was down or its API was not
discovered, or with events in the queue when the process ended; a DanmNet changed after its
cached VNI was zeroed, or deleted then; a network whose NetworkID changed with the same VNI and device; a NAD that has a VNI but no device, or whose VLAN
interface is on its own VxLAN interface (section 3); a request to the kernel that failed, which is never repeated. `unpatched` has the NADs whose handler did not write the interface:
its set-up or its PUT failed, or the interface has the same name as before.

**SvcWatcher.** Each informer calls its handlers on a goroutine of its own, in the order of the
changes: `queue` holds the changes not yet handled, `task` what a goroutine is doing. A handler
is split where it reads the cached Endpoints and at every write. Copies from the cache are
written with their version, and a conflict leads back to the read; Endpoints built by
`CreateModifyEndpoints` are written without one, which overwrites whatever is there and creates
what is not. The list `delDanmep` collects is not emptied by a retry (controller.go:433), so the
refused copy comes first in all further attempts: the model gives up at once, with the address
still listed. The maps of `UpdatePodStatusInEps` make the order of the addresses
nondeterministic, and removal by index is modelled with its off-by-one (`deleteFromEpAddressList`).
In scope are one namespace and DanmEps with at most one address. The caches of Pods, Services
and DanmEps are up to date, and it is the handlers that lag; the cache of Endpoints lags freely.
A DanmEp changes in its labels only and only `updatePod` changes them, so `RelabelDanmEp` compares them where the code
compares versions; one that is deleted and created again meanwhile has a new name in the code, the same one in the model.
The 400 attempts of the retry loops are not counted. A panic ends the process; its restart is
not modelled. The history variable `missed` is set when a goroutine

- stores Endpoints built anew over others than it found, stores them after the DanmEps or the
  annotations they were built from have changed, or stores a readiness that has changed since,
  when the change is no longer in the queue;
- passes over Endpoints because their cached copy is outdated (`delDanmep`, readiness of Pods);
- adds an address that is listed as not ready (`isIpInEp` does not look there);
- gives up after a conflict in `delDanmep`, leaves the rest of a list unwritten after an error,
  or is refused while it handles a Service;
- stores a readiness that follows from what a Service tolerated when its annotations were read, which has
  changed since;
- stops at a Service whose selector is malformed (`MatchExistingSvc`).

## 3. Runs

Bounds are constants of the modules (`MaxCalls`, `MaxFails`, `MaxCrashes`, `MaxRequests`,
`MaxChanges`, `MaxEdits`, `MaxUpsets`, `MaxUpdates`, `MaxScans`, `MaxFaults`, `MaxDels`) and stand
in the guards of the actions that start something. Deadlock is checked in `NetRules` only: in the
others the modelled system is at rest once the bound is reached.

| Run | Bounds | Shows |
|---|---|---|
| `Ipam` | 2 clients, V4 and V6 pools of 2 addresses, 4 calls, 1 failure | `Recorded`, `Exclusive`, `GatewaysStayReserved`, `NoLeak`, `OneBitPerWrite` with late V6 initialisation, a V6 subnet larger than its pool, a manifest with a plain LastIp, dynamic against static requests; `ImplementsAllocator`; `CallsReturn` |
| `NetRules` | addresses of 4 and 5 bits, 8 addresses at most, about 2300 manifests, 1 update, 1 search | `AdmittedPoolsSound`, `PanicsHaveCause`, `PodsKeepTheirLink`; `ScanIsFreeIndex` and `ScanEnds` for every admitted pool, bitmap and LastIp |
| `Tenant` | 3 requests at a time, 2 names, 4 profiles, 5 manifests, 3 requests, 1 failure | `VniRecorded`, `VniExclusive`, `NoVniLeak`, `ImplementsAllocator`, also when profiles share a card |
| `Cni` | 2 processes, 3 containers (2 of one Pod), 2 addresses, 3 calls, 1 failure, 1 crash | `EpsReserved`, `UpPodsConnected`, `NoIpLeak` |
| `Nic` | 1 to 3 connections of 17 kinds, both naming schemes, 1 failing call, 2 DELs | `UpPodsHaveLinks`, `AddressesAgree`, `AddressesOwned`, `NothingLeft`, `FreesOwnOnly`, `PanicsHaveCause` |
| `Syncher` | 3 goroutines, 2 polls | `ResultsKept`, `SuccessIsComplete`, `Eth0First`, `Answers` |
| `NetWatcher` | 2 nodes, 1 network of any API with 3 specs, 3 changes, 1 upset | `NetworksHaveLinks`, `NoOrphanLinks`, `NadsNameTheirLink`, `OnePatchPerEdit`, `PatchesKeepEdits` |
| `SvcRace` | 2 Pods with a DanmEp each, 1 Service, 3 changes | `EndpointsExact`, `PanicsAfterMiss`, `OthersKept`: the goroutines against each other and the cache |
| `SvcPair` | 1 Pod with 2 DanmEps, 2 Services on two networks, 2 changes | `EndpointsExact` when one handler writes two Endpoints; `ChangesHandled` |

The modules other than `Ipam` have a `TypeOK` too, which documents their variables and is proved for those of section 4.

Why these sizes are enough: a lost update or a double allocation takes two writers, and a
pool of two addresses fills up and empties within four calls (the proofs of section 4 are for
any number of clients, calls and addresses); a VNI released twice takes three requests; a double
release takes three calls in CNI (ADD, DEL, ADD of another container) and the counterexample run
below gives it more. In `NetRules` the manifests have the ends of a pool left out, in, at the border
of and outside of the subnet, subnets of every interesting size, and gateways on either side. In `Nic` the kinds of connections
are combined in pairs, so that any two backends meet, and in some triples, two of which share a name under the
legacy scheme; one failing call at every point is what its
clean-up is written for. In `NetWatcher` three changes are a creation and two modifications or a
deletion and a new creation, with an upset between any two of them; two nodes are enough for
watchers to race. In `SvcWatcher` three changes give each of the three goroutines one to handle at the same time,
from any state in which the watcher has caught up.

Some properties have a condition, because the code does not keep the promise
unconditionally; three runs show what happens without it:

| Run (violation) | Says | Where the code differs |
|---|---|---|
| `IpamDocs` | comment ipam.go:27-28: the bit is set, the object modified | ipam.go:38 returns without a PUT when the copy re-read after a conflict, with the new bit, equals the caller's old copy (an address was freed in between that is then taken) |
| `CniShared` | comment danmep.go:375-376 | after a timeout two goroutines free one DanmEp's address |
| `NetLeak` | user-guide.md:469: netwatcher first deletes the old, then creates the new host interface | netcontrol.go:656 zeroes unchanged VNIs in the informer's cache: an update that leaves the VNI as it is, such as the allocation of an address, zeroes that of the cached DanmNet, and the next change leaves the old interface in place. `MaxUpsets` is 0, so this takes no failure and no resync (which is such an update too) |

Further differences that can be read off the models, and are the reason for a condition or
an exception in a property:

- The VNI of a network is freed while its deletion is admitted (netdel.go:43). Two DELETEs of
  one network free it twice, the second time possibly when another network already has it, and
  a third network then gets the same one, against "the next previously unused VNI"
  (user-guide.md:393). `VniExclusive` has the condition `~disturbed`.
- syncher.go:53-57 reads the slice without the mutex. A result that is counted before it is
  written reads as a success, against user-guide.md:218 ("If any executor reported an error
  [...] the result of the whole operation will be an error"). `SuccessIsComplete` has the
  condition `~torn`.
- An address may come to be listed twice in the Endpoints, also as ready and not ready at once,
  against the comment at controller.go:231 and 273: `addDanmep` looks for it among the ready
  addresses only. Removing it then removes another Pod's address as well, or panics at the end
  of the list. It takes a handler that has worked from outdated input or failed, which `missed` records (section 2, with
  its other causes). `EndpointsExact` and `OthersKept` have the condition `~missed`; `PanicsAfterMiss` says that without
  `missed` nothing panics, not that each panic is over an address listed twice.
- Outside of the model: `EpCheckUpdate` returns early for a DanmEp with both an IPv4 and an IPv6
  address (controller.go:173-176), which is therefore never added to Endpoints that have
  addresses; and its removal deletes by outdated indices, as above.
- The wrap-around of the search (ipam.go:149) passes over the first address of the pool, so
  "all addresses are reserved!" may be said of a pool in which it is free. `FreeIndex` has the exception.
- A creation that is denied by the post-validation (netadmit.go:75), or not stored, leaves its
  VNI reserved, against user-guide.md:396. `NoVniLeak` has the condition `~denied`.
- An update of the TenantConfig without bitmaps re-initialises them (confadmit.go:107), against
  the comment above it. `VniRecorded` and `VniExclusive` have the condition `~disturbed`.
- A Pod that is connected between the webhook's check (netdel.go:25) and the deletion does not
  keep the network, against rule 22 of the user guide; `PodsKeepTheirLink` speaks of Pods the
  webhook saw.
- When the network cannot be read again after a DanmEp was created, createNic dereferences
  the nil network (metacni.go:349) instead of reporting danmep.go:295. `RefreshNet` ends the
  process, `NoIpLeak` has the condition that no process was cut short.
- Rules 10 and 14 of the user guide (user-guide.md:415 and 419) say "End shall be smaller than
  Start"; validators.go:98 and 142 require the opposite. Rule 21 (user-guide.md:426) forbids any change
  of VNI or device while Pods are connected; validators.go:263 only those of a network that had a VNI.
- A V6 gateway whose distance from the base of the allocation CIDR is the size of that CIDR passes the check of
  ipam.go:307 and panics; one below the base reserves the bit of its absolute distance
  (`PanicsHaveCause` and `AdmittedPoolsSound` of `NetRules`).
- An update of a network that leaves out the bitmap resets it, one that keeps it with a larger CIDR
  makes a later search read past its end (`resized`).
- A network of type "IPVLAN" in upper case, as written in schema/DanmNet.yaml:21, gets no interface although ADD
  succeeds: danmep.go:156 compares with "ipvlan". `UpPodsHaveLinks` asks for none (`WantsLink`).
- A set-up that fails half-way frees the address and leaves the interface in place
  (metacni.go:358-368), with a VLAN also the lower of the two dummies of createDummyInterface (ep.go:275-339) when the
  upper one fails; the delegate's DEL is not called. `AddressesOwned` and `NothingLeft` have
  the exception `abandoned`.
- A static delegate for which "none" was asked keeps the addresses of its own IPAM, against the comment at
  cnidel.go:70-71; `AddressesAgree` has the exception.
- With the legacy naming scheme two connections may get one name; the second set-up then fails or, for an interface
  that is not in the kernel, shares it (`SharesName`). `setDanmEpSysctls` then finds the interface of the other connection by
  that name and gives it its own IPv6 address (danmep.go:207-235), which stays there when the connection's DanmEp is deleted and the
  address freed; `AddressesOwned` has the exception, which the proof came across: no pair of connections shows it.
- `updatePod` reads whether a Service tolerates Pods that are not ready before its retry loop writes. If the Service's
  annotations change meanwhile to ones the watcher ignores, and back, the outdated list is not corrected: five changes,
  which no run reaches and the proof of `EndpointsExact` needed to exclude (`missed`).
- The network watcher never notices what was deleted or changed while it was down, does not check an existing
  interface again, and does not repeat a failed request (`excused`). Interfaces of networks with the same NetworkID and VNI are shared
  and deleted with the first of them; `WatcherAssumption` excludes this. A manifest of a NAD that is applied again,
  with its original master and unchanged VNI, stays as it is, against user-guide.md:502 (`unpatched`).
- A NAD with a VNI and no `host_device` gets no interface (net.go:65-67 returns without an error) and is patched with the name
  of one (netcontrol.go:399); from then on the watcher takes that name for its device. The watcher that has patched
  a NAD with a VLAN and a VxLAN may also put the VLAN interface on the VxLAN interface it wrote as the device; when the
  VxLAN changes, both go and `setupHost` makes one. The proof of `NoOrphanLinks` and `NetworksHaveLinks` came across both
  (`excused`).
- A NAD with both a VLAN and a VxLAN, whose NetworkID and VLAN change while the VxLAN stays, may be
  patched twice for one change: a watcher that has followed it has zeroed the VxLAN
  (netcontrol.go:439) and writes the name of the VLAN interface, one that was just started that of the VxLAN
  interface. The proof of `OnePatchPerEdit` came across it; the property has the condition `FollowedAlike`.

`unwritten` (Ipam), `resized` (NetRules), `refreed` and `cut` (Cni), `disturbed` and `denied`
(TenantNet), `torn` (Syncher), `lost`, `abandoned`, `unread`, `missed` and `foreign` (Nic), `excused` and `unpatched`
(NetWatcher) and `missed` (SvcWatcher) are history variables that record that such a thing has
happened; they restrict properties, never actions.

**Fairness.** `Ipam`: weak fairness for each client's steps inside a call, that is, the
goroutine is scheduled and API requests are answered; nobody has to make calls. `NetRules`: weak
fairness for the iterations of a search, which is one goroutine's loop. `Syncher`: for the polling
goroutine, whose clock runs, and for a goroutine that holds the mutex. `SvcWatcher`: for each of the three goroutines and for the
informer that refreshes the cache of Endpoints. The loops of `Reserve` and `Free` end because every conflict
is caused by another client's progress and calls are finite; under an endless stream of calls
by others a single client may starve. `confman.Reserve` and `confman.Free` are the same loop.
`TenantNet`, `Cni`, `Nic` and `NetWatcher` state no fairness: their properties are about safety, and
`Nic` and `NetWatcher` speak of states in which all is handled.

## 4. Proofs

Each theorem holds for every value of the constants that satisfies the assumptions of its
module: any number of clients, processes, nodes, networks, addresses, calls, failures and crashes.
Each proofs module defines an inductive invariant `IInv`, with `Init => IInv` and
`IInv /\ [Next]_vars => IInv'` in lemmas, proves `IInvHolds`, and
derives the properties of the runs from it.

| Module | Proved | From |
|---|---|---|
| `IpamProofs` | `TypeOK`, `Recorded`, `Exclusive`, `NoLeak`, `GatewaysStayReserved`, `OneBitPerWrite`, `ImplementsAllocator` | `PoolAssumption`, `CallAssumption` |
| `NetRulesProofs` | `TypeOK`, `AdmittedPoolsSound`, `PanicsHaveCause`, `ScanIsFreeIndex`, `PodsKeepTheirLink`, `PoolsReady` | `NetRulesAssumption`, `ManifestAssumption` |
| `TenantNetProofs` | `TypeOK`, `VniRecorded`, `VniExclusive`, `NoVniLeak`, `ImplementsAllocator` | `ConfigAssumption` |
| `CniProofs` | `TypeOK`, `EpsReserved`, distinct addresses (`DistinctIpsAlways`), `NoIpLeak`, `UpPodsConnected` | `CniAssumption` |
| `SyncherProofs` | `TypeOK`, `ResultsKept`, `SuccessIsComplete`, `Eth0First` | `SyncherAssumption` |
| `NicProofs` | `TypeOK`, `UpPodsHaveLinks`, `AddressesAgree`, `AddressesOwned`, `NothingLeft`, `FreesOwnOnly`, `PanicsHaveCause` | `NicAssumption` |
| `SvcWatcherProofs` | `TypeOK`, `EndpointsExact`, `PanicsAfterMiss`, `OthersKept` | `SvcAssumption` |
| `NetWatcherProofs` | `TypeOK`, `NetworksHaveLinks`, `NoOrphanLinks`, `NadsNameTheirLink`, `OnePatchPerEdit`, `PatchesKeepEdits` | `WatcherAssumption` |

The assumptions say of which kind the constants are; beyond that `PoolAssumption` is what the
validators establish (see NetRules below), `ConfigAssumption` that the TenantConfig passed its
own, `WatcherAssumption` that no two networks have the same NetworkID, and `SvcAssumption` that no two DanmEps
have the same address (which `Cni` is about), and that there are finitely many.

**Ipam.** That a PUT does not undo anything depends on what the copy being written is. `IInv` adds

- `Sanity`: a pool has a bitmap exactly if it has an allocation CIDR, and the reserved
  addresses are in every bitmap, stored or copied;
- `Versions`: no copy is newer than the object, and a copy of the same version differs from
  the object by exactly what its owner has changed in it (`Edited`), so a PUT that is
  accepted changes one bit per family and nothing else;
- `NotPreset`: an address that is held is none of the addresses reserved from the start;
- `FreeSeen`: what is being freed is set in the copy it is freed in;
- `V4Done`: the V4 address is gone when the V6 address is being freed.

The lemmas come in three layers: what the operators return (`FreeIndexIsFree`,
`AllocateOneResult`, `AllocateIpsResult`, `ResetIpResult`); what a step that stores nothing,
a stored reservation and a stored release do to the safety part (`NoWriteSafe`,
`ReserveWriteSafe`, `FreeWriteSafe`, `NoWriteRest`, `WriteRest`); and one lemma per action.
For the refinement the last section names the effects a step can have on who holds
what, shows that each action has one of them, and that each effect is a step of `Allocator` or
changes nothing in it (`AllocatorImplemented`).

**NetRules.** `IInv` is `TypeOK`, `Stored` (the stored pools are sound and, unless
`resized`, their bitmaps are those of the CIDR and the gateways), `Requests` (what was admitted is sound, and keeps the link of a Pod
the webhook saw), `Searching` (every address the loop has passed is taken, on its way to the end of the pool or,
after the wrap-around, to where it began) and `PanicsHaveCause`. `Searching` is the loop invariant
that makes `ScanIsFreeIndex` provable: the result of the loop is that of the closed form, which is what
`Ipam` uses. The arithmetic of CIDRs rests on a few facts about powers of two, by
induction over a set of numbers (`SetInduction`, from the well-foundedness of `<`).
`PoolsReadyAlways` says of every stored network what `PoolAssumption` asks of Start, End and the sizes; its clause about
gateways is the panic of `PanicsHaveCause`, with which the request fails.

**TenantNet.** The three safety properties are restated with `Holds(u, i, v)`, the network with UID
`u`, stored or about to be, has VNI `v` of profile `i`. They are inductive together with `Base`:

- `Stages`: what an admission request has established at each of its steps;
- `Copies`: a copy of the TenantConfig with the version of the object has its bitmaps;
- `ZeroTaken`: VNI 0, which stands for none, is taken in every bitmap;
- `Uids`: a UID tells a network from the others, stored or in flight;
- `Removing`: a network that is about to be removed has no VNI, or it was freed.

Every step has one `Effect` on bitmaps and holders: none, a VNI acquired, lost, dropped, released,
or the disturbance of the double release and of the TenantConfig without bitmaps. One lemma per action finds the
effect, one per effect shows what it preserves, and the same effects are the steps of `Allocator`.

**Cni.** A DanmEp and its address are looked at by several goroutines of several processes. `IInv` says
where each may be (`Stages`, `OneAdd`, `DelsLate`), that ids are used once (`Identities`), that a
DanmEp that a goroutine refers to is stored or its address is freed (`References`), that the holders of addresses,
DanmEps and goroutines that are about to create one, have distinct reserved ones as long as none was freed
twice (`Addresses`), that without failures every reserved address has such a holder (`Accounted`), that a process
deletes only DanmEps of its own Pod or container (`OwnEps`), and what a waiting ADD has (`Waiting`). The last
two are what `UpPodsConnected` needs: no process deletes what a Pod that is up relies on.

**Syncher.** `IInv` says that the mutex is held from the read of the slice to the write of the
element (`Locked`, `Appending`), that each executor that has pushed has exactly one element (`Slots`), and that a
success without a torn read is everybody's (`Aggregated`): as many elements as executors, each of another one,
are the elements of all. What the loop of `MergeCniResults` returns is proved by induction over
its iterations.

**NetWatcher.** `IInv` is `TypeOK`, `Versions` (an event with the version in the API server has
the object in the API server), `Origins` (all but the device of an object is from a user),
`Pending` (a NAD that does not name its interface is in the queue of every watcher that runs, or
`unpatched`) and `Patches` (`rev`, the number of writes so far, and the NADs with a patch to come are together at most twice `edits`).
Every step is of one of four kinds (`UserStep`, `Lists`, `Handles`, `HandlesNad`), and the invariant is proved
for the kinds, not for the actions. `OnePatchPerEdit` is the counting argument of `Patches`: a user's change adds one
NAD with a patch to come, a patch uses it up.

`NetworksHaveLinks` and `NoOrphanLinks` speak of a watcher that is up to date; that it was on the way there is a second
invariant on top, `LInv`, which is `Homes` (every copy of an object has a NetworkID and a device of its network, and interfaces
of a network are on a device or on each other) and, for each watcher and network, `PairOK`:

- `ChainOK`: what is said last of the network, by the queue or by the object the watcher knows, is what is in the API server,
  and a deletion event has the state said before it. Resyncs say nothing new; repeated events, lists made anew and tombstones repeat or skip, but do not reorder;
- `KnowsOK`: how the cached object may differ from the one the API server sent: the device a watcher
  has patched in a NAD, the VNIs zeroed in a DanmNet, nothing in the converted ones;
- `HostsOK`: unless `excused`, the interfaces are exactly those of the object as sent (`Fits`), or, where nothing has been heard yet,
  those an earlier watcher left, right for what this one will hear first (`LeftFor`).

It is needed because a handler removes the interfaces of the old object and sets up those of the new one: what it leaves is right
only if the interfaces fitted the old one, and the old one is from the cache the handlers write to. `Tracks` is what each handler owes
(its lemmas are named after the handlers), `PairHandled` and `LInvAfter` carry it through the queues, and the lemmas `...Keeps`
are one for each kind of step.

**Nic.** What a goroutine may have done depends on the kind of its connection and on what the API server, the kernel
and the plugins answered. The static operators `Name`, `Needs`, `Asked`, `Answer` and `Gives` compute it from the Pod's annotation
alone; `IInv` then says, for each connection by itself (`Conn`),

- `Setup`: the stage of its goroutine, and what its DanmEp, in memory and stored, tells at that stage;
- `EpKept`, `Unfreed`: the DanmEp stays as it is until it is deleted, and without failures its addresses are reserved so long;
- `Accounted`, `Held`, `Links`, `Owned`: whatever is reserved, held by a plugin or in the namespace has
  a DanmEp, or the failed call that explains it.

Three parts relate connections: `OneDevice` (no two have one device), `OneName` (no two interfaces have one name) and `Pools`
(devices not handed out yet). A step is one goroutine's, so each action has a lemma about
its own connection, and `OthersKept` and `ConnStep` carry over the rest once and for all.

**SvcWatcher.** Three goroutines edit the Endpoints from copies of any age, so what is correct now cannot be
an invariant; that it will be corrected is. The changes a goroutine has not finished, the one it handles and those in its queue, are
`Events`. `IInv` says

- `Told`: the last of them about an object has its present state, and each of them is followed by one that starts where it ends;
- `Tasks`: what a goroutine has read or is about to write follows from the copies, Services and Pods it was made from;
- `Copies`: a copy with the version in the API server is what is in the API server;
- `Uniques`: no address twice in the Endpoints or a copy;
- `Fitting`: for each Service whose annotations are handled, every address its Endpoints lack, have too much or
  have in the wrong list is due: an event or a write that will add, remove or move it is on its way (`AddDue`, `DelDue`, `StatusDue`).

The last two are conditional on `~missed`, and `Fitting` is about Services whose own changes have been handled. When nothing is pending nothing is due, so the lists are exact
(`QuietExact`). `PanicsAfterMiss` and `OthersKept` follow from the first part alone (`SInv`): the removal by index is
right on lists without duplicates, shown by induction over its recursive function, and the maps `UpdatePodStatusInEps` rebuilds
the lists from lose nothing.

Only model-checked:

- liveness, `CallsReturn`, `ScanEnds`, `Answers` and `ChangesHandled`: fairness and ENABLED are out of the
  prover's reach.

## 5. Not modelled, and the plan

Not modelled: start-up code, leader election, generated clients; the contents of configuration files, routes and
rules (setting them succeeds or fails); JSON, TLS and logging everywhere. Also left out:
flannelIpExhaustionWorkaround (cnidel.go:218) removes a file whose name has no `/prefix`, which the address it is given may have;
`getVfMac` (danmep.go:402) compares with >= and may index past the end; `WasIpAllocatedByDanm` is asked with Net6
in cnidel.go:179 and with the V6 allocation CIDR in danmep.go:383, which are one subnet in `Nic`.
An empty map of routes is not told from none in `NetRules`.

Order of the further work:

1. `SvcWatcher` with dual-stack DanmEps and a restart of the process.
2. `NetWatcher` with two networks that share interfaces.
