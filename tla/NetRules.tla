------------------------------ MODULE NetRules ------------------------------
(***************************************************************************)
(* The life of a DanmNet or ClusterNetwork: the rules of the admission       *)
(* webhook (pkg/admit/validators.go), the allocation pools it makes of a     *)
(* manifest (pkg/ipam, pkg/bitarray), and the search for a free address in   *)
(* them, one step per iteration of the loop of allocateAddress.              *)
(*                                                                           *)
(* Addresses are numbers of a small width.  The constants below are the      *)
(* widths of the code, and keep their relation: an index is as wide as an    *)
(* IPv4 address and narrower than an IPv6 address.  TenantNetworks, whose    *)
(* details come from the TenantConfig, are in module TenantNet.              *)
(***************************************************************************)
EXTENDS Integers

CONSTANTS
    V4Bits, V6Bits,   \* width of the addresses (32, 128)
    IndexBits,        \* width of an index into a bitmap (uint32)
    CapBits,          \* MaxSupportedAllocLength: a network has at most 2^CapBits addresses (23)
    ByteBits,         \* bits in a byte of the bitmap (8)
    Manifests,        \* manifests a network may be created with
    Edits,            \* manifests it may be updated with
    DeviceNames,      \* names of interfaces and device pools; "" is none
    MaxUpdates,       \* bound: updates of the network
    MaxScans          \* bound: dynamic allocations

ASSUME NetRulesAssumption ==
    /\ {V4Bits, V6Bits, IndexBits, CapBits, ByteBits} \subseteq Nat \ {0}
    /\ CapBits <= V4Bits /\ V4Bits = IndexBits /\ V4Bits < V6Bits
    /\ MaxUpdates \in Nat /\ MaxScans \in Nat

VARIABLES
    net,          \* the network in the API server
    req,          \* the manifest a request is about, with the changes of the webhook
    pc,           \* the request, or the search for an address, in progress
    connected,    \* a Pod is connected to the network
    seen,         \* the Pod was connected when the webhook looked, and still is
    resized,      \* the bitmap of another CIDR or of other gateways was kept (history)
    updates, scans,
    f, i, end, lastIpIndex, result     \* variables of allocateAddress

search == <<f, i, end, lastIpIndex, result>>
vars == <<net, req, pc, connected, seen, resized, updates, scans, search>>

-----------------------------------------------------------------------------
(* Addresses, subnets and bitmaps                                           *)

\* 2^n
Exp2(n) == LET pow[k \in 0 .. n] == IF k = 0 THEN 1 ELSE 2 * pow[k - 1] IN pow[n]

Fam == {"v4", "v6"}
Unset == -3       \* the empty string, as in IpamPool
Bits(fam) == IF fam = "v4" THEN V4Bits ELSE V6Bits

\* A subnet; "none" is the empty string, "bad" is one that cannot be parsed.
NoCidr == [fam |-> "none", base |-> 0, prefix |-> 0]
Cidrs == {c \in [fam : {"none", "bad", "v4", "v6"}, base : Nat, prefix : Nat] :
             c.prefix <= Bits(c.fam)}
Size(c) == Exp2(Bits(c.fam) - c.prefix)
Contains(c, ip) == ip \in c.base .. c.base + Size(c) - 1
Inside(c, d) == c.fam = d.fam /\ Contains(c, d.base) /\ Contains(c, d.base + Size(d) - 1)

\* GetIndexOfIp.  The difference is reduced to the width of an index; of a negative one
\* an IPv6 address keeps the absolute value.
GetIndexOfIp(ip, c) ==
    IF c.fam = "v4" THEN (ip - c.base) % Exp2(IndexBits)
    ELSE (IF ip >= c.base THEN ip - c.base ELSE c.base - ip) % Exp2(IndexBits)

\* A bitmap: the bits set, and the bits there are room for.
NoAlloc == [room |-> 0, bits |-> {}]
Room(n) == ((n + ByteBits - 1) \div ByteBits) * ByteBits

\* Mutant: that there is a bit for the gateway is not checked.
ReservesAllGateways(c, gws) ==
    [room |-> Room(Size(c)), bits |-> {0, Size(c) - 1} \cup {GetIndexOfIp(g, c) : g \in gws}]

\* CreateBitArrayFromIpnet and reserveGatewayIps
CreateAllocationArray(c, gws) ==
    [room |-> Room(Size(c)),
     bits |-> {0, Size(c) - 1} \cup {p \in {GetIndexOfIp(g, c) : g \in gws} : p <= Size(c)}]

\* Set writes past the end of the array, and panics.
SetPanics(a) == \E p \in a.bits : p >= a.room

-----------------------------------------------------------------------------
(* The pools of a manifest: for each family the subnet (Cidr, Net6), the     *)
(* allocation CIDR (for V4 the subnet itself), the pool and its bitmap.      *)

Part == [net : Cidrs, cidr : Cidrs, gws : SUBSET Nat, start : {Unset} \cup Nat,
         end : {Unset} \cup Nat, last : {Unset} \cup Nat, plain : BOOLEAN,
         alloc : [room : Nat, bits : SUBSET Nat]]

\* A network ID is empty, short, or too long for the name of a host interface with a VNI;
\* "ipvlan" stands for all the dynamic types but SR-IOV.
Manifest == [kind : {"DanmNet", "ClusterNetwork"}, nid : {"", "short", "long"},
             type : {"", "ipvlan", "sriov", "static"}, device : DeviceNames,
             devicePool : DeviceNames, tenants : BOOLEAN, vlan : Nat, vxlan : Nat,
             v4 : Part, v6 : Part]

\* The V4 pool has no CIDR of its own, and nobody but IPAM writes bitmaps: an update has
\* the stored one or none.
ASSUME ManifestAssumption ==
    /\ Manifests \cup Edits \subseteq Manifest
    /\ \A m \in Manifests \cup Edits : m.v4.cidr = NoCidr
    /\ \A m \in Edits : m.v4.alloc = NoAlloc /\ m.v6.alloc = NoAlloc

Capacity == Exp2(CapBits)
MaxV6PrefixLength == V6Bits - CapBits
MaxV4MaskLength == V4Bits - CapBits

\* Mutant: the space of the V4 pool is not taken into account.
FullCapacity(m) == MaxV6PrefixLength

GetMaxUsableV6Prefix(m) ==
    IF m.v4.net = NoCidr THEN MaxV6PrefixLength
    ELSE LET fits == {p \in MaxV6PrefixLength .. V6Bits :
                        Exp2(V6Bits - p) < Capacity - Size(m.v4.net)} IN
         IF fits = {} THEN V6Bits ELSE CHOOSE p \in fits : \A q \in fits : p <= q

\* InitV6PoolCidr
AllocCidr(m, fam) ==
    IF fam = "v4" THEN m.v4.net
    ELSE IF m.v6.net = NoCidr \/ m.v6.cidr # NoCidr THEN m.v6.cidr
    ELSE LET p == GetMaxUsableV6Prefix(m) IN
         [m.v6.net EXCEPT !.prefix = IF p < @ THEN @ ELSE p]

InitAllocPool(m, fam) ==
    LET c == AllocCidr(m, fam)
        s == m[fam] IN
    [s EXCEPT !.cidr = c,
              !.start = IF @ = Unset THEN c.base + 1 ELSE @,
              !.end = IF @ = Unset THEN c.base + Size(c) - 2 ELSE @,
              !.alloc = IF @ = NoAlloc THEN CreateAllocationArray(c, s.gws) ELSE @]

\* Routes need a subnet and have their gateways in it (no routes and an empty map of
\* routes are the same here).
validateIpFields(s) ==
    IF s.net = NoCidr THEN s.gws = {}
    ELSE s.net.fam # "bad" /\ \A g \in s.gws : Contains(s.net, g)

HasNoPool(s) == s.start = Unset /\ s.end = Unset /\ s.cidr = NoCidr

validateAllocV4(m) ==
    LET s == InitAllocPool(m, "v4") IN
    IF m.v4.net = NoCidr THEN m.v4.start = Unset /\ m.v4.end = Unset
    ELSE /\ m.v4.net.fam = "v4" /\ m.v4.net.prefix >= MaxV4MaskLength
         /\ Contains(m.v4.net, s.start) /\ Contains(m.v4.net, s.end)
         /\ s.end > s.start

\* The part of validateAllocV6 that precedes InitAllocPool
IsV6RangeValid(m) ==
    LET c == AllocCidr(m, "v6") IN
    /\ m.v6.net.fam = "v6" /\ c.fam = "v6"
    /\ c.prefix >= GetMaxUsableV6Prefix(m) /\ c.prefix # V6Bits
    /\ m.v6.start # Unset => Contains(c, m.v6.start)
    /\ m.v6.end # Unset => Contains(c, m.v6.end)
    /\ Inside(m.v6.net, c)

validateAllocV6(m) ==
    LET s == InitAllocPool(m, "v6") IN
    IF m.v6.net = NoCidr THEN HasNoPool(m.v6)
    ELSE IsV6RangeValid(m) /\ s.end > s.start

IsAllocAbsent(m) == m.v4.alloc = NoAlloc /\ m.v6.alloc = NoAlloc

validateAllocationPools(op, m) ==
    /\ op = "CREATE" => IsAllocAbsent(m)
    /\ validateAllocV4(m) /\ validateAllocV6(m)

\* The rules in front of validateAllocV6 hold, and it reserves a gateway that has no bit.
WebhookPanics(op, m) ==
    /\ validateIpFields(m.v4) /\ validateIpFields(m.v6)
    /\ op = "CREATE" => IsAllocAbsent(m)
    /\ validateAllocV4(m)
    /\ m.v6.net # NoCidr /\ IsV6RangeValid(m) /\ m.v6.alloc = NoAlloc
    /\ SetPanics(CreateAllocationArray(AllocCidr(m, "v6"), m.v6.gws))

-----------------------------------------------------------------------------
(* The other rules of a DanmNet and a ClusterNetwork                         *)

validateVids(m) == m.vlan = 0 \/ m.vxlan = 0

IsTypeDynamic(type) == type # "static"

validateNetworkId(m) ==
    /\ m.nid # ""
    /\ ~(m.nid = "long" /\ IsTypeDynamic(m.type) /\ (m.vxlan # 0 \/ m.vlan # 0))

validateAbsenceOfAllowedTenants(m) == m.kind = "DanmNet" => ~m.tenants

validateNeType(m) ==
    IF m.type = "sriov" THEN m.devicePool # "" /\ m.device = ""
    ELSE m.device = "" \/ m.devicePool = ""

\* Mutant: the device of a VLAN or VxLAN network may be changed.
VniOnly(op, old, m, isConnected) ==
    op = "UPDATE" /\ isConnected =>
        (old.vlan # 0 => m.vlan = old.vlan) /\ (old.vxlan # 0 => m.vxlan = old.vxlan)

validateVniChange(op, old, m, isConnected) ==
    op = "UPDATE" /\ isConnected =>
        /\ old.vlan # 0 => m.vlan = old.vlan /\ m.device = old.device
        /\ old.vxlan # 0 => m.vxlan = old.vxlan /\ m.device = old.device

\* validateNetworkByType with DanmNetMapping or ClusterNetMapping
validateNetworkByType(op, old, m, isConnected) ==
    /\ validateIpFields(m.v4) /\ validateIpFields(m.v6)
    /\ validateAllocationPools(op, m)
    /\ validateVids(m) /\ validateNetworkId(m)
    /\ validateAbsenceOfAllowedTenants(m) /\ validateNeType(m)
    /\ validateVniChange(op, old, m, isConnected)

\* What the rules set on their way, and mutateNetManifest; the patches carry the
\* difference to the API server.
mutateNetManifest(m) ==
    [m EXCEPT !.v4 = IF m.v4.net = NoCidr THEN @ ELSE InitAllocPool(m, "v4"),
              !.v6 = IF m.v6.net = NoCidr THEN @ ELSE InitAllocPool(m, "v6"),
              !.type = IF @ = "" THEN "ipvlan" ELSE @]

-----------------------------------------------------------------------------
(* Requests to the API server and the Pods                                   *)

NoNet == [kind |-> "none"]

\* An update that keeps what the manifest leaves out (a merge patch), or drops it.
Merged(s, old) ==
    [s EXCEPT !.alloc = old.alloc, !.last = old.last, !.plain = old.plain,
              !.cidr = IF @ = NoCidr THEN old.cidr ELSE @,
              !.start = IF @ = Unset THEN old.start ELSE @,
              !.end = IF @ = Unset THEN old.end ELSE @]

Merge(m, old) == [m EXCEPT !.v4 = Merged(@, old.v4), !.v6 = Merged(@, old.v6)]

IsKept(s, old) ==
    s.alloc # NoAlloc /\ s.alloc = old.alloc /\ (s.cidr # old.cidr \/ s.gws # old.gws)

\* allocateAddress has returned; its variables are no more.
EndSearch == f' = "v4" /\ i' = 0 /\ end' = 0 /\ lastIpIndex' = 0 /\ result' = Unset

Init ==
    /\ net = NoNet /\ req = NoNet /\ pc = "idle"
    /\ connected = FALSE /\ seen = FALSE /\ resized = FALSE
    /\ updates = 0 /\ scans = 0
    /\ f = "v4" /\ i = 0 /\ end = 0 /\ lastIpIndex = 0 /\ result = Unset

\* ValidateNetwork and the patches it answers with
ValidateNetwork(op, old, m) ==
    /\ validateNetworkByType(op, old, m, connected)
    /\ ~WebhookPanics(op, m)
    /\ validateNetworkId(mutateNetManifest(m))
    /\ req' = mutateNetManifest(m)
    /\ seen' = connected
    /\ pc' = "admitted"
    /\ UNCHANGED <<net, connected, resized, scans, search>>

\* net/http recovers the panic of a handler; the request is not answered and fails.
Panic(op, m) ==
    /\ WebhookPanics(op, m)
    /\ req' = m
    /\ pc' = "panic"
    /\ UNCHANGED <<net, connected, seen, resized, scans, search>>

Create ==
    /\ pc = "idle" /\ net = NoNet
    /\ \E m \in Manifests : ValidateNetwork("CREATE", NoNet, m) \/ Panic("CREATE", m)
    /\ UNCHANGED updates

Update ==
    /\ pc = "idle" /\ net # NoNet /\ updates < MaxUpdates
    /\ updates' = updates + 1
    /\ \E m \in {e \in Edits : e.kind = net.kind} : \E e \in {m, Merge(m, net)} :
           ValidateNetwork("UPDATE", net, e) \/ Panic("UPDATE", e)

\* DeleteNetwork of the webhook, for these two kinds
DeleteNetwork ==
    /\ pc = "idle" /\ net # NoNet /\ ~connected
    /\ req' = NoNet /\ pc' = "admitted" /\ seen' = FALSE
    /\ UNCHANGED <<net, connected, resized, updates, scans, search>>

Recover ==
    /\ pc \in {"panic", "crash"}
    /\ pc' = "idle" /\ req' = NoNet /\ EndSearch
    /\ UNCHANGED <<net, connected, seen, resized, updates, scans>>

\* The API server carries out what was admitted.
Store ==
    /\ pc = "admitted"
    /\ net' = req
    /\ resized' = IF req = NoNet \/ net = NoNet THEN FALSE
                  ELSE \E fam \in Fam : \/ IsKept(req[fam], net[fam])
                                        \/ resized /\ req[fam].alloc = net[fam].alloc
    /\ pc' = "idle" /\ req' = NoNet /\ seen' = FALSE
    /\ UNCHANGED <<connected, updates, scans, search>>

\* A DanmEp of the network is created or deleted, also while a request is in progress.
Connect ==
    /\ pc \in {"idle", "admitted"} /\ net # NoNet /\ ~connected
    /\ connected' = TRUE
    /\ UNCHANGED <<net, req, pc, seen, resized, updates, scans, search>>

Disconnect ==
    /\ pc \in {"idle", "admitted"} /\ connected
    /\ connected' = FALSE /\ seen' = FALSE
    /\ UNCHANGED <<net, req, pc, resized, updates, scans, search>>

-----------------------------------------------------------------------------
(* The search for a free address                                             *)

Pool == net[f]
Begin == GetIndexOfIp(Pool.start, Pool.cidr)

LastIpIndex(s) ==
    IF s.last = Unset \/ ~s.plain THEN 0 ELSE GetIndexOfIp(s.last, s.cidr)

\* A dynamic request, after any allocations of others.
StartScan(fam) ==
    LET s == net[fam]
        begin == GetIndexOfIp(s.start, s.cidr)
        last == LastIpIndex(s) IN
    /\ pc = "idle" /\ net # NoNet /\ scans < MaxScans
    /\ s.alloc # NoAlloc
    /\ \E others \in SUBSET (0 .. s.alloc.room - 1) :
           net' = [net EXCEPT ![fam].alloc.bits = @ \cup others]
    /\ f' = fam
    /\ end' = GetIndexOfIp(s.end, s.cidr)
    /\ lastIpIndex' = IF last >= end' \/ last = 0 THEN begin ELSE last
    /\ i' = lastIpIndex'
    /\ result' = Unset
    /\ scans' = scans + 1
    /\ pc' = "loop"
    /\ UNCHANGED <<req, connected, seen, resized, updates>>

\* The bit is set, or is clear; Get reads past the end of the array in Crash.
IsTaken == pc = "loop" /\ i <= end /\ i \in Pool.alloc.bits
IsFree == pc = "loop" /\ i <= end /\ i < Pool.alloc.room /\ i \notin Pool.alloc.bits

webhook == <<net, req, connected, seen, resized, updates, scans, f>>

Take ==
    /\ IsFree
    /\ result' = i
    /\ pc' = "done"
    /\ UNCHANGED <<webhook, i, end, lastIpIndex>>

\* The end of the pool is reached: go on elsewhere, with another bound.
WrapTo(begin, bound) ==
    /\ IsTaken /\ i = end /\ end # lastIpIndex
    /\ i' = begin
    /\ end' = bound
    /\ UNCHANGED <<webhook, pc, lastIpIndex, result>>

\* Mutants: the first address of the pool is not passed over; the bound is not lowered.
WrapToBegin == WrapTo(Begin, lastIpIndex)
WrapWithoutBound == WrapTo(Begin + 1, end)

\* The search goes on at the beginning of the pool, up to where it began.  The
\* increment of the loop still follows.
WrapAround == WrapTo(Begin + 1, lastIpIndex)

Advance ==
    /\ IsTaken /\ ~(i = end /\ end # lastIpIndex)
    /\ i' = i + 1
    /\ UNCHANGED <<webhook, pc, end, lastIpIndex, result>>

Exhaust ==
    /\ pc = "loop" /\ i > end
    /\ pc' = "done"
    /\ UNCHANGED <<webhook, search>>

Crash ==
    /\ pc = "loop" /\ i <= end /\ i >= Pool.alloc.room
    /\ pc' = "crash"
    /\ UNCHANGED <<webhook, search>>

\* The address is stored with the network, LastIp in the "/prefix" notation.
Reserve ==
    /\ pc = "done"
    /\ net' = IF result = Unset THEN net
              ELSE [net EXCEPT ![f].alloc.bits = @ \cup {result},
                               ![f].last = Pool.cidr.base + result, ![f].plain = FALSE]
    /\ pc' = "idle" /\ EndSearch
    /\ UNCHANGED <<req, connected, seen, resized, updates, scans>>

Next ==
    \/ Create \/ Update \/ DeleteNetwork \/ Recover \/ Store \/ Connect \/ Disconnect
    \/ \E fam \in Fam : StartScan(fam)
    \/ Take \/ WrapAround \/ Advance \/ Exhaust \/ Crash \/ Reserve

Spec == Init /\ [][Next]_vars

\* The loop is code that runs to its end.
FairSpec == Spec /\ WF_vars(Take \/ WrapAround \/ Advance \/ Exhaust \/ Crash)

-----------------------------------------------------------------------------
(* Properties                                                                *)

\* The pools of module IpamPool that the stored network makes: offsets from the base.
Offset(fam, get(_)) == IF net[fam].cidr = NoCidr THEN 0 ELSE get(net[fam])
PoolSizeOf(s) == Size(s.cidr)
StartOf(s) == GetIndexOfIp(s.start, s.cidr)
EndOf(s) == GetIndexOfIp(s.end, s.cidr)
P == INSTANCE IpamPool WITH
        PoolSize <- [fam \in Fam |-> Offset(fam, PoolSizeOf)],
        NetSize <- [fam \in Fam |-> Offset(fam, PoolSizeOf)],
        Start <- [fam \in Fam |-> Offset(fam, StartOf)],
        End <- [fam \in Fam |-> Offset(fam, EndOf)],
        Gateways <- [fam \in Fam |-> {}]

TypeOK ==
    /\ {net, req} \subseteq {NoNet} \cup Manifest
    /\ pc \in {"idle", "admitted", "panic", "loop", "done", "crash"}
    /\ {connected, seen, resized} \subseteq BOOLEAN
    /\ updates \in 0 .. MaxUpdates /\ scans \in 0 .. MaxScans
    /\ f \in Fam
    /\ {i, end, lastIpIndex} \subseteq 0 .. Exp2(IndexBits)
    /\ result \in {Unset} \cup 0 .. Exp2(IndexBits) - 1

\* What the allocations of pkg/ipam rely on, of every network the webhook let through,
\* however it was created and updated (validators.go:60-146): the ends of the pool are in
\* order and in the allocation CIDR, which is in the subnet; the first and the last
\* address and the gateways are reserved; the bitmap has a bit for every address, and
\* those of the two families fit in the storage together.  Except after an update that
\* kept the bitmap of other addresses.
AdmittedPoolsSound ==
    net # NoNet =>
        LET Has(fam) == net[fam].cidr # NoCidr
            size(fam) == IF Has(fam) THEN Size(net[fam].cidr) ELSE 0 IN
        /\ size("v4") + size("v6") <= Capacity
        /\ \A fam \in {g \in Fam : Has(g)} :
            LET s == net[fam] IN
            /\ Inside(s.net, s.cidr)
            /\ Contains(s.cidr, s.start) /\ Contains(s.cidr, s.end) /\ s.start < s.end
            /\ ~resized =>
                /\ s.alloc.room >= size(fam)
                /\ {0, size(fam) - 1} \subseteq s.alloc.bits
                /\ {g - s.cidr.base : g \in {h \in s.gws : Contains(s.cidr, h)}}
                       \subseteq s.alloc.bits

\* The webhook panics only because of a V6 gateway whose distance from the base of the
\* allocation CIDR is the size of that CIDR (ipam.go:307 compares with <=), and a search for
\* an address only when an update kept the bitmap of a smaller CIDR.
PanicsHaveCause ==
    /\ pc = "panic" => \E g \in req.v6.gws :
                           LET c == AllocCidr(req, "v6") IN
                           ~Contains(c, g) /\ GetIndexOfIp(g, c) = Size(c)
    /\ pc = "crash" => resized

\* The loop of ipam.go:140-152 computes FreeIndex, the closed form that the allocations
\* of modules IpamPool and Ipam use: for every pool the webhook admits, every bitmap and
\* every LastIp.
ScanIsFreeIndex ==
    pc = "done" =>
        result = P!FreeIndex([cidr |-> TRUE, alloc |-> Pool.alloc.bits,
                              last |-> LastIpIndex(Pool), plain |-> TRUE], f)

\* The search ends although the loop moves its counter backwards.
ScanEnds == (pc = "loop") ~> (pc # "loop")

\* A Pod that was connected when the webhook looked keeps its network, and the VNI and the
\* device of a network that has a VNI (validators.go:252, netdel.go:25).  A Pod that
\* connects between the check and the write has no such guarantee.
PodsKeepTheirLink ==
    [][seen /\ net # NoNet /\ net' # net /\ pc = "admitted" =>
         /\ net' # NoNet
         /\ net.vlan # 0 \/ net.vxlan # 0 =>
                <<net'.vlan, net'.vxlan, net'.device>> = <<net.vlan, net.vxlan, net.device>>]_vars

=============================================================================
