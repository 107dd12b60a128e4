-------------------------------- MODULE Ipam --------------------------------
(***************************************************************************)
(* DANM's distributed IPAM (pkg/ipam): the CNI processes of all nodes        *)
(* reserve and free addresses of one network by editing the                 *)
(* bitmaps in its API object.  There is no lock: a writer PUTs the copy it  *)
(* read, the API server refuses a copy whose resource version is outdated,  *)
(* and the writer then re-reads the object and starts over.                 *)
(***************************************************************************)
EXTENDS IpamPool

CONSTANTS
    Clients,       \* callers of Reserve and Free: createNic/deleteInterface goroutines on any node
    LateV6,        \* the object was stored before its V6 pool was initialised (Pool6.Cidr == "")
    ManifestLastIps,  \* V4 LastIp values a manifest may come with, in plain notation, or Unset
    Requests,      \* pairs of requests a Pod may make of the network
    MaxCalls,      \* bound: calls of Reserve and GarbageCollectIps together
    MaxFails       \* bound: API calls that fail for another reason than a conflict

ASSUME CallAssumption ==
    /\ LateV6 \in BOOLEAN
    /\ ManifestLastIps \subseteq {Unset} \cup Nat
    /\ Requests \subseteq Request
    /\ MaxCalls \in Nat /\ MaxFails \in Nat

VARIABLES
    net,       \* the network object in the API server: its spec and resource version
    pc,        \* where each client is
    req,       \* the requests its Reserve was called with
    netInfo,   \* the copy of the network its caller read and passed in
    tempNet,   \* the copy it is changing
    ips,       \* the addresses it is reserving, holds, or is freeing
    fam,       \* the family GarbageCollectIps is freeing
    calls,     \* calls made so far
    fails,     \* API failures so far
    unwritten  \* a Reserve has returned a pool address without a PUT (history)

vars == <<net, pc, req, netInfo, tempNet, ips, fam, calls, fails, unwritten>>

-----------------------------------------------------------------------------
Net == [spec : [Fam -> Pool], rv : Nat]

NoIps == [f \in Fam |-> Unset]

Init ==
    /\ \E l \in ManifestLastIps :
          net = [rv |-> 0,
                 spec |-> [f \in Fam |->
                    IF PoolSize[f] = 0 \/ (f = "v6" /\ LateV6) THEN NoPool
                    ELSE IF f = "v4" THEN [InitAllocPool(f) EXCEPT !.last = l, !.plain = (l # Unset)]
                    ELSE InitAllocPool(f)]]
    /\ pc = [c \in Clients |-> "idle"]
    /\ req = [c \in Clients |-> NoIps]
    /\ netInfo = [c \in Clients |-> net]
    /\ tempNet = [c \in Clients |-> net]
    /\ ips = [c \in Clients |-> NoIps]
    /\ fam = [c \in Clients |-> "v4"]
    /\ calls = 0
    /\ fails = 0
    /\ unwritten = FALSE

\* The caller reads the network: before it reserves addresses ...
GetNetworkFromInterface(c) ==
    /\ pc[c] = "idle" /\ calls < MaxCalls
    /\ netInfo' = [netInfo EXCEPT ![c] = net]
    /\ tempNet' = [tempNet EXCEPT ![c] = net]
    /\ \E r \in Requests : req' = [req EXCEPT ![c] = r]
    /\ pc' = [pc EXCEPT ![c] = "reserve"]
    /\ calls' = calls + 1
    /\ UNCHANGED <<net, ips, fam, fails, unwritten>>

\* ... and before it frees the ones it holds.
GetNetworkFromEp(c) ==
    /\ pc[c] = "held" /\ calls < MaxCalls
    /\ netInfo' = [netInfo EXCEPT ![c] = net]
    /\ tempNet' = [tempNet EXCEPT ![c] = net]
    /\ pc' = [pc EXCEPT ![c] = "free"]
    /\ fam' = [fam EXCEPT ![c] = "v4"]
    /\ calls' = calls + 1
    /\ UNCHANGED <<net, req, ips, fails, unwritten>>

\* Whether an address has a bit in the bitmap of its family.
HasBit(f, ip) == ip \in 0 .. PoolSize[f] - 1

\* One pass of the loop of Reserve up to the PUT.  The comparison is with the spec
\* the caller passed in, also when tempNet has been read again since.
Reserve(c) ==
    LET a == allocateIps(tempNet[c].spec, req[c]) IN
    /\ pc[c] = "reserve"
    /\ \/ /\ ~a.ok
          /\ pc' = [pc EXCEPT ![c] = "idle"]
          /\ UNCHANGED <<tempNet, ips, unwritten>>
       \/ /\ a.ok /\ a.spec = netInfo[c].spec
          /\ pc' = [pc EXCEPT ![c] = "held"]
          /\ ips' = [ips EXCEPT ![c] = a.ips]
          /\ unwritten' = (unwritten \/ \E f \in Fam : HasBit(f, a.ips[f]))
          /\ UNCHANGED tempNet
       \/ /\ a.ok /\ a.spec # netInfo[c].spec
          /\ pc' = [pc EXCEPT ![c] = "put"]
          /\ ips' = [ips EXCEPT ![c] = a.ips]
          /\ tempNet' = [tempNet EXCEPT ![c].spec = a.spec]
          /\ UNCHANGED unwritten
    /\ UNCHANGED <<net, req, netInfo, fam, calls, fails>>

\* The API server stores a copy that is up to date; storing an equal object does
\* not make a new version.
Stored(n) == [n EXCEPT !.rv = IF n.spec = net.spec THEN @ ELSE @ + 1]

\* Mutant: the PUT carries no resource version.
PutUnversioned(c) == net' = [Stored(tempNet[c]) EXCEPT !.rv = net.rv + 1]

\* updateIpAllocation: the PUT is stored, or refused because the object has been
\* modified, or fails with another error, before or after it was stored.
PutNetwork(c) ==
    /\ tempNet[c].rv = net.rv
    /\ net' = Stored(tempNet[c])

PutConflicts(c) == tempNet[c].rv # net.rv /\ UNCHANGED net

PutFails(c) ==
    /\ fails < MaxFails
    /\ fails' = fails + 1
    /\ PutNetwork(c) \/ UNCHANGED net

\* Mutants: the copy is kept after a conflict, or only its resource version read again.
RefreshNothing(c) == UNCHANGED <<tempNet, fails>>
RefreshVersionOnly(c) ==
    /\ tempNet' = [tempNet EXCEPT ![c].rv = net.rv]
    /\ UNCHANGED fails

\* After a conflict the network is read again, or cannot be read.
RefreshNetwork(c) ==
    /\ tempNet' = [tempNet EXCEPT ![c] = net]
    /\ UNCHANGED fails

RefreshFails(c) ==
    /\ fails < MaxFails
    /\ fails' = fails + 1
    /\ UNCHANGED tempNet

ReservePut(c) ==
    /\ pc[c] = "put"
    /\ \/ PutNetwork(c) /\ pc' = [pc EXCEPT ![c] = "held"] /\ UNCHANGED <<ips, fails>>
       \/ PutConflicts(c) /\ pc' = [pc EXCEPT ![c] = "refresh"] /\ UNCHANGED <<ips, fails>>
       \/ PutFails(c) /\ pc' = [pc EXCEPT ![c] = "idle"] /\ ips' = [ips EXCEPT ![c] = NoIps]
    /\ UNCHANGED <<req, netInfo, tempNet, fam, calls, unwritten>>

ReserveRefresh(c) ==
    /\ pc[c] = "refresh"
    /\ ips' = [ips EXCEPT ![c] = NoIps]
    /\ \/ RefreshNetwork(c) /\ pc' = [pc EXCEPT ![c] = "reserve"]
       \/ RefreshFails(c) /\ pc' = [pc EXCEPT ![c] = "idle"]
    /\ UNCHANGED <<net, req, netInfo, fam, calls, unwritten>>

\* Mutant: GarbageCollectIps returns after the first family.
FreeReturnsEarly(c) ==
    /\ ips' = [ips EXCEPT ![c] = NoIps]
    /\ pc' = [pc EXCEPT ![c] = "idle"]
    /\ UNCHANGED fam

\* Free of one family is over: GarbageCollectIps goes on with V6, from the same
\* copy of the network, and returns after that.
FreeReturns(c) ==
    /\ ips' = [ips EXCEPT ![c][fam[c]] = Unset]
    /\ fam' = [fam EXCEPT ![c] = "v6"]
    /\ pc' = [pc EXCEPT ![c] = IF fam[c] = "v4" THEN "free" ELSE "idle"]

\* Free fails: GarbageCollectIps returns the error at once, what is left is abandoned.
FreeErrs(c) ==
    /\ ips' = [ips EXCEPT ![c] = NoIps]
    /\ pc' = [pc EXCEPT ![c] = "idle"]
    /\ UNCHANGED fam

\* One pass of the loop of Free up to the PUT.
Free(c) ==
    LET f == fam[c]
        spec == [tempNet[c].spec EXCEPT ![f] = resetIp(@, f, ips[c][f])] IN
    /\ pc[c] = "free"
    /\ \/ /\ ips[c][f] \in {Unset, NoneAllocType} \/ spec = netInfo[c].spec
          /\ FreeReturns(c)
          /\ tempNet' = [tempNet EXCEPT ![c] = netInfo[c]]
       \/ /\ ips[c][f] \notin {Unset, NoneAllocType} /\ spec # netInfo[c].spec
          /\ tempNet' = [tempNet EXCEPT ![c].spec = spec]
          /\ pc' = [pc EXCEPT ![c] = "freeput"]
          /\ UNCHANGED <<ips, fam>>
    /\ UNCHANGED <<net, req, netInfo, calls, fails, unwritten>>

FreePut(c) ==
    /\ pc[c] = "freeput"
    /\ \/ /\ PutNetwork(c) /\ FreeReturns(c)
          /\ tempNet' = [tempNet EXCEPT ![c] = netInfo[c]]
          /\ UNCHANGED fails
       \/ /\ PutConflicts(c)
          /\ pc' = [pc EXCEPT ![c] = "freerefresh"]
          /\ UNCHANGED <<tempNet, ips, fam, fails>>
       \/ PutFails(c) /\ FreeErrs(c) /\ UNCHANGED tempNet
    /\ UNCHANGED <<req, netInfo, calls, unwritten>>

FreeRefresh(c) ==
    /\ pc[c] = "freerefresh"
    /\ \/ RefreshNetwork(c) /\ pc' = [pc EXCEPT ![c] = "free"] /\ UNCHANGED <<ips, fam>>
       \/ RefreshFails(c) /\ FreeErrs(c)
    /\ UNCHANGED <<net, req, netInfo, calls, unwritten>>

ClientStep(c) ==
    \/ Reserve(c) \/ ReservePut(c) \/ ReserveRefresh(c)
    \/ Free(c) \/ FreePut(c) \/ FreeRefresh(c)

Next ==
    \E c \in Clients : GetNetworkFromInterface(c) \/ GetNetworkFromEp(c) \/ ClientStep(c)

\* A call in progress is scheduled and its API requests are answered.
Fairness == \A c \in Clients : WF_vars(ClientStep(c))

Spec == Init /\ [][Next]_vars /\ Fairness

-----------------------------------------------------------------------------
PcValues == {"idle", "reserve", "put", "refresh", "held", "free", "freeput", "freerefresh"}

\* The types of the object and of what each client keeps.
TypeOK ==
    /\ net \in Net
    /\ pc \in [Clients -> PcValues]
    /\ req \in [Clients -> Request]
    /\ netInfo \in [Clients -> Net]
    /\ tempNet \in [Clients -> Net]
    /\ ips \in [Clients -> Request]
    /\ fam \in [Clients -> Fam]
    /\ calls \in Nat /\ fails \in Nat
    /\ unwritten \in BOOLEAN

\* The client holds the address: Reserve has returned it, and no Free of it has returned.
Owns(c, f) ==
    /\ pc[c] \in {"held", "free", "freeput", "freerefresh"}
    /\ HasBit(f, ips[c][f])

Owned(f) == {ips[c][f] : c \in {d \in Clients : Owns(d, f)}}

\* As long as no Reserve has returned early without a PUT (ipam.go:38), the bit of
\* every address that a client was given and has not freed is set in the API
\* object, whatever the interleaving of reservations, frees, conflicts and failures.
Recorded == unwritten \/ \A f \in Fam : Owned(f) \subseteq net.spec[f].alloc

\* Under the same condition no two clients hold the same address of the pool.
Exclusive ==
    unwritten \/ \A f \in Fam : \A c, d \in Clients :
        c # d /\ Owns(c, f) /\ Owns(d, f) => ips[c][f] # ips[d][f]

\* The first and the last address and the gateways are never handed out and never
\* become free, not even when an address is handed out twice.
GatewaysStayReserved ==
    \A f \in Fam : net.spec[f].cidr =>
        /\ CreateAllocationArray(f) \subseteq net.spec[f].alloc
        /\ Owned(f) \cap CreateAllocationArray(f) = {}

\* No address leaks: without API failures and early returns, every bit that is set
\* belongs to a client that holds the address, or was set from the beginning.
NoLeak ==
    fails = 0 /\ ~unwritten =>
        \A f \in Fam : net.spec[f].cidr =>
            net.spec[f].alloc \subseteq CreateAllocationArray(f) \cup Owned(f)

\* The bitmap of f gains or loses at most one address in this step.
AtMostOneBit(f) ==
    \/ net'.spec[f].alloc = net.spec[f].alloc
    \/ \E i \in 0 .. PoolSize[f] - 1 :
          \/ net'.spec[f].alloc = net.spec[f].alloc \cup {i}
          \/ net'.spec[f].alloc = net.spec[f].alloc \ {i}

\* A step changes at most one bit of an initialised bitmap: no PUT undoes what other
\* clients have stored since the writer read the object.
OneBitPerWrite == [][\A f \in Fam : net.spec[f].cidr => AtMostOneBit(f)]_vars

\* The retry loops of Reserve and Free end: every call returns, with or without success.
CallsReturn == \A c \in Clients : pc[c] \notin {"idle", "held"} ~> pc[c] \in {"idle", "held"}

\* The addresses of the pools, those whose bit is clear, and those a client holds.
PoolAddresses == UNION {{<<f, i>> : i \in 0 .. PoolSize[f] - 1} : f \in Fam}
FreeAddresses ==
    {a \in PoolAddresses : a[2] \notin IF net.spec[a[1]].cidr THEN net.spec[a[1]].alloc
                                       ELSE CreateAllocationArray(a[1])}
Held(c) == {<<f, ips[c][f]>> : f \in {g \in Fam : Owns(c, g)}}

\* The unlocked read-modify-write loops implement an allocator with a lock (module
\* Allocator): both addresses of a Reserve are taken in one step, none is taken from
\* another client, and each Free gives back one, until a Reserve returns early without a
\* PUT (ipam.go:38).
Atomic == INSTANCE Allocator WITH
        Owners <- Clients, Items <- PoolAddresses,
        free <- FreeAddresses, held <- [c \in Clients |-> Held(c)], broken <- unwritten
ImplementsAllocator == Atomic!Spec

\* What the comment over Reserve promises without a condition: "The reserved IP
\* addresses are represented by setting a bit in the network's BitArray" and "The
\* refreshed network object is modified in the K8s API server at the end".
AlwaysRecorded == \A f \in Fam : Owned(f) \subseteq net.spec[f].alloc

=============================================================================
