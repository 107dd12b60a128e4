------------------------------ MODULE IpamPool ------------------------------
(***************************************************************************)
(* The allocation data of a DANM network and the arithmetic of pkg/ipam and *)
(* pkg/bitarray on it: what one allocation or one release does to a copy of *)
(* the object.                                                              *)
(*                                                                          *)
(* An address is its offset from the first address of the allocation CIDR   *)
(* of its family, a bitmap is the set of the offsets whose bit is set.      *)
(***************************************************************************)
EXTENDS Integers

CONSTANTS
    PoolSize,      \* per family: addresses in the allocation CIDR, 0 when the family has no subnet
    NetSize,       \* per family: addresses in the subnet itself (Cidr, Net6)
    Start, End,    \* per family: first and last address of the dynamic pool
    Gateways       \* per family: gateway addresses of the IP routes

Fam == {"v4", "v6"}

\* The strings "", "none" and "dynamic", which a request or an address may be
\* instead of an address proper.
Unset == -3
NoneAllocType == -2
DynamicAllocType == -1

\* What a request may be: a static address is its offset, in or out of the subnet.
Request == [Fam -> {Unset, NoneAllocType, DynamicAllocType} \cup Nat]

\* A gateway right behind the pool has a bit only in a byte that is not full.
ASSUME PoolAssumption ==
    \A f \in Fam : /\ PoolSize[f] \in Nat
                   /\ NetSize[f] \in Nat
                   /\ PoolSize[f] <= NetSize[f]
                   /\ PoolSize[f] = 0 <=> NetSize[f] = 0
                   /\ Start[f] \in Nat /\ End[f] \in Nat
                   /\ PoolSize[f] > 0 => Start[f] < End[f] /\ End[f] < PoolSize[f]
                   /\ Gateways[f] \subseteq Nat
                   /\ PoolSize[f] \in Gateways[f] => PoolSize[f] % 8 # 0

-----------------------------------------------------------------------------
\* The per-family part of the spec: the allocation CIDR is set, the bitmap, and
\* LastIp with its notation (plain, or with the "/prefix" Reserve stores it with).

Pool == [cidr : BOOLEAN, alloc : SUBSET Nat, last : {Unset} \cup Nat, plain : BOOLEAN]

\* The bits set in a fresh bitmap: the first and the last address, and the gateways.
CreateAllocationArray(f) ==
    {0, PoolSize[f] - 1} \cup {g \in Gateways[f] : g <= PoolSize[f]}

\* A family without a subnet has no bitmap (alloc == "").
NoPool == [cidr |-> FALSE, alloc |-> {}, last |-> Unset, plain |-> FALSE]

InitAllocPool(f) ==
    [cidr |-> TRUE, alloc |-> CreateAllocationArray(f), last |-> Unset, plain |-> FALSE]

\* Mutant: the late initialisation makes the bitmap without the reserved addresses.
EmptyV6AllocFields(p, f) ==
    IF f = "v6" /\ NetSize[f] > 0 /\ ~p.cidr
    THEN [InitAllocPool(f) EXCEPT !.alloc = {}, !.last = p.last, !.plain = p.plain]
    ELSE p

\* A V6 pool the webhook has not initialised is initialised by the first allocation.
InitV6AllocFields(p, f) ==
    IF f = "v6" /\ NetSize[f] > 0 /\ ~p.cidr
    THEN [InitAllocPool(f) EXCEPT !.last = p.last, !.plain = p.plain]
    ELSE p

\* net.ParseIP does not parse the "/prefix" notation, and the index of no IP is 0.
LastIpIndex(p) == IF p.last = Unset \/ ~p.plain THEN 0 ELSE p.last

FirstOf(S) == CHOOSE i \in S : \A j \in S : i <= j

\* The index the search for a free address picks, Unset when it finds none: from
\* the last allocation to the end of the pool, then from the beginning of the
\* pool on; the beginning itself is passed over by the increment of the loop.
FreeIndex(p, f) ==
    LET last  == IF LastIpIndex(p) >= End[f] \/ LastIpIndex(p) = 0
                 THEN Start[f] ELSE LastIpIndex(p)
        upper == (last .. End[f]) \ p.alloc
        lower == IF last = End[f] THEN {} ELSE (Start[f] + 1 .. last) \ p.alloc
    IN IF upper # {} THEN FirstOf(upper)
       ELSE IF lower # {} THEN FirstOf(lower) ELSE Unset

Failed(p) == [ok |-> FALSE, pool |-> p, ip |-> Unset]

\* Mutant: neither that an address was found nor that it is free is checked.
AllocatesUnchecked(p, f, r) ==
    LET ip == IF r = DynamicAllocType THEN FreeIndex(p, f) ELSE r IN
    IF r = NoneAllocType THEN [ok |-> TRUE, pool |-> p, ip |-> NoneAllocType]
    ELSE IF ~p.cidr THEN Failed(p)
    ELSE [ok |-> TRUE, ip |-> ip, pool |-> [p EXCEPT !.alloc = @ \cup {ip}]]

\* One address of family f for request r.
allocateAddress(p, f, r) ==
    IF r = NoneAllocType THEN [ok |-> TRUE, pool |-> p, ip |-> NoneAllocType]
    ELSE IF ~p.cidr THEN Failed(p)
    ELSE IF r = DynamicAllocType THEN
        IF FreeIndex(p, f) = Unset
        THEN Failed(p)
        ELSE [ok |-> TRUE, ip |-> FreeIndex(p, f),
              pool |-> [p EXCEPT !.alloc = @ \cup {FreeIndex(p, f)},
                                 !.last = FreeIndex(p, f), !.plain = FALSE]]
    ELSE
        IF r >= NetSize[f] \/ (r < PoolSize[f] /\ r \in p.alloc)
        THEN Failed(p)
        ELSE [ok |-> TRUE, ip |-> r,
              pool |-> IF r < PoolSize[f] THEN [p EXCEPT !.alloc = @ \cup {r}] ELSE p]

\* Both addresses of a connection; a family that is not requested is left alone.
AllocateOne(p, f, r) ==
    IF r = Unset THEN [ok |-> TRUE, pool |-> p, ip |-> Unset]
    ELSE allocateAddress(InitV6AllocFields(p, f), f, r)

allocateIps(spec, r) ==
    [ok   |-> \A f \in Fam : AllocateOne(spec[f], f, r[f]).ok,
     spec |-> [f \in Fam |-> AllocateOne(spec[f], f, r[f]).pool],
     ips  |-> [f \in Fam |-> AllocateOne(spec[f], f, r[f]).ip]]

\* Only an address of the allocation CIDR has a bit to reset.
resetIp(p, f, ip) ==
    IF p.cidr /\ ip \in 0 .. PoolSize[f] - 1 THEN [p EXCEPT !.alloc = @ \ {ip}] ELSE p

=============================================================================
