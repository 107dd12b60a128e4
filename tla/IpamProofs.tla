----------------------------- MODULE IpamProofs -----------------------------
(***************************************************************************)
(* Proofs about Ipam, for every set of clients, network and request set.    *)
(***************************************************************************)
EXTENDS Ipam, WellFoundedInduction, TLAPS

\* A non-empty set of naturals has a smallest element, and FirstOf is that element.
LEMMA FirstOfIsFirst ==
    ASSUME NEW S \in SUBSET Nat, S # {}
    PROVE  FirstOf(S) \in S /\ \A j \in S : FirstOf(S) <= j
<1> DEFINE R == {ss \in Nat \X Nat : ss[1] < ss[2]}
<1>1. IsWellFoundedOn(R, Nat)
  BY NatLessThanWellFounded DEF OpToRel
<1>2. PICK x \in S : \A y \in S : ~ (<<y, x>> \in R)
  <2> HIDE DEF R
  <2> QED BY <1>1, WFMin, Zenon
<1>3. ASSUME NEW y \in S PROVE x <= y
  <2>1. <<y, x>> \in Nat \X Nat /\ <<y, x>>[1] = y /\ <<y, x>>[2] = x
    OBVIOUS
  <2>2. ~ (y < x)
    BY <1>2, <2>1, Zenon
  <2> QED BY <2>2
<1> QED BY <1>3 DEF FirstOf

\* A pool has a bitmap when, and only when, it has an allocation CIDR.
Sane(p, f) ==
    /\ p \in Pool
    /\ p.cidr => PoolSize[f] > 0
    /\ ~p.cidr => p.alloc = {}

Reqs == {Unset, NoneAllocType, DynamicAllocType} \cup Nat

\* The search for a free address finds a clear bit of the bitmap, or nothing.
LEMMA FreeIndexIsFree ==
    ASSUME NEW f \in Fam, NEW p, Sane(p, f), p.cidr, FreeIndex(p, f) # Unset
    PROVE  HasBit(f, FreeIndex(p, f)) /\ FreeIndex(p, f) \notin p.alloc
<1> DEFINE last  == IF LastIpIndex(p) >= End[f] \/ LastIpIndex(p) = 0
                    THEN Start[f] ELSE LastIpIndex(p)
           upper == (last .. End[f]) \ p.alloc
           lower == IF last = End[f] THEN {} ELSE (Start[f] + 1 .. last) \ p.alloc
<1>1. /\ PoolSize[f] \in Nat /\ Start[f] \in Nat /\ End[f] \in Nat
      /\ Start[f] < End[f] /\ End[f] < PoolSize[f]
  BY PoolAssumption DEF Sane
<1>2. LastIpIndex(p) \in Nat
  BY DEF LastIpIndex, Sane, Pool, Unset
<1>3. last \in Nat /\ last <= End[f]
  BY <1>1, <1>2
<1>4. /\ upper \subseteq Nat /\ lower \subseteq Nat
      /\ upper \subseteq (0 .. PoolSize[f] - 1) \ p.alloc
      /\ lower \subseteq (0 .. PoolSize[f] - 1) \ p.alloc
  BY <1>1, <1>3
<1>5. FreeIndex(p, f) = IF upper # {} THEN FirstOf(upper)
                        ELSE IF lower # {} THEN FirstOf(lower) ELSE Unset
  BY DEF FreeIndex
<1> HIDE DEF upper, lower, last
<1>6. CASE upper # {}
  BY <1>4, <1>5, <1>6, FirstOfIsFirst DEF HasBit
<1>7. CASE upper = {} /\ lower # {}
  BY <1>4, <1>5, <1>7, FirstOfIsFirst DEF HasBit
<1> QED BY <1>5, <1>6, <1>7

\* The pool an allocation starts from.
Base(p, f, r) == IF r = Unset THEN p ELSE InitV6AllocFields(p, f)

\* What AllocateOne returns: a pool with exactly one more bit when the address has
\* one, and with the same bitmap when it has none.
LEMMA AllocateOneResult ==
    ASSUME NEW f \in Fam, NEW p, Sane(p, f), NEW r \in Reqs
    PROVE  LET a == AllocateOne(p, f, r)
               b == Base(p, f, r)
           IN /\ a.ok \in BOOLEAN /\ a.ip \in Reqs
              /\ Sane(b, f) /\ Sane(a.pool, f)
              /\ p.cidr => b = p
              /\ ~p.cidr => b.alloc \in {{}, CreateAllocationArray(f)}
              /\ b.cidr /\ ~p.cidr => b.alloc = CreateAllocationArray(f)
              /\ a.pool.cidr = b.cidr
              /\ a.ok /\ HasBit(f, a.ip) =>
                    b.cidr /\ a.ip \notin b.alloc /\ a.pool.alloc = b.alloc \cup {a.ip}
              /\ a.ok /\ ~HasBit(f, a.ip) => a.pool.alloc = b.alloc
              /\ ~a.ok => a.pool = b
<1> DEFINE b == Base(p, f, r)
<1>1. /\ Sane(b, f)
      /\ p.cidr => b = p
      /\ ~p.cidr => b.alloc \in {{}, CreateAllocationArray(f)}
      /\ b.cidr /\ ~p.cidr => b.alloc = CreateAllocationArray(f)
  <2>1. CASE b = p
    BY <2>1 DEF Sane
  <2>2. CASE b # p
    <3>1. /\ ~p.cidr /\ PoolSize[f] > 0 /\ PoolSize[f] \in Nat /\ Gateways[f] \subseteq Nat
          /\ b = [InitAllocPool(f) EXCEPT !.last = p.last, !.plain = p.plain]
      BY <2>2, PoolAssumption DEF Base, InitV6AllocFields
    <3>2. CreateAllocationArray(f) \subseteq Nat
      BY <3>1 DEF CreateAllocationArray
    <3>3. /\ b.cidr = TRUE /\ b.alloc = CreateAllocationArray(f)
          /\ b \in Pool
      BY <3>1, <3>2 DEF InitAllocPool, Pool, Sane
    <3> QED BY <3>1, <3>3 DEF Sane
  <2> QED BY <2>1, <2>2
<1>2. CASE r = Unset
  BY <1>1, <1>2 DEF AllocateOne, Base, HasBit, Unset, Reqs, Sane
<1>3. CASE r # Unset
  <2>1. AllocateOne(p, f, r) = allocateAddress(b, f, r)
    BY <1>3 DEF AllocateOne, Base
  <2> HIDE DEF b
  <2>2. CASE r = NoneAllocType
    <3>1. allocateAddress(b, f, r) = [ok |-> TRUE, pool |-> b, ip |-> NoneAllocType]
      BY <2>2 DEF allocateAddress
    <3> QED BY <1>1, <2>1, <3>1 DEF b, HasBit, NoneAllocType, Reqs
  <2>3. CASE r # NoneAllocType /\ ~b.cidr
    <3>1. allocateAddress(b, f, r) = Failed(b)
      BY <2>3 DEF allocateAddress, Sane
    <3> QED BY <1>1, <2>1, <3>1 DEF b, Failed, Reqs
  <2>4. CASE r = DynamicAllocType /\ b.cidr
    <3>1. allocateAddress(b, f, r) =
            IF FreeIndex(b, f) = Unset
            THEN Failed(b)
            ELSE [ok |-> TRUE, ip |-> FreeIndex(b, f),
                  pool |-> [b EXCEPT !.alloc = @ \cup {FreeIndex(b, f)},
                                     !.last = FreeIndex(b, f), !.plain = FALSE]]
      BY <2>4 DEF allocateAddress, DynamicAllocType, NoneAllocType
    <3>2. CASE FreeIndex(b, f) = Unset
      BY <1>1, <2>1, <3>1, <3>2 DEF b, Failed, Reqs
    <3>3. CASE FreeIndex(b, f) # Unset
      <4>1. HasBit(f, FreeIndex(b, f)) /\ FreeIndex(b, f) \notin b.alloc
        BY <1>1, <2>4, <3>3, FreeIndexIsFree
      <4>2. FreeIndex(b, f) \in Nat
        BY <4>1, PoolAssumption DEF HasBit
      <4>3. Sane([b EXCEPT !.alloc = @ \cup {FreeIndex(b, f)},
                           !.last = FreeIndex(b, f), !.plain = FALSE], f)
        BY <1>1, <2>4, <4>2 DEF Sane, Pool
      <4> DEFINE q == [b EXCEPT !.alloc = @ \cup {FreeIndex(b, f)},
                                !.last = FreeIndex(b, f), !.plain = FALSE]
      <4>4. q.alloc = b.alloc \cup {FreeIndex(b, f)} /\ q.cidr = b.cidr
        BY <1>1 DEF Sane, Pool
      <4>5. /\ AllocateOne(p, f, r).ok = TRUE /\ AllocateOne(p, f, r).pool = q
            /\ AllocateOne(p, f, r).ip = FreeIndex(b, f)
        BY <2>1, <3>1, <3>3
      <4> HIDE DEF q
      <4> QED BY <1>1, <2>4, <4>1, <4>2, <4>3, <4>4, <4>5 DEF b, q, Reqs
    <3> QED BY <3>2, <3>3
  <2>5. CASE r \in Nat /\ b.cidr
    <3>1. allocateAddress(b, f, r) =
            IF r >= NetSize[f] \/ (r < PoolSize[f] /\ r \in b.alloc)
            THEN Failed(b)
            ELSE [ok |-> TRUE, ip |-> r,
                  pool |-> IF r < PoolSize[f] THEN [b EXCEPT !.alloc = @ \cup {r}] ELSE b]
      BY <2>5 DEF allocateAddress, DynamicAllocType, NoneAllocType
    <3>2. CASE r >= NetSize[f] \/ (r < PoolSize[f] /\ r \in b.alloc)
      BY <1>1, <2>1, <3>1, <3>2 DEF b, Failed, Reqs
    <3>3. CASE ~(r >= NetSize[f] \/ (r < PoolSize[f] /\ r \in b.alloc))
      <4>1. PoolSize[f] \in Nat /\ (HasBit(f, r) <=> r < PoolSize[f])
        BY <2>5, PoolAssumption DEF HasBit
      <4>2. Sane([b EXCEPT !.alloc = @ \cup {r}], f)
        BY <1>1, <2>5 DEF Sane, Pool
      <4> DEFINE q == IF r < PoolSize[f] THEN [b EXCEPT !.alloc = @ \cup {r}] ELSE b
      <4>3. /\ r < PoolSize[f] => q.alloc = b.alloc \cup {r}
            /\ ~(r < PoolSize[f]) => q.alloc = b.alloc
            /\ q.cidr = b.cidr
            /\ Sane(q, f)
        BY <1>1, <4>2 DEF Sane, Pool
      <4>4. /\ AllocateOne(p, f, r).ok = TRUE /\ AllocateOne(p, f, r).pool = q
            /\ AllocateOne(p, f, r).ip = r
        BY <2>1, <3>1, <3>3
      <4> HIDE DEF q
      <4> QED BY <1>1, <2>5, <3>3, <4>1, <4>3, <4>4 DEF b, Reqs
    <3> QED BY <3>2, <3>3
  <2> QED BY <1>3, <2>2, <2>3, <2>4, <2>5 DEF Reqs
<1> QED BY <1>2, <1>3

-----------------------------------------------------------------------------
(***************************************************************************)
(* The inductive invariant.  Recorded and Exclusive alone are not           *)
(* inductive: a PUT is harmless only because a copy whose resource version  *)
(* is the object's own was made from the stored spec (Versions), because    *)
(* the bits Free clears are not among those set from the beginning          *)
(* (NotPreset), and because the copy Free starts from has the bit set, so   *)
(* that Free does not return early (FreeSeen).                              *)
(***************************************************************************)
SaneSpec(s) ==
    \A f \in Fam : /\ Sane(s[f], f)
                   /\ s[f].cidr => CreateAllocationArray(f) \subseteq s[f].alloc

Sanity ==
    /\ SaneSpec(net.spec)
    /\ \A c \in Clients : SaneSpec(netInfo[c].spec) /\ SaneSpec(tempNet[c].spec)

\* The copy a client is about to PUT is the stored spec, edited by its own operation.
Edited(c) ==
    /\ pc[c] \in {"reserve", "free"} => tempNet[c].spec = net.spec
    /\ pc[c] = "put" =>
          LET a == allocateIps(net.spec, req[c])
          IN a.ok /\ tempNet[c].spec = a.spec /\ ips[c] = a.ips
    /\ pc[c] = "freeput" =>
          tempNet[c].spec = [net.spec EXCEPT ![fam[c]] = resetIp(@, fam[c], ips[c][fam[c]])]

Versions ==
    \A c \in Clients :
        /\ netInfo[c].rv <= net.rv /\ tempNet[c].rv <= net.rv
        /\ netInfo[c].rv = net.rv => netInfo[c].spec = net.spec
        /\ tempNet[c].rv = net.rv => Edited(c)

NotPreset ==
    \A c \in Clients : \A f \in Fam :
        HasBit(f, ips[c][f]) => ips[c][f] \notin CreateAllocationArray(f)

Freeing == {"free", "freeput", "freerefresh"}

FreeSeen ==
    unwritten \/ \A c \in Clients : \A f \in Fam :
        pc[c] \in Freeing /\ HasBit(f, ips[c][f]) => ips[c][f] \in netInfo[c].spec[f].alloc

\* GarbageCollectIps has freed the V4 address before it turns to the V6 address.
V4Done ==
    \A c \in Clients :
        pc[c] \in Freeing /\ fam[c] = "v6" => ~HasBit("v4", ips[c]["v4"])

IInv ==
    /\ TypeOK /\ Sanity /\ Versions /\ NotPreset /\ FreeSeen /\ V4Done
    /\ Recorded /\ Exclusive /\ NoLeak

-----------------------------------------------------------------------------
\* allocateIps on a sane spec: every address it returns had a clear bit, its bit is
\* set in the result, and no other bit has changed.
LEMMA AllocateIpsResult ==
    ASSUME NEW s \in [Fam -> Pool], SaneSpec(s), NEW q \in Request
    PROVE  LET a == allocateIps(s, q)
           IN /\ a.ok \in BOOLEAN /\ a.spec \in [Fam -> Pool] /\ a.ips \in Request
              /\ SaneSpec(a.spec)
              /\ a.ok => \A f \in Fam :
                    /\ s[f].alloc \subseteq a.spec[f].alloc
                    /\ HasBit(f, a.ips[f]) =>
                          /\ a.ips[f] \notin s[f].alloc
                          /\ a.ips[f] \notin CreateAllocationArray(f)
                          /\ a.ips[f] \in a.spec[f].alloc
                    /\ \A i \in a.spec[f].alloc :
                          \/ i \in s[f].alloc \/ i \in CreateAllocationArray(f)
                          \/ HasBit(f, a.ips[f]) /\ i = a.ips[f]
                    /\ s[f].cidr =>
                          \/ a.spec[f].alloc = s[f].alloc
                          \/ /\ HasBit(f, a.ips[f])
                             /\ a.spec[f].alloc = s[f].alloc \cup {a.ips[f]}
<1> DEFINE a == allocateIps(s, q)
           r(f) == AllocateOne(s[f], f, q[f])
           b(f) == Base(s[f], f, q[f])
<1>1. ASSUME NEW f \in Fam
      PROVE  /\ r(f).ok \in BOOLEAN /\ r(f).ip \in Reqs
             /\ Sane(b(f), f) /\ Sane(r(f).pool, f)
             /\ s[f].cidr => b(f) = s[f]
             /\ ~s[f].cidr => b(f).alloc \in {{}, CreateAllocationArray(f)}
             /\ b(f).cidr /\ ~s[f].cidr => b(f).alloc = CreateAllocationArray(f)
             /\ r(f).pool.cidr = b(f).cidr
             /\ r(f).ok /\ HasBit(f, r(f).ip) =>
                   /\ b(f).cidr /\ r(f).ip \notin b(f).alloc
                   /\ r(f).pool.alloc = b(f).alloc \cup {r(f).ip}
             /\ r(f).ok /\ ~HasBit(f, r(f).ip) => r(f).pool.alloc = b(f).alloc
             /\ ~r(f).ok => r(f).pool = b(f)
  <2>1. Sane(s[f], f) /\ q[f] \in Reqs
    BY DEF SaneSpec, Request, Reqs
  <2> QED BY <2>1, AllocateOneResult
<1>2. /\ a.ok = \A f \in Fam : r(f).ok
      /\ a.spec = [f \in Fam |-> r(f).pool] /\ a.ips = [f \in Fam |-> r(f).ip]
  BY DEF allocateIps
<1> HIDE DEF a, r, b
<1>3. a.ok \in BOOLEAN /\ a.spec \in [Fam -> Pool] /\ a.ips \in Request
  BY <1>1, <1>2 DEF Sane, Request, Reqs
<1>4. ASSUME NEW f \in Fam
      PROVE  b(f).cidr => CreateAllocationArray(f) \subseteq b(f).alloc
  BY <1>1, <1>4 DEF SaneSpec
<1>5. SaneSpec(a.spec)
  BY <1>1, <1>2, <1>4 DEF SaneSpec
<1>6. ASSUME a.ok, NEW f \in Fam
      PROVE  /\ s[f].alloc \subseteq a.spec[f].alloc
             /\ HasBit(f, a.ips[f]) =>
                   /\ a.ips[f] \notin s[f].alloc
                   /\ a.ips[f] \notin CreateAllocationArray(f)
                   /\ a.ips[f] \in a.spec[f].alloc
             /\ \A i \in a.spec[f].alloc :
                   \/ i \in s[f].alloc \/ i \in CreateAllocationArray(f)
                   \/ HasBit(f, a.ips[f]) /\ i = a.ips[f]
             /\ s[f].cidr =>
                   \/ a.spec[f].alloc = s[f].alloc
                   \/ /\ HasBit(f, a.ips[f])
                      /\ a.spec[f].alloc = s[f].alloc \cup {a.ips[f]}
  <2>1. r(f).ok /\ a.spec[f] = r(f).pool /\ a.ips[f] = r(f).ip
    BY <1>2, <1>6
  <2>2. s[f].alloc \subseteq b(f).alloc /\ (~s[f].cidr => s[f].alloc = {})
    BY <1>1 DEF SaneSpec, Sane
  <2>3. \A i \in b(f).alloc : i \in s[f].alloc \/ i \in CreateAllocationArray(f)
    BY <1>1
  <2> QED BY <1>1, <1>4, <2>1, <2>2, <2>3
<1> QED BY <1>3, <1>5, <1>6 DEF a

\* The spec with one address reset, as an operator the provers can keep folded.
ResetSpec(s, f, ip) == [s EXCEPT ![f] = resetIp(@, f, ip)]

\* resetIp on a sane spec clears at most the bit of the address.
LEMMA ResetIpResult ==
    ASSUME NEW s \in [Fam -> Pool], SaneSpec(s), NEW f \in Fam, NEW ip,
           HasBit(f, ip) => ip \notin CreateAllocationArray(f)
    PROVE  LET z == ResetSpec(s, f, ip)
           IN /\ z \in [Fam -> Pool] /\ SaneSpec(z)
              /\ \A g \in Fam : g # f => z[g] = s[g]
              /\ z[f].cidr = s[f].cidr
              /\ HasBit(f, ip) => z[f].alloc = s[f].alloc \ {ip}
              /\ ~HasBit(f, ip) => z[f] = s[f]
<1> DEFINE z == ResetSpec(s, f, ip)
<1>1. /\ z[f] = resetIp(s[f], f, ip) /\ \A g \in Fam : g # f => z[g] = s[g]
      /\ DOMAIN z = Fam /\ z = [x \in Fam |-> z[x]]
  BY DEF ResetSpec
<1>2. s[f] \in Pool /\ Sane(s[f], f) /\ (s[f].cidr => CreateAllocationArray(f) \subseteq s[f].alloc)
  BY DEF SaneSpec
<1>3. CASE s[f].cidr /\ HasBit(f, ip)
  <2>1. resetIp(s[f], f, ip) = [s[f] EXCEPT !.alloc = @ \ {ip}]
    BY <1>3 DEF resetIp, HasBit
  <2>2. /\ resetIp(s[f], f, ip) \in Pool /\ resetIp(s[f], f, ip).cidr = s[f].cidr
        /\ resetIp(s[f], f, ip).alloc = s[f].alloc \ {ip}
    BY <1>2, <2>1 DEF Pool
  <2>3. Sane(z[f], f) /\ (z[f].cidr => CreateAllocationArray(f) \subseteq z[f].alloc)
    BY <1>1, <1>2, <1>3, <2>2 DEF Sane
  <2>4. z \in [Fam -> Pool] /\ SaneSpec(z)
    BY <1>1, <2>2, <2>3 DEF SaneSpec
  <2> QED BY <1>1, <1>3, <2>2, <2>4
<1>4. CASE ~(s[f].cidr /\ HasBit(f, ip))
  <2>1. resetIp(s[f], f, ip) = s[f]
    BY <1>4 DEF resetIp, HasBit
  <2>2. z = s
    BY <1>1, <2>1
  <2> QED BY <1>1, <1>2, <1>4, <2>2 DEF Sane
<1> QED BY <1>3, <1>4

-----------------------------------------------------------------------------
\* The initial states satisfy the invariant.
LEMMA InitIInv == Init => IInv
<1> SUFFICES ASSUME Init PROVE IInv
  OBVIOUS
<1>1. PICK l \in ManifestLastIps :
          net = [rv |-> 0,
                 spec |-> [f \in Fam |->
                    IF PoolSize[f] = 0 \/ (f = "v6" /\ LateV6) THEN NoPool
                    ELSE IF f = "v4" THEN [InitAllocPool(f) EXCEPT !.last = l, !.plain = (l # Unset)]
                    ELSE InitAllocPool(f)]]
  BY DEF Init
<1>2. l \in {Unset} \cup Nat
  BY CallAssumption
<1>3. ASSUME NEW f \in Fam
      PROVE  /\ Sane(net.spec[f], f)
             /\ net.spec[f].cidr => net.spec[f].alloc = CreateAllocationArray(f)
  <2>1. PoolSize[f] \in Nat /\ Gateways[f] \subseteq Nat
    BY PoolAssumption
  <2> DEFINE p == net.spec[f]
             v == [InitAllocPool(f) EXCEPT !.last = l, !.plain = (l # Unset)]
  <2>0. p = IF PoolSize[f] = 0 \/ (f = "v6" /\ LateV6) THEN NoPool
            ELSE IF f = "v4" THEN v ELSE InitAllocPool(f)
    BY <1>1
  <2>2. CASE p = NoPool
    BY <2>2 DEF NoPool, Sane, Pool
  <2>3. CASE p # NoPool
    <3>1. PoolSize[f] > 0
      BY <2>0, <2>1, <2>3
    <3>2. CreateAllocationArray(f) \subseteq Nat
      BY <2>1, <3>1 DEF CreateAllocationArray
    <3>3. p = v \/ p = InitAllocPool(f)
      BY <2>0, <2>3
    <3>4. /\ InitAllocPool(f) \in Pool /\ InitAllocPool(f).cidr = TRUE
          /\ InitAllocPool(f).alloc = CreateAllocationArray(f)
      BY <3>2 DEF InitAllocPool, Pool
    <3>5. v \in Pool /\ v.cidr = TRUE /\ v.alloc = CreateAllocationArray(f)
      <4>1. (l # Unset) \in BOOLEAN
        OBVIOUS
      <4> QED BY <1>2, <3>4, <4>1 DEF Pool
    <3> HIDE DEF p, v
    <3>6. Sane(p, f) /\ p.alloc = CreateAllocationArray(f)
      BY <3>1, <3>3, <3>4, <3>5 DEF Sane
    <3> QED BY <3>6 DEF p
  <2> QED BY <2>2, <2>3
<1>4. net \in Net /\ net.rv = 0
  <2>1. /\ net.spec \in [Fam -> Pool]
    BY <1>1, <1>3 DEF Sane
  <2> QED BY <1>1, <2>1 DEF Net
<1>5. NoIps \in Request /\ \A f \in Fam : ~HasBit(f, NoIps[f])
  BY DEF NoIps, Request, HasBit, Unset
<1>6. TypeOK
  <2>1. /\ pc \in [Clients -> PcValues] /\ fam \in [Clients -> Fam]
        /\ calls \in Nat /\ fails \in Nat /\ unwritten \in BOOLEAN
    BY DEF Init, PcValues, Fam
  <2>2. /\ req \in [Clients -> Request] /\ ips \in [Clients -> Request]
        /\ netInfo \in [Clients -> Net] /\ tempNet \in [Clients -> Net]
    BY <1>4, <1>5 DEF Init
  <2> QED BY <1>4, <2>1, <2>2 DEF TypeOK
<1>7. SaneSpec(net.spec)
  BY <1>3 DEF SaneSpec
<1>8. Sanity /\ Versions /\ NotPreset /\ FreeSeen /\ V4Done
  <2>1. Sanity
    BY <1>7 DEF Init, Sanity
  <2>2. \A c \in Clients : pc[c] = "idle" /\ netInfo[c] = net /\ tempNet[c] = net /\ ips[c] = NoIps
    BY DEF Init
  <2>3. Versions
    <3>1. \A c \in Clients : Edited(c)
      BY <2>2 DEF Edited
    <3>2. \A c \in Clients : /\ netInfo[c].rv <= net.rv /\ tempNet[c].rv <= net.rv
                             /\ netInfo[c].spec = net.spec
      <4> SUFFICES ASSUME NEW c \in Clients
                   PROVE  /\ netInfo[c].rv <= net.rv /\ tempNet[c].rv <= net.rv
                          /\ netInfo[c].spec = net.spec
        OBVIOUS
      <4>1. netInfo[c] = net /\ tempNet[c] = net
        BY <2>2
      <4>2. net.rv <= net.rv
        BY <1>4
      <4> QED BY <4>1, <4>2
    <3> QED BY <3>1, <3>2, Zenon DEF Versions
  <2>4. NotPreset /\ FreeSeen /\ V4Done
    BY <1>5, <2>2 DEF NotPreset, FreeSeen, V4Done, Freeing
  <2> QED BY <2>1, <2>3, <2>4
<1>9. \A c \in Clients : \A f \in Fam : ~Owns(c, f)
  BY DEF Init, Owns
<1>10. Recorded /\ Exclusive /\ NoLeak
  BY <1>3, <1>9 DEF Recorded, Exclusive, NoLeak, Owned
<1> QED BY <1>6, <1>8, <1>10 DEF IInv

-----------------------------------------------------------------------------
\* A step of c leaves the variables of the other clients alone.
Frame(c) ==
    \A d \in Clients : d # c =>
        /\ pc'[d] = pc[d] /\ req'[d] = req[d] /\ netInfo'[d] = netInfo[d]
        /\ tempNet'[d] = tempNet[d] /\ ips'[d] = ips[d] /\ fam'[d] = fam[d]

\* The ownership of the other clients does not change in a step of c.
LEMMA FrameOwns ==
    ASSUME NEW c \in Clients, Frame(c)
    PROVE  \A d \in Clients : d # c => \A f \in Fam :
              (Owns(d, f)' <=> Owns(d, f)) /\ ips'[d][f] = ips[d][f]
BY DEF Frame, Owns, HasBit

\* The safety properties survive a step that does not write the object, gives c no
\* address (unless it is an early return), and takes none from it (unless an API
\* call failed).
LEMMA NoWriteSafe ==
    ASSUME IInv, NEW c \in Clients, Frame(c), net' = net,
           unwritten => unwritten', fails' = 0 => fails = 0,
           \A f \in Fam : Owns(c, f)' /\ ~unwritten' => Owns(c, f) /\ ips'[c][f] = ips[c][f],
           \A f \in Fam : fails' = 0 /\ ~unwritten' /\ Owns(c, f)
                          => Owns(c, f)' /\ ips'[c][f] = ips[c][f]
    PROVE  Recorded' /\ Exclusive' /\ NoLeak'
<1>1. \A d \in Clients : \A f \in Fam :
         ~unwritten' /\ Owns(d, f)' => Owns(d, f) /\ ips'[d][f] = ips[d][f]
  BY FrameOwns
<1>2. \A d \in Clients : \A f \in Fam :
         fails' = 0 /\ ~unwritten' /\ Owns(d, f) => Owns(d, f)' /\ ips'[d][f] = ips[d][f]
  BY FrameOwns
<1>3. Recorded'
  BY <1>1 DEF IInv, Recorded, Owned
<1>4. Exclusive'
  BY <1>1 DEF IInv, Exclusive
<1>5. NoLeak'
  <2> SUFFICES ASSUME fails' = 0, ~unwritten', NEW f \in Fam, net'.spec[f].cidr,
                      NEW i \in net'.spec[f].alloc, i \notin CreateAllocationArray(f)
               PROVE  i \in Owned(f)'
    BY DEF NoLeak
  <2>1. i \in Owned(f)
    BY DEF IInv, NoLeak
  <2>2. PICK d \in Clients : Owns(d, f) /\ ips[d][f] = i
    BY <2>1 DEF Owned
  <2>3. Owns(d, f)' /\ ips'[d][f] = i
    BY <1>2, <2>2
  <2> QED BY <2>3 DEF Owned
<1> QED BY <1>3, <1>4, <1>5

\* What a stored PUT does to the object and its version.
LEMMA WriteFacts ==
    ASSUME IInv, NEW c \in Clients, PutNetwork(c), pc[c] \in {"put", "freeput"}
    PROVE  /\ net' \in Net /\ net'.spec = tempNet[c].spec /\ SaneSpec(net'.spec)
           /\ Edited(c)
           /\ net' = net \/ net'.rv > net.rv
<1>1. /\ net \in Net /\ tempNet[c] \in Net /\ SaneSpec(tempNet[c].spec)
      /\ tempNet[c].rv = net.rv /\ net' = Stored(tempNet[c])
  BY DEF IInv, TypeOK, Sanity, PutNetwork
<1>2. Edited(c)
  BY <1>1 DEF IInv, Versions
<1>3. CASE tempNet[c].spec = net.spec
  <2>1. net' = tempNet[c]
    BY <1>1, <1>3 DEF Stored, Net
  <2>2. tempNet[c] = net
    BY <1>1, <1>3 DEF Net
  <2> QED BY <1>1, <1>2, <2>1, <2>2
<1>4. CASE tempNet[c].spec # net.spec
  <2>1. net' = [tempNet[c] EXCEPT !.rv = @ + 1]
    BY <1>1, <1>4 DEF Stored
  <2>2. net' \in Net /\ net'.spec = tempNet[c].spec /\ net'.rv = net.rv + 1
    BY <1>1, <2>1 DEF Net
  <2>3. net.rv \in Nat
    BY <1>1 DEF Net
  <2> QED BY <1>1, <1>2, <2>2, <2>3
<1> QED BY <1>3, <1>4

\* The PUT of a reservation keeps the safety properties, whether the client is told
\* of its success and holds the addresses, or of a failure and forgets them.
LEMMA ReserveWriteSafe ==
    ASSUME IInv, NEW c \in Clients, Frame(c), PutNetwork(c), pc[c] = "put",
           unwritten' = unwritten, fails' = 0 => fails = 0,
           \A f \in Fam : Owns(c, f)' => ips'[c][f] = ips[c][f],
           \A f \in Fam : fails' = 0 /\ HasBit(f, ips[c][f]) => Owns(c, f)' /\ ips'[c][f] = ips[c][f]
    PROVE  Recorded' /\ Exclusive' /\ NoLeak'
<1> DEFINE a == allocateIps(net.spec, req[c])
<1>1. a.ok /\ net'.spec = a.spec /\ ips[c] = a.ips
  BY WriteFacts DEF Edited
<1>2. net.spec \in [Fam -> Pool] /\ SaneSpec(net.spec) /\ req[c] \in Request
  BY DEF IInv, TypeOK, Sanity, Net
<1>3. \A f \in Fam :
         /\ net.spec[f].alloc \subseteq net'.spec[f].alloc
         /\ HasBit(f, ips[c][f]) =>
               ips[c][f] \notin net.spec[f].alloc /\ ips[c][f] \in net'.spec[f].alloc
         /\ \A i \in net'.spec[f].alloc :
               \/ i \in net.spec[f].alloc \/ i \in CreateAllocationArray(f)
               \/ HasBit(f, ips[c][f]) /\ i = ips[c][f]
  <2> HIDE DEF a
  <2>1. a.ok => \A f \in Fam :
         /\ net.spec[f].alloc \subseteq a.spec[f].alloc
         /\ HasBit(f, a.ips[f]) =>
               a.ips[f] \notin net.spec[f].alloc /\ a.ips[f] \in a.spec[f].alloc
         /\ \A i \in a.spec[f].alloc :
               \/ i \in net.spec[f].alloc \/ i \in CreateAllocationArray(f)
               \/ HasBit(f, a.ips[f]) /\ i = a.ips[f]
    BY <1>2, AllocateIpsResult DEF a
  <2> QED BY <1>1, <2>1
<1> HIDE DEF a
<1>4. \A f \in Fam : ~Owns(c, f)
  BY DEF Owns
<1>5. \A f \in Fam : Owns(c, f)' => HasBit(f, ips[c][f])
  BY DEF Owns, HasBit
<1>6. Recorded'
  <2> SUFFICES ASSUME ~unwritten', NEW f \in Fam, NEW d \in Clients, Owns(d, f)'
               PROVE  ips'[d][f] \in net'.spec[f].alloc
    BY DEF Recorded, Owned
  <2>1. CASE d = c
    BY <1>3, <1>5, <2>1
  <2>2. CASE d # c
    BY <1>3, <2>2, FrameOwns DEF IInv, Recorded, Owned
  <2> QED BY <2>1, <2>2
<1>7. Exclusive'
  <2> SUFFICES ASSUME ~unwritten', NEW f \in Fam, NEW d \in Clients, NEW e \in Clients,
                      d # e, Owns(d, f)', Owns(e, f)'
               PROVE  ips'[d][f] # ips'[e][f]
    BY DEF Exclusive
  <2>1. ASSUME NEW g \in Clients, g # c, Owns(g, f)'
        PROVE  Owns(g, f) /\ ips'[g][f] = ips[g][f] /\ ips[g][f] \in net.spec[f].alloc
    BY <2>1, FrameOwns DEF IInv, Recorded, Owned
  <2>2. ASSUME Owns(c, f)'
        PROVE  ips'[c][f] \notin net.spec[f].alloc
    BY <1>3, <1>5, <2>2
  <2>3. CASE d # c /\ e # c
    BY <2>1, <2>3 DEF IInv, Exclusive
  <2> QED BY <2>1, <2>2, <2>3
<1>8. NoLeak'
  <2> SUFFICES ASSUME fails' = 0, ~unwritten', NEW f \in Fam, net'.spec[f].cidr,
                      NEW i \in net'.spec[f].alloc, i \notin CreateAllocationArray(f)
               PROVE  i \in Owned(f)'
    BY DEF NoLeak
  <2>1. CASE i \in net.spec[f].alloc
    <3>1. net.spec[f].cidr
      BY <1>2, <2>1 DEF SaneSpec, Sane
    <3>2. PICK d \in Clients : Owns(d, f) /\ ips[d][f] = i
      BY <2>1, <3>1 DEF IInv, NoLeak, Owned
    <3>3. Owns(d, f)' /\ ips'[d][f] = i
      BY <1>4, <3>2, FrameOwns
    <3> QED BY <3>3 DEF Owned
  <2>2. CASE i \notin net.spec[f].alloc
    <3>1. Owns(c, f)' /\ ips'[c][f] = i
      BY <1>3, <2>2
    <3> QED BY <3>1 DEF Owned
  <2> QED BY <2>1, <2>2
<1> QED BY <1>6, <1>7, <1>8

\* The PUT of a Free keeps the safety properties: it clears a bit that only the
\* freeing client owned, and the client gives up at least that address.
LEMMA FreeWriteSafe ==
    ASSUME IInv, NEW c \in Clients, Frame(c), PutNetwork(c), pc[c] = "freeput",
           unwritten' = unwritten, fails' = 0 => fails = 0,
           \A f \in Fam : Owns(c, f)' => f # fam[c] /\ Owns(c, f) /\ ips'[c][f] = ips[c][f],
           \A f \in Fam : fails' = 0 /\ f # fam[c] /\ Owns(c, f)
                          => Owns(c, f)' /\ ips'[c][f] = ips[c][f]
    PROVE  Recorded' /\ Exclusive' /\ NoLeak'
<1> DEFINE g == fam[c]
           ip == ips[c][g]
<1>1. net'.spec = ResetSpec(net.spec, g, ip)
  BY WriteFacts DEF Edited, ResetSpec
<1>2. /\ net.spec \in [Fam -> Pool] /\ SaneSpec(net.spec) /\ g \in Fam
      /\ HasBit(g, ip) => ip \notin CreateAllocationArray(g)
  BY DEF IInv, TypeOK, Sanity, Net, NotPreset
<1>3. /\ \A f \in Fam : f # g => net'.spec[f] = net.spec[f]
      /\ net'.spec[g].cidr = net.spec[g].cidr
      /\ HasBit(g, ip) => net'.spec[g].alloc = net.spec[g].alloc \ {ip}
      /\ ~HasBit(g, ip) => net'.spec[g] = net.spec[g]
  <2> HIDE DEF g, ip
  <2> QED BY <1>1, <1>2, ResetIpResult
<1>4. HasBit(g, ip) <=> Owns(c, g)
  BY DEF Owns
<1> HIDE DEF g
<1>5. \A d \in Clients : \A f \in Fam :
         Owns(d, f)' => Owns(d, f) /\ ips'[d][f] = ips[d][f] /\ ~(d = c /\ f = g)
  <2> TAKE d \in Clients
  <2> TAKE f \in Fam
  <2>1. CASE d = c
    BY <2>1 DEF g
  <2>2. CASE d # c
    BY <2>2, FrameOwns
  <2> QED BY <2>1, <2>2
<1>6. Exclusive'
  BY <1>5 DEF IInv, Exclusive
<1>7. Recorded'
  <2> SUFFICES ASSUME ~unwritten', NEW f \in Fam, NEW d \in Clients, Owns(d, f)'
               PROVE  ips'[d][f] \in net'.spec[f].alloc
    BY DEF Recorded, Owned
  <2>1. Owns(d, f) /\ ips'[d][f] = ips[d][f] /\ ips[d][f] \in net.spec[f].alloc
    BY <1>5 DEF IInv, Recorded, Owned
  <2>2. CASE f # g \/ ~HasBit(g, ip)
    BY <1>3, <2>1, <2>2
  <2>3. CASE f = g /\ HasBit(g, ip)
    <3>1. d # c
      BY <1>5, <2>3
    <3>2. ips[d][f] # ip
      BY <1>4, <2>1, <2>3, <3>1 DEF IInv, Exclusive
    <3> QED BY <1>3, <2>1, <2>3, <3>2
  <2> QED BY <2>2, <2>3
<1>8. NoLeak'
  <2> SUFFICES ASSUME fails' = 0, ~unwritten', NEW f \in Fam, net'.spec[f].cidr,
                      NEW i \in net'.spec[f].alloc, i \notin CreateAllocationArray(f)
               PROVE  i \in Owned(f)'
    BY DEF NoLeak
  <2>1. /\ net.spec[f].cidr /\ i \in net.spec[f].alloc
        /\ f = g /\ HasBit(g, ip) => i # ip
    BY <1>3
  <2>2. PICK d \in Clients : Owns(d, f) /\ ips[d][f] = i
    BY <2>1 DEF IInv, NoLeak, Owned
  <2>3. ~(d = c /\ f = g)
    BY <1>4, <2>1, <2>2
  <2>4. Owns(d, f)' /\ ips'[d][f] = i
    BY <2>2, <2>3, FrameOwns DEF g
  <2> QED BY <2>4 DEF Owned
<1> QED BY <1>6, <1>7, <1>8

-----------------------------------------------------------------------------
\* The rest of the invariant, for a step that does not write the object: what the
\* step must establish for the client that takes it.
LEMMA NoWriteRest ==
    ASSUME IInv, NEW c \in Clients, Frame(c), net' = net, TypeOK',
           unwritten => unwritten',
           SaneSpec(netInfo'[c].spec), SaneSpec(tempNet'[c].spec),
           netInfo'[c].rv <= net.rv, tempNet'[c].rv <= net.rv,
           netInfo'[c].rv = net.rv => netInfo'[c].spec = net.spec,
           tempNet'[c].rv = net.rv => Edited(c)',
           \A f \in Fam : HasBit(f, ips'[c][f]) => ips'[c][f] \notin CreateAllocationArray(f),
           \A f \in Fam : ~unwritten' /\ pc'[c] \in Freeing /\ HasBit(f, ips'[c][f])
                          => ips'[c][f] \in netInfo'[c].spec[f].alloc
    PROVE  Sanity' /\ Versions' /\ NotPreset' /\ FreeSeen'
<1>1. \A d \in Clients : d # c =>
         /\ pc'[d] = pc[d] /\ req'[d] = req[d] /\ netInfo'[d] = netInfo[d]
         /\ tempNet'[d] = tempNet[d] /\ ips'[d] = ips[d] /\ fam'[d] = fam[d]
  BY DEF Frame
<1>2. Sanity'
  BY <1>1 DEF IInv, Sanity
<1>3. Versions'
  <2>1. ASSUME NEW d \in Clients, d # c, Edited(d) PROVE Edited(d)'
    BY <1>1, <2>1 DEF Edited
  <2>2. ASSUME NEW d \in Clients
        PROVE  /\ netInfo'[d].rv <= net'.rv /\ tempNet'[d].rv <= net'.rv
               /\ netInfo'[d].rv = net'.rv => netInfo'[d].spec = net'.spec
               /\ tempNet'[d].rv = net'.rv => Edited(d)'
    <3>1. CASE d = c
      BY <3>1
    <3>2. CASE d # c
      BY <1>1, <2>1, <3>2 DEF IInv, Versions
    <3> QED BY <3>1, <3>2
  <2> QED BY <2>2 DEF Versions
<1>4. NotPreset'
  BY <1>1 DEF IInv, NotPreset
<1>5. FreeSeen'
  BY <1>1 DEF IInv, FreeSeen
<1> QED BY <1>2, <1>3, <1>4, <1>5

\* The same for a PUT: every copy but one the client reads anew becomes outdated,
\* unless the stored object is the same as before.
LEMMA WriteRest ==
    ASSUME IInv, NEW c \in Clients, Frame(c), PutNetwork(c), pc[c] \in {"put", "freeput"}, TypeOK',
           unwritten' = unwritten, netInfo' = netInfo,
           tempNet'[c] \in {tempNet[c], netInfo[c]},
           pc'[c] \in {"held", "idle"} \/ (pc'[c] = "free" /\ tempNet'[c] = netInfo[c]),
           \A f \in Fam : HasBit(f, ips'[c][f]) => ips'[c][f] = ips[c][f],
           pc'[c] = "free" => pc[c] = "freeput"
    PROVE  Sanity' /\ Versions' /\ NotPreset' /\ FreeSeen'
<1>1. \A d \in Clients : d # c =>
         /\ pc'[d] = pc[d] /\ req'[d] = req[d] /\ netInfo'[d] = netInfo[d]
         /\ tempNet'[d] = tempNet[d] /\ ips'[d] = ips[d] /\ fam'[d] = fam[d]
  BY DEF Frame
<1>2. /\ net' \in Net /\ SaneSpec(net'.spec) /\ (net' = net \/ net'.rv > net.rv)
  BY WriteFacts
<1>3. Sanity'
  BY <1>1, <1>2 DEF IInv, Sanity
<1>4. Versions'
  <2>1. ASSUME NEW d \in Clients
        PROVE  /\ netInfo[d].rv \in Nat /\ tempNet[d].rv \in Nat /\ net.rv \in Nat /\ net'.rv \in Nat
               /\ netInfo[d].rv <= net.rv /\ tempNet[d].rv <= net.rv
               /\ netInfo[d].rv = net.rv => netInfo[d].spec = net.spec
               /\ tempNet[d].rv = net.rv => Edited(d)
    BY <1>2 DEF IInv, TypeOK, Net, Versions
  <2>2. ASSUME NEW d \in Clients
        PROVE  tempNet'[d].rv <= net.rv
    BY <1>1, <2>1
  <2>3. ASSUME NEW d \in Clients, d # c, net' = net, Edited(d) PROVE Edited(d)'
    BY <1>1, <2>3 DEF Edited
  <2>4. ASSUME net' = net, tempNet'[c].rv = net.rv PROVE Edited(c)'
    <3>1. CASE pc'[c] \in {"held", "idle"}
      BY <3>1 DEF Edited
    <3>2. CASE pc'[c] = "free" /\ tempNet'[c] = netInfo[c]
      <4>1. tempNet'[c].spec = net'.spec
        BY <2>1, <2>4, <3>2
      <4> QED BY <3>2, <4>1 DEF Edited
    <3> QED BY <3>1, <3>2
  <2>5. ASSUME NEW d \in Clients
        PROVE  /\ netInfo'[d].rv <= net'.rv /\ tempNet'[d].rv <= net'.rv
               /\ netInfo'[d].rv = net'.rv => netInfo'[d].spec = net'.spec
               /\ tempNet'[d].rv = net'.rv => Edited(d)'
    <3>1. CASE net' = net
      <4>1. tempNet'[d].rv = net'.rv => Edited(d)'
        BY <1>1, <2>1, <2>3, <2>4, <3>1
      <4> QED BY <2>1, <2>2, <3>1, <4>1
    <3>2. CASE net'.rv > net.rv
      <4>1. netInfo'[d].rv < net'.rv
        BY <2>1, <3>2
      <4>2. tempNet'[d].rv < net'.rv
        <5>1. tempNet'[d] = tempNet[d] \/ tempNet'[d] = netInfo[d]
          BY <1>1
        <5> QED BY <2>1, <3>2, <5>1
      <4>3. \A x \in Int : x < net'.rv => x <= net'.rv /\ x # net'.rv
        BY <2>1
      <4>4. netInfo'[d].rv \in Int /\ tempNet'[d].rv \in Int
        BY DEF TypeOK, Net
      <4> QED BY <4>1, <4>2, <4>3, <4>4
    <3> QED BY <1>2, <3>1, <3>2
  <2> QED BY <2>5 DEF Versions
<1>5. NotPreset'
  BY <1>1 DEF IInv, NotPreset
<1>6. FreeSeen'
  BY <1>1 DEF IInv, FreeSeen, Freeing
<1> QED BY <1>3, <1>4, <1>5, <1>6

-----------------------------------------------------------------------------
\* No addresses: nothing of the bitmap.
LEMMA NoIpsFacts == NoIps \in Request /\ \A f \in Fam : ~HasBit(f, NoIps[f])
BY DEF NoIps, Request, HasBit, Unset

\* An action of c that is one of the model's leaves the other clients alone.
LEMMA ActionFrame ==
    ASSUME TypeOK, NEW c \in Clients,
           GetNetworkFromInterface(c) \/ GetNetworkFromEp(c) \/ ClientStep(c)
    PROVE  Frame(c)
<1> USE DEF TypeOK, Frame
<1>1. CASE GetNetworkFromInterface(c) BY <1>1 DEF GetNetworkFromInterface
<1>2. CASE GetNetworkFromEp(c) BY <1>2 DEF GetNetworkFromEp
<1>3. CASE Reserve(c) BY <1>3 DEF Reserve
<1>4. CASE ReservePut(c) BY <1>4 DEF ReservePut, PutFails, PutConflicts, PutNetwork
<1>5. CASE ReserveRefresh(c) BY <1>5 DEF ReserveRefresh, RefreshNetwork, RefreshFails
<1>6. CASE Free(c) BY <1>6 DEF Free, FreeReturns
<1>7. CASE FreePut(c)
  BY <1>7 DEF FreePut, PutFails, PutConflicts, PutNetwork, FreeReturns, FreeErrs
<1>8. CASE FreeRefresh(c) BY <1>8 DEF FreeRefresh, RefreshNetwork, RefreshFails, FreeErrs
<1> QED BY <1>1, <1>2, <1>3, <1>4, <1>5, <1>6, <1>7, <1>8 DEF ClientStep

\* The order in which GarbageCollectIps frees the two addresses.
LEMMA ActionV4Done ==
    ASSUME TypeOK, V4Done, NEW c \in Clients,
           GetNetworkFromInterface(c) \/ GetNetworkFromEp(c) \/ ClientStep(c)
    PROVE  V4Done'
<1>1. \A d \in Clients : d # c => (pc'[d] \in Freeing /\ fam'[d] = "v6" => ~HasBit("v4", ips'[d]["v4"]))
  BY ActionFrame DEF Frame, V4Done
<1>2. SUFFICES ASSUME pc'[c] \in Freeing, fam'[c] = "v6" PROVE ~HasBit("v4", ips'[c]["v4"])
  BY <1>1 DEF V4Done, HasBit
<1>3. CASE GetNetworkFromInterface(c) BY <1>2, <1>3 DEF GetNetworkFromInterface, TypeOK, Freeing
<1>4. CASE GetNetworkFromEp(c) BY <1>2, <1>4 DEF GetNetworkFromEp, TypeOK
<1>5. CASE Reserve(c) BY <1>2, <1>5 DEF Reserve, TypeOK, Freeing
<1>6. CASE ReservePut(c) BY <1>2, <1>6 DEF ReservePut, TypeOK, Freeing
<1>7. CASE ReserveRefresh(c) BY <1>2, <1>7 DEF ReserveRefresh, TypeOK, Freeing
<1>8. ASSUME FreeReturns(c) PROVE ~HasBit("v4", ips'[c]["v4"])
  <2>1. fam[c] = "v4"
    BY <1>2, <1>8 DEF FreeReturns, TypeOK, Fam, Freeing
  <2>2. ips'[c]["v4"] = Unset
    BY <1>8, <2>1 DEF FreeReturns, TypeOK, Request, Fam
  <2> QED BY <2>2 DEF HasBit, Unset
<1>9. ASSUME FreeErrs(c) PROVE FALSE
  BY <1>2, <1>9 DEF FreeErrs, TypeOK, Freeing
<1>10. CASE Free(c)
  <2>1. CASE FreeReturns(c) BY <1>8, <2>1
  <2>2. CASE ~FreeReturns(c) BY <1>2, <1>10, <2>2 DEF Free, V4Done, Freeing
  <2> QED BY <2>1, <2>2
<1>11. CASE FreePut(c)
  <2>1. CASE FreeReturns(c) BY <1>8, <2>1
  <2>2. CASE FreeErrs(c) BY <1>9, <2>2
  <2>3. CASE ~FreeReturns(c) /\ ~FreeErrs(c) BY <1>2, <1>11, <2>3 DEF FreePut, V4Done, Freeing
  <2> QED BY <2>1, <2>2, <2>3
<1>12. CASE FreeRefresh(c)
  <2>1. CASE FreeErrs(c) BY <1>9, <2>1
  <2>2. CASE ~FreeErrs(c) BY <1>2, <1>12, <2>2 DEF FreeRefresh, V4Done, Freeing
  <2> QED BY <2>1, <2>2
<1> QED BY <1>3, <1>4, <1>5, <1>6, <1>7, <1>10, <1>11, <1>12 DEF ClientStep

\* The step that reads the network before a reservation.
LEMMA GetNetworkFromInterfaceIInv ==
    ASSUME IInv, NEW c \in Clients, GetNetworkFromInterface(c)
    PROVE  IInv'
<1>1. Frame(c)
  BY ActionFrame DEF IInv
<1>v. V4Done'
  BY ActionV4Done DEF IInv
<1>2. PICK r \in Requests : req' = [req EXCEPT ![c] = r]
  BY DEF GetNetworkFromInterface
<1>3. r \in Request
  BY CallAssumption
<1>4. TypeOK'
  BY <1>2, <1>3 DEF IInv, TypeOK, GetNetworkFromInterface, PcValues
<1>5. /\ pc[c] = "idle" /\ pc'[c] = "reserve" /\ net' = net /\ ips' = ips
      /\ netInfo'[c] = net /\ tempNet'[c] = net
      /\ unwritten' = unwritten /\ fails' = fails
  BY DEF IInv, TypeOK, GetNetworkFromInterface
<1>6. SaneSpec(net.spec) /\ net.rv \in Nat /\ net.rv <= net.rv
  BY DEF IInv, Sanity, TypeOK, Net
<1>7. Edited(c)'
  BY <1>5 DEF Edited
<1>8. Sanity' /\ Versions' /\ NotPreset' /\ FreeSeen'
  <2>1. /\ SaneSpec(netInfo'[c].spec) /\ SaneSpec(tempNet'[c].spec)
        /\ netInfo'[c].rv <= net.rv /\ tempNet'[c].rv <= net.rv
        /\ netInfo'[c].spec = net.spec
    BY <1>5, <1>6
  <2>2. \A f \in Fam : HasBit(f, ips'[c][f]) => ips'[c][f] \notin CreateAllocationArray(f)
    BY <1>5 DEF IInv, NotPreset
  <2>3. ~(pc'[c] \in Freeing)
    BY <1>5 DEF Freeing
  <2> QED BY <1>1, <1>4, <1>5, <1>7, <2>1, <2>2, <2>3, NoWriteRest
<1>9. \A f \in Fam : ~Owns(c, f) /\ ~Owns(c, f)'
  BY <1>5 DEF Owns
<1>10. Recorded' /\ Exclusive' /\ NoLeak'
  BY <1>1, <1>5, <1>9, NoWriteSafe
<1> QED BY <1>v, <1>4, <1>8, <1>10 DEF IInv

\* The step that reads the network before a Free.
LEMMA GetNetworkFromEpIInv ==
    ASSUME IInv, NEW c \in Clients, GetNetworkFromEp(c)
    PROVE  IInv'
<1>1. Frame(c)
  BY ActionFrame DEF IInv
<1>v. V4Done'
  BY ActionV4Done DEF IInv
<1>2. TypeOK'
  BY DEF IInv, TypeOK, GetNetworkFromEp, PcValues, Fam
<1>3. /\ pc[c] = "held" /\ pc'[c] = "free" /\ net' = net /\ ips' = ips
      /\ netInfo'[c] = net /\ tempNet'[c] = net
      /\ unwritten' = unwritten /\ fails' = fails
  BY DEF IInv, TypeOK, GetNetworkFromEp
<1>4. SaneSpec(net.spec) /\ net.rv \in Nat /\ net.rv <= net.rv
  BY DEF IInv, Sanity, TypeOK, Net
<1>5. Edited(c)'
  BY <1>3 DEF Edited
<1>6. \A f \in Fam : Owns(c, f) <=> HasBit(f, ips[c][f])
  BY <1>3 DEF Owns
<1>7. \A f \in Fam : Owns(c, f)' <=> HasBit(f, ips[c][f])
  BY <1>3 DEF Owns, HasBit
<1>8. Sanity' /\ Versions' /\ NotPreset' /\ FreeSeen'
  <2>1. /\ SaneSpec(netInfo'[c].spec) /\ SaneSpec(tempNet'[c].spec)
        /\ netInfo'[c].rv <= net.rv /\ tempNet'[c].rv <= net.rv
        /\ netInfo'[c].spec = net.spec
    BY <1>3, <1>4
  <2>2. \A f \in Fam : HasBit(f, ips'[c][f]) => ips'[c][f] \notin CreateAllocationArray(f)
    BY <1>3 DEF IInv, NotPreset
  <2>3. \A f \in Fam : ~unwritten' /\ HasBit(f, ips'[c][f]) => ips'[c][f] \in netInfo'[c].spec[f].alloc
    BY <1>3, <1>6 DEF IInv, Recorded, Owned
  <2> QED BY <1>1, <1>2, <1>3, <1>5, <2>1, <2>2, <2>3, NoWriteRest
<1>9. Recorded' /\ Exclusive' /\ NoLeak'
  BY <1>1, <1>3, <1>6, <1>7, NoWriteSafe
<1> QED BY <1>v, <1>2, <1>8, <1>9 DEF IInv

\* One pass of the loop of Reserve.
LEMMA ReserveIInv ==
    ASSUME IInv, NEW c \in Clients, Reserve(c)
    PROVE  IInv'
<1> DEFINE a == allocateIps(tempNet[c].spec, req[c])
<1>1. Frame(c)
  BY ActionFrame DEF IInv, ClientStep
<1>v. V4Done'
  BY ActionV4Done DEF IInv, ClientStep
<1>2. /\ tempNet[c] \in Net /\ tempNet[c].spec \in [Fam -> Pool] /\ SaneSpec(tempNet[c].spec)
      /\ req[c] \in Request
  BY DEF IInv, TypeOK, Sanity, Net
<1>3. /\ a.ok \in BOOLEAN /\ a.spec \in [Fam -> Pool] /\ a.ips \in Request /\ SaneSpec(a.spec)
      /\ a.ok => \A f \in Fam :
            HasBit(f, a.ips[f]) => a.ips[f] \notin CreateAllocationArray(f)
  BY <1>2, AllocateIpsResult
<1>4. /\ pc[c] = "reserve" /\ net' = net /\ req' = req /\ netInfo' = netInfo /\ fam' = fam
      /\ calls' = calls /\ fails' = fails
      /\ \/ /\ ~a.ok /\ pc' = [pc EXCEPT ![c] = "idle"]
            /\ tempNet' = tempNet /\ ips' = ips /\ unwritten' = unwritten
         \/ /\ a.ok /\ pc' = [pc EXCEPT ![c] = "held"] /\ ips' = [ips EXCEPT ![c] = a.ips]
            /\ unwritten' = (unwritten \/ \E f \in Fam : HasBit(f, a.ips[f]))
            /\ tempNet' = tempNet
         \/ /\ a.ok /\ pc' = [pc EXCEPT ![c] = "put"] /\ ips' = [ips EXCEPT ![c] = a.ips]
            /\ tempNet' = [tempNet EXCEPT ![c].spec = a.spec] /\ unwritten' = unwritten
  BY DEF Reserve
<1> HIDE DEF a
<1>5. /\ SaneSpec(netInfo[c].spec) /\ netInfo[c].rv <= net.rv /\ tempNet[c].rv <= net.rv
      /\ netInfo[c].rv = net.rv => netInfo[c].spec = net.spec
      /\ tempNet[c].rv = net.rv => tempNet[c].spec = net.spec
      /\ \A f \in Fam : HasBit(f, ips[c][f]) => ips[c][f] \notin CreateAllocationArray(f)
  BY <1>4 DEF IInv, Sanity, Versions, Edited, NotPreset
<1>6. \A f \in Fam : ~Owns(c, f)
  BY <1>4 DEF Owns
<1>7. CASE ~a.ok
  <2>1. /\ pc' = [pc EXCEPT ![c] = "idle"]
        /\ tempNet' = tempNet /\ ips' = ips /\ unwritten' = unwritten
    BY <1>3, <1>4, <1>7
  <2>2. TypeOK' /\ pc'[c] = "idle"
    BY <1>4, <2>1 DEF IInv, TypeOK, PcValues
  <2>3. Edited(c)' /\ ~(pc'[c] \in Freeing) /\ \A f \in Fam : ~Owns(c, f)'
    BY <2>2 DEF Edited, Freeing, Owns
  <2>4. Sanity' /\ Versions' /\ NotPreset' /\ FreeSeen'
    BY <1>1, <1>2, <1>4, <1>5, <2>1, <2>2, <2>3, NoWriteRest
  <2>5. Recorded' /\ Exclusive' /\ NoLeak'
    BY <1>1, <1>4, <1>6, <2>1, <2>3, NoWriteSafe
  <2> QED BY <1>v, <2>2, <2>4, <2>5 DEF IInv
<1>8. CASE /\ a.ok /\ pc' = [pc EXCEPT ![c] = "held"] /\ ips' = [ips EXCEPT ![c] = a.ips]
           /\ unwritten' = (unwritten \/ \E f \in Fam : HasBit(f, a.ips[f]))
           /\ tempNet' = tempNet
  <2>1. TypeOK' /\ pc'[c] = "held" /\ ips'[c] = a.ips
    BY <1>3, <1>4, <1>8 DEF IInv, TypeOK, PcValues
  <2>2. Edited(c)' /\ ~(pc'[c] \in Freeing)
    BY <2>1 DEF Edited, Freeing
  <2>3. \A f \in Fam : ~unwritten' => ~Owns(c, f)'
    BY <1>8, <2>1 DEF Owns, HasBit
  <2>4. \A f \in Fam : HasBit(f, ips'[c][f]) => ips'[c][f] \notin CreateAllocationArray(f)
    BY <1>3, <1>8, <2>1
  <2>5. unwritten => unwritten'
    BY <1>8
  <2>6. Sanity' /\ Versions' /\ NotPreset' /\ FreeSeen'
    BY <1>1, <1>2, <1>4, <1>5, <1>8, <2>1, <2>2, <2>4, <2>5, NoWriteRest
  <2>7. Recorded' /\ Exclusive' /\ NoLeak'
    BY <1>1, <1>4, <1>6, <2>3, <2>5, NoWriteSafe
  <2> QED BY <1>v, <2>1, <2>6, <2>7 DEF IInv
<1>9. CASE /\ a.ok /\ pc' = [pc EXCEPT ![c] = "put"] /\ ips' = [ips EXCEPT ![c] = a.ips]
           /\ tempNet' = [tempNet EXCEPT ![c].spec = a.spec] /\ unwritten' = unwritten
  <2>1. /\ pc'[c] = "put" /\ ips'[c] = a.ips /\ tempNet'[c].spec = a.spec
        /\ tempNet'[c].rv = tempNet[c].rv /\ tempNet'[c] \in Net
    BY <1>2, <1>3, <1>9 DEF IInv, TypeOK, Net
  <2>2. TypeOK'
    <3>1. tempNet' \in [Clients -> Net]
      BY <1>9, <2>1 DEF IInv, TypeOK
    <3> QED BY <1>3, <1>4, <1>9, <3>1 DEF IInv, TypeOK, PcValues
  <2>3. tempNet'[c].rv = net.rv => Edited(c)'
    <3> SUFFICES ASSUME tempNet'[c].rv = net.rv PROVE Edited(c)'
      OBVIOUS
    <3>1. tempNet[c].spec = net.spec
      BY <1>5, <2>1
    <3>2. a = allocateIps(net.spec, req[c])
      BY <3>1 DEF a
    <3>3. a = allocateIps(net'.spec, req'[c])
      BY <1>4, <3>2
    <3> QED BY <1>9, <2>1, <3>3 DEF Edited
  <2>4. ~(pc'[c] \in Freeing) /\ \A f \in Fam : ~Owns(c, f)'
    BY <2>1 DEF Freeing, Owns
  <2>5. \A f \in Fam : HasBit(f, ips'[c][f]) => ips'[c][f] \notin CreateAllocationArray(f)
    BY <1>3, <1>9, <2>1
  <2>6. Sanity' /\ Versions' /\ NotPreset' /\ FreeSeen'
    BY <1>1, <1>3, <1>4, <1>5, <1>9, <2>1, <2>2, <2>3, <2>4, <2>5, NoWriteRest
  <2>7. Recorded' /\ Exclusive' /\ NoLeak'
    BY <1>1, <1>4, <1>6, <1>9, <2>4, NoWriteSafe
  <2> QED BY <1>v, <2>2, <2>6, <2>7 DEF IInv
<1> QED BY <1>4, <1>7, <1>8, <1>9

\* The PUT of Reserve: stored, refused, or failed.
LEMMA ReservePutIInv ==
    ASSUME IInv, NEW c \in Clients, ReservePut(c)
    PROVE  IInv'
<1>1. Frame(c)
  BY ActionFrame DEF IInv, ClientStep
<1>v. V4Done'
  BY ActionV4Done DEF IInv, ClientStep
<1>2. /\ pc[c] = "put" /\ req' = req /\ netInfo' = netInfo /\ tempNet' = tempNet /\ fam' = fam
      /\ calls' = calls /\ unwritten' = unwritten
  BY DEF ReservePut
<1>3. /\ SaneSpec(netInfo[c].spec) /\ SaneSpec(tempNet[c].spec)
      /\ netInfo[c].rv <= net.rv /\ tempNet[c].rv <= net.rv
      /\ netInfo[c].rv = net.rv => netInfo[c].spec = net.spec
      /\ \A f \in Fam : HasBit(f, ips[c][f]) => ips[c][f] \notin CreateAllocationArray(f)
  BY DEF IInv, Sanity, Versions, NotPreset
<1>4. \A f \in Fam : ~Owns(c, f)
  BY <1>2 DEF Owns
<1>5. fails \in Nat /\ (\A n \in Nat : n + 1 \in Nat /\ n + 1 # 0)
  BY DEF IInv, TypeOK
<1>6. CASE PutNetwork(c) /\ pc' = [pc EXCEPT ![c] = "held"] /\ ips' = ips /\ fails' = fails
  <2>1. net' \in Net
    BY <1>2, <1>6, WriteFacts
  <2>2. TypeOK' /\ pc'[c] = "held"
    BY <1>2, <1>6, <2>1 DEF IInv, TypeOK, PcValues
  <2>3. \A f \in Fam : HasBit(f, ips[c][f]) => Owns(c, f)'
    BY <1>6, <2>2 DEF Owns, HasBit
  <2>4. Sanity' /\ Versions' /\ NotPreset' /\ FreeSeen'
    BY <1>1, <1>2, <1>6, <2>2, WriteRest
  <2>5. Recorded' /\ Exclusive' /\ NoLeak'
    BY <1>1, <1>2, <1>6, <2>3, ReserveWriteSafe
  <2> QED BY <1>v, <2>2, <2>4, <2>5 DEF IInv
<1>7. CASE PutConflicts(c) /\ pc' = [pc EXCEPT ![c] = "refresh"] /\ ips' = ips /\ fails' = fails
  <2>1. net' = net /\ tempNet[c].rv # net.rv
    BY <1>7 DEF PutConflicts
  <2>2. TypeOK' /\ pc'[c] = "refresh"
    BY <1>2, <1>7, <2>1 DEF IInv, TypeOK, PcValues
  <2>3. Edited(c)' /\ ~(pc'[c] \in Freeing) /\ \A f \in Fam : ~Owns(c, f)'
    BY <2>2 DEF Edited, Freeing, Owns
  <2>4. Sanity' /\ Versions' /\ NotPreset' /\ FreeSeen'
    BY <1>1, <1>2, <1>3, <1>7, <2>1, <2>2, <2>3, NoWriteRest
  <2>5. Recorded' /\ Exclusive' /\ NoLeak'
    BY <1>1, <1>2, <1>4, <1>7, <2>1, <2>3, NoWriteSafe
  <2> QED BY <1>v, <2>2, <2>4, <2>5 DEF IInv
<1>8. CASE PutFails(c) /\ pc' = [pc EXCEPT ![c] = "idle"] /\ ips' = [ips EXCEPT ![c] = NoIps]
  <2>1. fails' = fails + 1 /\ fails' # 0 /\ (PutNetwork(c) \/ net' = net)
    BY <1>5, <1>8 DEF PutFails
  <2>2. net' \in Net
    BY <1>2, <2>1, WriteFacts DEF IInv, TypeOK
  <2>3. TypeOK' /\ pc'[c] = "idle" /\ ips'[c] = NoIps
    BY <1>2, <1>5, <1>8, <2>1, <2>2, NoIpsFacts DEF IInv, TypeOK, PcValues
  <2>4. Edited(c)' /\ ~(pc'[c] \in Freeing) /\ \A f \in Fam : ~Owns(c, f)' /\ ~HasBit(f, ips'[c][f])
    BY <2>3, NoIpsFacts DEF Edited, Freeing, Owns
  <2>5. CASE PutNetwork(c)
    <3>1. Sanity' /\ Versions' /\ NotPreset' /\ FreeSeen'
      BY <1>1, <1>2, <2>3, <2>4, <2>5, WriteRest
    <3>2. Recorded' /\ Exclusive' /\ NoLeak'
      BY <1>1, <1>2, <2>1, <2>4, <2>5, ReserveWriteSafe
    <3> QED BY <1>v, <2>3, <3>1, <3>2 DEF IInv
  <2>6. CASE net' = net
    <3>1. Sanity' /\ Versions' /\ NotPreset' /\ FreeSeen'
      BY <1>1, <1>2, <1>3, <2>3, <2>4, <2>6, NoWriteRest
    <3>2. Recorded' /\ Exclusive' /\ NoLeak'
      BY <1>1, <1>2, <2>1, <2>4, <2>6, NoWriteSafe
    <3> QED BY <1>v, <2>3, <3>1, <3>2 DEF IInv
  <2> QED BY <2>1, <2>5, <2>6
<1> QED BY <1>6, <1>7, <1>8 DEF ReservePut

\* Reading the network again after a conflict of Reserve.
LEMMA ReserveRefreshIInv ==
    ASSUME IInv, NEW c \in Clients, ReserveRefresh(c)
    PROVE  IInv'
<1>1. Frame(c)
  BY ActionFrame DEF IInv, ClientStep
<1>v. V4Done'
  BY ActionV4Done DEF IInv, ClientStep
<1>2. /\ pc[c] = "refresh" /\ net' = net /\ netInfo' = netInfo /\ req' = req /\ fam' = fam
      /\ calls' = calls /\ unwritten' = unwritten /\ ips' = [ips EXCEPT ![c] = NoIps]
      /\ \/ /\ tempNet' = [tempNet EXCEPT ![c] = net] /\ fails' = fails
            /\ pc' = [pc EXCEPT ![c] = "reserve"]
         \/ /\ tempNet' = tempNet /\ fails' = fails + 1
            /\ pc' = [pc EXCEPT ![c] = "idle"]
  BY DEF ReserveRefresh, RefreshNetwork, RefreshFails
<1>3. /\ SaneSpec(netInfo[c].spec) /\ SaneSpec(tempNet[c].spec) /\ SaneSpec(net.spec)
      /\ netInfo[c].rv <= net.rv /\ tempNet[c].rv <= net.rv /\ net.rv <= net.rv
      /\ netInfo[c].rv = net.rv => netInfo[c].spec = net.spec
  BY DEF IInv, Sanity, Versions, TypeOK, Net
<1>4. TypeOK' /\ ips'[c] = NoIps
  <2>1. pc' \in [Clients -> PcValues] /\ ips' \in [Clients -> Request] /\ ips'[c] = NoIps
    BY <1>2, NoIpsFacts DEF IInv, TypeOK, PcValues
  <2>2. tempNet' \in [Clients -> Net] /\ fails' \in Nat
    BY <1>2 DEF IInv, TypeOK
  <2> QED BY <1>2, <2>1, <2>2 DEF IInv, TypeOK
<1>5. fails' = 0 => fails = 0
  BY <1>2 DEF IInv, TypeOK
<1>6. \/ pc'[c] = "reserve" /\ tempNet'[c] = net
      \/ pc'[c] = "idle" /\ tempNet'[c] = tempNet[c]
  BY <1>2 DEF IInv, TypeOK
<1>7. Edited(c)' /\ ~(pc'[c] \in Freeing)
  BY <1>2, <1>6 DEF Edited, Freeing
<1>8. \A f \in Fam : ~Owns(c, f) /\ ~Owns(c, f)' /\ ~HasBit(f, ips'[c][f])
  BY <1>2, <1>4, <1>6, NoIpsFacts DEF Owns
<1>9. SaneSpec(tempNet'[c].spec) /\ tempNet'[c].rv <= net.rv
  BY <1>3, <1>6
<1>10. Sanity' /\ Versions' /\ NotPreset' /\ FreeSeen'
  BY <1>1, <1>2, <1>3, <1>4, <1>7, <1>8, <1>9, NoWriteRest
<1>11. Recorded' /\ Exclusive' /\ NoLeak'
  BY <1>1, <1>2, <1>5, <1>8, NoWriteSafe
<1> QED BY <1>v, <1>4, <1>10, <1>11 DEF IInv

\* One pass of the loop of Free.
LEMMA FreeIInv ==
    ASSUME IInv, NEW c \in Clients, Free(c)
    PROVE  IInv'
<1> DEFINE g == fam[c]
           ip == ips[c][g]
           z == [tempNet[c].spec EXCEPT ![g] = resetIp(@, g, ip)]
<1>1. Frame(c)
  BY ActionFrame DEF IInv, ClientStep
<1>v. V4Done'
  BY ActionV4Done DEF IInv, ClientStep
<1>2. /\ pc[c] = "free" /\ net' = net /\ req' = req /\ netInfo' = netInfo
      /\ calls' = calls /\ fails' = fails /\ unwritten' = unwritten
  BY DEF Free
<1>3. /\ tempNet[c] \in Net /\ tempNet[c].spec \in [Fam -> Pool] /\ SaneSpec(tempNet[c].spec)
      /\ netInfo[c] \in Net /\ SaneSpec(netInfo[c].spec)
      /\ g \in Fam /\ ips[c] \in Request
      /\ netInfo[c].rv <= net.rv /\ tempNet[c].rv <= net.rv
      /\ netInfo[c].rv = net.rv => netInfo[c].spec = net.spec
      /\ \A f \in Fam : HasBit(f, ips[c][f]) => ips[c][f] \notin CreateAllocationArray(f)
  BY DEF IInv, TypeOK, Sanity, Net, Versions, NotPreset
<1>4. tempNet[c].rv = net.rv => tempNet[c].spec = net.spec
  BY <1>2 DEF IInv, Versions, Edited
<1>5. \A f \in Fam : ~unwritten /\ HasBit(f, ips[c][f]) => ips[c][f] \in netInfo[c].spec[f].alloc
  BY <1>2 DEF IInv, FreeSeen, Freeing
<1>6. /\ z \in [Fam -> Pool] /\ SaneSpec(z)
      /\ HasBit(g, ip) => ip \notin z[g].alloc
  <2> HIDE DEF g, ip, z
  <2>1. HasBit(g, ip) => ip \notin CreateAllocationArray(g)
    BY <1>3 DEF ip
  <2> DEFINE s == tempNet[c].spec
  <2>2. s \in [Fam -> Pool] /\ SaneSpec(s) /\ g \in Fam
    BY <1>3
  <2>3. z = ResetSpec(s, g, ip)
    BY DEF z, ResetSpec
  <2> HIDE DEF s
  <2>4. /\ z \in [Fam -> Pool] /\ SaneSpec(z)
        /\ HasBit(g, ip) => z[g].alloc = s[g].alloc \ {ip}
    BY <2>1, <2>2, <2>3, ResetIpResult
  <2> QED BY <2>4
<1>7. CASE /\ ip \in {Unset, NoneAllocType} \/ z = netInfo[c].spec
           /\ FreeReturns(c)
           /\ tempNet' = [tempNet EXCEPT ![c] = netInfo[c]]
  <2>1. ~unwritten => ~HasBit(g, ip)
    <3>1. CASE ip \in {Unset, NoneAllocType}
      BY <3>1 DEF HasBit, Unset, NoneAllocType
    <3>2. CASE z = netInfo[c].spec
      BY <1>3, <1>5, <1>6, <3>2
    <3> QED BY <1>7, <3>1, <3>2
  <2>2. /\ ips' = [ips EXCEPT ![c][g] = Unset] /\ fam' = [fam EXCEPT ![c] = "v6"]
        /\ pc' = [pc EXCEPT ![c] = IF g = "v4" THEN "free" ELSE "idle"]
    BY <1>7 DEF FreeReturns
  <2>3. /\ ips'[c] \in Request /\ ips'[c][g] = Unset
        /\ \A f \in Fam : f # g => ips'[c][f] = ips[c][f]
        /\ ips' \in [Clients -> Request]
    BY <1>3, <2>2 DEF IInv, TypeOK, Request
  <2>4. TypeOK' /\ pc'[c] \in {"free", "idle"} /\ tempNet'[c] = netInfo[c]
    BY <1>2, <1>3, <1>7, <2>2, <2>3 DEF IInv, TypeOK, PcValues, Fam
  <2>5. \A f \in Fam : HasBit(f, ips'[c][f]) => f # g /\ ips'[c][f] = ips[c][f]
    BY <2>3 DEF HasBit, Unset
  <2>6. tempNet'[c].rv = net.rv => Edited(c)'
    <3> SUFFICES ASSUME tempNet'[c].rv = net.rv PROVE Edited(c)'
      OBVIOUS
    <3>1. tempNet'[c].spec = net'.spec
      BY <1>2, <1>3, <2>4
    <3> QED BY <2>4, <3>1 DEF Edited
  <2>7. Sanity' /\ Versions' /\ NotPreset' /\ FreeSeen'
    BY <1>1, <1>2, <1>3, <1>5, <2>4, <2>5, <2>6, NoWriteRest
  <2>8. \A f \in Fam : Owns(c, f) <=> HasBit(f, ips[c][f])
    BY <1>2 DEF Owns
  <2>9. \A f \in Fam : Owns(c, f)' => Owns(c, f) /\ ips'[c][f] = ips[c][f]
    BY <2>5, <2>8 DEF Owns, HasBit
  <2>10. \A f \in Fam : ~unwritten /\ Owns(c, f) => Owns(c, f)' /\ ips'[c][f] = ips[c][f]
    <3> SUFFICES ASSUME NEW f \in Fam, ~unwritten, Owns(c, f)
                 PROVE  Owns(c, f)' /\ ips'[c][f] = ips[c][f]
      OBVIOUS
    <3>1. f # g /\ ips'[c][f] = ips[c][f] /\ HasBit(f, ips[c][f])
      BY <2>1, <2>3, <2>8
    <3>2. g = "v4"
      BY <1>2, <1>3, <3>1 DEF IInv, V4Done, Freeing, Fam
    <3>3. pc'[c] = "free"
      BY <2>2, <3>2 DEF IInv, TypeOK
    <3> QED BY <3>1, <3>3 DEF Owns, HasBit
  <2>11. Recorded' /\ Exclusive' /\ NoLeak'
    BY <1>1, <1>2, <2>9, <2>10, NoWriteSafe
  <2> QED BY <1>v, <2>4, <2>7, <2>11 DEF IInv
<1>8. CASE /\ tempNet' = [tempNet EXCEPT ![c].spec = z]
           /\ pc' = [pc EXCEPT ![c] = "freeput"]
           /\ ips' = ips /\ fam' = fam
  <2> HIDE DEF z
  <2>1. /\ pc'[c] = "freeput" /\ tempNet'[c].spec = z /\ tempNet'[c].rv = tempNet[c].rv
        /\ tempNet'[c] \in Net
    BY <1>3, <1>6, <1>8 DEF IInv, TypeOK, Net
  <2>2. TypeOK'
    <3>1. tempNet' \in [Clients -> Net]
      BY <1>8, <2>1 DEF IInv, TypeOK
    <3> QED BY <1>2, <1>8, <3>1 DEF IInv, TypeOK, PcValues
  <2>3. tempNet'[c].rv = net.rv => Edited(c)'
    <3> SUFFICES ASSUME tempNet'[c].rv = net.rv PROVE Edited(c)'
      OBVIOUS
    <3>1. tempNet[c].spec = net.spec
      BY <1>4, <2>1
    <3>2. z = [net.spec EXCEPT ![g] = resetIp(@, g, ip)]
      BY <3>1 DEF z
    <3>3. z = [net'.spec EXCEPT ![fam'[c]] = resetIp(@, fam'[c], ips'[c][fam'[c]])]
      BY <1>2, <1>8, <3>2
    <3> QED BY <2>1, <3>3 DEF Edited
  <2>4. Sanity' /\ Versions' /\ NotPreset' /\ FreeSeen'
    BY <1>1, <1>2, <1>3, <1>5, <1>6, <1>8, <2>1, <2>2, <2>3, NoWriteRest
  <2>5. \A f \in Fam : Owns(c, f) <=> Owns(c, f)'
    BY <1>2, <1>8, <2>1 DEF Owns, HasBit
  <2>6. Recorded' /\ Exclusive' /\ NoLeak'
    BY <1>1, <1>2, <1>8, <2>5, NoWriteSafe
  <2> QED BY <1>v, <2>2, <2>4, <2>6 DEF IInv
<1> QED BY <1>7, <1>8 DEF Free

\* The PUT of Free: stored, refused, or failed.
LEMMA FreePutIInv ==
    ASSUME IInv, NEW c \in Clients, FreePut(c)
    PROVE  IInv'
<1> DEFINE g == fam[c]
<1>1. Frame(c)
  BY ActionFrame DEF IInv, ClientStep
<1>v. V4Done'
  BY ActionV4Done DEF IInv, ClientStep
<1>2. /\ pc[c] = "freeput" /\ req' = req /\ netInfo' = netInfo
      /\ calls' = calls /\ unwritten' = unwritten
  BY DEF FreePut
<1>3. /\ netInfo[c] \in Net /\ tempNet[c] \in Net /\ g \in Fam /\ ips[c] \in Request
      /\ SaneSpec(netInfo[c].spec) /\ SaneSpec(tempNet[c].spec)
      /\ netInfo[c].rv <= net.rv /\ tempNet[c].rv <= net.rv
      /\ netInfo[c].rv = net.rv => netInfo[c].spec = net.spec
      /\ \A f \in Fam : HasBit(f, ips[c][f]) => ips[c][f] \notin CreateAllocationArray(f)
      /\ \A f \in Fam : ~unwritten /\ HasBit(f, ips[c][f]) => ips[c][f] \in netInfo[c].spec[f].alloc
  BY <1>2 DEF IInv, TypeOK, Sanity, Versions, NotPreset, FreeSeen, Freeing
<1>4. \A f \in Fam : Owns(c, f) <=> HasBit(f, ips[c][f])
  BY <1>2 DEF Owns
<1>5. fails \in Nat /\ (\A n \in Nat : n + 1 \in Nat /\ n + 1 # 0)
  BY DEF IInv, TypeOK
<1>6. CASE /\ PutNetwork(c) /\ FreeReturns(c)
           /\ tempNet' = [tempNet EXCEPT ![c] = netInfo[c]]
           /\ fails' = fails
  <2>1. /\ ips' = [ips EXCEPT ![c][g] = Unset] /\ fam' = [fam EXCEPT ![c] = "v6"]
        /\ pc' = [pc EXCEPT ![c] = IF g = "v4" THEN "free" ELSE "idle"]
    BY <1>6 DEF FreeReturns
  <2>2. /\ ips'[c] \in Request /\ ips'[c][g] = Unset
        /\ \A f \in Fam : f # g => ips'[c][f] = ips[c][f]
        /\ ips' \in [Clients -> Request]
    BY <1>3, <2>1 DEF IInv, TypeOK, Request
  <2>3. net' \in Net
    BY <1>2, <1>6, WriteFacts
  <2>4. TypeOK' /\ pc'[c] \in {"free", "idle"} /\ tempNet'[c] = netInfo[c]
    <3>1. /\ pc' \in [Clients -> PcValues] /\ fam' \in [Clients -> Fam]
          /\ pc'[c] \in {"free", "idle"}
      BY <2>1 DEF IInv, TypeOK, PcValues, Fam
    <3>2. tempNet' \in [Clients -> Net] /\ tempNet'[c] = netInfo[c]
      BY <1>3, <1>6 DEF IInv, TypeOK
    <3> QED BY <1>2, <1>6, <2>2, <2>3, <3>1, <3>2 DEF IInv, TypeOK
  <2>5. \A f \in Fam : HasBit(f, ips'[c][f]) => f # g /\ ips'[c][f] = ips[c][f]
    BY <2>2 DEF HasBit, Unset
  <2>6. Sanity' /\ Versions' /\ NotPreset' /\ FreeSeen'
    BY <1>1, <1>2, <1>6, <2>4, <2>5, WriteRest
  <2>7. \A f \in Fam : Owns(c, f)' => f # fam[c] /\ Owns(c, f) /\ ips'[c][f] = ips[c][f]
    BY <1>4, <2>5 DEF Owns, HasBit
  <2>8. \A f \in Fam : f # fam[c] /\ Owns(c, f) => Owns(c, f)' /\ ips'[c][f] = ips[c][f]
    <3> SUFFICES ASSUME NEW f \in Fam, f # g, Owns(c, f)
                 PROVE  Owns(c, f)' /\ ips'[c][f] = ips[c][f]
      OBVIOUS
    <3>1. g = "v4"
      BY <1>2, <1>3, <1>4 DEF IInv, V4Done, Freeing, Fam
    <3>2. pc'[c] = "free"
      BY <2>1, <3>1 DEF IInv, TypeOK
    <3>3. ips'[c][f] = ips[c][f]
      BY <2>2
    <3> QED BY <1>4, <3>2, <3>3 DEF Owns, HasBit
  <2>9. Recorded' /\ Exclusive' /\ NoLeak'
    BY <1>1, <1>2, <1>6, <2>7, <2>8, FreeWriteSafe
  <2> QED BY <1>v, <2>4, <2>6, <2>9 DEF IInv
<1>7. CASE /\ PutConflicts(c) /\ pc' = [pc EXCEPT ![c] = "freerefresh"]
           /\ tempNet' = tempNet /\ ips' = ips /\ fam' = fam /\ fails' = fails
  <2>1. net' = net
    BY <1>7 DEF PutConflicts
  <2>2. TypeOK' /\ pc'[c] = "freerefresh"
    BY <1>2, <1>7, <2>1 DEF IInv, TypeOK, PcValues
  <2>3. Edited(c)' /\ \A f \in Fam : Owns(c, f) <=> Owns(c, f)'
    BY <1>2, <1>7, <2>2 DEF Edited, Owns, HasBit
  <2>4. Sanity' /\ Versions' /\ NotPreset' /\ FreeSeen'
    BY <1>1, <1>2, <1>3, <1>7, <2>1, <2>2, <2>3, NoWriteRest
  <2>5. Recorded' /\ Exclusive' /\ NoLeak'
    BY <1>1, <1>2, <1>7, <2>1, <2>3, NoWriteSafe
  <2> QED BY <1>v, <2>2, <2>4, <2>5 DEF IInv
<1>8. CASE PutFails(c) /\ FreeErrs(c) /\ tempNet' = tempNet
  <2>1. fails' = fails + 1 /\ fails' # 0 /\ (PutNetwork(c) \/ net' = net)
    BY <1>5, <1>8 DEF PutFails
  <2>2. net' \in Net
    BY <1>2, <2>1, WriteFacts DEF IInv, TypeOK
  <2>3. TypeOK' /\ pc'[c] = "idle" /\ ips'[c] = NoIps
    BY <1>2, <1>5, <1>8, <2>1, <2>2, NoIpsFacts DEF IInv, TypeOK, PcValues, FreeErrs
  <2>4. Edited(c)' /\ ~(pc'[c] \in Freeing) /\ \A f \in Fam : ~Owns(c, f)' /\ ~HasBit(f, ips'[c][f])
    BY <2>3, NoIpsFacts DEF Edited, Freeing, Owns
  <2>5. CASE PutNetwork(c)
    <3>1. Sanity' /\ Versions' /\ NotPreset' /\ FreeSeen'
      BY <1>1, <1>2, <1>8, <2>3, <2>4, <2>5, WriteRest
    <3>2. Recorded' /\ Exclusive' /\ NoLeak'
      BY <1>1, <1>2, <2>1, <2>4, <2>5, FreeWriteSafe
    <3> QED BY <1>v, <2>3, <3>1, <3>2 DEF IInv
  <2>6. CASE net' = net
    <3>1. Sanity' /\ Versions' /\ NotPreset' /\ FreeSeen'
      BY <1>1, <1>2, <1>3, <1>8, <2>3, <2>4, <2>6, NoWriteRest
    <3>2. Recorded' /\ Exclusive' /\ NoLeak'
      BY <1>1, <1>2, <2>1, <2>4, <2>6, NoWriteSafe
    <3> QED BY <1>v, <2>3, <3>1, <3>2 DEF IInv
  <2> QED BY <2>1, <2>5, <2>6
<1> QED BY <1>6, <1>7, <1>8 DEF FreePut

\* Reading the network again after a conflict of Free.
LEMMA FreeRefreshIInv ==
    ASSUME IInv, NEW c \in Clients, FreeRefresh(c)
    PROVE  IInv'
<1>1. Frame(c)
  BY ActionFrame DEF IInv, ClientStep
<1>v. V4Done'
  BY ActionV4Done DEF IInv, ClientStep
<1>2. /\ pc[c] = "freerefresh" /\ net' = net /\ netInfo' = netInfo /\ req' = req
      /\ calls' = calls /\ unwritten' = unwritten
  BY DEF FreeRefresh
<1>3. /\ SaneSpec(netInfo[c].spec) /\ SaneSpec(tempNet[c].spec) /\ SaneSpec(net.spec)
      /\ netInfo[c].rv <= net.rv /\ tempNet[c].rv <= net.rv /\ net.rv <= net.rv
      /\ netInfo[c].rv = net.rv => netInfo[c].spec = net.spec
      /\ \A f \in Fam : HasBit(f, ips[c][f]) => ips[c][f] \notin CreateAllocationArray(f)
      /\ \A f \in Fam : ~unwritten /\ HasBit(f, ips[c][f]) => ips[c][f] \in netInfo[c].spec[f].alloc
  BY <1>2 DEF IInv, TypeOK, Sanity, Versions, Net, NotPreset, FreeSeen, Freeing
<1>4. CASE RefreshNetwork(c) /\ pc' = [pc EXCEPT ![c] = "free"] /\ ips' = ips /\ fam' = fam
  <2>1. tempNet' = [tempNet EXCEPT ![c] = net] /\ fails' = fails
    BY <1>4 DEF RefreshNetwork
  <2>2. TypeOK' /\ pc'[c] = "free" /\ tempNet'[c] = net
    BY <1>2, <1>4, <2>1 DEF IInv, TypeOK, PcValues
  <2>3. Edited(c)' /\ \A f \in Fam : Owns(c, f) <=> Owns(c, f)'
    BY <1>2, <1>4, <2>2 DEF Edited, Owns, HasBit
  <2>4. Sanity' /\ Versions' /\ NotPreset' /\ FreeSeen'
    BY <1>1, <1>2, <1>3, <1>4, <2>2, <2>3, NoWriteRest
  <2>5. Recorded' /\ Exclusive' /\ NoLeak'
    BY <1>1, <1>2, <1>4, <2>1, <2>3, NoWriteSafe
  <2> QED BY <1>v, <2>2, <2>4, <2>5 DEF IInv
<1>5. CASE RefreshFails(c) /\ FreeErrs(c)
  <2>1. fails' = fails + 1 /\ fails' \in Nat /\ fails' # 0 /\ tempNet' = tempNet
    BY <1>5 DEF RefreshFails, IInv, TypeOK
  <2>2. TypeOK' /\ pc'[c] = "idle" /\ ips'[c] = NoIps
    BY <1>2, <1>5, <2>1, NoIpsFacts DEF IInv, TypeOK, PcValues, FreeErrs
  <2>3. Edited(c)' /\ ~(pc'[c] \in Freeing) /\ \A f \in Fam : ~Owns(c, f)' /\ ~HasBit(f, ips'[c][f])
    BY <2>2, NoIpsFacts DEF Edited, Freeing, Owns
  <2>4. Sanity' /\ Versions' /\ NotPreset' /\ FreeSeen'
    BY <1>1, <1>2, <1>3, <2>1, <2>2, <2>3, NoWriteRest
  <2>5. Recorded' /\ Exclusive' /\ NoLeak'
    BY <1>1, <1>2, <2>1, <2>3, NoWriteSafe
  <2> QED BY <1>v, <2>2, <2>4, <2>5 DEF IInv
<1> QED BY <1>4, <1>5 DEF FreeRefresh

-----------------------------------------------------------------------------
\* Every step preserves the invariant.
LEMMA NextIInv == IInv /\ [Next]_vars => IInv'
<1> SUFFICES ASSUME IInv, [Next]_vars PROVE IInv'
  OBVIOUS
<1>1. CASE UNCHANGED vars
  <2>1. TypeOK' /\ Sanity' /\ NotPreset' /\ FreeSeen' /\ V4Done'
    BY <1>1 DEF vars, IInv, TypeOK, Sanity, NotPreset, FreeSeen, V4Done
  <2>2. Versions'
    <3>1. \A c \in Clients : Edited(c)' <=> Edited(c)
      BY <1>1 DEF vars, Edited
    <3> QED BY <1>1, <3>1 DEF vars, IInv, Versions
  <2>3. \A f \in Fam : Owned(f)' = Owned(f) /\ \A c \in Clients : Owns(c, f)' <=> Owns(c, f)
    BY <1>1 DEF vars, Owned, Owns, HasBit
  <2>4. Recorded' /\ Exclusive' /\ NoLeak'
    BY <1>1, <2>3 DEF vars, IInv, Recorded, Exclusive, NoLeak
  <2> QED BY <2>1, <2>2, <2>4 DEF IInv
<1>2. CASE Next
  <2>1. PICK c \in Clients : GetNetworkFromInterface(c) \/ GetNetworkFromEp(c) \/ ClientStep(c)
    BY <1>2 DEF Next
  <2> QED BY <2>1, GetNetworkFromInterfaceIInv, GetNetworkFromEpIInv, ReserveIInv, ReservePutIInv,
             ReserveRefreshIInv, FreeIInv, FreePutIInv, FreeRefreshIInv DEF ClientStep
<1> QED BY <1>1, <1>2

\* The invariant holds in every behaviour of the IPAM clients.
THEOREM IInvHolds == Spec => []IInv
<1>1. Init => IInv
  BY InitIInv
<1>2. IInv /\ [Next]_vars => IInv'
  BY NextIInv
<1> QED BY <1>1, <1>2, PTL DEF Spec

\* The network object and the copies of it always have their types.
THEOREM TypeCorrect == Spec => []TypeOK
<1>1. IInv => TypeOK
  BY DEF IInv
<1> QED BY <1>1, IInvHolds, PTL

\* Every address a client holds is recorded in the API object, for any number of
\* clients, as long as no Reserve has returned without a PUT (ipam.go:38).
THEOREM RecordedAlways == Spec => []Recorded
<1>1. IInv => Recorded
  BY DEF IInv
<1> QED BY <1>1, IInvHolds, PTL

\* No two clients ever hold the same address, under the same condition.
THEOREM ExclusiveAlways == Spec => []Exclusive
<1>1. IInv => Exclusive
  BY DEF IInv
<1> QED BY <1>1, IInvHolds, PTL

\* No address leaks as long as no API call fails, under the same condition.
THEOREM NoLeakAlways == Spec => []NoLeak
<1>1. IInv => NoLeak
  BY DEF IInv
<1> QED BY <1>1, IInvHolds, PTL

\* The network and broadcast addresses and the gateways stay reserved, unconditionally.
THEOREM GatewaysAlways == Spec => []GatewaysStayReserved
<1>1. IInv => GatewaysStayReserved
  <2> SUFFICES ASSUME IInv PROVE GatewaysStayReserved
    OBVIOUS
  <2>1. \A f \in Fam : net.spec[f].cidr => CreateAllocationArray(f) \subseteq net.spec[f].alloc
    BY DEF IInv, Sanity, SaneSpec
  <2>2. \A f \in Fam : Owned(f) \cap CreateAllocationArray(f) = {}
    BY DEF IInv, NotPreset, Owned, Owns
  <2> QED BY <2>1, <2>2 DEF GatewaysStayReserved
<1> QED BY <1>1, IInvHolds, PTL

\* No write of the object undoes another client's: a step sets or clears one bit.
THEOREM OneBitPerWriteAlways == Spec => OneBitPerWrite
<1> DEFINE A == \A f \in Fam : net.spec[f].cidr => AtMostOneBit(f)
<1>1. IInv /\ [Next]_vars => [A]_vars
  <2> SUFFICES ASSUME IInv, Next, NEW f \in Fam, net.spec[f].cidr PROVE AtMostOneBit(f)
    OBVIOUS
  <2>1. PICK c \in Clients : GetNetworkFromInterface(c) \/ GetNetworkFromEp(c) \/ ClientStep(c)
    BY DEF Next
  <2>2. CASE net' = net
    BY <2>2 DEF AtMostOneBit
  <2>3. net' = net \/ (PutNetwork(c) /\ pc[c] \in {"put", "freeput"})
    BY <2>1 DEF GetNetworkFromInterface, GetNetworkFromEp, ClientStep, Reserve, ReservePut,
       ReserveRefresh, Free, FreePut, FreeRefresh, PutConflicts, PutFails
  <2>4. CASE PutNetwork(c) /\ pc[c] \in {"put", "freeput"}
    <3>1. net'.spec = tempNet[c].spec /\ Edited(c)
      BY <2>4, WriteFacts
    <3>2. net.spec \in [Fam -> Pool] /\ SaneSpec(net.spec) /\ req[c] \in Request /\ fam[c] \in Fam
      BY DEF IInv, TypeOK, Sanity, Net
    <3>3. CASE pc[c] = "put"
      <4> DEFINE a == allocateIps(net.spec, req[c])
      <4>1. a.ok /\ net'.spec = a.spec
        BY <3>1, <3>3 DEF Edited
      <4>2. \/ a.spec[f].alloc = net.spec[f].alloc
            \/ HasBit(f, a.ips[f]) /\ a.spec[f].alloc = net.spec[f].alloc \cup {a.ips[f]}
        BY <3>2, <4>1, AllocateIpsResult
      <4> HIDE DEF a
      <4> QED BY <4>1, <4>2 DEF AtMostOneBit, HasBit
    <3>4. CASE pc[c] = "freeput"
      <4> DEFINE g == fam[c]
                 ip == ips[c][g]
      <4>1. net'.spec = ResetSpec(net.spec, g, ip)
        BY <3>1, <3>4 DEF Edited, ResetSpec
      <4>2. HasBit(g, ip) => ip \notin CreateAllocationArray(g)
        BY <3>2 DEF IInv, NotPreset
      <4> HIDE DEF g, ip
      <4>3. /\ f # g => net'.spec[f] = net.spec[f]
            /\ HasBit(g, ip) => net'.spec[g].alloc = net.spec[g].alloc \ {ip}
            /\ ~HasBit(g, ip) => net'.spec[g] = net.spec[g]
        BY <3>2, <4>1, <4>2, ResetIpResult DEF g
      <4> QED BY <4>3 DEF AtMostOneBit, HasBit
    <3> QED BY <2>4, <3>3, <3>4
  <2> QED BY <2>2, <2>3, <2>4
<1> QED BY <1>1, IInvHolds, PTL DEF Spec, OneBitPerWrite

-----------------------------------------------------------------------------
(***************************************************************************)
(* The refinement of Allocator.  What a step does to the addresses of one  *)
(* client and to the bitmaps is one of four effects, and each effect is a   *)
(* step of the allocator or none at all.                                    *)
(***************************************************************************)

\* The addresses of a pool that are not free: a pool that is initialised later has the
\* reserved ones taken from the beginning.
Taken(f) == IF net.spec[f].cidr THEN net.spec[f].alloc ELSE CreateAllocationArray(f)

\* The client holds address i of family f.
Has(c, f, i) == Owns(c, f) /\ i = ips[c][f]

Keeps(c) ==
    \A f \in Fam : Taken(f)' = Taken(f) /\ \A i : Has(c, f, i)' <=> Has(c, f, i)

Gets(c) ==
    \A f \in Fam : \A i :
        /\ ~Has(c, f, i)
        /\ Has(c, f, i)' => i \notin Taken(f)
        /\ i \in Taken(f)' <=> i \in Taken(f) \/ Has(c, f, i)'

GivesBack(c) ==
    \A f \in Fam : \A i :
        /\ Has(c, f, i)' => Has(c, f, i)
        /\ i \in Taken(f)' <=> i \in Taken(f) /\ (Has(c, f, i) => Has(c, f, i)')

Errs(c) ==
    /\ \A f \in Fam : \A i : ~Has(c, f, i)'
    /\ \/ \A f \in Fam : \A i : ~Has(c, f, i) /\ (i \in Taken(f) => i \in Taken(f)')
       \/ \A f \in Fam : \A i :
             /\ i \in Taken(f)' => i \in Taken(f)
             /\ i \in Taken(f) => i \in Taken(f)' \/ Has(c, f, i)

Effect(c) ==
    /\ unwritten => unwritten'
    /\ unwritten' \/ Keeps(c) \/ Gets(c) \/ GivesBack(c) \/ Errs(c)

\* Storing the copy of a Reserve takes exactly the addresses Reserve returns, and takes
\* them from nobody.
LEMMA ReserveTakes ==
    ASSUME IInv, NEW c \in Clients, PutNetwork(c), pc[c] = "put", NEW f \in Fam, NEW i
    PROVE  /\ i \in Taken(f)' <=> i \in Taken(f) \/ (HasBit(f, ips[c][f]) /\ i = ips[c][f])
           /\ HasBit(f, ips[c][f]) => ips[c][f] \notin Taken(f)
<1> DEFINE a == allocateIps(net.spec, req[c])
<1>1. a.ok /\ net'.spec = a.spec /\ ips[c] = a.ips /\ SaneSpec(net'.spec)
  BY WriteFacts DEF Edited
<1>2. net.spec \in [Fam -> Pool] /\ SaneSpec(net.spec) /\ req[c] \in Request
  BY DEF IInv, TypeOK, Sanity, Net
<1>3. /\ net.spec[f].alloc \subseteq net'.spec[f].alloc
      /\ HasBit(f, ips[c][f]) =>
            /\ ips[c][f] \notin net.spec[f].alloc
            /\ ips[c][f] \notin CreateAllocationArray(f)
            /\ ips[c][f] \in net'.spec[f].alloc
      /\ \A j \in net'.spec[f].alloc :
            \/ j \in net.spec[f].alloc \/ j \in CreateAllocationArray(f)
            \/ HasBit(f, ips[c][f]) /\ j = ips[c][f]
      /\ net.spec[f].cidr =>
            \/ net'.spec[f].alloc = net.spec[f].alloc
            \/ /\ HasBit(f, ips[c][f])
               /\ net'.spec[f].alloc = net.spec[f].alloc \cup {ips[c][f]}
  BY <1>1, <1>2, AllocateIpsResult
<1> HIDE DEF a
<1>4. /\ ~net.spec[f].cidr => net.spec[f].alloc = {}
      /\ net.spec[f].cidr => CreateAllocationArray(f) \subseteq net.spec[f].alloc
      /\ ~net'.spec[f].cidr => net'.spec[f].alloc = {}
      /\ net'.spec[f].cidr => CreateAllocationArray(f) \subseteq net'.spec[f].alloc
      /\ 0 \in CreateAllocationArray(f)
  BY <1>1, <1>2 DEF SaneSpec, Sane, CreateAllocationArray
<1>5. CASE net.spec[f].cidr
  <2>1. net'.spec[f].cidr
    BY <1>3, <1>4, <1>5
  <2>2. Taken(f) = net.spec[f].alloc /\ Taken(f)' = net'.spec[f].alloc
    BY <1>5, <2>1 DEF Taken
  <2> QED BY <1>3, <1>5, <2>2
<1>6. CASE ~net.spec[f].cidr /\ net'.spec[f].cidr
  <2>1. Taken(f) = CreateAllocationArray(f) /\ Taken(f)' = net'.spec[f].alloc
    BY <1>6 DEF Taken, CreateAllocationArray
  <2> QED BY <1>3, <1>4, <1>6, <2>1
<1>7. CASE ~net.spec[f].cidr /\ ~net'.spec[f].cidr
  <2>1. Taken(f) = CreateAllocationArray(f) /\ Taken(f)' = CreateAllocationArray(f)
    BY <1>7 DEF Taken, CreateAllocationArray
  <2> QED BY <1>3, <1>4, <1>7, <2>1
<1> QED BY <1>5, <1>6, <1>7

\* Storing the copy of a Free gives back exactly the address it was called with.
LEMMA FreeGivesBack ==
    ASSUME IInv, NEW c \in Clients, PutNetwork(c), pc[c] = "freeput", ~unwritten,
           NEW f \in Fam, NEW i
    PROVE  i \in Taken(f)' <=> i \in Taken(f) /\ ~(f = fam[c] /\ Has(c, f, i))
<1> DEFINE g == fam[c]
           ip == ips[c][g]
<1>1. net'.spec = ResetSpec(net.spec, g, ip)
  BY WriteFacts DEF Edited, ResetSpec
<1>2. /\ net.spec \in [Fam -> Pool] /\ SaneSpec(net.spec) /\ g \in Fam
      /\ HasBit(g, ip) => ip \notin CreateAllocationArray(g)
  BY DEF IInv, TypeOK, Sanity, Net, NotPreset
<1>3. Owns(c, g) <=> HasBit(g, ip)
  BY DEF Owns
<1>4. Owns(c, g) => ip \in net.spec[g].alloc
  BY <1>2 DEF IInv, Recorded, Owned
<1>5. ~net.spec[g].cidr => net.spec[g].alloc = {}
  BY <1>2 DEF SaneSpec, Sane
<1>6. Has(c, g, i) <=> HasBit(g, ip) /\ i = ip
  BY <1>3 DEF Has
<1> HIDE DEF g, ip
<1>7. /\ f # g => net'.spec[f] = net.spec[f]
      /\ net'.spec[g].cidr = net.spec[g].cidr
      /\ HasBit(g, ip) => net'.spec[g].alloc = net.spec[g].alloc \ {ip}
      /\ ~HasBit(g, ip) => net'.spec[g] = net.spec[g]
  BY <1>1, <1>2, ResetIpResult
<1>8. CASE f # g
  <2>1. Taken(f)' = Taken(f)
    BY <1>7, <1>8 DEF Taken, CreateAllocationArray
  <2> QED BY <1>8, <2>1 DEF g
<1>9. CASE f = g /\ ~HasBit(g, ip)
  <2>1. Taken(f)' = Taken(f)
    BY <1>7, <1>9 DEF Taken, CreateAllocationArray
  <2> QED BY <1>6, <1>9, <2>1
<1>10. CASE f = g /\ HasBit(g, ip)
  <2>1. net.spec[f].cidr /\ net'.spec[f].cidr
    BY <1>3, <1>4, <1>5, <1>7, <1>10
  <2>2. Taken(f) = net.spec[f].alloc /\ Taken(f)' = net.spec[f].alloc \ {ip}
    BY <1>7, <1>10, <2>1 DEF Taken
  <2> QED BY <1>6, <1>10, <2>2 DEF g
<1> QED BY <1>8, <1>9, <1>10

\* A step that leaves the object and what the client holds alone.
LEMMA KeepsAll ==
    ASSUME NEW c \in Clients, net' = net,
           \A f \in Fam : /\ Owns(c, f)' <=> Owns(c, f)
                          /\ Owns(c, f) => ips'[c][f] = ips[c][f]
    PROVE  Keeps(c)
<1>1. \A f \in Fam : Taken(f)' = Taken(f)
  BY DEF Taken, CreateAllocationArray
<1>2. \A f \in Fam : \A i : Has(c, f, i)' <=> Has(c, f, i)
  BY DEF Has
<1> QED BY <1>1, <1>2 DEF Keeps

\* One pass of Reserve hands out a pool address only when it returns early.
LEMMA ReserveEffect ==
    ASSUME IInv, NEW c \in Clients, Reserve(c)
    PROVE  Effect(c)
<1> DEFINE a == allocateIps(tempNet[c].spec, req[c])
<1>1. /\ pc[c] = "reserve" /\ net' = net /\ (unwritten => unwritten')
      /\ pc \in [Clients -> PcValues] /\ ips \in [Clients -> Request]
  BY DEF Reserve, IInv, TypeOK
<1>2. \A f \in Fam : ~Owns(c, f)
  BY <1>1 DEF Owns
<1>3. CASE pc' = [pc EXCEPT ![c] = "idle"] \/ pc' = [pc EXCEPT ![c] = "put"]
  <2>1. \A f \in Fam : ~Owns(c, f)'
    BY <1>1, <1>3 DEF Owns
  <2> QED BY <1>1, <1>2, <2>1, KeepsAll DEF Effect
<1>4. CASE /\ pc' = [pc EXCEPT ![c] = "held"]
           /\ ips' = [ips EXCEPT ![c] = a.ips]
           /\ unwritten' = (unwritten \/ \E f \in Fam : HasBit(f, a.ips[f]))
  <2>1. ips'[c] = a.ips
    BY <1>1, <1>4
  <2>2. CASE \A f \in Fam : ~HasBit(f, a.ips[f])
    <3>1. \A f \in Fam : ~Owns(c, f)'
      BY <2>1, <2>2 DEF Owns, HasBit
    <3> QED BY <1>1, <1>2, <3>1, KeepsAll DEF Effect
  <2>3. CASE \E f \in Fam : HasBit(f, a.ips[f])
    BY <1>4, <2>3 DEF Effect
  <2> QED BY <2>2, <2>3
<1> QED BY <1>3, <1>4 DEF Reserve

\* The PUT of Reserve hands out its addresses, or loses them when it fails once stored.
LEMMA ReservePutEffect ==
    ASSUME IInv, NEW c \in Clients, ReservePut(c)
    PROVE  Effect(c)
<1>1. /\ pc[c] = "put" /\ (unwritten => unwritten')
      /\ pc \in [Clients -> PcValues] /\ ips \in [Clients -> Request]
  BY DEF ReservePut, IInv, TypeOK
<1>2. /\ \A f \in Fam : ~Owns(c, f)
      /\ \A f \in Fam : \A i : ~Has(c, f, i)
  BY <1>1 DEF Owns, Has
<1>3. CASE PutNetwork(c) /\ pc' = [pc EXCEPT ![c] = "held"] /\ ips' = ips
  <2>1. \A f \in Fam : \A i : Has(c, f, i)' <=> HasBit(f, ips[c][f]) /\ i = ips[c][f]
    BY <1>1, <1>3 DEF Has, Owns, HasBit
  <2>2. Gets(c)
    BY <1>1, <1>2, <1>3, <2>1, ReserveTakes DEF Gets
  <2> QED BY <1>1, <2>2 DEF Effect
<1>4. CASE PutConflicts(c) /\ pc' = [pc EXCEPT ![c] = "refresh"]
  <2>1. net' = net /\ \A f \in Fam : ~Owns(c, f)'
    BY <1>1, <1>4 DEF PutConflicts, Owns
  <2> QED BY <1>1, <1>2, <2>1, KeepsAll DEF Effect
<1>5. CASE PutFails(c) /\ pc' = [pc EXCEPT ![c] = "idle"]
  <2>1. /\ \A f \in Fam : ~Owns(c, f)'
        /\ \A f \in Fam : \A i : ~Has(c, f, i)'
    BY <1>1, <1>5 DEF Owns, Has
  <2>2. PutNetwork(c) \/ net' = net
    BY <1>5 DEF PutFails
  <2>3. CASE PutNetwork(c)
    <3>1. \A f \in Fam : \A i : i \in Taken(f) => i \in Taken(f)'
      BY <1>1, <2>3, ReserveTakes
    <3> QED BY <1>1, <1>2, <2>1, <3>1 DEF Effect, Errs
  <2>4. CASE net' = net
    BY <1>1, <1>2, <2>1, <2>4, KeepsAll DEF Effect
  <2> QED BY <2>2, <2>3, <2>4
<1> QED BY <1>3, <1>4, <1>5 DEF ReservePut

\* A Free that has returned has taken one address from the client, the one it was called
\* with, and left the other.
LEMMA FreeReturnsEffect ==
    ASSUME IInv, NEW c \in Clients, FreeReturns(c), pc[c] \in {"free", "freeput"},
           NEW f \in Fam, NEW i
    PROVE  Has(c, f, i)' <=> f # fam[c] /\ Has(c, f, i)
<1> DEFINE g == fam[c]
<1>1. /\ g \in Fam /\ ips \in [Clients -> Request] /\ fam \in [Clients -> Fam]
      /\ pc \in [Clients -> PcValues]
      /\ ips' = [ips EXCEPT ![c][g] = Unset] /\ fam' = [fam EXCEPT ![c] = "v6"]
      /\ pc' = [pc EXCEPT ![c] = IF g = "v4" THEN "free" ELSE "idle"]
  BY DEF FreeReturns, IInv, TypeOK
<1>2. /\ ips'[c][g] = Unset /\ (f # g => ips'[c][f] = ips[c][f])
  BY <1>1 DEF Request
<1>3. Owns(c, f) <=> HasBit(f, ips[c][f])
  BY DEF Owns
<1>4. CASE f = g
  BY <1>2, <1>4 DEF Has, Owns, HasBit, Unset
<1>5. CASE f # g /\ g = "v4"
  BY <1>1, <1>2, <1>3, <1>5 DEF Has, Owns, HasBit
<1>6. CASE f # g /\ g = "v6"
  <2>1. f = "v4" /\ ~HasBit(f, ips[c][f])
    BY <1>6 DEF Fam, IInv, V4Done, Freeing
  <2>2. ~Has(c, f, i)
    BY <1>3, <2>1 DEF Has
  <2>3. ~Has(c, f, i)'
    BY <1>1, <1>6 DEF Has, Owns
  <2> QED BY <2>2, <2>3
<1> QED BY <1>1, <1>4, <1>5, <1>6 DEF Fam

\* One pass of Free that returns early has had no pool address to free.
LEMMA FreeEffect ==
    ASSUME IInv, NEW c \in Clients, Free(c)
    PROVE  Effect(c)
<1> DEFINE g == fam[c]
           ip == ips[c][g]
           z == ResetSpec(tempNet[c].spec, g, ip)
<1>1. /\ pc[c] = "free" /\ net' = net /\ unwritten' = unwritten
      /\ pc \in [Clients -> PcValues] /\ g \in Fam
      /\ tempNet[c].spec \in [Fam -> Pool] /\ SaneSpec(tempNet[c].spec)
      /\ HasBit(g, ip) => ip \notin CreateAllocationArray(g)
      /\ ~unwritten /\ HasBit(g, ip) => ip \in netInfo[c].spec[g].alloc
  BY DEF Free, IInv, TypeOK, Sanity, Net, NotPreset, FreeSeen, Freeing
<1>2. \A f \in Fam : Taken(f)' = Taken(f)
  BY <1>1 DEF Taken, CreateAllocationArray
<1>3. CASE (ip \in {Unset, NoneAllocType} \/ z = netInfo[c].spec) /\ FreeReturns(c)
  <2>1. HasBit(g, ip) => z[g].alloc = tempNet[c].spec[g].alloc \ {ip}
    BY <1>1, ResetIpResult
  <2>2. HasBit(g, ip) => unwritten
    BY <1>1, <1>3, <2>1 DEF HasBit, Unset, NoneAllocType
  <2>3. CASE unwritten
    BY <1>1, <2>3 DEF Effect
  <2>4. CASE ~unwritten
    <3>1. \A i : ~Has(c, g, i)
      BY <2>2, <2>4 DEF Has, Owns
    <3>2. \A f \in Fam : \A i : Has(c, f, i)' <=> Has(c, f, i)
      BY <1>1, <1>3, <3>1, FreeReturnsEffect
    <3> QED BY <1>1, <1>2, <3>2 DEF Effect, Keeps
  <2> QED BY <2>3, <2>4
<1>4. CASE pc' = [pc EXCEPT ![c] = "freeput"] /\ ips' = ips
  <2>1. \A f \in Fam : (Owns(c, f)' <=> Owns(c, f)) /\ ips'[c][f] = ips[c][f]
    BY <1>1, <1>4 DEF Owns, HasBit
  <2> QED BY <1>1, <2>1, KeepsAll DEF Effect
<1> QED BY <1>3, <1>4 DEF Free, ResetSpec

\* The PUT of Free gives one address back, or gives up all of the client's with an error.
LEMMA FreePutEffect ==
    ASSUME IInv, NEW c \in Clients, FreePut(c)
    PROVE  Effect(c)
<1>1. /\ pc[c] = "freeput" /\ unwritten' = unwritten /\ fam[c] \in Fam
      /\ pc \in [Clients -> PcValues]
  BY DEF FreePut, IInv, TypeOK
<1>2. CASE unwritten
  BY <1>1, <1>2 DEF Effect
<1>3. CASE ~unwritten /\ PutNetwork(c) /\ FreeReturns(c)
  <2>1. \A f \in Fam : \A i : Has(c, f, i)' <=> f # fam[c] /\ Has(c, f, i)
    BY <1>1, <1>3, FreeReturnsEffect
  <2>2. \A f \in Fam : \A i : i \in Taken(f)' <=> i \in Taken(f) /\ ~(f = fam[c] /\ Has(c, f, i))
    BY <1>1, <1>3, FreeGivesBack
  <2> QED BY <1>1, <2>1, <2>2 DEF Effect, GivesBack
<1>4. CASE PutConflicts(c) /\ pc' = [pc EXCEPT ![c] = "freerefresh"] /\ ips' = ips
  <2>1. net' = net /\ \A f \in Fam : (Owns(c, f)' <=> Owns(c, f)) /\ ips'[c][f] = ips[c][f]
    BY <1>1, <1>4 DEF PutConflicts, Owns, HasBit
  <2> QED BY <1>1, <2>1, KeepsAll DEF Effect
<1>5. CASE ~unwritten /\ PutFails(c) /\ FreeErrs(c)
  <2>1. \A f \in Fam : \A i : ~Has(c, f, i)'
    BY <1>1, <1>5 DEF FreeErrs, Has, Owns
  <2>2. \A f \in Fam : \A i : /\ i \in Taken(f)' => i \in Taken(f)
                              /\ i \in Taken(f) => i \in Taken(f)' \/ Has(c, f, i)
    <3>1. CASE PutNetwork(c)
      BY <1>1, <1>5, <3>1, FreeGivesBack
    <3>2. CASE net' = net
      BY <3>2 DEF Taken, CreateAllocationArray
    <3> QED BY <1>5, <3>1, <3>2 DEF PutFails
  <2> QED BY <1>1, <2>1, <2>2 DEF Effect, Errs
<1> QED BY <1>2, <1>3, <1>4, <1>5 DEF FreePut

\* A Free that cannot read the network again gives up all of the client's addresses.
LEMMA FreeRefreshEffect ==
    ASSUME IInv, NEW c \in Clients, FreeRefresh(c)
    PROVE  Effect(c)
<1>1. /\ pc[c] = "freerefresh" /\ unwritten' = unwritten /\ net' = net
      /\ pc \in [Clients -> PcValues]
  BY DEF FreeRefresh, IInv, TypeOK
<1>2. CASE pc' = [pc EXCEPT ![c] = "free"] /\ ips' = ips
  <2>1. \A f \in Fam : (Owns(c, f)' <=> Owns(c, f)) /\ ips'[c][f] = ips[c][f]
    BY <1>1, <1>2 DEF Owns, HasBit
  <2> QED BY <1>1, <2>1, KeepsAll DEF Effect
<1>3. CASE FreeErrs(c)
  <2>1. \A f \in Fam : \A i : ~Has(c, f, i)'
    BY <1>1, <1>3 DEF FreeErrs, Has, Owns
  <2>2. \A f \in Fam : Taken(f)' = Taken(f)
    BY <1>1 DEF Taken, CreateAllocationArray
  <2> QED BY <1>1, <2>1, <2>2 DEF Effect, Errs
<1> QED BY <1>2, <1>3 DEF FreeRefresh

\* Every step has one of the effects on its client, and none on the others.
LEMMA NextEffect ==
    ASSUME IInv, Next
    PROVE  \E c \in Clients :
              /\ Effect(c)
              /\ \A d \in Clients : d # c => \A f \in Fam : \A i : Has(d, f, i)' <=> Has(d, f, i)
<1>1. PICK c \in Clients : GetNetworkFromInterface(c) \/ GetNetworkFromEp(c) \/ ClientStep(c)
  BY DEF Next
<1>2. \A d \in Clients : d # c => \A f \in Fam : \A i : Has(d, f, i)' <=> Has(d, f, i)
  <2>1. \A d \in Clients : d # c => \A f \in Fam :
           (Owns(d, f)' <=> Owns(d, f)) /\ ips'[d][f] = ips[d][f]
    BY <1>1, ActionFrame, FrameOwns DEF IInv
  <2> QED BY <2>1 DEF Has
<1>3. Effect(c)
  <2>1. ASSUME net' = net, ips' = ips, unwritten' = unwritten,
               \A f \in Fam : Owns(c, f)' <=> Owns(c, f)
        PROVE  Effect(c)
    BY <2>1, KeepsAll DEF Effect
  <2>2. CASE GetNetworkFromInterface(c)
    BY <2>1, <2>2 DEF GetNetworkFromInterface, Owns, IInv, TypeOK
  <2>3. CASE GetNetworkFromEp(c)
    BY <2>1, <2>3 DEF GetNetworkFromEp, Owns, HasBit, IInv, TypeOK
  <2>4. CASE ReserveRefresh(c)
    <3>1. /\ pc[c] = "refresh" /\ net' = net /\ unwritten' = unwritten
          /\ pc'[c] \in {"reserve", "idle"}
      BY <2>4 DEF ReserveRefresh, IInv, TypeOK
    <3>2. \A f \in Fam : ~Owns(c, f) /\ ~Owns(c, f)'
      BY <3>1 DEF Owns
    <3> QED BY <3>1, <3>2, KeepsAll DEF Effect
  <2> QED BY <1>1, <2>2, <2>3, <2>4, ReserveEffect, ReservePutEffect, FreeEffect, FreePutEffect,
             FreeRefreshEffect DEF ClientStep
<1> QED BY <1>2, <1>3

-----------------------------------------------------------------------------
\* What the allocator takes for the addresses of a client, and for the free ones.
HeldExact ==
    \A c \in Clients : \A h : h \in Held(c) <=> \E f \in Fam : \E i : h = <<f, i>> /\ Has(c, f, i)

FreeExact ==
    /\ FreeAddresses \subseteq PoolAddresses
    /\ \A f, i : <<f, i>> \in FreeAddresses <=> <<f, i>> \in PoolAddresses /\ i \notin Taken(f)

LEMMA PoolFacts ==
    /\ \A h \in PoolAddresses : \E f \in Fam : \E i : h = <<f, i>>
    /\ \A f, i : <<f, i>> \in PoolAddresses <=> f \in Fam /\ HasBit(f, i)
BY DEF PoolAddresses, HasBit

LEMMA HeldIsExact == HeldExact
BY DEF HeldExact, Held, Has

LEMMA HeldIsExactNext == HeldExact'
BY HeldIsExact, PTL

LEMMA FreeIsExact == FreeExact
BY DEF FreeExact, FreeAddresses, Taken

LEMMA FreeIsExactNext == FreeExact'
BY FreeIsExact, PTL

LEMMA InitMaps == Init => Atomic!Init
<1> SUFFICES ASSUME Init PROVE Atomic!Init
  OBVIOUS
<1>1. \A c \in Clients : pc[c] = "idle"
  BY DEF Init
<1>2. \A c \in Clients : Held(c) = {}
  BY <1>1 DEF Held, Owns
<1>3. [c \in Clients |-> Held(c)] = [c \in Clients |-> {}]
  BY <1>2
<1>4. FreeAddresses \subseteq PoolAddresses /\ unwritten = FALSE
  BY FreeIsExact DEF FreeExact, Init
<1> QED BY <1>3, <1>4 DEF Atomic!Init

LEMMA NextMaps == IInv /\ [Next]_vars => [Atomic!Next]_(Atomic!vars)
<1> SUFFICES ASSUME IInv, [Next]_vars PROVE [Atomic!Next]_(Atomic!vars)
  OBVIOUS
<1> DEFINE F == FreeAddresses
           G == FreeAddresses'
           H == [c \in Clients |-> Held(c)]
           K == [c \in Clients |-> Held(c)]'
<1>1. unwritten \in BOOLEAN /\ unwritten' \in BOOLEAN
  BY NextIInv DEF IInv, TypeOK
<1>2. /\ \A c \in Clients : \A h : h \in H[c] <=> \E f \in Fam : \E i : h = <<f, i>> /\ Has(c, f, i)
      /\ \A c \in Clients : \A h :
            h \in K[c] <=> \E f \in Fam : \E i : h = <<f, i>> /\ Has(c, f, i)'
  BY HeldIsExact, HeldIsExactNext DEF HeldExact
<1>3. /\ F \subseteq PoolAddresses /\ G \subseteq PoolAddresses
      /\ \A f, i : <<f, i>> \in F <=> <<f, i>> \in PoolAddresses /\ i \notin Taken(f)
      /\ \A f, i : <<f, i>> \in G <=> <<f, i>> \in PoolAddresses /\ i \notin Taken(f)'
  BY FreeIsExact, FreeIsExactNext DEF FreeExact, PoolAddresses
<1>4. H = [c \in Clients |-> H[c]] /\ K = [c \in Clients |-> K[c]]
  OBVIOUS
<1>5. /\ \A c \in Clients, f \in Fam : \A i : <<f, i>> \in H[c] <=> Has(c, f, i)
      /\ \A c \in Clients, f \in Fam : \A i : <<f, i>> \in K[c] <=> Has(c, f, i)'
      /\ \A c \in Clients : H[c] \subseteq PoolAddresses /\ K[c] \subseteq PoolAddresses
  <2>1. ASSUME NEW f \in Fam, NEW i, NEW g \in Fam, NEW j, <<f, i>> = <<g, j>>
        PROVE  f = g /\ i = j
    BY <2>1
  <2>2. ASSUME NEW c \in Clients, NEW f \in Fam, NEW i
        PROVE  /\ Has(c, f, i) => <<f, i>> \in PoolAddresses
               /\ Has(c, f, i)' => <<f, i>> \in PoolAddresses
    BY PoolFacts DEF Has, Owns, HasBit
  <2> HIDE DEF H, K
  <2> QED BY <1>2, <2>1, <2>2
<1> HIDE DEF F, G, H, K
<1>6. ASSUME UNCHANGED vars PROVE UNCHANGED Atomic!vars
  <2>1. FreeAddresses' = FreeAddresses
    BY <1>6 DEF vars, FreeAddresses, PoolAddresses, CreateAllocationArray
  <2>2. \A c \in Clients : Held(c)' = Held(c)
    BY <1>6 DEF vars, Held, Owns, HasBit
  <2> QED BY <1>6, <2>1, <2>2 DEF vars, Atomic!vars
<1>7. ASSUME Next PROVE Atomic!Next \/ UNCHANGED Atomic!vars
  <2>1. PICK c \in Clients :
           /\ Effect(c)
           /\ \A d \in Clients : d # c => \A f \in Fam : \A i : Has(d, f, i)' <=> Has(d, f, i)
    BY <1>7, NextEffect
  <2>2. \A d \in Clients : d # c => K[d] = H[d]
    BY <1>2, <2>1
  <2>3. K = [H EXCEPT ![c] = K[c]]
    BY <1>4, <2>2
  <2>4. ASSUME unwritten = FALSE, unwritten' = FALSE,
               Atomic!Acquire(c) \/ Atomic!Release(c) \/ Atomic!Fail(c)
        PROVE  Atomic!Next
    BY <2>4 DEF Atomic!Next
  <2>5. CASE unwritten' = TRUE
    BY <2>5 DEF Atomic!Next
  <2>6. CASE unwritten' = FALSE
    <3>1. unwritten = FALSE /\ (Keeps(c) \/ Gets(c) \/ GivesBack(c) \/ Errs(c))
      BY <1>1, <2>1, <2>6 DEF Effect
    <3>2. CASE Keeps(c)
      <4>1. K[c] = H[c]
        BY <1>2, <3>2 DEF Keeps
      <4>2. K = H
        BY <1>4, <2>2, <4>1
      <4>3. G = F
        <5>1. \A h \in PoolAddresses : h \in G <=> h \in F
          BY <1>3, <3>2, PoolFacts DEF Keeps
        <5> QED BY <1>3, <5>1
      <4> QED BY <2>6, <3>1, <4>2, <4>3 DEF Atomic!vars, F, G, H, K
    <3>3. CASE Gets(c)
      <4>1. H[c] = {}
        BY <1>2, <3>3 DEF Gets
      <4>2. ASSUME NEW h \in PoolAddresses
            PROVE  (h \in G <=> h \in F /\ h \notin K[c]) /\ (h \in K[c] => h \in F)
        <5>1. PICK f \in Fam : \E i : h = <<f, i>>
          BY PoolFacts
        <5>i. PICK i : h = <<f, i>>
          BY <5>1
        <5>2. /\ h \in K[c] <=> Has(c, f, i)'
              /\ h \in F <=> i \notin Taken(f)
              /\ h \in G <=> i \notin Taken(f)'
          BY <1>3, <1>5, <5>i
        <5> QED BY <3>3, <5>2 DEF Gets
      <4>3. K[c] \subseteq F /\ G = F \ K[c]
        BY <1>3, <1>5, <4>2
      <4>4. Atomic!Acquire(c)
        BY <2>3, <4>1, <4>3 DEF Atomic!Acquire, Atomic!Only, F, G, H, K
      <4> QED BY <2>4, <2>6, <3>1, <4>4
    <3>4. CASE GivesBack(c)
      <4>1. ASSUME NEW h \in PoolAddresses
            PROVE  /\ h \in K[c] => h \in H[c]
                   /\ h \in G <=> h \in F \/ (h \in H[c] /\ h \notin K[c])
        <5>1. PICK f \in Fam : \E i : h = <<f, i>>
          BY PoolFacts
        <5>i. PICK i : h = <<f, i>>
          BY <5>1
        <5>2. /\ h \in H[c] <=> Has(c, f, i)
              /\ h \in K[c] <=> Has(c, f, i)'
              /\ h \in F <=> i \notin Taken(f)
              /\ h \in G <=> i \notin Taken(f)'
          BY <1>3, <1>5, <5>i
        <5> QED BY <3>4, <5>2 DEF GivesBack
      <4>2. K[c] \subseteq H[c] /\ G = F \cup (H[c] \ K[c])
        BY <1>3, <1>5, <4>1
      <4>3. Atomic!Release(c)
        BY <2>3, <4>2 DEF Atomic!Release, Atomic!Only, F, G, H, K
      <4> QED BY <2>4, <2>6, <3>1, <4>3
    <3>5. CASE Errs(c)
      <4>1. K[c] = {} /\ K = [H EXCEPT ![c] = {}]
        BY <1>2, <2>3, <3>5 DEF Errs
      <4>2. CASE \A f \in Fam : \A i : ~Has(c, f, i) /\ (i \in Taken(f) => i \in Taken(f)')
        <5>1. H[c] = {}
          BY <1>2, <4>2
        <5>2. G \subseteq F
          BY <1>3, <4>2, PoolFacts
        <5>3. Atomic!Fail(c)
          BY <4>1, <5>1, <5>2 DEF Atomic!Fail, F, G, H, K
        <5> QED BY <2>4, <2>6, <3>1, <5>3
      <4>3. CASE \A f \in Fam : \A i : /\ i \in Taken(f)' => i \in Taken(f)
                                       /\ i \in Taken(f) => i \in Taken(f)' \/ Has(c, f, i)
        <5>1. ASSUME NEW h \in PoolAddresses
              PROVE  /\ h \in F => h \in G
                     /\ h \in G => h \in F \/ h \in H[c]
          <6>1. PICK f \in Fam : \E i : h = <<f, i>>
            BY PoolFacts
          <6>i. PICK i : h = <<f, i>>
            BY <6>1
          <6>2. /\ h \in H[c] <=> Has(c, f, i)
                /\ h \in F <=> i \notin Taken(f)
                /\ h \in G <=> i \notin Taken(f)'
            BY <1>3, <1>5, <6>i
          <6> QED BY <4>3, <6>2
        <5>2. F \subseteq G /\ G \ F \subseteq H[c]
          BY <1>3, <5>1
        <5>3. Atomic!Fail(c)
          BY <4>1, <5>2 DEF Atomic!Fail, F, G, H, K
        <5> QED BY <2>4, <2>6, <3>1, <5>3
      <4> QED BY <3>5, <4>2, <4>3 DEF Errs
    <3> QED BY <3>1, <3>2, <3>3, <3>4, <3>5
  <2> QED BY <1>1, <2>5, <2>6
<1> QED BY <1>6, <1>7

\* The read-modify-write loops of Reserve and Free implement an allocator with a lock, for
\* any number of clients, conflicts and failures: both addresses of a Reserve are taken in
\* one step and from nobody, each Free gives back one address in one step, and an error
\* never touches what another client holds, until a Reserve returns without a PUT.
THEOREM AllocatorImplemented == Spec => ImplementsAllocator
<1>1. Init => Atomic!Init
  BY InitMaps
<1>2. IInv /\ [Next]_vars => [Atomic!Next]_(Atomic!vars)
  BY NextMaps
<1> QED BY <1>1, <1>2, IInvHolds, PTL DEF Spec, ImplementsAllocator, Atomic!Spec

=============================================================================
