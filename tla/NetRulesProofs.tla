--------------------------- MODULE NetRulesProofs ---------------------------
(***************************************************************************)
(* Proofs about module NetRules, for addresses of any width and any set of   *)
(* manifests: what the admission webhook lets through is sound, the search   *)
(* for an address computes the closed form that the other modules use, and   *)
(* panics have the causes the model names.                                   *)
(***************************************************************************)
EXTENDS NetRules, WellFoundedInduction, TLAPS

-----------------------------------------------------------------------------
(* Powers of two                                                             *)

\* Induction over the natural numbers, for a set of them.
LEMMA SetInduction ==
    ASSUME NEW S \in SUBSET Nat, 0 \in S, \A n \in S : n + 1 \in S
    PROVE  \A n \in Nat : n \in S
<1> DEFINE R == {ss \in Nat \X Nat : ss[1] < ss[2]}
           T == Nat \ S
<1>1. SUFFICES ASSUME T # {} PROVE FALSE
  OBVIOUS
<1>2. IsWellFoundedOn(R, Nat)
  BY NatLessThanWellFounded DEF OpToRel
<1>3. PICK x \in T : \A y \in T : ~ (<<y, x>> \in R)
  <2>1. T \subseteq Nat
    OBVIOUS
  <2> HIDE DEF R, T
  <2> QED BY <1>1, <1>2, <2>1, WFMin, Zenon
<1>4. x - 1 \in Nat /\ x = (x - 1) + 1
  OBVIOUS
<1>5. <<x - 1, x>> \in R
  BY <1>4
<1> QED BY <1>3, <1>4, <1>5

\* The table of powers that Exp2(n) looks into.
Powers(p, n) == \A k \in 0 .. n : p[k] = IF k = 0 THEN 1 ELSE 2 * p[k - 1]

LEMMA PowersExist ==
    \A n \in Nat : \E p \in [0 .. n -> Nat \ {0}] : Powers(p, n)
<1> DEFINE S == {n \in Nat : \E p \in [0 .. n -> Nat \ {0}] : Powers(p, n)}
<1>1. 0 \in S
  <2> DEFINE p == [k \in 0 .. 0 |-> 1]
  <2>1. p \in [0 .. 0 -> Nat \ {0}] /\ Powers(p, 0)
    BY DEF Powers
  <2> QED BY <2>1
<1>2. ASSUME NEW n \in S PROVE n + 1 \in S
  <2>1. n \in Nat /\ n + 1 \in Nat /\ n \in 0 .. n
    OBVIOUS
  <2>2. PICK p \in [0 .. n -> Nat \ {0}] : Powers(p, n)
    OBVIOUS
  <2> DEFINE q == [k \in 0 .. n + 1 |-> IF k = n + 1 THEN 2 * p[n] ELSE p[k]]
  <2>3. p[n] \in Nat \ {0}
    BY <2>1
  <2>4. 2 * p[n] \in Nat \ {0}
    BY <2>3
  <2>5. /\ q \in [0 .. n + 1 -> Nat \ {0}]
        /\ q[n + 1] = 2 * p[n] /\ \A k \in 0 .. n : q[k] = p[k]
    BY <2>1, <2>4
  <2>6. Powers(q, n + 1)
    <3> SUFFICES ASSUME NEW k \in 0 .. n + 1
                 PROVE  q[k] = IF k = 0 THEN 1 ELSE 2 * q[k - 1]
      BY DEF Powers
    <3> HIDE DEF q
    <3>1. CASE k = n + 1
      BY <2>1, <2>5, <3>1
    <3>2. CASE k # n + 1
      <4>1. k \in 0 .. n /\ (k # 0 => k - 1 \in 0 .. n)
        BY <2>1, <3>2
      <4> QED BY <2>2, <2>5, <4>1 DEF Powers
    <3> QED BY <3>1, <3>2
  <2> QED BY <2>1, <2>5, <2>6
<1>3. S \subseteq Nat
  OBVIOUS
<1>4. \A n \in Nat : n \in S
  <2> HIDE DEF S
  <2> QED BY <1>1, <1>2, <1>3, SetInduction
<1> QED BY <1>4

LEMMA Exp2Powers ==
    ASSUME NEW n \in Nat
    PROVE  \E p : Powers(p, n) /\ Exp2(n) = p[n]
<1> DEFINE B(p) == [k \in 0 .. n |-> IF k = 0 THEN 1 ELSE 2 * p[k - 1]]
           g == CHOOSE p : p = B(p)
<1>1. PICK p \in [0 .. n -> Nat \ {0}] : Powers(p, n)
  BY PowersExist
<1>2. p = B(p)
  BY <1>1 DEF Powers
<1>3. g = B(g)
  <2> HIDE DEF B
  <2> QED BY <1>2, Zenon
<1>4. Exp2(n) = g[n]
  BY DEF Exp2
<1>5. Powers(g, n)
  <2>1. \A k \in 0 .. n : B(g)[k] = IF k = 0 THEN 1 ELSE 2 * g[k - 1]
    OBVIOUS
  <2> HIDE DEF g, B
  <2> QED BY <1>3, <2>1 DEF Powers
<1> QED BY <1>4, <1>5

\* Two tables agree where both have an entry.
LEMMA PowersUnique ==
    ASSUME NEW m \in Nat, NEW n \in Nat, m <= n, NEW p, NEW q, Powers(p, m), Powers(q, n)
    PROVE  p[m] = q[m]
<1> DEFINE S == {k \in Nat : k <= m => p[k] = q[k]}
<1>1. 0 \in S
  BY DEF Powers
<1>2. ASSUME NEW k \in S PROVE k + 1 \in S
  <2>1. SUFFICES ASSUME k + 1 <= m PROVE p[k + 1] = q[k + 1]
    OBVIOUS
  <2>2. k + 1 \in 0 .. m /\ k + 1 \in 0 .. n /\ k + 1 # 0 /\ (k + 1) - 1 = k /\ p[k] = q[k]
    BY <2>1
  <2>3. p[k + 1] = 2 * p[k] /\ q[k + 1] = 2 * q[k]
    BY <2>2 DEF Powers
  <2> QED BY <2>2, <2>3
<1>3. S \subseteq Nat
  OBVIOUS
<1>4. m \in S
  <2> HIDE DEF S
  <2> QED BY <1>1, <1>2, <1>3, SetInduction
<1> QED BY <1>4

LEMMA Exp2Step ==
    /\ Exp2(0) = 1
    /\ \A n \in Nat : Exp2(n + 1) = 2 * Exp2(n)
<1>1. Exp2(0) = 1
  <2>1. PICK p : Powers(p, 0) /\ Exp2(0) = p[0]
    BY Exp2Powers
  <2> QED BY <2>1 DEF Powers
<1>2. ASSUME NEW n \in Nat PROVE Exp2(n + 1) = 2 * Exp2(n)
  <2>1. n + 1 \in Nat /\ n <= n + 1 /\ n + 1 \in 0 .. n + 1 /\ n + 1 # 0 /\ (n + 1) - 1 = n
    OBVIOUS
  <2>2. PICK p : Powers(p, n) /\ Exp2(n) = p[n]
    BY Exp2Powers
  <2>3. PICK q : Powers(q, n + 1) /\ Exp2(n + 1) = q[n + 1]
    BY <2>1, Exp2Powers
  <2>4. p[n] = q[n]
    BY <2>1, <2>2, <2>3, PowersUnique
  <2>5. q[n + 1] = 2 * q[n]
    BY <2>1, <2>3 DEF Powers
  <2> QED BY <2>2, <2>3, <2>4, <2>5
<1> QED BY <1>1, <1>2

LEMMA Exp2Positive == \A n \in Nat : Exp2(n) \in Nat \ {0}
<1> DEFINE S == {n \in Nat : Exp2(n) \in Nat \ {0}}
<1>1. 0 \in S
  BY Exp2Step
<1>2. ASSUME NEW n \in S PROVE n + 1 \in S
  <2>1. n \in Nat /\ Exp2(n + 1) = 2 * Exp2(n) /\ Exp2(n) \in Nat \ {0}
    BY Exp2Step
  <2> QED BY <2>1
<1>3. S \subseteq Nat
  OBVIOUS
<1>4. \A n \in Nat : n \in S
  <2> HIDE DEF S
  <2> QED BY <1>1, <1>2, <1>3, SetInduction
<1> QED BY <1>4

LEMMA Exp2Monotonic == \A m, n \in Nat : m <= n => Exp2(m) <= Exp2(n)
<1> SUFFICES ASSUME NEW m \in Nat PROVE \A n \in Nat : m <= n => Exp2(m) <= Exp2(n)
  OBVIOUS
<1> DEFINE S == {k \in Nat : Exp2(m) <= Exp2(m + k)}
<1>1. 0 \in S
  BY Exp2Positive
<1>2. ASSUME NEW k \in S PROVE k + 1 \in S
  <2>1. m + k \in Nat /\ m + (k + 1) = (m + k) + 1 /\ Exp2(m) <= Exp2(m + k)
    OBVIOUS
  <2>2. /\ Exp2((m + k) + 1) = 2 * Exp2(m + k)
        /\ Exp2(m) \in Nat /\ Exp2(m + k) \in Nat
    BY <2>1, Exp2Step, Exp2Positive
  <2> QED BY <2>1, <2>2
<1>3. S \subseteq Nat
  OBVIOUS
<1>4. \A k \in Nat : k \in S
  <2> HIDE DEF S
  <2> QED BY <1>1, <1>2, <1>3, SetInduction
<1>5. ASSUME NEW n \in Nat, m <= n PROVE Exp2(m) <= Exp2(n)
  <2>1. n - m \in Nat /\ m + (n - m) = n
    BY <1>5
  <2>2. Exp2(m) <= Exp2(m + (n - m))
    BY <1>4, <2>1
  <2> QED BY <2>1, <2>2
<1> QED BY <1>5

-----------------------------------------------------------------------------
(* Subnets, indexes and bitmaps                                              *)

LEMMA Widths ==
    /\ V4Bits \in Nat \ {0} /\ V6Bits \in Nat \ {0} /\ IndexBits \in Nat \ {0}
    /\ CapBits \in Nat \ {0} /\ ByteBits \in Nat \ {0}
    /\ CapBits <= V4Bits /\ V4Bits = IndexBits /\ V4Bits < V6Bits
    /\ Exp2(IndexBits) \in Nat \ {0} /\ Capacity \in Nat \ {0} /\ Capacity <= Exp2(IndexBits)
    /\ MaxV6PrefixLength \in Nat /\ MaxV6PrefixLength <= V6Bits /\ MaxV4MaskLength \in Nat
<1>1. /\ V4Bits \in Nat \ {0} /\ V6Bits \in Nat \ {0} /\ IndexBits \in Nat \ {0}
      /\ CapBits \in Nat \ {0} /\ ByteBits \in Nat \ {0}
      /\ CapBits <= V4Bits /\ V4Bits = IndexBits /\ V4Bits < V6Bits
  BY NetRulesAssumption
<1>2. /\ Exp2(IndexBits) \in Nat \ {0} /\ Capacity \in Nat \ {0} /\ Capacity <= Exp2(IndexBits)
  BY <1>1, Exp2Positive, Exp2Monotonic DEF Capacity
<1> QED BY <1>1, <1>2 DEF MaxV6PrefixLength, MaxV4MaskLength

LEMMA CidrFacts ==
    ASSUME NEW c \in Cidrs
    PROVE  /\ c.base \in Nat /\ c.prefix \in Nat /\ Bits(c.fam) - c.prefix \in Nat
           /\ Size(c) \in Nat \ {0}
           /\ c.prefix # Bits(c.fam) => Size(c) >= 2
<1>1. /\ c.base \in Nat /\ c.prefix \in Nat /\ c.prefix <= Bits(c.fam)
      /\ Bits(c.fam) \in Nat
  BY Widths DEF Cidrs, Bits
<1>2. Bits(c.fam) - c.prefix \in Nat
  BY <1>1
<1>3. Size(c) \in Nat \ {0}
  BY <1>2, Exp2Positive DEF Size
<1>4. ASSUME c.prefix # Bits(c.fam) PROVE Size(c) >= 2
  <2>1. 1 \in Nat /\ 1 <= Bits(c.fam) - c.prefix
    BY <1>1, <1>4
  <2>2. Exp2(1) <= Size(c)
    BY <1>2, <2>1, Exp2Monotonic DEF Size
  <2>3. Exp2(1) = 2
    <3>1. Exp2(0 + 1) = 2 * Exp2(0) /\ Exp2(0) = 1 /\ 0 + 1 = 1
      BY Exp2Step
    <3> QED BY <3>1
  <2> QED BY <1>3, <2>2, <2>3
<1> QED BY <1>1, <1>2, <1>3, <1>4

\* An index fits in the width of an index ...
LEMMA IndexType ==
    ASSUME NEW c \in Cidrs, NEW ip \in Int
    PROVE  GetIndexOfIp(ip, c) \in 0 .. Exp2(IndexBits) - 1
<1>1. c.base \in Int /\ Exp2(IndexBits) \in Nat \ {0}
  BY CidrFacts, Widths
<1>2. ASSUME NEW n \in Nat \ {0}, NEW d \in Int PROVE d % n \in 0 .. n - 1
  OBVIOUS
<1>3. /\ ip - c.base \in Int /\ c.base - ip \in Int
  BY <1>1
<1> QED BY <1>1, <1>2, <1>3 DEF GetIndexOfIp

\* ... and is the distance from the base of the subnet for an address of a subnet that is
\* not too large.
LEMMA IndexInside ==
    ASSUME NEW c \in Cidrs, NEW ip \in Int, Contains(c, ip), Size(c) <= Capacity
    PROVE  /\ GetIndexOfIp(ip, c) = ip - c.base
           /\ GetIndexOfIp(ip, c) \in 0 .. Size(c) - 1
<1>1. /\ c.base \in Nat /\ Size(c) \in Nat /\ Exp2(IndexBits) \in Nat \ {0}
      /\ Size(c) <= Exp2(IndexBits)
  BY CidrFacts, Widths
<1>2. ip - c.base \in 0 .. Size(c) - 1 /\ ip >= c.base
  BY <1>1 DEF Contains
<1>3. ASSUME NEW n \in Nat \ {0}, NEW d \in Int, 0 <= d, d < n PROVE d % n = d
  BY <1>3
<1>4. (ip - c.base) % Exp2(IndexBits) = ip - c.base
  BY <1>1, <1>2, <1>3
<1> QED BY <1>2, <1>4 DEF GetIndexOfIp

LEMMA RoomFacts ==
    ASSUME NEW n \in Nat
    PROVE  Room(n) \in Nat /\ Room(n) >= n
<1>1. ByteBits \in Nat \ {0}
  BY Widths
<1>2. ASSUME NEW b \in Nat \ {0}
      PROVE  ((n + b - 1) \div b) * b \in Nat /\ ((n + b - 1) \div b) * b >= n
  <2>1. n + b - 1 \in Nat
    OBVIOUS
  <2>2. (n + b - 1) \div b \in Nat
    BY <2>1
  <2>3. ((n + b - 1) \div b) * b >= n
    OBVIOUS
  <2> QED BY <2>2, <2>3
<1> QED BY <1>1, <1>2 DEF Room

\* The bitmap of a subnet has a bit for each of its addresses, and those of the first and
\* the last address and of the gateways in the subnet are set.
LEMMA ArrayFacts ==
    ASSUME NEW c \in Cidrs, Size(c) <= Capacity, NEW gws \in SUBSET Nat,
           NEW a, a = CreateAllocationArray(c, gws)
    PROVE  /\ a \in [room : Nat, bits : SUBSET Nat]
           /\ a # NoAlloc
           /\ a.room >= Size(c)
           /\ {0, Size(c) - 1} \subseteq a.bits
           /\ \A g \in gws : Contains(c, g) => g - c.base \in a.bits
           /\ \A p \in a.bits : p >= a.room =>
                 \E g \in gws : ~Contains(c, g) /\ GetIndexOfIp(g, c) = Size(c)
<1>1. /\ a.room = Room(Size(c))
      /\ a.bits = {0, Size(c) - 1} \cup {p \in {GetIndexOfIp(g, c) : g \in gws} : p <= Size(c)}
      /\ a = [room |-> a.room, bits |-> a.bits]
  BY DEF CreateAllocationArray
<1>2. Size(c) \in Nat \ {0} /\ c.base \in Nat
  BY CidrFacts
<1>3. a.room \in Nat /\ a.room >= Size(c)
  BY <1>1, <1>2, RoomFacts
<1>4. \A g \in gws : GetIndexOfIp(g, c) \in Nat
  BY IndexType, Widths
<1>5. \A g \in gws :
          Contains(c, g) => GetIndexOfIp(g, c) = g - c.base /\ g - c.base \in 0 .. Size(c) - 1
  BY IndexInside
<1>6. a.bits \in SUBSET Nat /\ 0 \in a.bits
  BY <1>1, <1>2, <1>4
<1>7. a # NoAlloc
  BY <1>6 DEF NoAlloc
<1>8. ASSUME NEW g \in gws, Contains(c, g) PROVE g - c.base \in a.bits
  <2>1. GetIndexOfIp(g, c) = g - c.base /\ g - c.base <= Size(c)
    BY <1>2, <1>5, <1>8
  <2> QED BY <1>1, <2>1
<1>9. ASSUME NEW p \in a.bits, p >= a.room
      PROVE  \E g \in gws : ~Contains(c, g) /\ GetIndexOfIp(g, c) = Size(c)
  <2>1. p \in Nat /\ p >= Size(c)
    BY <1>2, <1>3, <1>6, <1>9
  <2>2. PICK g \in gws : p = GetIndexOfIp(g, c) /\ p <= Size(c)
    BY <1>1, <1>2, <2>1
  <2>3. p = Size(c)
    BY <1>2, <2>1, <2>2
  <2>4. ~Contains(c, g)
    <3> SUFFICES ASSUME Contains(c, g) PROVE FALSE
      OBVIOUS
    <3>1. Size(c) \in 0 .. Size(c) - 1
      BY <1>5, <2>2, <2>3
    <3> QED BY <1>2, <3>1
  <2> QED BY <2>2, <2>3, <2>4
<1> QED BY <1>1, <1>3, <1>6, <1>7, <1>8, <1>9

\* The prefix chosen for the V6 pool leaves room for the V4 pool.
LEMMA PrefixFacts ==
    ASSUME NEW m \in Manifest, NEW p, p = GetMaxUsableV6Prefix(m)
    PROVE  /\ p \in Nat /\ p <= V6Bits /\ MaxV6PrefixLength <= p
           /\ m.v4.net = NoCidr => p = MaxV6PrefixLength
           /\ m.v4.net # NoCidr /\ p # V6Bits => Exp2(V6Bits - p) < Capacity - Size(m.v4.net)
<1> DEFINE fits == {q \in MaxV6PrefixLength .. V6Bits :
                        Exp2(V6Bits - q) < Capacity - Size(m.v4.net)}
<1>1. /\ MaxV6PrefixLength \in Nat /\ V6Bits \in Nat /\ MaxV6PrefixLength <= V6Bits
  BY Widths
<1>2. CASE m.v4.net = NoCidr
  BY <1>1, <1>2 DEF GetMaxUsableV6Prefix
<1>3. CASE m.v4.net # NoCidr
  <2>1. p = IF fits = {} THEN V6Bits ELSE CHOOSE q \in fits : \A r \in fits : q <= r
    BY <1>3 DEF GetMaxUsableV6Prefix
  <2>2. fits \subseteq Nat
    BY <1>1
  <2>3. ASSUME fits # {} PROVE p \in fits
    <3> DEFINE R == {ss \in Nat \X Nat : ss[1] < ss[2]}
    <3>1. IsWellFoundedOn(R, Nat)
      BY NatLessThanWellFounded DEF OpToRel
    <3>2. PICK x \in fits : \A y \in fits : ~ (<<y, x>> \in R)
      <4> HIDE DEF R, fits
      <4> QED BY <2>2, <2>3, <3>1, WFMin, Zenon
    <3> HIDE DEF fits
    <3>3. ASSUME NEW y \in fits PROVE x <= y
      <4>1. x \in Nat /\ y \in Nat
        BY <2>2
      <4>2. <<y, x>> \in Nat \X Nat /\ <<y, x>>[1] = y /\ <<y, x>>[2] = x
        BY <4>1
      <4>3. ~(y < x)
        BY <3>2, <4>2, Zenon
      <4> QED BY <4>1, <4>3
    <3> QED BY <2>1, <2>3, <3>3
  <2>4. CASE fits = {}
    BY <1>1, <1>3, <2>1, <2>4
  <2>5. CASE fits # {}
    BY <1>1, <1>3, <2>3, <2>5
  <2> QED BY <2>4, <2>5
<1> QED BY <1>2, <1>3

-----------------------------------------------------------------------------
(* What the webhook lets through                                             *)

\* A pool is complete, with its ends in its CIDR, or there is nothing of it.
PoolSound(s) ==
    IF s.cidr = NoCidr THEN s.start = Unset /\ s.alloc = NoAlloc
    ELSE /\ Size(s.cidr) <= Capacity
         /\ Inside(s.net, s.cidr)
         /\ Contains(s.cidr, s.start) /\ Contains(s.cidr, s.end) /\ s.start < s.end
         /\ s.alloc # NoAlloc

\* The bitmap is one of the allocation CIDR and of the gateways.
BitsSound(s) ==
    s.cidr # NoCidr =>
        /\ s.alloc.room >= Size(s.cidr)
        /\ {0, Size(s.cidr) - 1} \subseteq s.alloc.bits
        /\ \A g \in s.gws : Contains(s.cidr, g) => g - s.cidr.base \in s.alloc.bits

SizeOf(s) == IF s.cidr = NoCidr THEN 0 ELSE Size(s.cidr)

NetSound(n) ==
    /\ PoolSound(n.v4) /\ PoolSound(n.v6)
    /\ SizeOf(n.v4) + SizeOf(n.v6) <= Capacity
    /\ validateVids(n)

\* A manifest on its way into the webhook: what is left of a pool includes its ends.
Ready(m) ==
    /\ m \in Manifest
    /\ m.v4.cidr # NoCidr \/ m.v4.alloc # NoAlloc => m.v4.start # Unset
    /\ m.v6.alloc # NoAlloc => m.v6.start # Unset

\* The pool InitAllocPool makes of a part with a sound CIDR.
LEMMA InitAllocPoolResult ==
    ASSUME NEW m \in Manifest, NEW fam \in Fam, NEW c, c = AllocCidr(m, fam), c \in Cidrs,
           c # NoCidr, Size(c) <= Capacity, Inside(m[fam].net, c),
           NEW s, s = InitAllocPool(m, fam),
           Contains(c, s.start), Contains(c, s.end), s.end > s.start
    PROVE  /\ s \in Part /\ s.cidr = c /\ PoolSound(s) /\ SizeOf(s) = Size(c)
           /\ s.gws = m[fam].gws
           /\ s.alloc = m[fam].alloc \/ BitsSound(s)
<1> DEFINE q == m[fam]
           a == CreateAllocationArray(c, q.gws)
<1>1. q \in Part
  BY DEF Manifest, Fam
<1>2. s = [q EXCEPT !.cidr = c,
                    !.start = IF @ = Unset THEN c.base + 1 ELSE @,
                    !.end = IF @ = Unset THEN c.base + Size(c) - 2 ELSE @,
                    !.alloc = IF @ = NoAlloc THEN a ELSE @]
  BY DEF InitAllocPool
<1> HIDE DEF q, a
<1>3. /\ s.cidr = c /\ s.net = q.net /\ s.gws = q.gws /\ s.last = q.last /\ s.plain = q.plain
      /\ s.alloc = IF q.alloc = NoAlloc THEN a ELSE q.alloc
      /\ s = [net |-> s.net, cidr |-> s.cidr, gws |-> s.gws, start |-> s.start, end |-> s.end,
              last |-> s.last, plain |-> s.plain, alloc |-> s.alloc]
  BY <1>1, <1>2 DEF Part
<1>4. q.gws \in SUBSET Nat /\ q.net \in Cidrs /\ q.alloc \in [room : Nat, bits : SUBSET Nat]
      /\ q.last \in {Unset} \cup Nat /\ q.plain \in BOOLEAN
  BY <1>1 DEF Part
<1>5. /\ a \in [room : Nat, bits : SUBSET Nat] /\ a # NoAlloc
      /\ a.room >= Size(c) /\ {0, Size(c) - 1} \subseteq a.bits
      /\ \A g \in q.gws : Contains(c, g) => g - c.base \in a.bits
  BY <1>4, ArrayFacts DEF a
<1>6. s.start \in Nat /\ s.end \in Nat
  BY CidrFacts DEF Contains
<1>7. s \in Part /\ s.alloc # NoAlloc
  BY <1>3, <1>4, <1>5, <1>6 DEF Part
<1>8. PoolSound(s) /\ SizeOf(s) = Size(c)
  BY <1>3, <1>6, <1>7 DEF PoolSound, SizeOf, q
<1>9. s.alloc = q.alloc \/ BitsSound(s)
  <2>1. CASE s.alloc = a
    BY <1>3, <1>5, <2>1 DEF BitsSound
  <2> QED BY <1>3, <2>1
<1> QED BY <1>3, <1>7, <1>8, <1>9 DEF q

\* The V4 part of a manifest that passes validateAllocV4.
LEMMA V4Admitted ==
    ASSUME NEW m, Ready(m), validateAllocV4(m), NEW s,
           s = IF m.v4.net = NoCidr THEN m.v4 ELSE InitAllocPool(m, "v4")
    PROVE  /\ s \in Part /\ PoolSound(s)
           /\ SizeOf(s) = IF m.v4.net = NoCidr THEN 0 ELSE Size(m.v4.net)
           /\ s.gws = m.v4.gws
           /\ s.alloc = m.v4.alloc \/ BitsSound(s)
<1>1. m \in Manifest /\ m.v4 \in Part /\ m.v4.net \in Cidrs
  BY DEF Ready, Manifest, Part
<1>2. CASE m.v4.net = NoCidr
  BY <1>1, <1>2 DEF validateAllocV4, Ready, PoolSound, SizeOf
<1>3. CASE m.v4.net # NoCidr
  <2> DEFINE c == m.v4.net
  <2>1. /\ c.fam = "v4" /\ c.prefix >= MaxV4MaskLength
        /\ Contains(c, s.start) /\ Contains(c, s.end) /\ s.end > s.start
        /\ s = InitAllocPool(m, "v4")
    BY <1>3 DEF validateAllocV4
  <2>2. c = AllocCidr(m, "v4")
    BY DEF AllocCidr
  <2>3. Size(c) <= Capacity
    <3>1. /\ c.prefix \in Nat /\ V4Bits - c.prefix \in Nat /\ V4Bits - c.prefix <= CapBits
          /\ CapBits \in Nat
      BY <1>1, <2>1, CidrFacts, Widths DEF Bits, MaxV4MaskLength
    <3>2. Exp2(V4Bits - c.prefix) <= Exp2(CapBits)
      BY <3>1, Exp2Monotonic
    <3> QED BY <2>1, <3>2 DEF Size, Bits, Capacity
  <2>4. Inside(c, c)
    BY <1>1, CidrFacts DEF Inside, Contains
  <2> HIDE DEF c
  <2>5. c \in Cidrs /\ c # NoCidr /\ Inside(m["v4"].net, c) /\ "v4" \in Fam
    BY <1>1, <1>3, <2>4 DEF c, Fam
  <2>6. /\ s \in Part /\ s.cidr = c /\ PoolSound(s) /\ SizeOf(s) = Size(c)
        /\ s.gws = m["v4"].gws
        /\ s.alloc = m["v4"].alloc \/ BitsSound(s)
    BY <1>1, <2>1, <2>2, <2>3, <2>5, InitAllocPoolResult
  <2> QED BY <1>3, <2>6 DEF c
<1> QED BY <1>2, <1>3

\* The allocation CIDR of a manifest that passes the first part of validateAllocV6.
LEMMA V6Cidr ==
    ASSUME NEW m \in Manifest, m.v6.net # NoCidr, IsV6RangeValid(m), NEW c, c = AllocCidr(m, "v6")
    PROVE  /\ c \in Cidrs /\ c # NoCidr /\ Size(c) \in Nat /\ Size(c) >= 2
           /\ Size(c) <= Capacity
           /\ m.v4.net # NoCidr => Size(m.v4.net) \in Nat /\ Size(m.v4.net) + Size(c) <= Capacity
           /\ Inside(m.v6.net, c)
<1> DEFINE p == GetMaxUsableV6Prefix(m)
<1>1. /\ m.v6.net.fam = "v6" /\ c.fam = "v6" /\ c.prefix >= p /\ c.prefix # V6Bits
      /\ Inside(m.v6.net, c)
  BY DEF IsV6RangeValid
<1>2. m.v6.net \in Cidrs /\ m.v6.cidr \in Cidrs /\ m.v4.net \in Cidrs
  BY DEF Manifest, Part
<1>3. /\ p \in Nat /\ p <= V6Bits /\ MaxV6PrefixLength <= p
      /\ m.v4.net = NoCidr => p = MaxV6PrefixLength
      /\ m.v4.net # NoCidr /\ p # V6Bits => Exp2(V6Bits - p) < Capacity - Size(m.v4.net)
  BY PrefixFacts
<1>4. c \in Cidrs
  <2>1. CASE m.v6.cidr # NoCidr
    BY <1>2, <2>1 DEF AllocCidr
  <2>2. CASE m.v6.cidr = NoCidr
    <3>1. c = [m.v6.net EXCEPT !.prefix = IF p < @ THEN @ ELSE p]
      BY <2>2 DEF AllocCidr
    <3> HIDE DEF p
    <3> QED BY <1>1, <1>2, <1>3, <3>1 DEF Cidrs, Bits
  <2> QED BY <2>1, <2>2
<1> HIDE DEF p
<1>5. /\ V6Bits - c.prefix \in Nat /\ c.prefix \in Nat /\ Size(c) = Exp2(V6Bits - c.prefix)
      /\ Size(c) \in Nat /\ Size(c) >= 2
  BY <1>1, <1>4, CidrFacts DEF Bits, Size
<1>6. V6Bits \in Nat /\ CapBits \in Nat /\ Capacity \in Nat /\ MaxV6PrefixLength = V6Bits - CapBits
  BY Widths DEF MaxV6PrefixLength
<1>7. p < V6Bits /\ V6Bits - p \in Nat /\ V6Bits - c.prefix <= V6Bits - p /\ V6Bits - p <= CapBits
  BY <1>1, <1>3, <1>5, <1>6
<1>8. Size(c) <= Exp2(V6Bits - p) /\ Exp2(V6Bits - p) <= Capacity /\ Exp2(V6Bits - p) \in Nat
  BY <1>5, <1>6, <1>7, Exp2Monotonic, Exp2Positive DEF Capacity
<1>9. Size(m.v4.net) \in Nat
  BY <1>2, CidrFacts
<1>10. m.v4.net # NoCidr => Size(m.v4.net) + Size(c) <= Capacity
  BY <1>3, <1>5, <1>6, <1>7, <1>8, <1>9
<1>11. c # NoCidr
  BY <1>1 DEF NoCidr
<1> QED BY <1>1, <1>4, <1>5, <1>6, <1>8, <1>9, <1>10, <1>11

\* The V6 part of a manifest that passes validateAllocV6.
LEMMA V6Admitted ==
    ASSUME NEW m, Ready(m), validateAllocV6(m), NEW s,
           s = IF m.v6.net = NoCidr THEN m.v6 ELSE InitAllocPool(m, "v6")
    PROVE  /\ s \in Part /\ PoolSound(s)
           /\ SizeOf(s) \in Nat /\ SizeOf(s) <= Capacity
           /\ m.v4.net # NoCidr => Size(m.v4.net) \in Nat
           /\ m.v4.net # NoCidr /\ SizeOf(s) # 0 => Size(m.v4.net) + SizeOf(s) <= Capacity
           /\ s.gws = m.v6.gws
           /\ s.alloc = m.v6.alloc \/ BitsSound(s)
<1>1. m \in Manifest /\ m.v6 \in Part /\ m.v6.net \in Cidrs /\ m.v4.net \in Cidrs
      /\ m.v6.start \in {Unset} \cup Nat /\ m.v6.end \in {Unset} \cup Nat
  BY DEF Ready, Manifest, Part
<1>2. CASE m.v6.net = NoCidr
  <2>1. SizeOf(s) = 0 /\ PoolSound(s) /\ s = m.v6
    BY <1>2 DEF validateAllocV6, HasNoPool, Ready, PoolSound, SizeOf
  <2> QED BY <1>1, <2>1, Widths, CidrFacts
<1>3. CASE m.v6.net # NoCidr
  <2> DEFINE c == AllocCidr(m, "v6")
  <2>1. /\ IsV6RangeValid(m) /\ s = InitAllocPool(m, "v6") /\ s.end > s.start
    BY <1>3 DEF validateAllocV6
  <2>2. /\ c \in Cidrs /\ c # NoCidr /\ Size(c) \in Nat /\ Size(c) >= 2 /\ Size(c) <= Capacity
        /\ m.v4.net # NoCidr => Size(m.v4.net) \in Nat /\ Size(m.v4.net) + Size(c) <= Capacity
        /\ Inside(m["v6"].net, c)
    BY <1>1, <1>3, <2>1, V6Cidr
  <2>3. /\ s.start = IF m.v6.start = Unset THEN c.base + 1 ELSE m.v6.start
        /\ s.end = IF m.v6.end = Unset THEN c.base + Size(c) - 2 ELSE m.v6.end
    BY <1>1, <2>1 DEF InitAllocPool, Part
  <2>4. /\ m.v6.start # Unset => Contains(c, m.v6.start)
        /\ m.v6.end # Unset => Contains(c, m.v6.end)
    BY <2>1 DEF IsV6RangeValid
  <2> HIDE DEF c
  <2>5. Contains(c, c.base + 1) /\ Contains(c, c.base + Size(c) - 2)
    BY <2>2, CidrFacts DEF Contains
  <2>6. Contains(c, s.start) /\ Contains(c, s.end) /\ "v6" \in Fam
    BY <2>3, <2>4, <2>5 DEF Fam
  <2>7. /\ s \in Part /\ s.cidr = c /\ PoolSound(s) /\ SizeOf(s) = Size(c)
        /\ s.gws = m["v6"].gws
        /\ s.alloc = m["v6"].alloc \/ BitsSound(s)
    BY <1>1, <2>1, <2>2, <2>6, InitAllocPoolResult DEF c
  <2> QED BY <2>2, <2>7
<1> QED BY <1>2, <1>3

\* Every network the rules let through is sound, and its bitmaps are those it came with or
\* made for it.
LEMMA Admitted ==
    ASSUME NEW op, NEW old, NEW isConnected, NEW m, Ready(m),
           validateNetworkByType(op, old, m, isConnected), NEW n, n = mutateNetManifest(m)
    PROVE  /\ n \in Manifest /\ NetSound(n)
           /\ \A fam \in Fam : n[fam].alloc = m[fam].alloc \/ BitsSound(n[fam])
           /\ n.vlan = m.vlan /\ n.vxlan = m.vxlan /\ n.device = m.device /\ n.kind = m.kind
<1> DEFINE s == IF m.v4.net = NoCidr THEN m.v4 ELSE InitAllocPool(m, "v4")
           t == IF m.v6.net = NoCidr THEN m.v6 ELSE InitAllocPool(m, "v6")
<1>1. m \in Manifest /\ validateAllocV4(m) /\ validateAllocV6(m) /\ validateVids(m)
  BY DEF Ready, validateNetworkByType, validateAllocationPools
<1>2. n = [m EXCEPT !.v4 = s, !.v6 = t, !.type = IF @ = "" THEN "ipvlan" ELSE @]
  BY <1>1 DEF mutateNetManifest, Manifest
<1>3. /\ s \in Part /\ PoolSound(s)
      /\ SizeOf(s) = IF m.v4.net = NoCidr THEN 0 ELSE Size(m.v4.net)
      /\ s.alloc = m.v4.alloc \/ BitsSound(s)
  BY <1>1, V4Admitted
<1>4. /\ t \in Part /\ PoolSound(t)
      /\ SizeOf(t) \in Nat /\ SizeOf(t) <= Capacity
      /\ m.v4.net # NoCidr => Size(m.v4.net) \in Nat
      /\ m.v4.net # NoCidr /\ SizeOf(t) # 0 => Size(m.v4.net) + SizeOf(t) <= Capacity
      /\ t.alloc = m.v6.alloc \/ BitsSound(t)
  BY <1>1, V6Admitted
<1>5. SizeOf(s) <= Capacity /\ SizeOf(s) \in Nat
  <2>1. s.cidr # NoCidr => Size(s.cidr) \in Nat /\ Size(s.cidr) <= Capacity
    BY <1>3, CidrFacts DEF PoolSound, Part
  <2> QED BY <2>1, Widths DEF SizeOf
<1> HIDE DEF s, t
<1>6. /\ n.v4 = s /\ n.v6 = t /\ n.vlan = m.vlan /\ n.vxlan = m.vxlan /\ n.device = m.device
      /\ n.kind = m.kind /\ n \in Manifest
  BY <1>1, <1>2, <1>3, <1>4 DEF Manifest
<1>7. SizeOf(s) + SizeOf(t) <= Capacity
  BY <1>3, <1>4, <1>5, Widths
<1>8. NetSound(n)
  BY <1>1, <1>3, <1>4, <1>6, <1>7 DEF NetSound, validateVids
<1> QED BY <1>3, <1>4, <1>6, <1>8 DEF Fam

\* The webhook panics only on a V6 gateway at the end of the allocation CIDR.
LEMMA PanicCause ==
    ASSUME NEW op, NEW m \in Manifest, WebhookPanics(op, m)
    PROVE  \E g \in m.v6.gws : LET c == AllocCidr(m, "v6") IN
               ~Contains(c, g) /\ GetIndexOfIp(g, c) = Size(c)
<1> DEFINE c == AllocCidr(m, "v6")
           a == CreateAllocationArray(c, m.v6.gws)
<1>1. m.v6.net # NoCidr /\ IsV6RangeValid(m) /\ SetPanics(a)
  BY DEF WebhookPanics
<1>2. c \in Cidrs /\ Size(c) <= Capacity
  BY <1>1, V6Cidr
<1>3. m.v6.gws \in SUBSET Nat
  BY DEF Manifest, Part
<1>4. PICK p \in a.bits : p >= a.room
  BY <1>1 DEF SetPanics
<1> HIDE DEF a
<1>5. \E g \in m.v6.gws : ~Contains(c, g) /\ GetIndexOfIp(g, c) = Size(c)
  BY <1>2, <1>3, <1>4, ArrayFacts DEF a
<1> QED BY <1>5

-----------------------------------------------------------------------------
(***************************************************************************)
(* The inductive invariant.  A network is sound because it was admitted     *)
(* sound (Requests) and because allocations only add bits.  Its bitmaps are *)
(* sound as long as no update has kept one of another CIDR: at the time of  *)
(* the write each bitmap of the request is the stored one, or new.          *)
(***************************************************************************)
Stored ==
    net # NoNet =>
        /\ NetSound(net)
        /\ ~resized => \A fam \in Fam : BitsSound(net[fam])

\* The request that was admitted, and what it keeps for a Pod that the webhook saw.
LinkKept ==
    net # NoNet =>
        /\ req # NoNet
        /\ net.vlan # 0 \/ net.vxlan # 0 =>
               req.vlan = net.vlan /\ req.vxlan = net.vxlan /\ req.device = net.device

Requests ==
    /\ pc = "admitted" /\ req # NoNet =>
          /\ NetSound(req)
          /\ \A fam \in Fam : \/ BitsSound(req[fam])
                              \/ net # NoNet /\ req[fam].alloc = net[fam].alloc
    /\ pc = "admitted" /\ seen => LinkKept

\* The indexes the search works with, and the addresses it has to look at.
EndIndex == GetIndexOfIp(Pool.end, Pool.cidr)
FirstIndex ==
    IF LastIpIndex(Pool) >= EndIndex \/ LastIpIndex(Pool) = 0 THEN Begin ELSE LastIpIndex(Pool)
Upper == (FirstIndex .. EndIndex) \ Pool.alloc.bits
Lower == IF FirstIndex = EndIndex THEN {} ELSE (Begin + 1 .. FirstIndex) \ Pool.alloc.bits

\* The loop is on its way to the end of the pool, or has been there and is on its way to
\* where it began; every address it has passed is taken.
Upwards ==
    /\ end = EndIndex /\ FirstIndex <= i
    /\ i <= EndIndex \/ EndIndex <= FirstIndex
    /\ \A j \in Nat : FirstIndex <= j /\ j < i => j \in Pool.alloc.bits

Around ==
    /\ end = FirstIndex /\ FirstIndex < EndIndex /\ Begin < i
    /\ \A j \in Nat : FirstIndex <= j /\ j <= EndIndex => j \in Pool.alloc.bits
    /\ \A j \in Nat : Begin < j /\ j < i => j \in Pool.alloc.bits

Searching ==
    /\ pc \in {"loop", "done", "crash"} => net # NoNet /\ Pool.cidr # NoCidr
    /\ pc = "loop" => lastIpIndex = FirstIndex /\ result = Unset /\ (Upwards \/ Around)
    /\ pc = "done" =>
          \/ result \in Upper /\ \A j \in Upper : result <= j
          \/ Upper = {} /\ result \in Lower /\ \A j \in Lower : result <= j
          \/ Upper = {} /\ Lower = {} /\ result = Unset

IInv == TypeOK /\ Stored /\ Requests /\ Searching /\ PanicsHaveCause

-----------------------------------------------------------------------------
\* The indexes of a sound pool are inside of its CIDR.
LEMMA SearchFacts ==
    ASSUME net \in Manifest, f \in Fam
    PROVE  /\ Pool \in Part /\ Pool.cidr \in Cidrs
           /\ Begin \in 0 .. Exp2(IndexBits) - 1 /\ EndIndex \in 0 .. Exp2(IndexBits) - 1
           /\ LastIpIndex(Pool) \in 0 .. Exp2(IndexBits) - 1
           /\ FirstIndex \in 0 .. Exp2(IndexBits) - 1
           /\ FirstIndex = Begin \/ FirstIndex < EndIndex
           /\ Exp2(IndexBits) \in Nat \ {0}
           /\ NetSound(net) /\ Pool.cidr # NoCidr =>
                 /\ Begin < Size(Pool.cidr) /\ EndIndex < Size(Pool.cidr)
                 /\ FirstIndex < Size(Pool.cidr) /\ Size(Pool.cidr) \in Nat
<1>1. /\ Pool \in Part /\ Pool.cidr \in Cidrs
      /\ Pool.start \in Int /\ Pool.end \in Int /\ Pool.last \in Int
  <2>1. net.v4 \in Part /\ net.v6 \in Part
    BY DEF Manifest
  <2>2. Pool \in Part
    BY <2>1 DEF Pool, Fam
  <2> QED BY <2>2 DEF Part, Unset
<1>2. Exp2(IndexBits) \in Nat \ {0}
  BY Widths
<1>3. Begin \in 0 .. Exp2(IndexBits) - 1 /\ EndIndex \in 0 .. Exp2(IndexBits) - 1
  BY <1>1, IndexType DEF Begin, EndIndex
<1>4. LastIpIndex(Pool) \in 0 .. Exp2(IndexBits) - 1
  BY <1>1, <1>2, IndexType DEF LastIpIndex
<1>5. /\ FirstIndex \in 0 .. Exp2(IndexBits) - 1
      /\ FirstIndex = Begin \/ FirstIndex < EndIndex
  BY <1>2, <1>3, <1>4 DEF FirstIndex
<1>6. ASSUME NetSound(net), Pool.cidr # NoCidr
      PROVE  /\ Begin < Size(Pool.cidr) /\ EndIndex < Size(Pool.cidr)
             /\ FirstIndex < Size(Pool.cidr) /\ Size(Pool.cidr) \in Nat
  <2>1. PoolSound(Pool)
    BY <1>6 DEF NetSound, Pool, Fam
  <2>2. Begin \in 0 .. Size(Pool.cidr) - 1 /\ EndIndex \in 0 .. Size(Pool.cidr) - 1
    BY <1>1, <1>6, <2>1, IndexInside DEF PoolSound, Begin, EndIndex
  <2>3. Size(Pool.cidr) \in Nat
    BY <1>1, CidrFacts
  <2> QED BY <1>5, <2>2, <2>3
<1> QED BY <1>1, <1>2, <1>3, <1>4, <1>5, <1>6

\* What the types say, in the form the proofs use.
LEMMA TypeFacts ==
    ASSUME TypeOK
    PROVE  /\ net = NoNet \/ net \in Manifest
           /\ req = NoNet \/ req \in Manifest
           /\ f \in Fam /\ i \in Nat /\ end \in Nat /\ lastIpIndex \in Nat
           /\ result \in {Unset} \cup Nat
<1>1. Exp2(IndexBits) \in Nat \ {0}
  BY Widths
<1> QED BY <1>1 DEF TypeOK

LEMMA NoNetFacts == \A m \in Manifest : m # NoNet
<1>1. ASSUME NEW m \in Manifest PROVE m.kind \in {"DanmNet", "ClusterNetwork"}
  BY DEF Manifest
<1>2. NoNet.kind = "none"
  BY DEF NoNet
<1> QED BY <1>1, <1>2

LEMMA InitIInv == Init => IInv
<1> SUFFICES ASSUME Init PROVE IInv
  OBVIOUS
<1>1. TypeOK
  <2>1. Exp2(IndexBits) \in Nat \ {0} /\ MaxUpdates \in Nat /\ MaxScans \in Nat
    BY Widths, NetRulesAssumption
  <2>2. 0 \in 0 .. Exp2(IndexBits) /\ 0 \in 0 .. MaxUpdates /\ 0 \in 0 .. MaxScans
    BY <2>1
  <2> QED BY <2>2 DEF Init, TypeOK, Fam
<1>2. Stored /\ Requests /\ Searching /\ PanicsHaveCause
  BY DEF Init, Stored, Requests, Searching, PanicsHaveCause
<1> QED BY <1>1, <1>2 DEF IInv

\* The manifests that reach the webhook.
LEMMA CreateReady ==
    ASSUME NEW m \in Manifests, IsAllocAbsent(m)
    PROVE  Ready(m)
BY ManifestAssumption DEF Ready, IsAllocAbsent

LEMMA UpdateReady ==
    ASSUME TypeOK, Stored, net # NoNet, NEW m \in Edits, NEW e \in {m, Merge(m, net)}
    PROVE  /\ Ready(e)
           /\ \A fam \in Fam : e[fam].alloc \in {NoAlloc, net[fam].alloc}
<1>1. /\ m \in Manifest /\ net \in Manifest
      /\ m.v4.cidr = NoCidr /\ m.v4.alloc = NoAlloc /\ m.v6.alloc = NoAlloc
  BY ManifestAssumption, TypeFacts
<1>2. PoolSound(net.v4) /\ PoolSound(net.v6)
  BY DEF Stored, NetSound
<1>3. ASSUME NEW s \in Part, s.alloc = NoAlloc, NEW old \in Part, PoolSound(old)
      PROVE  /\ Merged(s, old) \in Part
             /\ Merged(s, old).alloc = old.alloc
             /\ Merged(s, old).alloc # NoAlloc => Merged(s, old).start # Unset
             /\ s.cidr = NoCidr /\ Merged(s, old).cidr # NoCidr => Merged(s, old).start # Unset
  <2> DEFINE t == Merged(s, old)
  <2>1. /\ t \in Part /\ t.alloc = old.alloc
        /\ t.cidr = IF s.cidr = NoCidr THEN old.cidr ELSE s.cidr
        /\ t.start = IF s.start = Unset THEN old.start ELSE s.start
    <3>1. t = [s EXCEPT !.alloc = old.alloc, !.last = old.last, !.plain = old.plain,
                        !.cidr = IF @ = NoCidr THEN old.cidr ELSE @,
                        !.start = IF @ = Unset THEN old.start ELSE @,
                        !.end = IF @ = Unset THEN old.end ELSE @]
      BY DEF Merged
    <3> HIDE DEF t
    <3>2. /\ t.alloc = old.alloc /\ t.last = old.last /\ t.plain = old.plain
          /\ t.cidr = IF s.cidr = NoCidr THEN old.cidr ELSE s.cidr
          /\ t.start = IF s.start = Unset THEN old.start ELSE s.start
          /\ t.end = IF s.end = Unset THEN old.end ELSE s.end
          /\ t.net = s.net /\ t.gws = s.gws
          /\ t = [net |-> t.net, cidr |-> t.cidr, gws |-> t.gws, start |-> t.start,
                  end |-> t.end, last |-> t.last, plain |-> t.plain, alloc |-> t.alloc]
      BY <3>1 DEF Part
    <3> QED BY <3>2 DEF Part
  <2>2. old.cidr # NoCidr => old.start # Unset
    BY CidrFacts, <1>3 DEF PoolSound, Contains, Part, Unset
  <2>3. old.alloc # NoAlloc => old.cidr # NoCidr
    BY <1>3 DEF PoolSound
  <2> HIDE DEF t
  <2>4. /\ t \in Part /\ t.alloc = old.alloc
        /\ t.alloc # NoAlloc => t.start # Unset
        /\ s.cidr = NoCidr /\ t.cidr # NoCidr => t.start # Unset
    BY <2>1, <2>2, <2>3
  <2> QED BY <2>4 DEF t
<1>4. CASE e = m
  BY <1>1, <1>4 DEF Ready, Fam
<1>5. CASE e = Merge(m, net)
  <2>1. /\ e = [m EXCEPT !.v4 = Merged(m.v4, net.v4), !.v6 = Merged(m.v6, net.v6)]
        /\ m.v4 \in Part /\ m.v6 \in Part /\ net.v4 \in Part /\ net.v6 \in Part
    BY <1>1, <1>5 DEF Merge, Manifest
  <2>2. e.v4 = Merged(m.v4, net.v4) /\ e.v6 = Merged(m.v6, net.v6)
    BY <1>1, <2>1 DEF Manifest
  <2>3. /\ e.v4 \in Part /\ e.v4.alloc = net.v4.alloc
        /\ e.v4.alloc # NoAlloc => e.v4.start # Unset
        /\ e.v4.cidr # NoCidr => e.v4.start # Unset
    BY <1>1, <1>2, <1>3, <2>1, <2>2
  <2>4. /\ e.v6 \in Part /\ e.v6.alloc = net.v6.alloc
        /\ e.v6.alloc # NoAlloc => e.v6.start # Unset
    BY <1>1, <1>2, <1>3, <2>1, <2>2
  <2>5. e \in Manifest
    BY <1>1, <2>1, <2>2, <2>3, <2>4 DEF Manifest
  <2> QED BY <2>3, <2>4, <2>5 DEF Ready, Fam
<1> QED BY <1>4, <1>5

-----------------------------------------------------------------------------
\* A step that does not touch the network does not move the pool of the search.
LEMMA PoolUnchanged ==
    ASSUME net' = net, f' = f
    PROVE  /\ Pool' = Pool /\ Begin' = Begin /\ EndIndex' = EndIndex
           /\ FirstIndex' = FirstIndex /\ Upper' = Upper /\ Lower' = Lower
<1>1. Pool' = Pool
  BY DEF Pool
<1>2. Begin' = Begin /\ EndIndex' = EndIndex
  BY <1>1 DEF Begin, EndIndex
<1>3. LastIpIndex(Pool)' = LastIpIndex(Pool)
  BY <1>1 DEF LastIpIndex
<1>4. FirstIndex' = FirstIndex
  BY <1>2, <1>3 DEF FirstIndex
<1> QED BY <1>1, <1>2, <1>4 DEF Upper, Lower

\* A step to a state in which no search is in progress and nothing has failed.
LEMMA Quiet ==
    ASSUME pc' \in {"idle", "admitted"}
    PROVE  Searching' /\ PanicsHaveCause'
BY DEF Searching, PanicsHaveCause

LEMMA StoredUnchanged ==
    ASSUME Stored, net' = net, resized' = resized
    PROVE  Stored'
BY DEF Stored

\* An admitted request.
LEMMA ValidateNetworkIInv ==
    ASSUME IInv, pc = "idle", NEW op, NEW m, Ready(m), ValidateNetwork(op, net, m),
           updates' \in 0 .. MaxUpdates,
           net # NoNet => op = "UPDATE",
           \A fam \in Fam : m[fam].alloc = NoAlloc \/ (net # NoNet /\ m[fam].alloc = net[fam].alloc)
    PROVE  IInv'
<1> DEFINE n == mutateNetManifest(m)
<1>1. /\ validateNetworkByType(op, net, m, connected) /\ req' = n /\ seen' = connected
      /\ pc' = "admitted" /\ net' = net /\ connected' = connected /\ resized' = resized
      /\ scans' = scans /\ f' = f /\ i' = i /\ end' = end /\ lastIpIndex' = lastIpIndex
      /\ result' = result
  BY DEF ValidateNetwork, search
<1>2. /\ n \in Manifest /\ NetSound(n)
      /\ \A fam \in Fam : n[fam].alloc = m[fam].alloc \/ BitsSound(n[fam])
      /\ n.vlan = m.vlan /\ n.vxlan = m.vxlan /\ n.device = m.device
  BY <1>1, Admitted
<1> HIDE DEF n
<1>3. TypeOK'
  BY <1>1, <1>2 DEF IInv, TypeOK
<1>4. ASSUME NEW fam \in Fam
      PROVE  BitsSound(n[fam]) \/ (net # NoNet /\ n[fam].alloc = net[fam].alloc)
  <2>1. PoolSound(n[fam])
    BY <1>2 DEF NetSound, Fam
  <2>2. n[fam].alloc = NoAlloc => BitsSound(n[fam])
    BY <2>1 DEF PoolSound, BitsSound
  <2> QED BY <1>2, <2>2
<1>5. ASSUME connected, net # NoNet
      PROVE  /\ n # NoNet
             /\ net.vlan # 0 \/ net.vxlan # 0 =>
                   n.vlan = net.vlan /\ n.vxlan = net.vxlan /\ n.device = net.device
  <2>1. validateVids(net) /\ validateVids(n)
    BY <1>2, <1>5 DEF IInv, Stored, NetSound
  <2>2. validateVniChange("UPDATE", net, m, connected)
    BY <1>1, <1>5 DEF validateNetworkByType
  <2>3. /\ net.vlan # 0 => m.vlan = net.vlan /\ m.device = net.device
        /\ net.vxlan # 0 => m.vxlan = net.vxlan /\ m.device = net.device
    BY <1>5, <2>2 DEF validateVniChange
  <2> QED BY <1>2, <2>1, <2>3, NoNetFacts DEF validateVids
<1>6. Requests'
  <2>1. (pc = "admitted" /\ seen => LinkKept)'
    BY <1>1, <1>5 DEF LinkKept
  <2>2. (pc = "admitted" /\ req # NoNet =>
            /\ NetSound(req)
            /\ \A fam \in Fam : \/ BitsSound(req[fam])
                                \/ net # NoNet /\ req[fam].alloc = net[fam].alloc)'
    BY <1>1, <1>2, <1>4
  <2> QED BY <2>1, <2>2 DEF Requests
<1> QED BY <1>1, <1>3, <1>6, Quiet, StoredUnchanged DEF IInv

LEMMA PanicIInv ==
    ASSUME IInv, pc = "idle", NEW op, NEW m \in Manifest, Panic(op, m), updates' \in 0 .. MaxUpdates
    PROVE  IInv'
<1>1. /\ WebhookPanics(op, m) /\ req' = m /\ pc' = "panic"
      /\ net' = net /\ connected' = connected /\ seen' = seen /\ resized' = resized
      /\ scans' = scans /\ f' = f /\ i' = i /\ end' = end /\ lastIpIndex' = lastIpIndex
      /\ result' = result
  BY DEF Panic, search
<1>2. TypeOK'
  BY <1>1 DEF IInv, TypeOK
<1>3. \E g \in m.v6.gws : LET c == AllocCidr(m, "v6") IN
          ~Contains(c, g) /\ GetIndexOfIp(g, c) = Size(c)
  BY <1>1, PanicCause
<1>4. PanicsHaveCause'
  BY <1>1, <1>3 DEF PanicsHaveCause
<1>5. Requests' /\ Searching'
  BY <1>1 DEF Requests, Searching
<1> QED BY <1>1, <1>2, <1>4, <1>5, StoredUnchanged DEF IInv

LEMMA CreateIInv == IInv /\ Create => IInv'
<1> SUFFICES ASSUME IInv, Create PROVE IInv'
  OBVIOUS
<1>1. /\ pc = "idle" /\ net = NoNet /\ updates' \in 0 .. MaxUpdates
  BY DEF Create, IInv, TypeOK
<1>2. PICK m \in Manifests : ValidateNetwork("CREATE", NoNet, m) \/ Panic("CREATE", m)
  BY DEF Create
<1>3. CASE ValidateNetwork("CREATE", NoNet, m)
  <2>1. IsAllocAbsent(m)
    BY <1>3 DEF ValidateNetwork, validateNetworkByType, validateAllocationPools
  <2>2. Ready(m) /\ \A fam \in Fam : m[fam].alloc = NoAlloc
    BY <2>1, CreateReady DEF IsAllocAbsent, Fam
  <2> QED BY <1>1, <1>3, <2>2, ValidateNetworkIInv
<1>4. CASE Panic("CREATE", m)
  BY <1>1, <1>4, PanicIInv, ManifestAssumption
<1> QED BY <1>2, <1>3, <1>4

LEMMA UpdateIInv == IInv /\ Update => IInv'
<1> SUFFICES ASSUME IInv, Update PROVE IInv'
  OBVIOUS
<1>1. /\ pc = "idle" /\ net # NoNet /\ updates' \in 0 .. MaxUpdates
  BY NetRulesAssumption DEF Update, IInv, TypeOK
<1>2. PICK m \in Edits : \E e \in {m, Merge(m, net)} :
           ValidateNetwork("UPDATE", net, e) \/ Panic("UPDATE", e)
  BY DEF Update
<1>3. PICK e \in {m, Merge(m, net)} : ValidateNetwork("UPDATE", net, e) \/ Panic("UPDATE", e)
  BY <1>2
<1>4. Ready(e) /\ \A fam \in Fam : e[fam].alloc \in {NoAlloc, net[fam].alloc}
  BY <1>1, UpdateReady DEF IInv
<1>5. CASE ValidateNetwork("UPDATE", net, e)
  BY <1>1, <1>4, <1>5, ValidateNetworkIInv
<1>6. CASE Panic("UPDATE", e)
  BY <1>1, <1>4, <1>6, PanicIInv DEF Ready
<1> QED BY <1>3, <1>5, <1>6

LEMMA DeleteNetworkIInv == IInv /\ DeleteNetwork => IInv'
<1> SUFFICES ASSUME IInv, DeleteNetwork PROVE IInv'
  OBVIOUS
<1>1. /\ req' = NoNet /\ pc' = "admitted" /\ seen' = FALSE
      /\ net' = net /\ connected' = connected /\ resized' = resized /\ updates' = updates
      /\ scans' = scans /\ f' = f /\ i' = i /\ end' = end /\ lastIpIndex' = lastIpIndex
      /\ result' = result
  BY DEF DeleteNetwork, search
<1>2. TypeOK'
  BY <1>1 DEF IInv, TypeOK
<1>3. Requests'
  BY <1>1 DEF Requests
<1> QED BY <1>1, <1>2, <1>3, Quiet, StoredUnchanged DEF IInv

LEMMA RecoverIInv == IInv /\ Recover => IInv'
<1> SUFFICES ASSUME IInv, Recover PROVE IInv'
  OBVIOUS
<1>1. /\ pc' = "idle" /\ req' = NoNet /\ net' = net /\ connected' = connected
      /\ seen' = seen /\ resized' = resized /\ updates' = updates /\ scans' = scans
      /\ f' = "v4" /\ i' = 0 /\ end' = 0 /\ lastIpIndex' = 0 /\ result' = Unset
  BY DEF Recover, EndSearch
<1>2. 0 \in 0 .. Exp2(IndexBits)
  BY Widths
<1>3. TypeOK'
  BY <1>1, <1>2 DEF IInv, TypeOK, Fam
<1>4. Requests'
  BY <1>1 DEF Requests
<1> QED BY <1>1, <1>3, <1>4, Quiet, StoredUnchanged DEF IInv

\* The write of an admitted request: a bitmap that is kept is sound when its CIDR and its
\* gateways are the same as before.
LEMMA StoreIInv == IInv /\ Store => IInv'
<1> SUFFICES ASSUME IInv, Store PROVE IInv'
  OBVIOUS
<1>1. /\ pc = "admitted" /\ net' = req /\ pc' = "idle" /\ req' = NoNet /\ seen' = FALSE
      /\ connected' = connected /\ updates' = updates /\ scans' = scans
      /\ f' = f /\ i' = i /\ end' = end /\ lastIpIndex' = lastIpIndex /\ result' = result
  BY DEF Store, search
<1>2. resized' = IF req = NoNet \/ net = NoNet THEN FALSE
                 ELSE \E fam \in Fam : \/ IsKept(req[fam], net[fam])
                                       \/ resized /\ req[fam].alloc = net[fam].alloc
  BY DEF Store
<1>3. resized' \in BOOLEAN
  BY <1>2
<1>4. TypeOK'
  BY <1>1, <1>3 DEF IInv, TypeOK
<1>5. ASSUME req # NoNet
      PROVE  /\ NetSound(req)
             /\ ~resized' => \A fam \in Fam : BitsSound(req[fam])
  <2>1. /\ NetSound(req)
        /\ \A fam \in Fam : \/ BitsSound(req[fam])
                            \/ net # NoNet /\ req[fam].alloc = net[fam].alloc
    BY <1>1, <1>5 DEF IInv, Requests
  <2>2. ASSUME ~resized', NEW fam \in Fam PROVE BitsSound(req[fam])
    <3>1. CASE net # NoNet /\ req[fam].alloc = net[fam].alloc
      <4>1. ~IsKept(req[fam], net[fam]) /\ ~resized
        BY <1>2, <1>5, <2>2, <3>1
      <4>2. BitsSound(net[fam])
        BY <3>1, <4>1 DEF IInv, Stored
      <4>3. CASE req[fam].alloc = NoAlloc
        <5>1. PoolSound(req[fam])
          BY <2>1 DEF NetSound, Fam
        <5> QED BY <4>3, <5>1 DEF PoolSound, BitsSound
      <4>4. CASE req[fam].alloc # NoAlloc
        <5>1. req[fam].cidr = net[fam].cidr /\ req[fam].gws = net[fam].gws
          BY <3>1, <4>1, <4>4 DEF IsKept
        <5> QED BY <3>1, <4>2, <5>1 DEF BitsSound
      <4> QED BY <4>3, <4>4
    <3> QED BY <2>1, <3>1
  <2> QED BY <2>1, <2>2
<1>6. Stored'
  BY <1>1, <1>5 DEF Stored
<1>7. Requests'
  BY <1>1 DEF Requests
<1> QED BY <1>1, <1>4, <1>6, <1>7, Quiet DEF IInv

LEMMA ConnectIInv == IInv /\ (Connect \/ Disconnect) => IInv'
<1> SUFFICES ASSUME IInv, Connect \/ Disconnect PROVE IInv'
  OBVIOUS
<1>1. /\ pc \in {"idle", "admitted"} /\ pc' = pc /\ net' = net /\ req' = req
      /\ connected' \in BOOLEAN /\ seen' \in BOOLEAN /\ (seen' => seen)
      /\ resized' = resized /\ updates' = updates /\ scans' = scans
      /\ f' = f /\ i' = i /\ end' = end /\ lastIpIndex' = lastIpIndex /\ result' = result
  <2>1. connected \in BOOLEAN /\ seen \in BOOLEAN
    BY DEF IInv, TypeOK
  <2>2. CASE Connect
    BY <2>1, <2>2 DEF Connect, search
  <2>3. CASE Disconnect
    BY <2>1, <2>3 DEF Disconnect, search
  <2> QED BY <2>2, <2>3
<1>2. TypeOK'
  BY <1>1 DEF IInv, TypeOK
<1>3. LinkKept => LinkKept'
  BY <1>1 DEF LinkKept
<1>4. Requests'
  BY <1>1, <1>3 DEF IInv, Requests
<1> QED BY <1>1, <1>2, <1>4, Quiet, StoredUnchanged DEF IInv

-----------------------------------------------------------------------------
(* The search for a free address                                             *)

\* Setting bits keeps a network sound.
LEMMA MoreBits ==
    ASSUME NEW n \in Manifest, NEW fam \in Fam, NEW t \in Part, NEW k,
           k = [n EXCEPT ![fam] = t],
           t.net = n[fam].net, t.cidr = n[fam].cidr, t.gws = n[fam].gws,
           t.start = n[fam].start, t.end = n[fam].end,
           t.alloc.room = n[fam].alloc.room, n[fam].alloc.bits \subseteq t.alloc.bits,
           n[fam].cidr # NoCidr => t.alloc # NoAlloc,
           n[fam].cidr = NoCidr => t.alloc = NoAlloc
    PROVE  /\ k \in Manifest /\ k[fam] = t
           /\ NetSound(n) => NetSound(k)
           /\ \A g \in Fam : BitsSound(n[g]) => BitsSound(k[g])
<1>1. /\ k[fam] = t /\ \A g \in Fam : g # fam => k[g] = n[g]
      /\ k.vlan = n.vlan /\ k.vxlan = n.vxlan
  BY DEF Manifest, Fam
<1>2. k \in Manifest
  BY DEF Manifest, Fam
<1>3. PoolSound(n[fam]) => PoolSound(t)
  BY DEF PoolSound
<1>4. SizeOf(t) = SizeOf(n[fam])
  BY DEF SizeOf
<1>5. BitsSound(n[fam]) => BitsSound(t)
  BY DEF BitsSound
<1>6. NetSound(n) => NetSound(k)
  <2>1. CASE fam = "v4"
    <3>1. k.v4 = t /\ k.v6 = n.v6
      BY <1>1, <2>1 DEF Fam
    <3> QED BY <1>1, <1>3, <1>4, <2>1, <3>1 DEF NetSound, validateVids
  <2>2. CASE fam = "v6"
    <3>1. k.v6 = t /\ k.v4 = n.v4
      BY <1>1, <2>2 DEF Fam
    <3> QED BY <1>1, <1>3, <1>4, <2>2, <3>1 DEF NetSound, validateVids
  <2> QED BY <2>1, <2>2 DEF Fam
<1> QED BY <1>1, <1>2, <1>5, <1>6

\* The search begins: at the last allocation, or at the beginning of the pool.
LEMMA StartScanIInv ==
    ASSUME IInv, NEW fam \in Fam, StartScan(fam)
    PROVE  IInv'
<1> DEFINE s == net[fam]
<1>1. /\ pc = "idle" /\ net # NoNet /\ scans < MaxScans /\ s.alloc # NoAlloc
      /\ f' = fam /\ result' = Unset /\ scans' = scans + 1 /\ pc' = "loop"
      /\ end' = GetIndexOfIp(s.end, s.cidr)
      /\ lastIpIndex' = IF LastIpIndex(s) >= end' \/ LastIpIndex(s) = 0
                        THEN GetIndexOfIp(s.start, s.cidr) ELSE LastIpIndex(s)
      /\ i' = lastIpIndex'
      /\ req' = req /\ connected' = connected /\ seen' = seen /\ resized' = resized
      /\ updates' = updates
  BY DEF StartScan
<1>2. PICK others \in SUBSET (0 .. s.alloc.room - 1) :
          net' = [net EXCEPT ![fam].alloc.bits = @ \cup others]
  BY DEF StartScan
<1> DEFINE t == [s EXCEPT !.alloc = [s.alloc EXCEPT !.bits = @ \cup others]]
<1>3. net \in Manifest /\ NetSound(net) /\ (~resized => \A g \in Fam : BitsSound(net[g]))
  BY <1>1, TypeFacts DEF IInv, Stored
<1>4. s \in Part /\ s.alloc \in [room : Nat, bits : SUBSET Nat] /\ others \subseteq Nat
  <2>1. net.v4 \in Part /\ net.v6 \in Part
    BY <1>3 DEF Manifest
  <2>2. s \in Part
    BY <2>1 DEF Fam
  <2>3. s.alloc \in [room : Nat, bits : SUBSET Nat]
    BY <2>2 DEF Part
  <2> QED BY <1>2, <2>2, <2>3
<1>5. net' = [net EXCEPT ![fam] = t]
  BY <1>2, <1>3, <1>4 DEF Manifest, Fam
<1>6. /\ t \in Part /\ t.net = s.net /\ t.cidr = s.cidr /\ t.gws = s.gws
      /\ t.start = s.start /\ t.end = s.end /\ t.last = s.last /\ t.plain = s.plain
      /\ t.alloc.room = s.alloc.room /\ t.alloc.bits = s.alloc.bits \cup others
  BY <1>4 DEF Part
<1>7. s.cidr # NoCidr /\ PoolSound(s)
  BY <1>1, <1>3 DEF NetSound, PoolSound, Fam
<1>8. t.alloc # NoAlloc
  <2>1. s.alloc.room # 0 \/ s.alloc.bits # {}
    BY <1>1, <1>4 DEF NoAlloc
  <2>2. NoAlloc.room = 0 /\ NoAlloc.bits = {}
    BY DEF NoAlloc
  <2> QED BY <1>6, <2>1, <2>2
<1> HIDE DEF t
<1>9. /\ net' \in Manifest /\ net'[fam] = t /\ NetSound(net')
      /\ \A g \in Fam : BitsSound(net[g]) => BitsSound(net'[g])
  <2>1. /\ net[fam].alloc.bits \subseteq t.alloc.bits
        /\ net[fam].cidr # NoCidr => t.alloc # NoAlloc
        /\ net[fam].cidr = NoCidr => t.alloc = NoAlloc
        /\ t.net = net[fam].net /\ t.cidr = net[fam].cidr /\ t.gws = net[fam].gws
        /\ t.start = net[fam].start /\ t.end = net[fam].end
        /\ t.alloc.room = net[fam].alloc.room
    BY <1>6, <1>7, <1>8
  <2>2. /\ net' \in Manifest /\ net'[fam] = t
        /\ NetSound(net) => NetSound(net')
        /\ \A g \in Fam : BitsSound(net[g]) => BitsSound(net'[g])
    <3>1. net \in Manifest /\ t \in Part
      BY <1>3, <1>6
    <3> HIDE DEF s
    <3> QED BY <1>5, <2>1, <3>1, MoreBits
  <2> QED BY <1>3, <2>2
<1> HIDE DEF s
<1>10. /\ Pool' = t /\ EndIndex' = end' /\ FirstIndex' = lastIpIndex'
  <2>1. Pool' = t
    BY <1>1, <1>9 DEF Pool
  <2>2. EndIndex' = end' /\ Begin' = GetIndexOfIp(s.start, s.cidr)
    BY <1>1, <1>6, <2>1 DEF EndIndex, Begin
  <2>3. LastIpIndex(Pool)' = LastIpIndex(s)
    BY <1>6, <2>1 DEF LastIpIndex
  <2> QED BY <1>1, <2>1, <2>2, <2>3 DEF FirstIndex
<1>11. /\ EndIndex' \in 0 .. Exp2(IndexBits) - 1 /\ FirstIndex' \in 0 .. Exp2(IndexBits) - 1
       /\ Exp2(IndexBits) \in Nat \ {0}
  <2>1. t.start \in Int /\ t.end \in Int /\ t.last \in Int /\ t.cidr \in Cidrs
    BY <1>6 DEF Part, Unset
  <2>2. /\ GetIndexOfIp(s.end, s.cidr) \in 0 .. Exp2(IndexBits) - 1
        /\ GetIndexOfIp(s.start, s.cidr) \in 0 .. Exp2(IndexBits) - 1
    BY <1>6, <2>1, IndexType
  <2>3. LastIpIndex(s) \in 0 .. Exp2(IndexBits) - 1
    BY <1>6, <2>1, IndexType, Widths DEF LastIpIndex
  <2> QED BY <1>1, <1>10, <2>2, <2>3, Widths
<1>12. TypeOK'
  <2>1. scans' \in 0 .. MaxScans
    BY <1>1, NetRulesAssumption DEF IInv, TypeOK
  <2>2. {i', end', lastIpIndex'} \subseteq 0 .. Exp2(IndexBits)
    BY <1>1, <1>10, <1>11
  <2> QED BY <1>1, <1>9, <2>1, <2>2 DEF IInv, TypeOK
<1>13. Stored'
  BY <1>1, <1>3, <1>9 DEF Stored
<1>14. Requests' /\ PanicsHaveCause'
  BY <1>1 DEF Requests, PanicsHaveCause
<1>15. Upwards'
  <2>1. /\ end' = EndIndex' /\ FirstIndex' <= i'
        /\ i' <= EndIndex' \/ EndIndex' <= FirstIndex'
        /\ \A j \in Nat : ~(FirstIndex' <= j /\ j < i')
    BY <1>1, <1>10, <1>11
  <2> QED BY <2>1 DEF Upwards
<1>16. Searching'
  <2>1. net' # NoNet /\ Pool'.cidr # NoCidr
    BY <1>6, <1>7, <1>9, <1>10, NoNetFacts
  <2> QED BY <1>1, <1>10, <1>15, <2>1 DEF Searching
<1> QED BY <1>12, <1>13, <1>14, <1>16 DEF IInv

\* The facts of a step of the loop.
LEMMA LoopFacts ==
    ASSUME IInv, pc = "loop"
    PROVE  /\ net \in Manifest /\ net # NoNet /\ NetSound(net) /\ Pool.cidr # NoCidr
           /\ f \in Fam /\ lastIpIndex = FirstIndex /\ result = Unset /\ (Upwards \/ Around)
           /\ i \in Nat /\ end \in Nat
           /\ Begin \in 0 .. Exp2(IndexBits) - 1 /\ EndIndex \in 0 .. Exp2(IndexBits) - 1
           /\ FirstIndex \in 0 .. Exp2(IndexBits) - 1
           /\ FirstIndex = Begin \/ FirstIndex < EndIndex
           /\ Exp2(IndexBits) \in Nat \ {0}
<1>1. /\ net # NoNet /\ Pool.cidr # NoCidr
      /\ lastIpIndex = FirstIndex /\ result = Unset /\ (Upwards \/ Around)
  BY DEF IInv, Searching
<1>2. net \in Manifest /\ NetSound(net) /\ f \in Fam /\ i \in Nat /\ end \in Nat
  BY <1>1, TypeFacts DEF IInv, Stored
<1> QED BY <1>1, <1>2, SearchFacts

\* A step of the loop leaves the network and the requests alone.
LEMMA LoopFrame ==
    ASSUME IInv, pc = "loop", UNCHANGED webhook, pc' \in {"loop", "done"},
           i' \in 0 .. Exp2(IndexBits), end' \in 0 .. Exp2(IndexBits), lastIpIndex' = lastIpIndex,
           result' \in {Unset} \cup 0 .. Exp2(IndexBits) - 1, Searching'
    PROVE  IInv'
<1>1. /\ net' = net /\ req' = req /\ connected' = connected /\ seen' = seen /\ resized' = resized
      /\ updates' = updates /\ scans' = scans /\ f' = f
  BY DEF webhook
<1>2. TypeOK'
  BY <1>1 DEF IInv, TypeOK
<1>3. Stored' /\ Requests' /\ PanicsHaveCause'
  BY <1>1, StoredUnchanged DEF IInv, Requests, PanicsHaveCause
<1> QED BY <1>2, <1>3 DEF IInv

\* A free address is found: the first of those in front of it, in the order of the search.
LEMMA TakeIInv == IInv /\ Take => IInv'
<1> SUFFICES ASSUME IInv, Take PROVE IInv'
  OBVIOUS
<1>1. /\ pc = "loop" /\ i <= end /\ i \notin Pool.alloc.bits /\ result' = i /\ pc' = "done"
      /\ UNCHANGED webhook /\ net' = net /\ f' = f
      /\ i' = i /\ end' = end /\ lastIpIndex' = lastIpIndex
  BY DEF Take, IsFree, webhook
<1>2. /\ net # NoNet /\ Pool.cidr # NoCidr /\ (Upwards \/ Around)
      /\ i \in Nat /\ end \in Nat
      /\ Begin \in 0 .. Exp2(IndexBits) - 1 /\ EndIndex \in 0 .. Exp2(IndexBits) - 1
      /\ FirstIndex \in 0 .. Exp2(IndexBits) - 1 /\ Exp2(IndexBits) \in Nat \ {0}
  BY <1>1, LoopFacts
<1>3. \/ i \in Upper /\ \A j \in Upper : i <= j
      \/ Upper = {} /\ i \in Lower /\ \A j \in Lower : i <= j
  <2>1. CASE Upwards
    BY <1>1, <1>2, <2>1 DEF Upwards, Upper
  <2>2. CASE Around
    <3>1. Upper = {}
      BY <1>2, <2>2 DEF Around, Upper
    <3>2. i \in Lower /\ \A j \in Lower : i <= j
      BY <1>1, <1>2, <2>2 DEF Around, Lower
    <3> QED BY <3>1, <3>2
  <2> QED BY <1>2, <2>1, <2>2
<1>4. Searching'
  <2>1. Pool' = Pool /\ Upper' = Upper /\ Lower' = Lower
    BY <1>1, PoolUnchanged
  <2> QED BY <1>1, <1>2, <1>3, <2>1 DEF Searching
<1>5. i \in 0 .. Exp2(IndexBits) - 1 /\ end \in 0 .. Exp2(IndexBits)
  BY <1>1, <1>2 DEF Upwards, Around
<1>6. i \in 0 .. Exp2(IndexBits)
  BY <1>2, <1>5
<1> QED BY <1>1, <1>4, <1>5, <1>6, LoopFrame

\* The end of the pool is reached: everything from the last allocation on is taken.
LEMMA WrapAroundIInv == IInv /\ WrapAround => IInv'
<1> SUFFICES ASSUME IInv, WrapAround PROVE IInv'
  OBVIOUS
<1>1. /\ pc = "loop" /\ i <= end /\ i \in Pool.alloc.bits /\ i = end /\ end # lastIpIndex
      /\ i' = Begin + 1 /\ end' = lastIpIndex /\ pc' = pc
      /\ UNCHANGED webhook /\ net' = net /\ f' = f
      /\ lastIpIndex' = lastIpIndex /\ result' = result
  BY DEF WrapAround, WrapTo, IsTaken, webhook
<1>2. /\ net # NoNet /\ Pool.cidr # NoCidr /\ (Upwards \/ Around)
      /\ i \in Nat /\ lastIpIndex = FirstIndex /\ result = Unset
      /\ Begin \in 0 .. Exp2(IndexBits) - 1 /\ EndIndex \in 0 .. Exp2(IndexBits) - 1
      /\ FirstIndex \in 0 .. Exp2(IndexBits) - 1 /\ Exp2(IndexBits) \in Nat \ {0}
  BY <1>1, LoopFacts
<1>3. Upwards
  BY <1>1, <1>2 DEF Around
<1>4. /\ FirstIndex < EndIndex /\ Begin < i'
      /\ \A j \in Nat : FirstIndex <= j /\ j <= EndIndex => j \in Pool.alloc.bits
      /\ \A j \in Nat : ~(Begin < j /\ j < i')
  BY <1>1, <1>2, <1>3 DEF Upwards
<1>5. /\ Pool' = Pool /\ Begin' = Begin /\ EndIndex' = EndIndex /\ FirstIndex' = FirstIndex
  BY <1>1, PoolUnchanged
<1>6. Around'
  BY <1>1, <1>2, <1>4, <1>5 DEF Around
<1>7. Searching'
  BY <1>1, <1>2, <1>5, <1>6 DEF Searching
<1>8. i' \in 0 .. Exp2(IndexBits) /\ end' \in 0 .. Exp2(IndexBits)
  BY <1>1, <1>2
<1> QED BY <1>1, <1>2, <1>7, <1>8, LoopFrame

LEMMA AdvanceIInv == IInv /\ Advance => IInv'
<1> SUFFICES ASSUME IInv, Advance PROVE IInv'
  OBVIOUS
<1>1. /\ pc = "loop" /\ i <= end /\ i \in Pool.alloc.bits /\ ~(i = end /\ end # lastIpIndex)
      /\ i' = i + 1 /\ end' = end /\ pc' = pc
      /\ UNCHANGED webhook /\ net' = net /\ f' = f
      /\ lastIpIndex' = lastIpIndex /\ result' = result
  BY DEF Advance, IsTaken, webhook
<1>2. /\ net # NoNet /\ Pool.cidr # NoCidr /\ (Upwards \/ Around)
      /\ i \in Nat /\ end \in Nat /\ lastIpIndex = FirstIndex /\ result = Unset
      /\ Begin \in 0 .. Exp2(IndexBits) - 1 /\ EndIndex \in 0 .. Exp2(IndexBits) - 1
      /\ FirstIndex \in 0 .. Exp2(IndexBits) - 1 /\ Exp2(IndexBits) \in Nat \ {0}
  BY <1>1, LoopFacts
<1>3. /\ Pool' = Pool /\ Begin' = Begin /\ EndIndex' = EndIndex /\ FirstIndex' = FirstIndex
  BY <1>1, PoolUnchanged
<1>4. ASSUME Upwards PROVE Upwards'
  <2>1. /\ FirstIndex <= i' /\ (i' <= EndIndex \/ EndIndex <= FirstIndex)
        /\ \A j \in Nat : FirstIndex <= j /\ j < i' => j \in Pool.alloc.bits
    BY <1>1, <1>2, <1>4 DEF Upwards
  <2> QED BY <1>1, <1>3, <1>4, <2>1 DEF Upwards
<1>5. ASSUME Around PROVE Around'
  <2>1. /\ Begin < i'
        /\ \A j \in Nat : Begin < j /\ j < i' => j \in Pool.alloc.bits
    BY <1>1, <1>2, <1>5 DEF Around
  <2> QED BY <1>1, <1>3, <1>5, <2>1 DEF Around
<1>6. Searching'
  BY <1>1, <1>2, <1>3, <1>4, <1>5 DEF Searching
<1>7. i' \in 0 .. Exp2(IndexBits) /\ end' \in 0 .. Exp2(IndexBits)
  BY <1>1, <1>2 DEF Upwards, Around
<1> QED BY <1>1, <1>2, <1>6, <1>7, LoopFrame

\* Nothing is free: neither where the search began nor in front of it.
LEMMA ExhaustIInv == IInv /\ Exhaust => IInv'
<1> SUFFICES ASSUME IInv, Exhaust PROVE IInv'
  OBVIOUS
<1>1. /\ pc = "loop" /\ i > end /\ pc' = "done"
      /\ UNCHANGED webhook /\ net' = net /\ f' = f
      /\ i' = i /\ end' = end /\ lastIpIndex' = lastIpIndex /\ result' = result
  BY DEF Exhaust, webhook, search
<1>2. /\ net # NoNet /\ Pool.cidr # NoCidr /\ (Upwards \/ Around)
      /\ i \in Nat /\ end \in Nat /\ lastIpIndex = FirstIndex /\ result = Unset
      /\ Begin \in 0 .. Exp2(IndexBits) - 1 /\ EndIndex \in 0 .. Exp2(IndexBits) - 1
      /\ FirstIndex \in 0 .. Exp2(IndexBits) - 1 /\ Exp2(IndexBits) \in Nat \ {0}
      /\ FirstIndex = Begin \/ FirstIndex < EndIndex
  BY <1>1, LoopFacts
<1>3. Upper = {} /\ Lower = {}
  <2>1. CASE Upwards
    <3>1. EndIndex <= FirstIndex /\ Upper = {}
      BY <1>1, <1>2, <2>1 DEF Upwards, Upper
    <3>2. FirstIndex = EndIndex \/ FirstIndex = Begin
      BY <1>2, <3>1
    <3> QED BY <1>2, <3>1, <3>2 DEF Lower
  <2>2. CASE Around
    <3>1. Upper = {}
      BY <1>2, <2>2 DEF Around, Upper
    <3>2. Lower = {}
      BY <1>1, <1>2, <2>2 DEF Around, Lower
    <3> QED BY <3>1, <3>2
  <2> QED BY <1>2, <2>1, <2>2
<1>4. Searching'
  <2>1. Pool' = Pool /\ Upper' = Upper /\ Lower' = Lower
    BY <1>1, PoolUnchanged
  <2> QED BY <1>1, <1>2, <1>3, <2>1 DEF Searching
<1>5. i \in 0 .. Exp2(IndexBits) /\ end \in 0 .. Exp2(IndexBits)
  BY DEF IInv, TypeOK
<1> QED BY <1>1, <1>2, <1>4, <1>5, LoopFrame

\* A read behind the end of the bitmap: the bitmap is not one of this CIDR.
LEMMA CrashIInv == IInv /\ Crash => IInv'
<1> SUFFICES ASSUME IInv, Crash PROVE IInv'
  OBVIOUS
<1>1. /\ pc = "loop" /\ i <= end /\ i >= Pool.alloc.room /\ pc' = "crash"
      /\ net' = net /\ req' = req /\ connected' = connected /\ seen' = seen
      /\ resized' = resized /\ updates' = updates /\ scans' = scans /\ f' = f
      /\ i' = i /\ end' = end /\ lastIpIndex' = lastIpIndex /\ result' = result
  BY DEF Crash, webhook, search
<1>2. /\ net \in Manifest /\ net # NoNet /\ NetSound(net) /\ Pool.cidr # NoCidr
      /\ (Upwards \/ Around) /\ i \in Nat /\ end \in Nat /\ f \in Fam
  BY <1>1, LoopFacts
<1>3. /\ EndIndex < Size(Pool.cidr) /\ FirstIndex < Size(Pool.cidr) /\ Size(Pool.cidr) \in Nat
      /\ Pool \in Part
  BY <1>2, SearchFacts
<1>4. resized
  <2> SUFFICES ASSUME ~resized PROVE FALSE
    OBVIOUS
  <2>1. Pool.alloc.room >= Size(Pool.cidr) /\ Pool.alloc.room \in Nat
    BY <1>2, <1>3 DEF IInv, Stored, BitsSound, Pool, Part
  <2>2. end < Size(Pool.cidr)
    BY <1>2, <1>3 DEF Upwards, Around
  <2> QED BY <1>1, <1>2, <1>3, <2>1, <2>2
<1>5. TypeOK'
  BY <1>1 DEF IInv, TypeOK
<1>6. Stored' /\ Requests' /\ PanicsHaveCause'
  BY <1>1, <1>4, StoredUnchanged DEF IInv, Requests, PanicsHaveCause
<1>7. Searching'
  <2>1. Pool' = Pool
    BY <1>1 DEF Pool
  <2> QED BY <1>1, <1>2, <2>1 DEF Searching
<1> QED BY <1>5, <1>6, <1>7 DEF IInv

\* The address is stored with the network.
LEMMA ReserveIInv == IInv /\ Reserve => IInv'
<1> SUFFICES ASSUME IInv, Reserve PROVE IInv'
  OBVIOUS
<1> DEFINE s == net[f]
           t == [s EXCEPT !.alloc = [s.alloc EXCEPT !.bits = @ \cup {result}],
                          !.last = s.cidr.base + result, !.plain = FALSE]
<1>1. /\ pc = "done" /\ pc' = "idle" /\ req' = req /\ connected' = connected /\ seen' = seen
      /\ resized' = resized /\ updates' = updates /\ scans' = scans
      /\ f' = "v4" /\ i' = 0 /\ end' = 0 /\ lastIpIndex' = 0 /\ result' = Unset
  BY DEF Reserve, EndSearch
<1>2. /\ net # NoNet /\ s.cidr # NoCidr
  BY <1>1 DEF IInv, Searching, Pool
<1>3. /\ net \in Manifest /\ f \in Fam /\ result \in {Unset} \cup Nat
      /\ NetSound(net) /\ (~resized => \A g \in Fam : BitsSound(net[g]))
  BY <1>2, TypeFacts DEF IInv, Stored
<1>4. s \in Part /\ s.alloc \in [room : Nat, bits : SUBSET Nat] /\ s.cidr \in Cidrs
  <2>1. net.v4 \in Part /\ net.v6 \in Part
    BY <1>3 DEF Manifest
  <2>2. s \in Part
    BY <1>3, <2>1 DEF Fam
  <2> QED BY <2>2 DEF Part
<1>5. /\ net' \in Manifest /\ NetSound(net')
      /\ \A g \in Fam : BitsSound(net[g]) => BitsSound(net'[g])
  <2>1. CASE result = Unset
    <3>1. net' = net
      BY <2>1 DEF Reserve
    <3> QED BY <1>3, <3>1
  <2>2. CASE result # Unset
    <3>1. net' = [net EXCEPT ![f] = t]
      BY <1>3, <1>4, <2>2 DEF Reserve, Pool, Manifest, Fam, Part
    <3>2. result \in Nat /\ s.cidr.base + result \in Nat
      BY <1>3, <1>4, <2>2, CidrFacts
    <3>3. /\ t \in Part /\ t.net = s.net /\ t.cidr = s.cidr /\ t.gws = s.gws
          /\ t.start = s.start /\ t.end = s.end
          /\ t.alloc.room = s.alloc.room /\ t.alloc.bits = s.alloc.bits \cup {result}
      BY <1>4, <3>2 DEF Part
    <3>4. t.alloc # NoAlloc
      BY <3>3 DEF NoAlloc
    <3> HIDE DEF t
    <3>5. /\ net[f].alloc.bits \subseteq t.alloc.bits
          /\ net[f].cidr # NoCidr => t.alloc # NoAlloc
          /\ net[f].cidr = NoCidr => t.alloc = NoAlloc
          /\ t.net = net[f].net /\ t.cidr = net[f].cidr /\ t.gws = net[f].gws
          /\ t.start = net[f].start /\ t.end = net[f].end
          /\ t.alloc.room = net[f].alloc.room
      BY <1>2, <3>3, <3>4
    <3>6. /\ net' \in Manifest
          /\ NetSound(net) => NetSound(net')
          /\ \A g \in Fam : BitsSound(net[g]) => BitsSound(net'[g])
      BY <1>3, <3>1, <3>3, <3>5, MoreBits
    <3> QED BY <1>3, <3>6
  <2> QED BY <2>1, <2>2
<1>6. TypeOK'
  <2>1. 0 \in 0 .. Exp2(IndexBits)
    BY Widths
  <2> QED BY <1>1, <1>5, <2>1 DEF IInv, TypeOK, Fam
<1>7. Stored'
  BY <1>1, <1>3, <1>5 DEF Stored
<1>8. Requests'
  BY <1>1 DEF Requests
<1> QED BY <1>1, <1>6, <1>7, <1>8, Quiet DEF IInv

LEMMA NextIInv == IInv /\ [Next]_vars => IInv'
<1> SUFFICES ASSUME IInv, [Next]_vars PROVE IInv'
  OBVIOUS
<1>1. CASE UNCHANGED vars
  <2>1. /\ net' = net /\ req' = req /\ pc' = pc /\ connected' = connected /\ seen' = seen
        /\ resized' = resized /\ updates' = updates /\ scans' = scans
        /\ f' = f /\ i' = i /\ end' = end /\ lastIpIndex' = lastIpIndex /\ result' = result
    BY <1>1 DEF vars, search
  <2>2. /\ Pool' = Pool /\ Begin' = Begin /\ EndIndex' = EndIndex
        /\ FirstIndex' = FirstIndex /\ Upper' = Upper /\ Lower' = Lower
    BY <2>1, PoolUnchanged
  <2>3. TypeOK' /\ Stored' /\ Requests' /\ PanicsHaveCause'
    BY <2>1 DEF IInv, TypeOK, Stored, Requests, LinkKept, PanicsHaveCause
  <2>4. Searching'
    BY <2>1, <2>2 DEF IInv, Searching, Upwards, Around
  <2> QED BY <2>3, <2>4 DEF IInv
<1>2. CASE Next
  BY <1>2, CreateIInv, UpdateIInv, DeleteNetworkIInv, RecoverIInv, StoreIInv, ConnectIInv,
     StartScanIInv, TakeIInv, WrapAroundIInv, AdvanceIInv, ExhaustIInv, CrashIInv, ReserveIInv
     DEF Next
<1> QED BY <1>1, <1>2

-----------------------------------------------------------------------------
(* The theorems                                                              *)

\* The inductive invariant holds of every history of requests, allocations and searches.
THEOREM IInvHolds == Spec => []IInv
BY InitIInv, NextIInv, PTL DEF Spec

\* The webhook writes only networks that have the form of the API type, and the indexes of
\* a search fit into the uint32 of allocateAddress.
THEOREM TypeCorrect == Spec => []TypeOK
<1>1. IInv => TypeOK
  BY DEF IInv
<1> QED BY <1>1, IInvHolds, PTL

\* A panic of the webhook or of a search has one of the two causes that the code has.
THEOREM PanicsHaveCauseAlways == Spec => []PanicsHaveCause
<1>1. IInv => PanicsHaveCause
  BY DEF IInv
<1> QED BY <1>1, IInvHolds, PTL

\* Whatever manifests a network is created and updated with, of whatever widths the
\* addresses are: the pools that the validators admit (validators.go:89-150) lie in their
\* subnets, fit into the limit together, and their bitmaps have the base, the broadcast
\* address and the gateways reserved, unless an update kept the bitmap of another CIDR.
THEOREM AdmittedPoolsSoundAlways == Spec => []AdmittedPoolsSound
<1>1. IInv => AdmittedPoolsSound
  <2> SUFFICES ASSUME IInv, net # NoNet
               PROVE  /\ SizeOf(net.v4) + SizeOf(net.v6) <= Capacity
                      /\ \A fam \in {g \in Fam : net[g].cidr # NoCidr} :
                          /\ Inside(net[fam].net, net[fam].cidr)
                          /\ Contains(net[fam].cidr, net[fam].start)
                          /\ Contains(net[fam].cidr, net[fam].end)
                          /\ net[fam].start < net[fam].end
                          /\ ~resized =>
                              /\ net[fam].alloc.room >= SizeOf(net[fam])
                              /\ {0, SizeOf(net[fam]) - 1} \subseteq net[fam].alloc.bits
                              /\ {g - net[fam].cidr.base :
                                      g \in {h \in net[fam].gws : Contains(net[fam].cidr, h)}}
                                     \subseteq net[fam].alloc.bits
    BY Zenon DEF AdmittedPoolsSound, SizeOf
  <2>1. NetSound(net) /\ (~resized => \A fam \in Fam : BitsSound(net[fam]))
    BY DEF IInv, Stored
  <2>2. SizeOf(net.v4) + SizeOf(net.v6) <= Capacity
    BY <2>1 DEF NetSound
  <2>3. ASSUME NEW fam \in Fam, net[fam].cidr # NoCidr
        PROVE  /\ Inside(net[fam].net, net[fam].cidr)
               /\ Contains(net[fam].cidr, net[fam].start)
               /\ Contains(net[fam].cidr, net[fam].end)
               /\ net[fam].start < net[fam].end
    BY <2>1, <2>3 DEF NetSound, PoolSound, Fam
  <2>4. ASSUME NEW fam \in Fam, net[fam].cidr # NoCidr, ~resized
        PROVE  /\ net[fam].alloc.room >= SizeOf(net[fam])
               /\ {0, SizeOf(net[fam]) - 1} \subseteq net[fam].alloc.bits
               /\ {g - net[fam].cidr.base :
                       g \in {h \in net[fam].gws : Contains(net[fam].cidr, h)}}
                      \subseteq net[fam].alloc.bits
    BY <2>1, <2>4 DEF BitsSound, SizeOf
  <2> QED BY <2>2, <2>3, <2>4
<1> QED BY <1>1, IInvHolds, PTL

\* The loop of allocateAddress (ipam.go:140-152) returns what the closed form FreeIndex of
\* IpamPool says, for every pool the webhook can admit, every bitmap and every LastIp.
THEOREM ScanIsFreeIndexAlways == Spec => []ScanIsFreeIndex
<1>1. IInv => ScanIsFreeIndex
  <2> SUFFICES ASSUME IInv, pc = "done" PROVE ScanIsFreeIndex
    BY DEF ScanIsFreeIndex
  <2> DEFINE p == [cidr |-> TRUE, alloc |-> Pool.alloc.bits,
                   last |-> LastIpIndex(Pool), plain |-> TRUE]
  <2>1. net # NoNet /\ Pool.cidr # NoCidr
    BY DEF IInv, Searching
  <2>2. net \in Manifest /\ f \in Fam
    BY <2>1, TypeFacts DEF IInv
  <2>3. /\ Begin \in Nat /\ EndIndex \in Nat /\ FirstIndex \in Nat /\ LastIpIndex(Pool) \in Nat
    BY <2>2, SearchFacts
  <2>4. P!LastIpIndex(p) = LastIpIndex(Pool)
    BY <2>3 DEF P!LastIpIndex, P!Unset
  <2>5. Offset(f, StartOf) = Begin /\ Offset(f, EndOf) = EndIndex
    BY <2>1 DEF Offset, StartOf, EndOf, Begin, EndIndex, Pool
  <2>6. P!FreeIndex(p, f) = IF Upper # {} THEN P!FirstOf(Upper)
                            ELSE IF Lower # {} THEN P!FirstOf(Lower) ELSE Unset
    BY <2>2, <2>4, <2>5 DEF P!FreeIndex, P!Unset, Unset, Upper, Lower, FirstIndex
  <2>7. ASSUME NEW S \in SUBSET Nat, NEW r \in S, \A j \in S : r <= j
        PROVE  P!FirstOf(S) = r
    <3>1. P!FirstOf(S) = CHOOSE k \in S : \A j \in S : k <= j
      BY DEF P!FirstOf
    <3>2. P!FirstOf(S) \in S /\ \A j \in S : P!FirstOf(S) <= j
      BY <2>7, <3>1, Zenon
    <3>3. \A k \in S : k <= r /\ r <= k => k = r
      OBVIOUS
    <3> QED BY <2>7, <3>2, <3>3, Zenon
  <2>8. Upper \subseteq Nat /\ Lower \subseteq Nat
    BY <2>3 DEF Upper, Lower
  <2>9. \/ result \in Upper /\ \A j \in Upper : result <= j
        \/ Upper = {} /\ result \in Lower /\ \A j \in Lower : result <= j
        \/ Upper = {} /\ Lower = {} /\ result = Unset
    BY DEF IInv, Searching
  <2>10. result = P!FreeIndex(p, f)
    <3> HIDE DEF p
    <3>1. CASE Upper # {} /\ result \in Upper /\ \A j \in Upper : result <= j
      <4>1. P!FirstOf(Upper) = result
        BY <2>7, <2>8, <3>1
      <4> QED BY <2>6, <3>1, <4>1
    <3>2. CASE Upper = {} /\ result \in Lower /\ \A j \in Lower : result <= j
      <4>1. P!FirstOf(Lower) = result
        BY <2>7, <2>8, <3>2
      <4> QED BY <2>6, <3>2, <4>1
    <3>3. CASE Upper = {} /\ Lower = {} /\ result = Unset
      BY <2>6, <3>3
    <3> QED BY <2>9, <3>1, <3>2, <3>3
  <2> QED BY <2>10 DEF ScanIsFreeIndex
<1> QED BY <1>1, IInvHolds, PTL

\* A Pod that the webhook has seen keeps its network, and the VNI and the device of one that
\* has a VNI, through every update and delete that is admitted (validators.go:252,
\* netdel.go:25).
THEOREM PodsKeepTheirLinkAlways == Spec => PodsKeepTheirLink
<1> DEFINE Kept == seen /\ net # NoNet /\ net' # net /\ pc = "admitted" =>
                     /\ net' # NoNet
                     /\ net.vlan # 0 \/ net.vxlan # 0 =>
                            <<net'.vlan, net'.vxlan, net'.device>>
                                = <<net.vlan, net.vxlan, net.device>>
<1>1. IInv /\ [Next]_vars => [Kept]_vars
  <2> SUFFICES ASSUME IInv, [Next]_vars, seen, net # NoNet, net' # net, pc = "admitted"
               PROVE  /\ net' # NoNet
                      /\ net.vlan # 0 \/ net.vxlan # 0 =>
                            /\ net'.vlan = net.vlan /\ net'.vxlan = net.vxlan
                            /\ net'.device = net.device
    OBVIOUS
  <2>1. Next
    BY DEF vars
  <2>2. net' = req
    <3>1. ~(Create \/ Update \/ DeleteNetwork \/ Recover)
      BY DEF Create, Update, DeleteNetwork, Recover
    <3>2. ~Take /\ ~WrapAround /\ ~Advance /\ ~Exhaust /\ ~Crash /\ ~Reserve
      <4>1. (Take => IsFree) /\ (WrapAround => IsTaken) /\ (Advance => IsTaken)
        BY DEF Take, WrapAround, WrapTo, Advance
      <4>2. ~IsFree /\ ~IsTaken
        BY DEF IsFree, IsTaken
      <4>3. ~Exhaust /\ ~Crash /\ ~Reserve
        BY DEF Exhaust, Crash, Reserve
      <4> QED BY <4>1, <4>2, <4>3
    <3>3. \A fam \in Fam : ~StartScan(fam)
      BY DEF StartScan
    <3>4. ~Connect /\ ~Disconnect
      BY DEF Connect, Disconnect
    <3>5. Store
      BY <2>1, <3>1, <3>2, <3>3, <3>4, Zenon DEF Next
    <3> QED BY <3>5 DEF Store
  <2>3. LinkKept
    BY DEF IInv, Requests
  <2> QED BY <2>2, <2>3 DEF LinkKept
<1>2. Spec => [][Kept]_vars
  BY <1>1, IInvHolds, PTL DEF Spec
<1> QED BY <1>2 DEF PodsKeepTheirLink

\* What PoolAssumption of module IpamPool asks of a pool: the dynamic part is not empty and
\* lies in the allocation CIDR, counted in the indexes that pkg/ipam computes, and the
\* allocation CIDR is not larger than the subnet.
PoolsReady ==
    net # NoNet => \A fam \in Fam : net[fam].cidr # NoCidr =>
        /\ {StartOf(net[fam]), EndOf(net[fam]), PoolSizeOf(net[fam])} \subseteq Nat
        /\ StartOf(net[fam]) < EndOf(net[fam]) /\ EndOf(net[fam]) < PoolSizeOf(net[fam])
        /\ PoolSizeOf(net[fam]) <= Size(net[fam].net)

\* The validators (validators.go:89-150) establish what the allocations of pkg/ipam assume
\* of a pool, for V4 and V6 addresses of any width: the indexes do not wrap around.
THEOREM PoolsReadyAlways == Spec => []PoolsReady
<1>1. IInv => PoolsReady
  <2> SUFFICES ASSUME IInv, net # NoNet, NEW fam \in Fam, net[fam].cidr # NoCidr
               PROVE  /\ {StartOf(net[fam]), EndOf(net[fam]), PoolSizeOf(net[fam])} \subseteq Nat
                      /\ StartOf(net[fam]) < EndOf(net[fam])
                      /\ EndOf(net[fam]) < PoolSizeOf(net[fam])
                      /\ PoolSizeOf(net[fam]) <= Size(net[fam].net)
    BY DEF PoolsReady
  <2>1. PICK s : s = net[fam]
    OBVIOUS
  <2>2. s \in Part /\ s.cidr \in Cidrs /\ s.net \in Cidrs /\ s.cidr # NoCidr
    <3>1. net.v4 \in Part /\ net.v6 \in Part
      BY TypeFacts DEF IInv, Manifest
    <3>2. s \in Part
      BY <2>1, <3>1 DEF Fam
    <3> QED BY <2>1, <3>2 DEF Part
  <2>3. PoolSound(s)
    BY <2>1 DEF IInv, Stored, NetSound, Fam
  <2>4. /\ Inside(s.net, s.cidr)
        /\ Contains(s.cidr, s.start) /\ Contains(s.cidr, s.end) /\ s.start < s.end
        /\ Size(s.cidr) <= Capacity
    BY <2>2, <2>3 DEF PoolSound
  <2>5. /\ Size(s.cidr) \in Nat /\ Size(s.net) \in Nat
        /\ s.cidr.base \in Nat /\ s.net.base \in Nat
    BY <2>2, CidrFacts
  <2>6. /\ s.start \in Nat /\ s.end \in Nat
    BY <2>4, <2>5 DEF Contains
  <2>7. /\ GetIndexOfIp(s.start, s.cidr) = s.start - s.cidr.base
        /\ GetIndexOfIp(s.end, s.cidr) = s.end - s.cidr.base
    BY <2>2, <2>4, <2>6, IndexInside
  <2>8. Size(s.cidr) <= Size(s.net)
    BY <2>4, <2>5 DEF Inside, Contains
  <2>9. /\ s.start - s.cidr.base \in Nat /\ s.end - s.cidr.base \in Nat
        /\ s.start - s.cidr.base < s.end - s.cidr.base /\ s.end - s.cidr.base < Size(s.cidr)
    BY <2>4, <2>5, <2>6 DEF Contains
  <2> QED BY <2>1, <2>5, <2>7, <2>8, <2>9 DEF StartOf, EndOf, PoolSizeOf
<1> QED BY <1>1, IInvHolds, PTL

=============================================================================
