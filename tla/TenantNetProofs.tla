-------------------------- MODULE TenantNetProofs --------------------------
(***************************************************************************)
(* Proofs about module TenantNet, for any TenantConfig that passes its       *)
(* validation, any set of manifests and any number of admission requests.    *)
(***************************************************************************)
EXTENDS TenantNet, WellFoundedInduction, TLAPS

-----------------------------------------------------------------------------
\* The inductive invariant.

Creating == {"create", "reserve", "reserveget", "post", "store"}

\* The name of the interface profile of a network.
Key(m) == IF m.devicePool # "" THEN m.devicePool ELSE m.device

\* A network with a VNI is of a dynamic type, and its VNI one of the range of a profile.
Sound(m) ==
    VniOf(m) # 0 =>
        /\ IsTypeDynamic(m.type)
        /\ VniProfile(m) \in Profiles
        /\ VniOf(m) \in HostDevices[VniProfile(m)].vniRange

\* What an admission request has established when it is at each of its steps.
Staged(t) ==
    /\ t.pc # "idle" => t.name \in Names
    /\ t.pc \in {"create", "reserve", "reserveget"} => t.tnet.vlan = 0 /\ t.tnet.vxlan = 0
    /\ t.pc = "create" => validateNetworkByType(t.tnet)
    /\ t.pc \in {"reserve", "reserveget"} =>
          /\ IsTypeDynamic(t.tnet.type)
          /\ t.iface \in Profiles
          /\ HostDevices[t.iface].vniType \in {"vlan", "vxlan"}
          /\ Key(t.tnet) = HostDevices[t.iface].name
    /\ t.pc \in {"post", "store"} => Sound(t.tnet)

Stages ==
    /\ \A w \in Workers : Staged(task[w])
    /\ \A n \in DOMAIN networks : Sound(networks[n])

\* A copy of the TenantConfig is not newer than the object, and has its bitmaps when
\* it has its version.
Copies ==
    \A w \in Workers : task[w].pc \in {"reserve", "free"} =>
        /\ task[w].tconf.rv <= conf.rv
        /\ task[w].tconf.rv = conf.rv => task[w].tconf.alloc = conf.alloc

\* VNI 0 is taken in every bitmap.
ZeroTaken == \A i \in Profiles : HostDevices[i].vniType # "" => 0 \in conf.alloc[i]

\* The UID of a network tells it from all others: from those that are stored, and from
\* those other requests create or delete.
Uids ==
    /\ requests <= MaxRequests
    /\ \A n \in DOMAIN networks : networks[n].uid \in 1 .. requests
    /\ \A w \in Workers : task[w].pc # "idle" => task[w].tnet.uid \in 1 .. requests
    /\ \A v, w \in Workers :
          v # w /\ task[v].pc \in Creating /\ task[w].pc # "idle" =>
              task[v].tnet.uid # task[w].tnet.uid
    /\ \A w \in Workers : task[w].pc \in Creating =>
          \A n \in DOMAIN networks : task[w].tnet.uid # networks[n].uid
    /\ \A m, n \in DOMAIN networks : m # n => networks[m].uid # networks[n].uid

\* A network that a request is about to remove has no VNI, or it has been freed.
Removing ==
    \A w \in Workers : task[w].pc = "remove" /\ IsStored(task[w].name, task[w].tnet) =>
        task[w].name \in freed \/ VniOf(task[w].tnet) = 0

\* A network with UID u, stored or about to be, holds VNI v of profile i.
Bears(m, u, i, v) == m.uid = u /\ VniProfile(m) = i /\ VniOf(m) = v /\ v # 0
NetHolds(n, u, i, v) == n \in DOMAIN networks /\ n \notin freed /\ Bears(networks[n], u, i, v)
TaskHolds(w, u, i, v) == task[w].pc \in {"post", "store"} /\ Bears(task[w].tnet, u, i, v)
Holds(u, i, v) ==
    \/ \E n \in Names : NetHolds(n, u, i, v)
    \/ \E w \in Workers : TaskHolds(w, u, i, v)

\* The three safety properties, in these terms.
Recorded == ~disturbed => \A u, i, v : Holds(u, i, v) => v \in conf.alloc[i]
Exclusive == ~disturbed => \A u, t, i, v : Holds(u, i, v) /\ Holds(t, i, v) => u = t
NoLeak ==
    fails = 0 /\ ~denied =>
        \A i \in Profiles : \A v \in conf.alloc[i] \ {0} : \E u : Holds(u, i, v)

Base == TypeOK /\ Stages /\ Copies /\ ZeroTaken /\ Uids /\ Removing

IInv == Base /\ Recorded /\ Exclusive /\ NoLeak

-----------------------------------------------------------------------------
\* The TenantConfig and the operators over its profiles.

\* A non-empty set of naturals has a smallest element.
LEMMA LeastExists ==
    ASSUME NEW S \in SUBSET Nat, S # {}
    PROVE  \E x \in S : \A y \in S : x <= y
<1> DEFINE R == {ss \in Nat \X Nat : ss[1] < ss[2]}
<1>1. IsWellFoundedOn(R, Nat)
  BY NatLessThanWellFounded DEF OpToRel
<1>2. PICK x \in S : \A y \in S : ~ (<<y, x>> \in R)
  <2> HIDE DEF R
  <2> QED BY <1>1, WFMin, Zenon
<1>3. ASSUME NEW y \in S PROVE x <= y
  <2>1. <<y, x>> \in Nat \X Nat /\ <<y, x>>[1] = y /\ <<y, x>>[2] = x
    OBVIOUS
  <2>2. ~ (y < x)
    BY <1>2, <2>1, Zenon
  <2> QED BY <2>2
<1> QED BY <1>3

\* A validated TenantConfig: every profile has a name, and only a virtual one has VNIs.
LEMMA ProfileFacts ==
    /\ Profiles \subseteq Nat /\ 0 \notin Profiles
    /\ \A i \in Profiles : \A j \in 1 .. i - 1 : j \in Profiles
    /\ \A i \in Profiles :
          /\ HostDevices[i].name \in DeviceNames /\ HostDevices[i].name # ""
          /\ HostDevices[i].vniRange \in SUBSET Nat
          /\ HostDevices[i].vniRange # {} => HostDevices[i].vniType # ""
<1> DEFINE T == [name : DeviceNames, slash : BOOLEAN, vniType : STRING, vniRange : SUBSET Nat]
<1>0. HostDevices \in Seq(T)
  BY ConfigAssumption
<1> HIDE DEF T
<1>1. Profiles = 1 .. Len(HostDevices) /\ Len(HostDevices) \in Nat
  BY <1>0 DEF Profiles
<1>2. \A i \in Profiles : HostDevices[i] \in T
  BY <1>0, <1>1
<1>3. \A i \in Profiles : validateIfaceConfig(HostDevices[i])
  BY ConfigAssumption DEF validateTenantconfig
<1>4. Profiles \subseteq Nat /\ 0 \notin Profiles
      /\ \A i \in Profiles : \A j \in 1 .. i - 1 : j \in Profiles
  BY <1>1
<1> QED BY <1>2, <1>3, <1>4 DEF T, validateIfaceConfig

\* The index of a profile: one that has the name and the VNI type, if there is one.
LEMMA IfaceIndex ==
    ASSUME NEW n, NEW type, NEW x, x = getIfaceIndex(n, type)
    PROVE  /\ \/ x = 0
              \/ x \in Profiles /\ HostDevices[x].name = n /\ HostDevices[x].vniType = type
           /\ \A i \in Profiles :
                 HostDevices[i].name = n /\ HostDevices[i].vniType = type => x \in Profiles
<1> DEFINE Is(i) == HostDevices[i].name = n /\ HostDevices[i].vniType = type
           S == {i \in Profiles : Is(i)}
<1>1. x = IF \E i \in Profiles : Is(i)
          THEN CHOOSE i \in Profiles : Is(i) /\ \A j \in 1 .. i - 1 : ~Is(j)
          ELSE 0
  BY DEF getIfaceIndex, FirstProfile
<1>2. ASSUME \E i \in Profiles : Is(i)
      PROVE  \E i \in Profiles : Is(i) /\ \A j \in 1 .. i - 1 : ~Is(j)
  <2>1. S \in SUBSET Nat /\ S # {}
    BY <1>2, ProfileFacts
  <2>2. PICK i \in S : \A j \in S : i <= j
    <3> HIDE DEF S
    <3> QED BY <2>1, LeastExists
  <2>3. \A j \in 1 .. i - 1 : ~Is(j)
    <3> SUFFICES ASSUME NEW j \in 1 .. i - 1, Is(j) PROVE FALSE
      OBVIOUS
    <3>1. j \in S
      BY ProfileFacts
    <3>2. i <= j /\ i \in Nat /\ j \in Nat
      BY <2>2, <3>1, ProfileFacts
    <3> QED BY <3>2
  <2> QED BY <2>2, <2>3
<1> HIDE DEF Is
<1>3. CASE \E i \in Profiles : Is(i)
  <2>1. x = CHOOSE i \in Profiles : Is(i) /\ \A j \in 1 .. i - 1 : ~Is(j)
    BY <1>1, <1>3
  <2>2. x \in Profiles /\ Is(x)
    BY <1>2, <1>3, <2>1
  <2> QED BY <2>2 DEF Is
<1>4. CASE ~ \E i \in Profiles : Is(i)
  BY <1>1, <1>4 DEF Is
<1> QED BY <1>3, <1>4

\* A network is attached to a profile that is known by the name it asked for, or that
\* becomes its device.
LEMMA CandidateFacts ==
    ASSUME NEW m \in Manifest, validateNetworkByType(m), NEW i \in Candidates(m)
    PROVE  i \in Profiles /\ Key(WithDevice(m, i)) = HostDevices[i].name
<1> DEFINE Asked(j) == \/ m.devicePool # "" /\ m.devicePool = HostDevices[j].name
                       \/ m.device = HostDevices[j].name /\ ~HostDevices[j].slash
           First(j) == Asked(j) /\ \A k \in 1 .. j - 1 : ~Asked(k)
           S == {j \in Profiles : Asked(j)}
           asked == IF \E j \in Profiles : Asked(j) THEN CHOOSE j \in Profiles : First(j) ELSE 0
<1>1. i \in IF asked # 0 THEN {asked}
            ELSE IF m.devicePool # "" \/ m.device # "" THEN {}
            ELSE {j \in Profiles : ~HostDevices[j].slash}
  BY DEF Candidates, FirstProfile
<1>2. asked # 0 => asked \in Profiles /\ Asked(asked)
  <2> SUFFICES ASSUME \E j \in Profiles : Asked(j) PROVE asked \in Profiles /\ Asked(asked)
    OBVIOUS
  <2>1. S \in SUBSET Nat /\ S # {}
    BY ProfileFacts
  <2>2. PICK j \in S : \A k \in S : j <= k
    <3> HIDE DEF S
    <3> QED BY <2>1, LeastExists
  <2>3. First(j)
    <3> SUFFICES ASSUME NEW k \in 1 .. j - 1, Asked(k) PROVE FALSE
      BY <2>2
    <3>1. k \in S
      BY ProfileFacts
    <3>2. j <= k /\ j \in Nat /\ k \in Nat
      BY <2>2, <3>1, ProfileFacts
    <3> HIDE DEF Asked, S
    <3> QED BY <3>2
  <2>4. \E x \in Profiles : First(x)
    BY <2>2, <2>3
  <2>5. asked = CHOOSE x \in Profiles : First(x)
    OBVIOUS
  <2>6. asked \in Profiles /\ First(asked)
    <3> HIDE DEF First, asked
    <3> QED BY <2>4, <2>5
  <2> QED BY <2>6
<1> HIDE DEF asked
<1>3. CASE asked # 0
  <2>1. i = asked /\ i \in Profiles /\ Asked(i) /\ HostDevices[i].name # ""
    BY <1>1, <1>2, <1>3, ProfileFacts
  <2>2. m.devicePool = "" \/ m.device = ""
    BY DEF validateNetworkByType
  <2>3. WithDevice(m, i) = m
    BY <2>1 DEF WithDevice
  <2> QED BY <2>1, <2>2, <2>3 DEF Key
<1>4. CASE asked = 0
  <2>1. i \in Profiles /\ m.devicePool = "" /\ m.device = ""
    BY <1>1, <1>4
  <2>2. WithDevice(m, i) = [m EXCEPT !.device = HostDevices[i].name]
    BY <2>1 DEF WithDevice
  <2> QED BY <2>1, <2>2 DEF Key, Manifest
<1> QED BY <1>3, <1>4

\* The manifest of a request has a UID of its own.
LEMMA UidFacts ==
    ASSUME NEW m \in Manifest, NEW u \in Nat, NEW p, p = [m EXCEPT !.uid = u]
    PROVE  /\ p \in Manifest /\ p.uid = u
           /\ p.vlan = m.vlan /\ p.vxlan = m.vxlan /\ p.type = m.type
           /\ p.device = m.device /\ p.devicePool = m.devicePool
BY DEF Manifest

\* What the webhook fills in before the reservation leaves the rest of the network alone.
LEMMA WithDeviceFacts ==
    ASSUME NEW m \in Manifest, NEW i \in Profiles
    PROVE  /\ WithDevice(m, i) \in Manifest
           /\ WithDevice(m, i).uid = m.uid /\ WithDevice(m, i).type = m.type
           /\ WithDevice(m, i).vlan = m.vlan /\ WithDevice(m, i).vxlan = m.vxlan
<1>1. HostDevices[i].name \in DeviceNames
  BY ProfileFacts
<1> QED BY <1>1 DEF WithDevice, Manifest

LEMMA WithNetworkIdFacts ==
    ASSUME NEW m \in Manifest, NEW p, p = WithNetworkId(m)
    PROVE  /\ p \in Manifest
           /\ p.uid = m.uid /\ p.type = m.type
           /\ VniOf(p) = VniOf(m) /\ VniProfile(p) = VniProfile(m)
BY DEF WithNetworkId, Manifest, VniOf, VniProfile

\* The VNI of a reservation is the smallest free one of the range.
LEMMA ReserveVniFacts ==
    ASSUME NEW c \in Conf, NEW i \in Profiles, FreeVnis(c, i) # {}
    PROVE  /\ reserveVni(c, i) \in HostDevices[i].vniRange
           /\ reserveVni(c, i) \notin c.alloc[i]
           /\ reserveVni(c, i) \in Nat
<1>1. FreeVnis(c, i) \in SUBSET Nat
  BY ProfileFacts DEF FreeVnis
<1>2. \E v \in FreeVnis(c, i) : \A u \in FreeVnis(c, i) : v <= u
  BY <1>1, LeastExists
<1>3. reserveVni(c, i) \in FreeVnis(c, i)
  BY <1>2 DEF reserveVni
<1> QED BY <1>1, <1>3 DEF FreeVnis

\* The network that has the VNI: it is found again in the same bitmap.
LEMMA WithVniFacts ==
    ASSUME NEW m \in Manifest, m.vlan = 0, m.vxlan = 0, IsTypeDynamic(m.type),
           NEW f \in Profiles, HostDevices[f].vniType \in {"vlan", "vxlan"},
           Key(m) = HostDevices[f].name,
           NEW i, i = getIfaceIndex(HostDevices[f].name, HostDevices[f].vniType),
           NEW v \in HostDevices[i].vniRange, v # 0,
           NEW p, p = WithVni(m, f, v)
    PROVE  /\ p \in Manifest /\ p.uid = m.uid
           /\ VniOf(p) = v /\ VniProfile(p) = i /\ i \in Profiles /\ Sound(p)
<1>1. i \in Profiles
  BY IfaceIndex
<1>2. v \in Nat
  BY <1>1, ProfileFacts
<1>3. /\ p \in Manifest /\ p.uid = m.uid /\ p.type = m.type
      /\ p.devicePool = m.devicePool /\ p.device = m.device
      /\ HostDevices[f].vniType = "vlan" => p.vlan = v /\ p.vxlan = 0
      /\ HostDevices[f].vniType = "vxlan" => p.vxlan = v /\ p.vlan = 0
  BY <1>2 DEF WithVni, Manifest
<1>4. VniOf(p) = v /\ VniProfile(p) = getIfaceIndex(Key(m), HostDevices[f].vniType)
  BY <1>3 DEF VniOf, VniProfile, Key
<1> QED BY <1>1, <1>3, <1>4 DEF Sound

-----------------------------------------------------------------------------
\* What a step does to the VNIs, told apart by their effect on the bitmaps and the holders.

\* API failures and late denials are never forgotten.
Remembers == fails' = 0 /\ ~denied' => fails = 0 /\ ~denied

SameHolders == \A t, j, x : Holds(t, j, x)' <=> Holds(t, j, x)

\* Nothing happens to them.
Same == SameHolders /\ conf'.alloc = conf.alloc /\ disturbed' = disturbed /\ Remembers

\* A VNI of the range of the profile is free, and becomes taken.
Takes(i, v) ==
    /\ i \in Profiles /\ v \in HostDevices[i].vniRange /\ v # 0 /\ v \notin conf.alloc[i]
    /\ conf'.alloc = [conf.alloc EXCEPT ![i] = @ \cup {v}]
    /\ disturbed' = disturbed

HasNone(u) == u \in 1 .. MaxRequests /\ \A j, x : ~Holds(u, j, x)

\* It is the VNI of a network from now on ...
Acquired(u, i, v) ==
    /\ Takes(i, v) /\ HasNone(u) /\ Remembers
    /\ \A t, j, x : Holds(t, j, x)' <=> Holds(t, j, x) \/ (t = u /\ j = i /\ x = v)

\* ... or of none, since the webhook has not heard of it.
Lost(u, i, v) == Takes(i, v) /\ HasNone(u) /\ SameHolders /\ fails' # 0

Leaves(u) == \A t, j, x : Holds(t, j, x)' <=> Holds(t, j, x) /\ t # u

\* A network is not stored after all, and its VNI stays taken.
Dropped(u) ==
    /\ u \in 1 .. MaxRequests
    /\ Leaves(u) /\ conf'.alloc = conf.alloc /\ disturbed' = disturbed
    /\ denied' \/ SameHolders
    /\ Remembers

\* The VNI of a network becomes free.
Released(u, i, v) ==
    /\ Holds(u, i, v) /\ Leaves(u)
    /\ conf'.alloc = [conf.alloc EXCEPT ![i] = @ \ {v}]
    /\ disturbed' = disturbed /\ Remembers

\* VNIs become free that were not given back by their network.
Disturbs ==
    /\ disturbed' = TRUE /\ SameHolders /\ Remembers
    /\ \A i \in Profiles : \A v \in conf'.alloc[i] \ {0} : v \in conf.alloc[i]

Effect ==
    \/ Same \/ Disturbs
    \/ \E u : Dropped(u)
    \/ \E u, i, v : Acquired(u, i, v) \/ Lost(u, i, v) \/ Released(u, i, v)

\* A holder is known by its UID, and holds one VNI, from the range of a profile.
LEMMA HolderFacts ==
    ASSUME TypeOK, Stages, Uids, NEW u, NEW i, NEW v, Holds(u, i, v)
    PROVE  /\ u \in 1 .. MaxRequests
           /\ i \in Profiles /\ v \in HostDevices[i].vniRange /\ v # 0
           /\ \A j, x : Holds(u, j, x) => j = i /\ x = v
<1>1. ASSUME NEW n \in Names, NetHolds(n, u, i, v)
      PROVE  /\ u \in 1 .. requests
             /\ i \in Profiles /\ v \in HostDevices[i].vniRange /\ v # 0
  BY <1>1 DEF NetHolds, Bears, Stages, Sound, Uids
<1>2. ASSUME NEW w \in Workers, TaskHolds(w, u, i, v)
      PROVE  /\ u \in 1 .. requests
             /\ i \in Profiles /\ v \in HostDevices[i].vniRange /\ v # 0
  BY <1>2 DEF TaskHolds, Bears, Stages, Staged, Sound, Uids
<1>3. /\ u \in 1 .. requests
      /\ i \in Profiles /\ v \in HostDevices[i].vniRange /\ v # 0
  BY <1>1, <1>2 DEF Holds
<1>4. requests \in Nat /\ MaxRequests \in Nat /\ requests <= MaxRequests
  BY ConfigAssumption DEF TypeOK, Uids
<1>5. ASSUME NEW j, NEW x, Holds(u, j, x)
      PROVE  j = i /\ x = v
  <2>1. ASSUME NEW m \in Names, NetHolds(m, u, i, v), NEW n \in Names, NetHolds(n, u, j, x)
        PROVE  j = i /\ x = v
    BY <2>1 DEF NetHolds, Bears, Uids
  <2>2. ASSUME NEW y \in Workers, TaskHolds(y, u, i, v), NEW w \in Workers, TaskHolds(w, u, j, x)
        PROVE  j = i /\ x = v
    BY <2>2 DEF TaskHolds, Bears, Uids, Creating
  <2>3. ASSUME NEW n \in Names, NetHolds(n, u, i, v), NEW w \in Workers, TaskHolds(w, u, j, x)
        PROVE  FALSE
    BY <2>3 DEF TaskHolds, NetHolds, Bears, Uids, Creating
  <2>4. ASSUME NEW n \in Names, NetHolds(n, u, j, x), NEW w \in Workers, TaskHolds(w, u, i, v)
        PROVE  FALSE
    BY <2>4 DEF TaskHolds, NetHolds, Bears, Uids, Creating
  <2> QED BY <1>5, <2>1, <2>2, <2>3, <2>4 DEF Holds
<1>6. u \in 1 .. MaxRequests
  BY <1>3, <1>4
<1> QED BY <1>3, <1>5, <1>6

\* No effect disturbs the safety properties.
LEMMA EffectSafe ==
    ASSUME TypeOK, TypeOK', Stages, Uids, Recorded, Exclusive, NoLeak, Effect
    PROVE  Recorded' /\ Exclusive' /\ NoLeak'
<1>1. /\ fails \in Nat /\ fails' \in Nat /\ disturbed \in BOOLEAN /\ denied \in BOOLEAN
      /\ conf.alloc \in [Profiles -> SUBSET Nat] /\ conf'.alloc \in [Profiles -> SUBSET Nat]
  BY DEF TypeOK, Conf
<1>2. \A u, i, v : Holds(u, i, v) =>
         /\ i \in Profiles /\ v # 0
         /\ \A j, x : Holds(u, j, x) => j = i /\ x = v
  BY HolderFacts
<1>3. CASE Same
  BY <1>1, <1>3 DEF Same, SameHolders, Remembers, Recorded, Exclusive, NoLeak
<1>4. CASE Disturbs
  BY <1>1, <1>4 DEF Disturbs, SameHolders, Remembers, Recorded, Exclusive, NoLeak
<1>5. ASSUME NEW u, Dropped(u)
      PROVE  Recorded' /\ Exclusive' /\ NoLeak'
  BY <1>1, <1>5 DEF Dropped, Leaves, SameHolders, Remembers, Recorded, Exclusive, NoLeak
<1>6. ASSUME NEW u, NEW i, NEW v, Takes(i, v)
      PROVE  /\ i \in Profiles /\ v \notin conf.alloc[i] /\ disturbed' = disturbed
             /\ conf'.alloc[i] = conf.alloc[i] \cup {v}
             /\ \A j \in Profiles : j # i => conf'.alloc[j] = conf.alloc[j]
  BY <1>1, <1>6 DEF Takes
<1>7. ASSUME NEW u, NEW i, NEW v, Acquired(u, i, v)
      PROVE  Recorded' /\ Exclusive' /\ NoLeak'
  <2>1. /\ i \in Profiles /\ v \notin conf.alloc[i] /\ disturbed' = disturbed
        /\ conf'.alloc[i] = conf.alloc[i] \cup {v}
        /\ \A j \in Profiles : j # i => conf'.alloc[j] = conf.alloc[j]
    BY <1>6, <1>7 DEF Acquired
  <2>2. \A t, j, x : Holds(t, j, x)' <=> Holds(t, j, x) \/ (t = u /\ j = i /\ x = v)
    BY <1>7 DEF Acquired
  <2>3. Recorded'
    BY <1>2, <2>1, <2>2 DEF Recorded
  <2>4. Exclusive'
    BY <2>1, <2>2 DEF Recorded, Exclusive
  <2>5. NoLeak'
    <3> SUFFICES ASSUME fails' = 0, ~denied', NEW j \in Profiles, NEW x \in conf'.alloc[j] \ {0}
                 PROVE  \E t : Holds(t, j, x)'
      BY DEF NoLeak
    <3>1. fails = 0 /\ ~denied
      BY <1>7 DEF Acquired, Remembers
    <3> QED BY <2>1, <2>2, <3>1 DEF NoLeak
  <2> QED BY <2>3, <2>4, <2>5
<1>8. ASSUME NEW u, NEW i, NEW v, Lost(u, i, v)
      PROVE  Recorded' /\ Exclusive' /\ NoLeak'
  <2>1. /\ i \in Profiles /\ v \notin conf.alloc[i] /\ disturbed' = disturbed
        /\ conf'.alloc[i] = conf.alloc[i] \cup {v}
        /\ \A j \in Profiles : j # i => conf'.alloc[j] = conf.alloc[j]
    BY <1>6, <1>8 DEF Lost
  <2> QED BY <1>2, <1>8, <2>1 DEF Lost, SameHolders, Recorded, Exclusive, NoLeak
<1>9. ASSUME NEW u, NEW i, NEW v, Released(u, i, v)
      PROVE  Recorded' /\ Exclusive' /\ NoLeak'
  <2>1. /\ i \in Profiles /\ Holds(u, i, v) /\ disturbed' = disturbed
        /\ conf'.alloc[i] = conf.alloc[i] \ {v}
        /\ \A j \in Profiles : j # i => conf'.alloc[j] = conf.alloc[j]
    BY <1>1, <1>2, <1>9 DEF Released
  <2>2. \A t, j, x : Holds(t, j, x)' <=> Holds(t, j, x) /\ t # u
    BY <1>9 DEF Released, Leaves
  <2>3. Recorded' /\ Exclusive'
    BY <1>2, <2>1, <2>2 DEF Recorded, Exclusive
  <2>4. NoLeak'
    <3> SUFFICES ASSUME fails' = 0, ~denied', NEW j \in Profiles, NEW x \in conf'.alloc[j] \ {0}
                 PROVE  \E t : Holds(t, j, x)'
      BY DEF NoLeak
    <3>1. fails = 0 /\ ~denied
      BY <1>9 DEF Released, Remembers
    <3>2. x \in conf.alloc[j] \ {0} /\ ~(j = i /\ x = v)
      BY <2>1
    <3>3. PICK t : Holds(t, j, x)
      BY <3>1, <3>2 DEF NoLeak
    <3>4. t # u
      BY <1>2, <2>1, <3>2, <3>3
    <3> QED BY <2>2, <3>3, <3>4
  <2> QED BY <2>3, <2>4
<1> QED BY <1>3, <1>4, <1>5, <1>7, <1>8, <1>9 DEF Effect

\* A step of one request, as long as no network is stored or removed.
OthersKeep(w) == \A v \in Workers : v # w => task'[v] = task[v]

LEMMA WorkerFrame ==
    ASSUME IInv, NEW w \in Workers, OthersKeep(w), TypeOK',
           networks' = networks, requests' = requests,
           Staged(task'[w]),
           conf' = conf \/ conf'.rv = conf.rv + 1,
           task'[w].pc \in {"reserve", "free"} => task'[w].tconf = conf',
           \/ task'[w].pc = "idle"
           \/ /\ task[w].pc # "idle" /\ task'[w].tnet.uid = task[w].tnet.uid
              /\ task'[w].pc \in Creating => task[w].pc \in Creating,
           freed \subseteq freed',
           task'[w].pc = "remove" /\ IsStored(task'[w].name, task'[w].tnet) =>
               task'[w].name \in freed' \/ VniOf(task'[w].tnet) = 0
    PROVE  Stages' /\ Copies' /\ Uids' /\ Removing'
<1>1. Stages'
  BY DEF IInv, Base, Stages, OthersKeep
<1>2. Copies'
  <2>1. conf.rv \in Nat /\ \A v \in Workers : task[v].tconf.rv \in Nat
    BY DEF IInv, Base, TypeOK, Conf, Task
  <2>2. conf' = conf \/ conf'.rv = conf.rv + 1
    OBVIOUS
  <2> SUFFICES ASSUME NEW v \in Workers, task'[v].pc \in {"reserve", "free"}
               PROVE  /\ task'[v].tconf.rv <= conf'.rv
                      /\ task'[v].tconf.rv = conf'.rv => task'[v].tconf.alloc = conf'.alloc
    BY DEF Copies
  <2>3. CASE v = w
    <3>1. conf'.rv \in Nat
      BY DEF TypeOK, Conf
    <3> QED BY <2>3, <3>1
  <2>4. CASE v # w
    <3>1. task'[v] = task[v]
      BY <2>4 DEF OthersKeep
    <3>2. /\ task[v].tconf.rv <= conf.rv
          /\ task[v].tconf.rv = conf.rv => task[v].tconf.alloc = conf.alloc
      BY <3>1 DEF IInv, Base, Copies
    <3> QED BY <2>1, <2>2, <3>1, <3>2
  <2> QED BY <2>3, <2>4
<1>3. Uids'
  <2>1. \A v \in Workers : task'[v].pc # "idle" =>
           /\ task[v].pc # "idle" /\ task'[v].tnet.uid = task[v].tnet.uid
           /\ task'[v].pc \in Creating => task[v].pc \in Creating
    BY DEF OthersKeep
  <2>2. \A v \in Workers : task'[v].pc \in Creating => task'[v].pc # "idle"
    BY DEF Creating
  <2> QED BY <2>1, <2>2 DEF IInv, Base, Uids
<1>4. Removing'
  BY DEF IInv, Base, Removing, IsStored, Stored, OthersKeep
<1> QED BY <1>1, <1>2, <1>3, <1>4

\* The holders do not change when the request holds what it held before.
LEMMA SameHoldersFrame ==
    ASSUME NEW w \in Workers, OthersKeep(w), networks' = networks, freed' = freed,
           \/ /\ task'[w].pc \notin {"post", "store"} \/ VniOf(task'[w].tnet) = 0
              /\ task[w].pc \notin {"post", "store"} \/ VniOf(task[w].tnet) = 0
           \/ /\ task'[w].pc \in {"post", "store"} /\ task[w].pc \in {"post", "store"}
              /\ task'[w].tnet.uid = task[w].tnet.uid
              /\ VniProfile(task'[w].tnet) = VniProfile(task[w].tnet)
              /\ VniOf(task'[w].tnet) = VniOf(task[w].tnet)
    PROVE  SameHolders
<1>1. \A u, i, v : TaskHolds(w, u, i, v)' <=> TaskHolds(w, u, i, v)
  BY DEF TaskHolds, Bears
<1>2. \A y \in Workers : \A u, i, v : TaskHolds(y, u, i, v)' <=> TaskHolds(y, u, i, v)
  <2> SUFFICES ASSUME NEW y \in Workers, NEW u, NEW i, NEW v
               PROVE  TaskHolds(y, u, i, v)' <=> TaskHolds(y, u, i, v)
    OBVIOUS
  <2>1. CASE y = w
    BY <1>1, <2>1
  <2>2. CASE y # w
    BY <2>2 DEF TaskHolds, OthersKeep
  <2> QED BY <2>1, <2>2
<1>3. \A n, u, i, v : NetHolds(n, u, i, v)' <=> NetHolds(n, u, i, v)
  BY DEF NetHolds
<1> QED BY <1>2, <1>3 DEF SameHolders, Holds

-----------------------------------------------------------------------------
\* The steps, one by one.

LEMMA IdleFacts == Idle \in Task /\ Idle.pc = "idle" /\ Staged(Idle) /\ NewConf \in Conf
<1>1. NewConf \in Conf
  BY DEF NewConf, NewAlloc, Conf
<1>2. NoNet \in Manifest
  BY ConfigAssumption DEF NoNet, Manifest
<1> QED BY <1>1, <1>2 DEF Idle, Task, Staged, NoName

\* The task of a request after each form of update.
LEMMA DoneFacts ==
    ASSUME task \in [Workers -> Task], NEW w \in Workers, Done(w)
    PROVE  task' \in [Workers -> Task] /\ task'[w] = Idle /\ OthersKeep(w)
BY IdleFacts DEF Done, OthersKeep

LEMMA GotoFacts ==
    ASSUME task \in [Workers -> Task], NEW w \in Workers,
           NEW l \in {"reserveget", "post", "freeget", "remove"}, Goto(w, l)
    PROVE  /\ task' \in [Workers -> Task] /\ OthersKeep(w)
           /\ task'[w].pc = l /\ task'[w].tnet = task[w].tnet /\ task'[w].name = task[w].name
           /\ task'[w].iface = task[w].iface
<1>1. task'[w] = [task[w] EXCEPT !.pc = l] /\ OthersKeep(w)
  BY DEF Goto, OthersKeep
<1>2. [task[w] EXCEPT !.pc = l] \in Task
  BY DEF Task
<1>3. task' \in [Workers -> Task]
  BY <1>1, <1>2 DEF Goto
<1> QED BY <1>1, <1>3 DEF Task

\* The webhook's call fails and leaves the TenantConfig alone.
LEMMA CallFailsBase ==
    ASSUME IInv, NEW w \in Workers, CallFails(w), task[w].pc \notin {"post", "store"},
           UNCHANGED <<conf, objects, requests, history>>
    PROVE  Base' /\ Effect
<1>1. task' \in [Workers -> Task] /\ task'[w] = Idle /\ OthersKeep(w)
  BY DoneFacts DEF IInv, Base, TypeOK, CallFails
<1>2. fails' = fails + 1 /\ fails \in Nat
  BY DEF CallFails, IInv, Base, TypeOK
<1>3. /\ conf' = conf /\ networks' = networks /\ pods' = pods /\ requests' = requests
      /\ freed' = freed /\ disturbed' = disturbed /\ denied' = denied
  BY DEF objects, history
<1>4. TypeOK'
  BY <1>1, <1>2, <1>3 DEF IInv, Base, TypeOK
<1>5. Stages' /\ Copies' /\ Uids' /\ Removing'
  BY <1>1, <1>3, <1>4, IdleFacts, WorkerFrame
<1>6. ZeroTaken'
  BY <1>3 DEF IInv, Base, ZeroTaken
<1>7. SameHolders
  BY <1>1, <1>3, IdleFacts, SameHoldersFrame
<1>8. Same
  BY <1>2, <1>3, <1>7 DEF Same, Remembers
<1> QED BY <1>4, <1>5, <1>6, <1>8 DEF Base, Effect

\* A step that changes only the task of a request, which holds no VNI before and after it.
LEMMA TaskStepBase ==
    ASSUME IInv, NEW w \in Workers, task' \in [Workers -> Task], OthersKeep(w),
           UNCHANGED <<conf, objects, requests, fails, history>>,
           Staged(task'[w]),
           task'[w].pc \in {"reserve", "free"} => task'[w].tconf = conf,
           \/ task'[w].pc = "idle"
           \/ /\ task[w].pc # "idle" /\ task'[w].tnet.uid = task[w].tnet.uid
              /\ task'[w].pc \in Creating => task[w].pc \in Creating,
           task'[w].pc = "remove" /\ IsStored(task'[w].name, task'[w].tnet) =>
               task'[w].name \in freed \/ VniOf(task'[w].tnet) = 0,
           task'[w].pc \notin {"post", "store"} \/ VniOf(task'[w].tnet) = 0,
           task[w].pc \notin {"post", "store"} \/ VniOf(task[w].tnet) = 0
    PROVE  Base' /\ Effect
<1>1. /\ conf' = conf /\ networks' = networks /\ pods' = pods /\ requests' = requests
      /\ fails' = fails /\ freed' = freed /\ disturbed' = disturbed /\ denied' = denied
  BY DEF objects, history
<1>2. TypeOK'
  BY <1>1 DEF IInv, Base, TypeOK
<1>3. Stages' /\ Copies' /\ Uids' /\ Removing'
  BY <1>1, <1>2, WorkerFrame
<1>4. ZeroTaken'
  BY <1>1 DEF IInv, Base, ZeroTaken
<1>5. SameHolders
  BY <1>1, SameHoldersFrame
<1>6. Same
  BY <1>1, <1>5 DEF Same, Remembers
<1> QED BY <1>2, <1>3, <1>4, <1>6 DEF Base, Effect

LEMMA ReadBase ==
    ASSUME IInv, NEW w \in Workers,
           \/ Read(w, "reserveget", "reserve")
           \/ Read(w, "delete", "free")
           \/ Read(w, "freeget", "free")
    PROVE  Base' /\ Effect
<1>1. PICK l \in {"reserve", "free"} :
         /\ task[w].pc \in IF l = "reserve" THEN {"reserveget"} ELSE {"delete", "freeget"}
         /\ \/ task' = [task EXCEPT ![w].pc = l, ![w].tconf = conf] /\ UNCHANGED fails
            \/ CallFails(w)
         /\ UNCHANGED <<conf, objects, requests, history>>
  BY DEF Read, At
<1>2. CASE CallFails(w)
  BY <1>1, <1>2, CallFailsBase
<1>3. CASE task' = [task EXCEPT ![w].pc = l, ![w].tconf = conf] /\ UNCHANGED fails
  <2>1. task[w] \in Task /\ conf \in Conf /\ Staged(task[w])
    BY DEF IInv, Base, TypeOK, Stages
  <2>2. task'[w] = [task[w] EXCEPT !.pc = l, !.tconf = conf] /\ OthersKeep(w)
    BY <1>3 DEF IInv, Base, TypeOK, OthersKeep
  <2>3. /\ task'[w] \in Task /\ task'[w].pc = l /\ task'[w].tconf = conf
        /\ task'[w].tnet = task[w].tnet /\ task'[w].name = task[w].name
        /\ task'[w].iface = task[w].iface
    BY <2>1, <2>2 DEF Task
  <2>4. task' \in [Workers -> Task]
    BY <1>3, <2>2, <2>3 DEF IInv, Base, TypeOK
  <2>5. Staged(task'[w])
    BY <1>1, <2>1, <2>3 DEF Staged
  <2>6. UNCHANGED <<conf, objects, requests, fails, history>>
    BY <1>1, <1>3
  <2> QED BY <1>1, <2>2, <2>3, <2>4, <2>5, <2>6, TaskStepBase DEF Creating
<1> QED BY <1>1, <1>2, <1>3

LEMMA ValidateNetworkBase ==
    ASSUME IInv, NEW w \in Workers, ValidateNetwork(w)
    PROVE  Base' /\ Effect
<1>1. PICK n \in Names, m \in Manifests :
         IF validateNetworkByType(m)
         THEN task' = [task EXCEPT ![w].pc = "create", ![w].name = n,
                                   ![w].tnet = [m EXCEPT !.uid = requests + 1]]
         ELSE UNCHANGED task
  BY DEF ValidateNetwork
<1>2. /\ task[w].pc = "idle" /\ requests' = requests + 1 /\ requests < MaxRequests
      /\ conf' = conf /\ networks' = networks /\ pods' = pods
      /\ fails' = fails /\ freed' = freed /\ disturbed' = disturbed /\ denied' = denied
  BY DEF ValidateNetwork, At, NewRequest, objects, history
<1>3. task[w] \in Task /\ requests \in Nat /\ MaxRequests \in Nat
  BY ConfigAssumption DEF IInv, Base, TypeOK
<1>4. /\ task' \in [Workers -> Task] /\ OthersKeep(w)
      /\ \/ task' = task
         \/ /\ task'[w].pc = "create" /\ task'[w].name = n /\ task'[w].tnet.uid = requests + 1
            /\ task'[w].tnet.vlan = 0 /\ task'[w].tnet.vxlan = 0
            /\ validateNetworkByType(task'[w].tnet)
  <2>1. CASE task' = task
    BY <2>1 DEF IInv, Base, TypeOK, OthersKeep
  <2>2. CASE task' # task
    <3> DEFINE p == [m EXCEPT !.uid = requests + 1]
    <3>1. m \in Manifest /\ validateNetworkByType(m)
      BY <1>1, <2>2, ConfigAssumption
    <3>2. /\ p \in Manifest /\ p.uid = requests + 1 /\ p.vlan = 0 /\ p.vxlan = 0
          /\ validateNetworkByType(p)
      <4>1. /\ p \in Manifest /\ p.uid = requests + 1 /\ p.vlan = m.vlan /\ p.vxlan = m.vxlan
            /\ p.type = m.type /\ p.device = m.device /\ p.devicePool = m.devicePool
        <5>1. requests + 1 \in Nat
          BY <1>3
        <5> QED BY <3>1, <5>1, UidFacts
      <4> HIDE DEF p
      <4> QED BY <3>1, <4>1 DEF validateNetworkByType
    <3> HIDE DEF p
    <3>3. task' = [task EXCEPT ![w].pc = "create", ![w].name = n, ![w].tnet = p]
      BY <1>1, <2>2 DEF p
    <3>4. task'[w] = [task[w] EXCEPT !.pc = "create", !.name = n, !.tnet = p] /\ OthersKeep(w)
      BY <3>3 DEF IInv, Base, TypeOK, OthersKeep
    <3>5. task'[w] \in Task /\ task'[w].pc = "create" /\ task'[w].name = n /\ task'[w].tnet = p
      BY <1>3, <3>2, <3>4 DEF Task
    <3>6. task' \in [Workers -> Task]
      BY <3>3, <3>4, <3>5 DEF IInv, Base, TypeOK
    <3> QED BY <3>2, <3>4, <3>5, <3>6
  <2> QED BY <2>1, <2>2
<1>5. TypeOK'
  BY <1>2, <1>3, <1>4 DEF IInv, Base, TypeOK
<1>6. Stages' /\ Copies' /\ ZeroTaken' /\ Removing'
  <2>1. task' = task \/ (Staged(task'[w]) /\ task'[w].pc = "create")
    <3>1. CASE task' # task
      BY <1>4, <3>1 DEF Staged
    <3> QED BY <3>1
  <2>2. Stages'
    BY <1>2, <1>4, <2>1 DEF IInv, Base, Stages, OthersKeep
  <2>3. Copies' /\ ZeroTaken' /\ Removing'
    BY <1>2, <1>4, <2>1 DEF IInv, Base, Copies, ZeroTaken, Removing, IsStored, Stored, OthersKeep
  <2> QED BY <2>2, <2>3
<1>7. Uids'
  <2>1. /\ requests' <= MaxRequests
        /\ \A n1 \in DOMAIN networks :
              networks[n1].uid \in 1 .. requests' /\ networks[n1].uid # requests + 1
    BY <1>2, <1>3 DEF IInv, Base, Uids
  <2>2. \A v \in Workers : v # w /\ task'[v].pc # "idle" =>
           task'[v].tnet.uid \in 1 .. requests' /\ task'[v].tnet.uid # requests + 1
    BY <1>2, <1>3, <1>4 DEF IInv, Base, Uids, OthersKeep
  <2>3. task'[w].pc # "idle" => task'[w].tnet.uid = requests + 1 /\ requests + 1 \in 1 .. requests'
    BY <1>2, <1>3, <1>4
  <2>4. \A v \in Workers : task'[v].pc \in Creating => task'[v].pc # "idle"
    BY DEF Creating
  <2>5. \A v, y \in Workers : v # y /\ task'[v].pc \in Creating /\ task'[y].pc # "idle" =>
           task'[v].tnet.uid # task'[y].tnet.uid
    BY <1>4, <2>2, <2>3, <2>4 DEF IInv, Base, Uids, OthersKeep
  <2>6. \A v \in Workers : task'[v].pc \in Creating =>
           \A n1 \in DOMAIN networks : task'[v].tnet.uid # networks[n1].uid
    BY <1>4, <2>1, <2>3, <2>4 DEF IInv, Base, Uids, OthersKeep
  <2>7. \A v \in Workers : task'[v].pc # "idle" => task'[v].tnet.uid \in 1 .. requests'
    BY <2>2, <2>3
  <2> QED BY <1>2, <2>1, <2>5, <2>6, <2>7 DEF IInv, Base, Uids
<1>8. SameHolders
  BY <1>2, <1>4, SameHoldersFrame
<1>9. Same
  BY <1>2, <1>8 DEF Same, Remembers
<1> QED BY <1>5, <1>6, <1>7, <1>9 DEF Base, Effect

LEMMA addTenantSpecificDetailsBase ==
    ASSUME IInv, NEW w \in Workers, addTenantSpecificDetails(w)
    PROVE  Base' /\ Effect
<1> DEFINE m == task[w].tnet
<1>1. /\ task[w] \in Task /\ task[w].pc = "create" /\ m \in Manifest /\ conf \in Conf
      /\ task \in [Workers -> Task]
      /\ m.vlan = 0 /\ m.vxlan = 0 /\ validateNetworkByType(m) /\ task[w].name \in Names
      /\ UNCHANGED <<conf, objects, requests, history>>
  BY DEF IInv, Base, TypeOK, Stages, Staged, Task, addTenantSpecificDetails, At
<1>2. VniOf(m) = 0
  BY <1>1 DEF VniOf
<1>3. CASE Goto(w, "post") /\ UNCHANGED fails
  <2>1. /\ task' \in [Workers -> Task] /\ OthersKeep(w)
        /\ task'[w].pc = "post" /\ task'[w].tnet = m /\ task'[w].name = task[w].name
    BY <1>1, <1>3, GotoFacts
  <2>2. Staged(task'[w])
    BY <1>1, <1>2, <2>1 DEF Staged, Sound
  <2>3. UNCHANGED <<conf, objects, requests, fails, history>>
    BY <1>1, <1>3
  <2> QED BY <1>1, <1>2, <2>1, <2>2, <2>3, TaskStepBase DEF Creating
<1>4. CASE Done(w) /\ UNCHANGED fails
  <2>1. task' \in [Workers -> Task] /\ OthersKeep(w) /\ task'[w] = Idle
    BY <1>1, <1>4, DoneFacts
  <2>2. UNCHANGED <<conf, objects, requests, fails, history>>
    BY <1>1, <1>4
  <2> QED BY <1>1, <2>1, <2>2, IdleFacts, TaskStepBase
<1>5. CASE /\ IsTypeDynamic(m.type)
           /\ \E i \in Candidates(m) :
                 task' = [task EXCEPT ![w].pc = IF NeedsVni(m, i) THEN "reserve" ELSE "post",
                                      ![w].tnet = WithDevice(m, i),
                                      ![w].iface = i, ![w].tconf = conf]
           /\ UNCHANGED fails
  <2>1. PICK i \in Candidates(m) :
                 task' = [task EXCEPT ![w].pc = IF NeedsVni(m, i) THEN "reserve" ELSE "post",
                                      ![w].tnet = WithDevice(m, i),
                                      ![w].iface = i, ![w].tconf = conf]
    BY <1>5
  <2> DEFINE p == WithDevice(m, i)
             l == IF NeedsVni(m, i) THEN "reserve" ELSE "post"
  <2>2. i \in Profiles /\ Key(p) = HostDevices[i].name
    BY <1>1, CandidateFacts
  <2>3. /\ p \in Manifest /\ p.uid = m.uid /\ p.type = m.type /\ p.vlan = 0 /\ p.vxlan = 0
    BY <1>1, <2>2, WithDeviceFacts
  <2>4. l = "reserve" => HostDevices[i].vniType \in {"vlan", "vxlan"}
    BY DEF NeedsVni
  <2>5. l \in {"reserve", "post"}
    OBVIOUS
  <2> HIDE DEF p, l
  <2>6. task'[w] = [task[w] EXCEPT !.pc = l, !.tnet = p, !.iface = i, !.tconf = conf]
        /\ OthersKeep(w)
    BY <1>1, <2>1 DEF OthersKeep, p, l
  <2>7. /\ task'[w] \in Task /\ task'[w].pc = l /\ task'[w].tnet = p /\ task'[w].iface = i
        /\ task'[w].tconf = conf /\ task'[w].name = task[w].name
    BY <1>1, <2>2, <2>3, <2>5, <2>6 DEF Task
  <2>8. task' \in [Workers -> Task]
    BY <1>1, <2>1, <2>7 DEF OthersKeep
  <2>9. VniOf(p) = 0
    BY <2>3 DEF VniOf
  <2>10. Staged(task'[w])
    BY <1>1, <1>5, <2>2, <2>3, <2>4, <2>5, <2>7, <2>9 DEF Staged, Sound
  <2>11. UNCHANGED <<conf, objects, requests, fails, history>>
    BY <1>1, <1>5
  <2> QED BY <1>1, <2>3, <2>5, <2>6, <2>7, <2>8, <2>9, <2>10, <2>11, TaskStepBase DEF Creating
<1>6. CASE CallFails(w)
  BY <1>1, <1>6, CallFailsBase
<1> QED BY <1>3, <1>4, <1>5, <1>6 DEF addTenantSpecificDetails

\* A PUT that is stored: the object was the one the request has read.
LEMMA PutFacts ==
    ASSUME IInv, NEW w \in Workers, task[w].pc \in {"reserve", "free"},
           NEW new \in [Profiles -> SUBSET Nat], Put(w, new)
    PROVE  /\ task[w].tconf.alloc = conf.alloc
           /\ conf' \in Conf /\ conf'.alloc = new
           /\ conf' = conf \/ conf'.rv = conf.rv + 1
<1>1. conf \in Conf /\ conf.rv \in Nat
  BY DEF IInv, Base, TypeOK, Conf
<1>2. task[w].tconf.alloc = conf.alloc
  BY DEF IInv, Base, Copies, Put
<1>3. CASE new = conf.alloc
  <2>1. conf' = [alloc |-> new, rv |-> conf.rv]
    BY <1>3 DEF Put
  <2>2. conf' = conf
    BY <1>1, <1>3, <2>1 DEF Conf
  <2> QED BY <1>1, <1>2, <1>3, <2>2
<1>4. CASE new # conf.alloc
  <2>1. conf' = [alloc |-> new, rv |-> conf.rv + 1]
    BY <1>4 DEF Put
  <2> QED BY <1>1, <1>2, <2>1 DEF Conf
<1> QED BY <1>3, <1>4

LEMMA ReserveBase ==
    ASSUME IInv, NEW w \in Workers, Reserve(w)
    PROVE  Base' /\ Effect
<1> DEFINE t   == task[w]
           m   == t.tnet
           i   == getIfaceIndex(HostDevices[t.iface].name, HostDevices[t.iface].vniType)
           vni == reserveVni(t.tconf, i)
           new == [t.tconf.alloc EXCEPT ![i] = @ \cup {vni}]
           p   == WithVni(m, t.iface, vni)
<1>1. /\ t \in Task /\ t.pc = "reserve" /\ m \in Manifest /\ t.tconf \in Conf
      /\ task \in [Workers -> Task]
      /\ m.vlan = 0 /\ m.vxlan = 0 /\ IsTypeDynamic(m.type)
      /\ t.iface \in Profiles /\ HostDevices[t.iface].vniType \in {"vlan", "vxlan"}
      /\ Key(m) = HostDevices[t.iface].name /\ t.name \in Names
  BY DEF IInv, Base, TypeOK, Stages, Staged, Task, Reserve, At
<1>2. i \in Profiles /\ HostDevices[i].vniType \in {"vlan", "vxlan"}
  <2>1. i = getIfaceIndex(HostDevices[t.iface].name, HostDevices[t.iface].vniType)
    OBVIOUS
  <2> HIDE DEF i
  <2>2. /\ i = 0 \/ (i \in Profiles /\ HostDevices[i].vniType = HostDevices[t.iface].vniType)
        /\ i \in Profiles
    BY <1>1, <2>1, IfaceIndex
  <2> QED BY <1>1, <2>2, ProfileFacts
<1>3. UNCHANGED <<objects, requests, history>>
  BY DEF Reserve
<1>4. /\ networks' = networks /\ pods' = pods /\ requests' = requests
      /\ freed' = freed /\ disturbed' = disturbed /\ denied' = denied
  BY <1>3 DEF objects, history
<1>5. CASE Done(w) /\ UNCHANGED <<conf, fails>>
  <2>1. task' \in [Workers -> Task] /\ OthersKeep(w) /\ task'[w] = Idle
    BY <1>1, <1>5, DoneFacts
  <2>2. UNCHANGED <<conf, objects, requests, fails, history>>
    BY <1>3, <1>5
  <2> QED BY <1>1, <2>1, <2>2, IdleFacts, TaskStepBase
<1>6. CASE PutConflicts(w) /\ Goto(w, "reserveget") /\ UNCHANGED fails
  <2>1. /\ task' \in [Workers -> Task] /\ OthersKeep(w)
        /\ task'[w].pc = "reserveget" /\ task'[w].tnet = m /\ task'[w].name = t.name
        /\ task'[w].iface = t.iface
    BY <1>1, <1>6, GotoFacts
  <2>2. Staged(task'[w])
    BY <1>1, <2>1 DEF Staged
  <2>3. UNCHANGED <<conf, objects, requests, fails, history>>
    BY <1>3, <1>6 DEF PutConflicts
  <2> QED BY <1>1, <2>1, <2>2, <2>3, TaskStepBase DEF Creating
<1>7. CASE UNCHANGED conf /\ CallFails(w)
  BY <1>1, <1>3, <1>7, CallFailsBase
<1>8. ASSUME FreeVnis(t.tconf, i) # {}, Put(w, new)
      PROVE  /\ Takes(i, vni) /\ vni \in HostDevices[i].vniRange /\ vni # 0
             /\ conf' \in Conf /\ ZeroTaken'
             /\ conf' = conf \/ conf'.rv = conf.rv + 1
  <2>1. vni \in HostDevices[i].vniRange /\ vni \notin t.tconf.alloc[i] /\ vni \in Nat
    BY <1>1, <1>2, <1>8, ReserveVniFacts
  <2> HIDE DEF vni, i
  <2>2. t.tconf.alloc \in [Profiles -> SUBSET Nat]
    BY <1>1 DEF Conf
  <2>3. new \in [Profiles -> SUBSET Nat]
    BY <1>2, <2>1, <2>2
  <2>4. /\ t.tconf.alloc = conf.alloc /\ conf' \in Conf /\ conf'.alloc = new
        /\ conf' = conf \/ conf'.rv = conf.rv + 1
    BY <1>1, <1>8, <2>3, PutFacts
  <2>5. 0 \in conf.alloc[i]
    BY <1>2 DEF IInv, Base, ZeroTaken
  <2>6. vni # 0
    BY <2>1, <2>4, <2>5
  <2>7. ZeroTaken'
    <3>1. \A j \in Profiles : conf.alloc[j] \subseteq conf'.alloc[j]
      BY <1>2, <2>2, <2>4
    <3> QED BY <3>1 DEF IInv, Base, ZeroTaken
  <2>8. Takes(i, vni)
    BY <1>2, <1>4, <2>1, <2>4, <2>6 DEF Takes
  <2> QED BY <2>1, <2>4, <2>6, <2>7, <2>8
<1>9. HasNone(m.uid)
  <2>1. /\ m.uid \in 1 .. requests /\ requests <= MaxRequests
        /\ requests \in Nat /\ MaxRequests \in Nat
    BY <1>1, ConfigAssumption DEF IInv, Base, Uids, TypeOK
  <2>2. \A n, j, x : ~NetHolds(n, m.uid, j, x)
    BY <1>1 DEF IInv, Base, Uids, NetHolds, Bears, Creating
  <2>3. \A y \in Workers : \A j, x : ~TaskHolds(y, m.uid, j, x)
    BY <1>1 DEF IInv, Base, Uids, TaskHolds, Bears, Creating
  <2> QED BY <2>1, <2>2, <2>3 DEF HasNone, Holds
<1>10. CASE /\ FreeVnis(t.tconf, i) # {} /\ Put(w, new)
            /\ task' = [task EXCEPT ![w].pc = "post", ![w].tnet = WithVni(@, t.iface, vni)]
            /\ UNCHANGED fails
  <2>1. /\ Takes(i, vni) /\ vni \in HostDevices[i].vniRange /\ vni # 0
        /\ conf' \in Conf /\ ZeroTaken'
        /\ conf' = conf \/ conf'.rv = conf.rv + 1
    BY <1>8, <1>10
  <2>2. /\ p \in Manifest /\ p.uid = m.uid
        /\ VniOf(p) = vni /\ VniProfile(p) = i /\ Sound(p)
    <3> HIDE DEF vni
    <3> QED BY <1>1, <2>1, WithVniFacts
  <2> HIDE DEF p, vni, i
  <2>3. task'[w] = [t EXCEPT !.pc = "post", !.tnet = p] /\ OthersKeep(w)
    BY <1>1, <1>10 DEF OthersKeep, p
  <2>4. task'[w] \in Task /\ task'[w].pc = "post" /\ task'[w].tnet = p /\ task'[w].name = t.name
    BY <1>1, <2>2, <2>3 DEF Task
  <2>5. task' \in [Workers -> Task]
    BY <1>1, <1>10, <2>4 DEF OthersKeep
  <2>6. TypeOK'
    BY <1>4, <1>10, <2>1, <2>5 DEF IInv, Base, TypeOK
  <2>7. Staged(task'[w])
    BY <1>1, <2>2, <2>4 DEF Staged
  <2>8. Stages' /\ Copies' /\ Uids' /\ Removing'
    BY <1>1, <1>4, <2>1, <2>2, <2>3, <2>4, <2>6, <2>7, WorkerFrame DEF Creating
  <2>9. \A u, j, x : Holds(u, j, x)' <=> Holds(u, j, x) \/ (u = m.uid /\ j = i /\ x = vni)
    <3>1. \A n, u, j, x : NetHolds(n, u, j, x)' <=> NetHolds(n, u, j, x)
      BY <1>4 DEF NetHolds
    <3>2. \A y \in Workers : y # w => \A u, j, x : TaskHolds(y, u, j, x)' <=> TaskHolds(y, u, j, x)
      BY <2>3 DEF TaskHolds, OthersKeep
    <3>3. \A u, j, x : TaskHolds(w, u, j, x)' <=> (u = m.uid /\ j = i /\ x = vni)
      BY <2>1, <2>2, <2>4 DEF TaskHolds, Bears
    <3>4. \A u, j, x : ~TaskHolds(w, u, j, x)
      BY <1>1 DEF TaskHolds
    <3> QED BY <3>1, <3>2, <3>3, <3>4 DEF Holds
  <2>10. Acquired(m.uid, i, vni)
    BY <1>4, <1>9, <1>10, <2>1, <2>9 DEF Acquired, Remembers
  <2> QED BY <2>1, <2>6, <2>8, <2>10 DEF Base, Effect
<1>11. CASE FreeVnis(t.tconf, i) # {} /\ Put(w, new) /\ CallFails(w)
  <2>1. /\ Takes(i, vni) /\ conf' \in Conf /\ ZeroTaken'
        /\ conf' = conf \/ conf'.rv = conf.rv + 1
    BY <1>8, <1>11
  <2> HIDE DEF vni, i
  <2>2. task' \in [Workers -> Task] /\ task'[w] = Idle /\ OthersKeep(w)
    BY <1>1, <1>11, DoneFacts DEF CallFails
  <2>3. fails' = fails + 1 /\ fails \in Nat
    BY <1>11 DEF CallFails, IInv, Base, TypeOK
  <2>4. TypeOK'
    BY <1>4, <2>1, <2>2, <2>3 DEF IInv, Base, TypeOK
  <2>5. Stages' /\ Copies' /\ Uids' /\ Removing'
    BY <1>4, <2>1, <2>2, <2>4, IdleFacts, WorkerFrame
  <2>6. SameHolders
    BY <1>1, <1>4, <2>2, IdleFacts, SameHoldersFrame
  <2>7. fails' # 0
    BY <2>3
  <2>8. Lost(m.uid, i, vni)
    BY <1>9, <2>1, <2>6, <2>7 DEF Lost
  <2> QED BY <2>1, <2>4, <2>5, <2>8 DEF Base, Effect
<1> HIDE DEF i, vni, new
<1>12. \/ Done(w) /\ UNCHANGED <<conf, fails>>
       \/ /\ FreeVnis(t.tconf, i) # {}
          /\ \/ /\ Put(w, new)
                /\ task' = [task EXCEPT ![w].pc = "post", ![w].tnet = WithVni(@, t.iface, vni)]
                /\ UNCHANGED fails
             \/ PutConflicts(w) /\ Goto(w, "reserveget") /\ UNCHANGED fails
             \/ (Put(w, new) \/ UNCHANGED conf) /\ CallFails(w)
  BY DEF Reserve, i, vni, new
<1> QED BY <1>5, <1>6, <1>7, <1>10, <1>11, <1>12

LEMMA RespondBase ==
    ASSUME IInv, NEW w \in Workers, Respond(w)
    PROVE  Base' /\ Effect
<1> DEFINE t == task[w]
           m == WithNetworkId(t.tnet)
<1>1. /\ t \in Task /\ t.pc = "post" /\ t.tnet \in Manifest /\ task \in [Workers -> Task]
      /\ Sound(t.tnet) /\ t.name \in Names
  BY DEF IInv, Base, TypeOK, Stages, Staged, Task, Respond, At
<1>2. /\ conf' = conf /\ networks' = networks /\ pods' = pods /\ requests' = requests
      /\ fails' = fails /\ freed' = freed /\ disturbed' = disturbed
  BY DEF Respond, objects
<1>3. /\ m \in Manifest /\ m.uid = t.tnet.uid /\ m.type = t.tnet.type
      /\ VniOf(m) = VniOf(t.tnet) /\ VniProfile(m) = VniProfile(t.tnet)
  BY <1>1, WithNetworkIdFacts
<1>4. Sound(m)
  BY <1>1, <1>3 DEF Sound
<1>5. ZeroTaken'
  BY <1>2 DEF IInv, Base, ZeroTaken
<1> HIDE DEF m
<1>6. CASE task' = [task EXCEPT ![w].pc = "store", ![w].tnet = m] /\ UNCHANGED denied
  <2>1. task'[w] = [t EXCEPT !.pc = "store", !.tnet = m] /\ OthersKeep(w)
    BY <1>1, <1>6 DEF OthersKeep
  <2>2. task'[w] \in Task /\ task'[w].pc = "store" /\ task'[w].tnet = m /\ task'[w].name = t.name
    BY <1>1, <1>3, <2>1 DEF Task
  <2>3. task' \in [Workers -> Task]
    BY <1>1, <1>6, <2>2 DEF OthersKeep
  <2>4. TypeOK'
    BY <1>2, <1>6, <2>3 DEF IInv, Base, TypeOK
  <2>5. Staged(task'[w])
    BY <1>1, <1>4, <2>2 DEF Staged
  <2>6. Stages' /\ Copies' /\ Uids' /\ Removing'
    BY <1>1, <1>2, <1>3, <2>1, <2>2, <2>4, <2>5, WorkerFrame DEF Creating
  <2>7. SameHolders
    BY <1>1, <1>2, <1>3, <2>1, <2>2, SameHoldersFrame
  <2>8. Same
    BY <1>2, <1>6, <2>7 DEF Same, Remembers
  <2> QED BY <1>5, <2>4, <2>6, <2>8 DEF Base, Effect
<1>7. CASE Done(w) /\ denied' = (denied \/ VniOf(m) # 0)
  <2>1. task' \in [Workers -> Task] /\ task'[w] = Idle /\ OthersKeep(w)
    BY <1>1, <1>7, DoneFacts
  <2>2. denied \in BOOLEAN /\ denied' \in BOOLEAN
    BY <1>7 DEF IInv, Base, TypeOK
  <2>3. TypeOK'
    BY <1>2, <2>1, <2>2 DEF IInv, Base, TypeOK
  <2>4. Stages' /\ Copies' /\ Uids' /\ Removing'
    BY <1>2, <2>1, <2>3, IdleFacts, WorkerFrame
  <2>5. denied => denied'
    BY <1>7, <2>2
  <2>6. CASE VniOf(m) = 0
    <3>1. SameHolders
      BY <1>2, <1>3, <2>1, <2>6, IdleFacts, SameHoldersFrame
    <3>2. Same
      BY <1>2, <2>5, <3>1 DEF Same, Remembers
    <3> QED BY <1>5, <2>3, <2>4, <3>2 DEF Base, Effect
  <2>7. CASE VniOf(m) # 0
    <3>1. /\ \A n, j, x : ~NetHolds(n, t.tnet.uid, j, x)
          /\ \A y \in Workers : y # w => \A j, x : ~TaskHolds(y, t.tnet.uid, j, x)
      BY <1>1 DEF IInv, Base, Uids, NetHolds, TaskHolds, Bears, Creating
    <3>2. \A n, u, j, x : NetHolds(n, u, j, x)' <=> NetHolds(n, u, j, x)
      BY <1>2 DEF NetHolds
    <3>3. \A y \in Workers : y # w => \A u, j, x : TaskHolds(y, u, j, x)' <=> TaskHolds(y, u, j, x)
      BY <2>1 DEF TaskHolds, OthersKeep
    <3>4. \A u, j, x : ~TaskHolds(w, u, j, x)' /\ (TaskHolds(w, u, j, x) => u = t.tnet.uid)
      BY <2>1, IdleFacts DEF TaskHolds, Bears
    <3>5. Leaves(t.tnet.uid)
      BY <3>1, <3>2, <3>3, <3>4 DEF Leaves, Holds
    <3>6. t.tnet.uid \in 1 .. MaxRequests
      <4>1. t.tnet.uid \in 1 .. requests /\ requests <= MaxRequests
        BY <1>1 DEF IInv, Base, Uids
      <4>2. requests \in Nat /\ MaxRequests \in Nat
        BY ConfigAssumption DEF IInv, Base, TypeOK
      <4> QED BY <4>1, <4>2
    <3>7. denied'
      BY <1>7, <2>7
    <3>8. Dropped(t.tnet.uid)
      BY <1>2, <2>5, <3>5, <3>6, <3>7 DEF Dropped, Remembers
    <3> QED BY <1>5, <2>3, <2>4, <3>8 DEF Base, Effect
  <2> QED BY <2>6, <2>7
<1> QED BY <1>6, <1>7 DEF Respond, m

LEMMA StoreNetworkBase ==
    ASSUME IInv, NEW w \in Workers, StoreNetwork(w)
    PROVE  Base' /\ Effect
<1> DEFINE t == task[w]
<1>1. /\ t \in Task /\ t.pc = "store" /\ t.tnet \in Manifest /\ task \in [Workers -> Task]
      /\ Sound(t.tnet) /\ t.name \in Names
  BY DEF IInv, Base, TypeOK, Stages, Staged, Task, StoreNetwork, At
<1>2. /\ conf' = conf /\ pods' = pods /\ requests' = requests
      /\ fails' = fails /\ freed' = freed /\ disturbed' = disturbed
  BY DEF StoreNetwork
<1>3. task' \in [Workers -> Task] /\ task'[w] = Idle /\ OthersKeep(w)
  BY <1>1, DoneFacts DEF StoreNetwork
<1>4. ZeroTaken'
  BY <1>2 DEF IInv, Base, ZeroTaken
<1>5. /\ \A n, j, x : ~NetHolds(n, t.tnet.uid, j, x)
      /\ \A y \in Workers : y # w => \A j, x : ~TaskHolds(y, t.tnet.uid, j, x)
  BY <1>1 DEF IInv, Base, Uids, NetHolds, TaskHolds, Bears, Creating
<1>6. \A y \in Workers : y # w => \A u, j, x : TaskHolds(y, u, j, x)' <=> TaskHolds(y, u, j, x)
  BY <1>3 DEF TaskHolds, OthersKeep
<1>7. \A u, j, x : ~TaskHolds(w, u, j, x)' /\ (TaskHolds(w, u, j, x) <=> Bears(t.tnet, u, j, x))
  BY <1>1, <1>3, IdleFacts DEF TaskHolds
<1>8. CASE /\ ~Stored(t.name)
           /\ networks' = [n \in DOMAIN networks \cup {t.name} |->
                              IF n = t.name THEN t.tnet ELSE networks[n]]
           /\ UNCHANGED denied
  <2>1. /\ DOMAIN networks' = DOMAIN networks \cup {t.name} /\ t.name \notin DOMAIN networks
        /\ networks'[t.name] = t.tnet
        /\ \A n \in DOMAIN networks : n # t.name /\ networks'[n] = networks[n]
    BY <1>8 DEF Stored
  <2>2. TypeOK'
    BY <1>1, <1>2, <1>3, <1>8, <2>1 DEF IInv, Base, TypeOK
  <2>3. Stages'
    BY <1>1, <1>3, <2>1, IdleFacts DEF IInv, Base, Stages, OthersKeep
  <2>4. Copies'
    BY <1>2, <1>3, IdleFacts DEF IInv, Base, Copies, OthersKeep
  <2>5. Uids'
    <3>1. \A v \in Workers : task'[v].pc # "idle" => v # w /\ task'[v] = task[v]
      BY <1>3, IdleFacts DEF OthersKeep
    <3>2. \A v \in Workers : task'[v].pc \in Creating => task'[v].pc # "idle"
      BY DEF Creating
    <3>3. t.tnet.uid \in 1 .. requests
      BY <1>1 DEF IInv, Base, Uids
    <3>4. \A v \in Workers : task'[v].pc \in Creating => task'[v].tnet.uid # t.tnet.uid
      BY <1>1, <3>1, <3>2 DEF IInv, Base, Uids, Creating
    <3>5. \A n \in DOMAIN networks : networks[n].uid # t.tnet.uid
      BY <1>1 DEF IInv, Base, Uids, Creating
    <3>6. \A v \in Workers : task'[v].pc \in Creating =>
             \A n \in DOMAIN networks' : task'[v].tnet.uid # networks'[n].uid
      BY <2>1, <3>1, <3>2, <3>4 DEF IInv, Base, Uids
    <3>7. \A n1, n2 \in DOMAIN networks' : n1 # n2 => networks'[n1].uid # networks'[n2].uid
      BY <2>1, <3>5 DEF IInv, Base, Uids
    <3>8. \A n \in DOMAIN networks' : networks'[n].uid \in 1 .. requests
      BY <2>1, <3>3 DEF IInv, Base, Uids
    <3> QED BY <1>2, <3>1, <3>2, <3>6, <3>7, <3>8 DEF IInv, Base, Uids
  <2>6. Removing'
    <3> SUFFICES ASSUME NEW v \in Workers, task'[v].pc = "remove",
                        IsStored(task[v].name, task[v].tnet)'
                 PROVE  task'[v].name \in freed' \/ VniOf(task'[v].tnet) = 0
      BY DEF Removing
    <3>1. v # w /\ task'[v] = task[v] /\ task[v].pc = "remove"
      BY <1>3, IdleFacts DEF OthersKeep
    <3>2. task[v].tnet.uid # t.tnet.uid
      BY <1>1, <3>1 DEF IInv, Base, Uids, Creating
    <3>3. task[v].name \in DOMAIN networks' /\ networks'[task[v].name] = task[v].tnet
      BY <3>1 DEF IsStored, Stored
    <3>4. IsStored(task[v].name, task[v].tnet)
      BY <2>1, <3>2, <3>3 DEF IsStored, Stored
    <3> QED BY <1>2, <3>1, <3>4 DEF IInv, Base, Removing
  <2>7. SameHolders
    <3>1. PICK name \in Names : name = t.name /\ name \notin freed
      BY <1>1, <2>1 DEF IInv, Base, TypeOK
    <3>2. \A n \in Names : n # name =>
             \A u, j, x : NetHolds(n, u, j, x)' <=> NetHolds(n, u, j, x)
      BY <1>2, <2>1, <3>1 DEF NetHolds
    <3>3. \A u, j, x : /\ NetHolds(name, u, j, x)' <=> Bears(t.tnet, u, j, x)
                       /\ ~NetHolds(name, u, j, x)
      <4>1. /\ name \in DOMAIN networks' /\ networks'[name] = t.tnet /\ name \notin freed'
            /\ name \notin DOMAIN networks
        BY <1>2, <2>1, <3>1
      <4> QED BY <4>1 DEF NetHolds
    <3> QED BY <1>1, <1>6, <1>7, <3>2, <3>3 DEF SameHolders, Holds
  <2>8. Same
    BY <1>2, <1>8, <2>7 DEF Same, Remembers
  <2> QED BY <1>4, <2>2, <2>3, <2>4, <2>5, <2>6, <2>8 DEF Base, Effect
<1>9. CASE /\ denied' = (denied \/ VniOf(t.tnet) # 0)
           /\ UNCHANGED networks
  <2>1. denied \in BOOLEAN /\ denied' \in BOOLEAN
    BY <1>9 DEF IInv, Base, TypeOK
  <2>2. TypeOK'
    BY <1>2, <1>3, <1>9, <2>1 DEF IInv, Base, TypeOK
  <2>3. Stages' /\ Copies' /\ Uids' /\ Removing'
    BY <1>2, <1>3, <1>9, <2>2, IdleFacts, WorkerFrame
  <2>4. denied => denied'
    BY <1>9, <2>1
  <2>5. CASE VniOf(t.tnet) = 0
    <3>1. SameHolders
      BY <1>2, <1>3, <1>9, <2>5, IdleFacts, SameHoldersFrame
    <3>2. Same
      BY <1>2, <2>4, <3>1 DEF Same, Remembers
    <3> QED BY <1>4, <2>2, <2>3, <3>2 DEF Base, Effect
  <2>6. CASE VniOf(t.tnet) # 0
    <3>1. \A n, u, j, x : NetHolds(n, u, j, x)' <=> NetHolds(n, u, j, x)
      BY <1>2, <1>9 DEF NetHolds
    <3>2. Leaves(t.tnet.uid)
      BY <1>5, <1>6, <1>7, <3>1 DEF Leaves, Holds, Bears
    <3>3. t.tnet.uid \in 1 .. MaxRequests
      <4>1. t.tnet.uid \in 1 .. requests /\ requests <= MaxRequests
        BY <1>1 DEF IInv, Base, Uids
      <4>2. requests \in Nat /\ MaxRequests \in Nat
        BY ConfigAssumption DEF IInv, Base, TypeOK
      <4> QED BY <4>1, <4>2
    <3>4. denied'
      BY <1>9, <2>6
    <3>5. Dropped(t.tnet.uid)
      BY <1>2, <2>4, <3>2, <3>3, <3>4 DEF Dropped, Remembers
    <3> QED BY <1>4, <2>2, <2>3, <3>5 DEF Base, Effect
  <2> QED BY <2>5, <2>6
<1> QED BY <1>8, <1>9 DEF StoreNetwork

LEMMA DeleteNetworkBase ==
    ASSUME IInv, NEW w \in Workers, DeleteNetwork(w)
    PROVE  Base' /\ Effect
<1>1. PICK n \in DOMAIN networks :
         \/ task' = task
         \/ task' = [task EXCEPT ![w].pc = IF IsTypeDynamic(networks[n].type)
                                           THEN "delete" ELSE "remove",
                                 ![w].name = n, ![w].tnet = networks[n]]
  BY DEF DeleteNetwork
<1>2. /\ task[w].pc = "idle" /\ requests' = requests + 1 /\ requests < MaxRequests
      /\ conf' = conf /\ networks' = networks /\ pods' = pods
      /\ fails' = fails /\ freed' = freed /\ disturbed' = disturbed /\ denied' = denied
  BY DEF DeleteNetwork, At, NewRequest, objects, history
<1>3. /\ task[w] \in Task /\ task \in [Workers -> Task] /\ requests \in Nat /\ MaxRequests \in Nat
      /\ n \in Names /\ networks[n] \in Manifest /\ Sound(networks[n])
  BY ConfigAssumption DEF IInv, Base, TypeOK, Stages
<1>4. /\ task' \in [Workers -> Task] /\ OthersKeep(w)
      /\ \/ task' = task
         \/ /\ task'[w].pc \in {"delete", "remove"}
            /\ task'[w].name = n /\ task'[w].tnet = networks[n]
            /\ task'[w].pc = "remove" => ~IsTypeDynamic(networks[n].type)
  <2>1. CASE task' = task
    BY <1>3, <2>1 DEF OthersKeep
  <2>2. CASE task' # task
    <3> DEFINE l == IF IsTypeDynamic(networks[n].type) THEN "delete" ELSE "remove"
               p == networks[n]
    <3>1. l \in {"delete", "remove"} /\ (l = "remove" => ~IsTypeDynamic(networks[n].type))
      OBVIOUS
    <3>2. task' = [task EXCEPT ![w].pc = l, ![w].name = n, ![w].tnet = p]
      BY <1>1, <2>2
    <3> HIDE DEF l, p
    <3>3. task'[w] = [task[w] EXCEPT !.pc = l, !.name = n, !.tnet = p] /\ OthersKeep(w)
      BY <1>3, <3>2 DEF OthersKeep
    <3>4. task'[w] \in Task /\ task'[w].pc = l /\ task'[w].name = n /\ task'[w].tnet = p
      BY <1>3, <3>1, <3>3 DEF Task, p
    <3>5. task' \in [Workers -> Task]
      BY <1>3, <3>2, <3>4
    <3> QED BY <3>1, <3>3, <3>4, <3>5 DEF p
  <2> QED BY <2>1, <2>2
<1>5. TypeOK'
  BY <1>2, <1>3, <1>4 DEF IInv, Base, TypeOK
<1>6. Stages'
  <2>1. CASE task' = task
    BY <1>2, <2>1 DEF IInv, Base, Stages
  <2>2. CASE task' # task
    <3>1. Staged(task'[w])
      BY <1>3, <1>4, <2>2 DEF Staged
    <3> QED BY <1>2, <1>4, <3>1 DEF IInv, Base, Stages, OthersKeep
  <2> QED BY <2>1, <2>2
<1>7. Copies' /\ ZeroTaken'
  BY <1>2, <1>4 DEF IInv, Base, Copies, ZeroTaken, OthersKeep
<1>8. Removing'
  <2>1. task'[w].pc = "remove" => VniOf(task'[w].tnet) = 0
    BY <1>2, <1>3, <1>4 DEF Sound
  <2> QED BY <1>2, <1>4, <2>1 DEF IInv, Base, Removing, IsStored, Stored, OthersKeep
<1>9. Uids'
  <2>1. /\ requests' <= MaxRequests
        /\ \A k \in 1 .. requests : k \in 1 .. requests'
    BY <1>2, <1>3
  <2>2. \A v \in Workers : v # w => task'[v] = task[v]
    BY <1>4 DEF OthersKeep
  <2>3. task'[w].pc \notin Creating /\ (task'[w].pc # "idle" => task'[w].tnet = networks[n])
    BY <1>2, <1>4 DEF Creating
  <2>4. \A v \in Workers : task'[v].pc # "idle" => task'[v].tnet.uid \in 1 .. requests
    BY <2>2, <2>3 DEF IInv, Base, Uids
  <2>5. \A v, y \in Workers : v # y /\ task'[v].pc \in Creating /\ task'[y].pc # "idle" =>
           task'[v].tnet.uid # task'[y].tnet.uid
    BY <2>2, <2>3 DEF IInv, Base, Uids
  <2>6. \A v \in Workers : task'[v].pc \in Creating =>
           \A k \in DOMAIN networks : task'[v].tnet.uid # networks[k].uid
    BY <2>2, <2>3 DEF IInv, Base, Uids
  <2> QED BY <1>2, <2>1, <2>4, <2>5, <2>6 DEF IInv, Base, Uids
<1>10. SameHolders
  BY <1>2, <1>4, SameHoldersFrame
<1>11. Same
  BY <1>2, <1>10 DEF Same, Remembers
<1> QED BY <1>5, <1>6, <1>7, <1>8, <1>9, <1>11 DEF Base, Effect

LEMMA FreeBase ==
    ASSUME IInv, NEW w \in Workers, Free(w)
    PROVE  Base' /\ Effect
<1> DEFINE t   == task[w]
           m   == t.tnet
           i   == VniProfile(m)
           new == [t.tconf.alloc EXCEPT ![i] = @ \ {VniOf(m)}]
<1>1. /\ t \in Task /\ t.pc = "free" /\ m \in Manifest /\ t.tconf \in Conf
      /\ task \in [Workers -> Task] /\ t.name \in Names
  BY DEF IInv, Base, TypeOK, Stages, Staged, Task, Free, At
<1>2. UNCHANGED <<objects, requests, denied>>
  BY DEF Free
<1>3. networks' = networks /\ pods' = pods /\ requests' = requests /\ denied' = denied
  BY <1>2 DEF objects
<1>4. ASSUME IsStored(t.name, m), VniOf(m) # 0
      PROVE  i \in Profiles
  BY <1>4 DEF IsStored, Stored, IInv, Base, Stages, Sound
<1>5. CASE /\ VniOf(m) = 0 \/ i = 0
           /\ Goto(w, "remove") /\ UNCHANGED <<conf, fails, freed, disturbed>>
  <2>1. /\ task' \in [Workers -> Task] /\ OthersKeep(w)
        /\ task'[w].pc = "remove" /\ task'[w].tnet = m /\ task'[w].name = t.name
    BY <1>1, <1>5, GotoFacts
  <2>2. Staged(task'[w])
    BY <1>1, <2>1 DEF Staged
  <2>3. UNCHANGED <<conf, objects, requests, fails, history>>
    BY <1>2, <1>5 DEF history
  <2>4. IsStored(t.name, m) => VniOf(m) = 0
    BY <1>4, <1>5, ProfileFacts
  <2> HIDE DEF m
  <2>5. task'[w].tnet.uid = task[w].tnet.uid
    BY <2>1 DEF m
  <2> QED BY <1>1, <2>1, <2>2, <2>3, <2>4, <2>5, TaskStepBase DEF Creating
<1>6. CASE PutConflicts(w) /\ Goto(w, "freeget") /\ UNCHANGED <<fails, freed, disturbed>>
  <2>1. /\ task' \in [Workers -> Task] /\ OthersKeep(w)
        /\ task'[w].pc = "freeget" /\ task'[w].tnet = m /\ task'[w].name = t.name
    BY <1>1, <1>6, GotoFacts
  <2>2. Staged(task'[w])
    BY <1>1, <2>1 DEF Staged
  <2>3. UNCHANGED <<conf, objects, requests, fails, history>>
    BY <1>2, <1>6 DEF history, PutConflicts
  <2> QED BY <1>1, <2>1, <2>2, <2>3, TaskStepBase DEF Creating
<1>7. CASE CallFails(w) /\ UNCHANGED <<conf, freed, disturbed>>
  <2>1. UNCHANGED <<conf, objects, requests, history>>
    BY <1>2, <1>7 DEF history
  <2> QED BY <1>1, <1>7, <2>1, CallFailsBase
<1>8. CASE /\ VniOf(m) # 0 /\ i # 0 /\ Put(w, new) /\ VniFreed(w)
           /\ (Goto(w, "remove") /\ UNCHANGED fails) \/ CallFails(w)
  <2> DEFINE v == VniOf(m)
             here == IsStored(t.name, m)
  <2>1. i \in Profiles
    <3> DEFINE a == IF m.devicePool # "" THEN m.devicePool ELSE m.device
               b == IF m.vxlan # 0 THEN "vxlan" ELSE "vlan"
    <3>1. i = getIfaceIndex(a, b)
      BY DEF VniProfile
    <3> HIDE DEF i, a, b
    <3> QED BY <1>8, <3>1, IfaceIndex
  <2>2. t.tconf.alloc \in [Profiles -> SUBSET Nat]
    BY <1>1 DEF Conf
  <2> HIDE DEF i, v
  <2>3. new \in [Profiles -> SUBSET Nat]
    BY <2>1, <2>2
  <2>4. /\ t.tconf.alloc = conf.alloc /\ conf' \in Conf /\ conf'.alloc = new
        /\ conf' = conf \/ conf'.rv = conf.rv + 1
    BY <1>1, <1>8, <2>3, PutFacts
  <2>5. /\ conf'.alloc = [conf.alloc EXCEPT ![i] = @ \ {v}]
        /\ conf.alloc \in [Profiles -> SUBSET Nat] /\ v # 0
    BY <1>8, <2>2, <2>4 DEF v
  <2>6. ZeroTaken'
    <3>1. \A j \in Profiles : 0 \in conf.alloc[j] => 0 \in conf'.alloc[j]
      BY <2>1, <2>5
    <3> QED BY <3>1 DEF IInv, Base, ZeroTaken
  <2>7. /\ task' \in [Workers -> Task] /\ OthersKeep(w)
        /\ \/ task'[w] = Idle
           \/ task'[w].pc = "remove" /\ task'[w].tnet = m /\ task'[w].name = t.name
    BY <1>1, <1>8, GotoFacts, DoneFacts DEF CallFails
  <2>8. fails \in Nat /\ fails' \in Nat /\ fails' >= fails
    BY <1>8 DEF CallFails, IInv, Base, TypeOK
  <2>9. /\ freed' = freed \cup (IF here THEN {t.name} ELSE {})
        /\ disturbed' = (disturbed \/ t.name \in freed \/ ~here)
    BY <1>8 DEF VniFreed
  <2>10. /\ freed' \subseteq DOMAIN networks /\ freed \subseteq freed'
         /\ (here => t.name \in freed' /\ t.name \in DOMAIN networks /\ networks[t.name] = m)
         /\ disturbed \in BOOLEAN /\ disturbed' \in BOOLEAN
    BY <2>9 DEF IInv, Base, TypeOK, IsStored, Stored
  <2>11. TypeOK'
    BY <1>3, <2>4, <2>7, <2>8, <2>10 DEF IInv, Base, TypeOK
  <2>12. Stages' /\ Copies' /\ Uids' /\ Removing'
    <3>1. Staged(task'[w])
      BY <1>1, <2>7, IdleFacts DEF Staged
    <3>2. task'[w].pc = "remove" /\ IsStored(task'[w].name, task'[w].tnet) =>
               task'[w].name \in freed'
      BY <2>7, <2>10, IdleFacts
    <3>3. \/ task'[w].pc = "idle"
          \/ task'[w].pc = "remove" /\ task'[w].tnet.uid = task[w].tnet.uid
      BY <2>7, IdleFacts
    <3> QED BY <1>1, <1>3, <2>4, <2>7, <2>10, <2>11, <3>1, <3>2, <3>3, WorkerFrame DEF Creating
  <2>13. Remembers
    BY <1>3, <2>8 DEF Remembers
  <2>14. \A y \in Workers : \A u, j, x : TaskHolds(y, u, j, x)' <=> TaskHolds(y, u, j, x)
    <3>1. \A y \in Workers : y # w => \A u, j, x : TaskHolds(y, u, j, x)' <=> TaskHolds(y, u, j, x)
      BY <2>7 DEF TaskHolds, OthersKeep
    <3>2. \A u, j, x : ~TaskHolds(w, u, j, x) /\ ~TaskHolds(w, u, j, x)'
      BY <1>1, <2>7, IdleFacts DEF TaskHolds
    <3> QED BY <3>1, <3>2
  <2>15. CASE t.name \in freed \/ ~here
    <3>1. freed' = freed /\ disturbed' = TRUE
      BY <2>9, <2>15
    <3>2. \A n, u, j, x : NetHolds(n, u, j, x)' <=> NetHolds(n, u, j, x)
      BY <1>3, <3>1 DEF NetHolds
    <3>3. SameHolders
      BY <2>14, <3>2 DEF SameHolders, Holds
    <3>4. \A j \in Profiles : conf'.alloc[j] \subseteq conf.alloc[j]
      BY <2>1, <2>5
    <3>5. Disturbs
      BY <2>13, <3>1, <3>3, <3>4 DEF Disturbs
    <3> QED BY <2>6, <2>11, <2>12, <3>5 DEF Base, Effect
  <2>16. CASE t.name \notin freed /\ here
    <3>1. disturbed' = disturbed /\ freed' = freed \cup {t.name}
      BY <2>9, <2>10, <2>16
    <3>2. PICK name \in Names : name = t.name
      BY <1>1
    <3>3. \A n \in Names : n # name =>
             \A u, j, x : NetHolds(n, u, j, x)' <=> NetHolds(n, u, j, x)
      BY <1>3, <3>1, <3>2 DEF NetHolds
    <3>4. /\ name \in DOMAIN networks /\ networks[name] = m /\ name \notin freed
          /\ name \in freed'
      BY <2>10, <2>16, <3>2
    <3>5. \A u, j, x : /\ ~NetHolds(name, u, j, x)'
                       /\ NetHolds(name, u, j, x) <=> Bears(m, u, j, x)
      BY <3>4 DEF NetHolds
    <3>6. /\ \A n \in Names : n # name => \A j, x : ~NetHolds(n, m.uid, j, x)
          /\ \A y \in Workers : \A j, x : ~TaskHolds(y, m.uid, j, x)
      BY <3>4 DEF IInv, Base, Uids, NetHolds, TaskHolds, Bears, Creating
    <3>7. Holds(m.uid, i, v)
      BY <2>5, <3>2, <3>5 DEF Holds, Bears, i, v
    <3>8. Leaves(m.uid)
      BY <2>14, <3>2, <3>3, <3>5, <3>6 DEF Leaves, Holds, Bears
    <3>9. Released(m.uid, i, v)
      BY <2>5, <2>13, <3>1, <3>7, <3>8 DEF Released
    <3> QED BY <2>6, <2>11, <2>12, <3>9 DEF Base, Effect
  <2> QED BY <2>15, <2>16
<1> HIDE DEF i, new
<1>9. \/ /\ VniOf(m) = 0 \/ i = 0
         /\ Goto(w, "remove")
         /\ UNCHANGED <<conf, fails, freed, disturbed>>
      \/ /\ VniOf(m) # 0 /\ i # 0
         /\ \/ /\ Put(w, new)
               /\ VniFreed(w)
               /\ (Goto(w, "remove") /\ UNCHANGED fails) \/ CallFails(w)
            \/ PutConflicts(w) /\ Goto(w, "freeget") /\ UNCHANGED <<fails, freed, disturbed>>
            \/ CallFails(w) /\ UNCHANGED <<conf, freed, disturbed>>
  BY DEF Free, i, new
<1> QED BY <1>5, <1>6, <1>7, <1>8, <1>9

LEMMA RemoveNetworkBase ==
    ASSUME IInv, NEW w \in Workers, RemoveNetwork(w)
    PROVE  Base' /\ Effect
<1> DEFINE t == task[w]
           gone == IF IsStored(t.name, t.tnet) THEN {t.name} ELSE {}
<1>1. t.pc = "remove" /\ task \in [Workers -> Task]
  BY DEF IInv, Base, TypeOK, RemoveNetwork, At
<1>2. /\ conf' = conf /\ pods' = pods /\ requests' = requests
      /\ fails' = fails /\ disturbed' = disturbed /\ denied' = denied
      /\ networks' = [n \in DOMAIN networks \ gone |-> networks[n]]
      /\ freed' = freed \ gone
  BY DEF RemoveNetwork
<1>3. task' \in [Workers -> Task] /\ task'[w] = Idle /\ OthersKeep(w)
  BY <1>1, DoneFacts DEF RemoveNetwork
<1>4. /\ DOMAIN networks' = DOMAIN networks \ gone
      /\ \A n \in DOMAIN networks' : networks'[n] = networks[n]
  BY <1>2
<1>5. \A n \in gone : n \in freed \/ VniOf(networks[n]) = 0
  BY <1>1 DEF IInv, Base, Removing, IsStored, Stored
<1> HIDE DEF gone
<1>6. TypeOK'
  BY <1>2, <1>3, <1>4 DEF IInv, Base, TypeOK
<1>7. Stages' /\ Copies' /\ ZeroTaken'
  BY <1>2, <1>3, <1>4, IdleFacts DEF IInv, Base, Stages, Copies, ZeroTaken, OthersKeep
<1>8. Uids'
  <2>1. \A v \in Workers : task'[v].pc # "idle" => task'[v] = task[v]
    BY <1>3, IdleFacts DEF OthersKeep
  <2>2. \A v \in Workers : task'[v].pc \in Creating => task'[v].pc # "idle"
    BY DEF Creating
  <2> QED BY <1>2, <1>4, <2>1, <2>2 DEF IInv, Base, Uids
<1>9. Removing'
  BY <1>2, <1>3, <1>4, IdleFacts DEF IInv, Base, Removing, IsStored, Stored, OthersKeep
<1>10. SameHolders
  <2>1. \A y \in Workers : \A u, j, x : TaskHolds(y, u, j, x)' <=> TaskHolds(y, u, j, x)
    BY <1>1, <1>3, IdleFacts DEF TaskHolds, OthersKeep
  <2>2. \A n, u, j, x : NetHolds(n, u, j, x)' <=> NetHolds(n, u, j, x)
    BY <1>2, <1>4, <1>5 DEF NetHolds, Bears
  <2> QED BY <2>1, <2>2 DEF SameHolders, Holds
<1>11. Same
  BY <1>2, <1>10 DEF Same, Remembers
<1> QED BY <1>6, <1>7, <1>8, <1>9, <1>11 DEF Base, Effect

\* Steps outside of the webhook: only the TenantConfig, the Pods and the number of requests
\* change.
LEMMA OutsideBase ==
    ASSUME IInv, ValidateTenantConfig \/ PodConnects \/ PodLeaves
    PROVE  Base' /\ Effect
<1>1. networks' = networks /\ task' = task /\ fails' = fails /\ freed' = freed /\ denied' = denied
  BY DEF ValidateTenantConfig, PodConnects, PodLeaves, objects, history
<1>2. /\ requests \in Nat /\ MaxRequests \in Nat
      /\ requests' = requests \/ (requests' = requests + 1 /\ requests < MaxRequests)
  BY ConfigAssumption DEF ValidateTenantConfig, PodConnects, PodLeaves, NewRequest,
     IInv, Base, TypeOK
<1>3. pods' \subseteq Names
  BY DEF ValidateTenantConfig, PodConnects, PodLeaves, objects, IInv, Base, TypeOK
<1>4. /\ conf' \in Conf /\ disturbed' \in BOOLEAN
      /\ conf' = conf \/ conf'.rv = conf.rv + 1
      /\ \/ conf'.alloc = conf.alloc /\ disturbed' = disturbed
         \/ conf'.alloc = NewAlloc /\ disturbed' = TRUE
  <2>1. conf \in Conf /\ disturbed \in BOOLEAN /\ NewAlloc \in [Profiles -> SUBSET Nat]
    BY IdleFacts DEF IInv, Base, TypeOK, Conf, NewConf
  <2>2. CASE ValidateTenantConfig
    <3>1. PICK e \in AdminEdits :
             /\ conf' = [alloc |-> IF e = "keeps" THEN conf.alloc ELSE NewAlloc, rv |-> conf.rv + 1]
             /\ disturbed' = (disturbed \/ (e = "omits" /\ conf.alloc # NewAlloc))
      BY <2>2 DEF ValidateTenantConfig
    <3>2. e \in {"keeps", "omits"}
      BY ConfigAssumption
    <3>3. conf' \in Conf /\ conf'.rv = conf.rv + 1
      BY <2>1, <3>1 DEF Conf
    <3>4. CASE e = "keeps"
      BY <2>1, <3>1, <3>3, <3>4
    <3>5. CASE e = "omits"
      BY <2>1, <3>1, <3>3, <3>5
    <3> QED BY <3>2, <3>4, <3>5
  <2>3. CASE PodConnects \/ PodLeaves
    BY <2>1, <2>3 DEF PodConnects, PodLeaves, history
  <2> QED BY <2>2, <2>3
<1>5. TypeOK'
  BY <1>1, <1>2, <1>3, <1>4 DEF IInv, Base, TypeOK
<1>6. Stages' /\ Removing'
  BY <1>1 DEF IInv, Base, Stages, Removing, IsStored, Stored
<1>7. Copies'
  <2>1. conf.rv \in Nat /\ \A v \in Workers : task[v].tconf.rv \in Nat
    BY DEF IInv, Base, TypeOK, Conf, Task
  <2> QED BY <1>1, <1>4, <2>1 DEF IInv, Base, Copies
<1>8. ZeroTaken'
  BY <1>4 DEF IInv, Base, ZeroTaken, NewAlloc
<1>9. Uids'
  <2>1. requests' <= MaxRequests /\ \A k \in 1 .. requests : k \in 1 .. requests'
    BY <1>2 DEF IInv, Base, Uids
  <2> QED BY <1>1, <2>1 DEF IInv, Base, Uids
<1>10. SameHolders
  BY <1>1 DEF SameHolders, Holds, NetHolds, TaskHolds
<1>11. Remembers
  BY <1>1 DEF Remembers
<1>12. CASE conf'.alloc = conf.alloc /\ disturbed' = disturbed
  BY <1>5, <1>6, <1>7, <1>8, <1>9, <1>10, <1>11, <1>12 DEF Base, Effect, Same
<1>13. CASE conf'.alloc = NewAlloc /\ disturbed' = TRUE
  <2>1. \A i \in Profiles : \A v \in conf'.alloc[i] \ {0} : v \in conf.alloc[i]
    BY <1>13 DEF NewAlloc
  <2>2. Disturbs
    BY <1>10, <1>11, <1>13, <2>1 DEF Disturbs
  <2> QED BY <1>5, <1>6, <1>7, <1>8, <1>9, <2>2 DEF Base, Effect
<1> QED BY <1>4, <1>12, <1>13

\* Every step has one of the effects, and keeps the invariant.
LEMMA NextBase ==
    ASSUME IInv, Next
    PROVE  Base' /\ Effect
<1>1. CASE ValidateTenantConfig \/ PodConnects \/ PodLeaves
  BY <1>1, OutsideBase
<1>2. ASSUME NEW w \in Workers, ValidateNetwork(w) \/ DeleteNetwork(w) \/ WorkerStep(w)
      PROVE  Base' /\ Effect
  BY <1>2, ValidateNetworkBase, DeleteNetworkBase, addTenantSpecificDetailsBase, ReserveBase,
     ReadBase, RespondBase, StoreNetworkBase, FreeBase, RemoveNetworkBase
     DEF WorkerStep, ReserveRefresh, GetTenantConfig, FreeRefresh
<1> QED BY <1>1, <1>2 DEF Next

LEMMA InitIInv == Init => IInv
<1> SUFFICES ASSUME Init PROVE IInv
  OBVIOUS
<1>1. /\ conf = NewConf /\ DOMAIN networks = {} /\ pods = {}
      /\ requests = 0 /\ fails = 0 /\ freed = {} /\ disturbed = FALSE /\ denied = FALSE
      /\ task \in [Workers -> Task] /\ \A w \in Workers : task[w] = Idle
  BY IdleFacts DEF Init
<1>2. TypeOK
  BY <1>1, IdleFacts DEF TypeOK
<1>3. Stages /\ Copies /\ Removing
  BY <1>1, IdleFacts DEF Stages, Copies, Removing
<1>4. ZeroTaken
  BY <1>1 DEF ZeroTaken, NewConf, NewAlloc
<1>5. Uids
  <2>1. \A w \in Workers : task[w].pc = "idle" /\ task[w].pc \notin Creating
    BY <1>1, IdleFacts DEF Creating
  <2>2. requests <= MaxRequests
    <3>1. MaxRequests \in Nat
      BY ConfigAssumption
    <3> QED BY <1>1, <3>1
  <2> QED BY <1>1, <2>1, <2>2 DEF Uids
<1>6. \A u, i, v : ~Holds(u, i, v)
  BY <1>1, IdleFacts DEF Holds, NetHolds, TaskHolds
<1>7. \A i \in Profiles : conf.alloc[i] \ {0} = {}
  BY <1>1 DEF NewConf, NewAlloc
<1> QED BY <1>2, <1>3, <1>4, <1>5, <1>6, <1>7 DEF IInv, Base, Recorded, Exclusive, NoLeak

LEMMA NextIInv == IInv /\ [Next]_vars => IInv'
<1> SUFFICES ASSUME IInv, [Next]_vars PROVE IInv'
  OBVIOUS
<1>1. CASE Next
  <2>1. Base' /\ Effect
    BY <1>1, NextBase
  <2>2. Recorded' /\ Exclusive' /\ NoLeak'
    BY <2>1, EffectSafe DEF IInv, Base
  <2> QED BY <2>1, <2>2 DEF IInv
<1>2. CASE UNCHANGED vars
  <2>1. /\ conf' = conf /\ networks' = networks /\ pods' = pods /\ task' = task
        /\ requests' = requests /\ fails' = fails
        /\ freed' = freed /\ disturbed' = disturbed /\ denied' = denied
    BY <1>2 DEF vars, objects, history
  <2>2. TypeOK' /\ Stages'
    BY <2>1 DEF IInv, Base, TypeOK, Stages
  <2>3. Copies' /\ ZeroTaken' /\ Uids' /\ Removing'
    BY <2>1 DEF IInv, Base, Copies, ZeroTaken, Uids, Removing, IsStored, Stored
  <2>4. SameHolders
    BY <2>1 DEF SameHolders, Holds, NetHolds, TaskHolds
  <2>5. Same
    BY <2>1, <2>4 DEF Same, Remembers
  <2>6. Recorded' /\ Exclusive' /\ NoLeak'
    BY <2>2, <2>5, EffectSafe DEF IInv, Base, Effect
  <2> QED BY <2>2, <2>3, <2>6 DEF IInv, Base
<1> QED BY <1>1, <1>2

\* The inductive invariant holds in every reachable state of the admission of networks.
THEOREM IInvHolds == Spec => []IInv
<1>1. Init => IInv
  BY InitIInv
<1>2. IInv /\ [Next]_vars => IInv'
  BY NextIInv
<1> QED BY <1>1, <1>2, PTL DEF Spec

\* The API objects and the variables of every admission request keep their types.
THEOREM TypeCorrect == Spec => []TypeOK
<1>1. IInv => TypeOK
  BY DEF IInv, Base
<1> QED BY <1>1, IInvHolds, PTL

\* The networks that hold VNIs, in the terms of the model.
LEMMA HeldIsHolds ==
    ASSUME TypeOK, NEW i, NEW v
    PROVE  <<i, v>> \in HeldVnis <=> \E u : Holds(u, i, v)
<1>1. ASSUME NEW n \in LiveNets, VniIn(networks[n]) = <<i, v>>
      PROVE  \E u : Holds(u, i, v)
  <2>1. n \in Names /\ NetHolds(n, networks[n].uid, i, v)
    BY <1>1 DEF LiveNets, NetHolds, Bears, VniIn, TypeOK
  <2> QED BY <2>1 DEF Holds
<1>2. ASSUME NEW w \in Reserving, VniIn(task[w].tnet) = <<i, v>>
      PROVE  \E u : Holds(u, i, v)
  <2>1. w \in Workers /\ TaskHolds(w, task[w].tnet.uid, i, v)
    BY <1>2 DEF Reserving, TaskHolds, Bears, VniIn
  <2> QED BY <2>1 DEF Holds
<1>3. ASSUME NEW u, NEW n \in Names, NetHolds(n, u, i, v)
      PROVE  <<i, v>> \in HeldVnis
  <2>1. n \in LiveNets /\ VniIn(networks[n]) = <<i, v>>
    BY <1>3 DEF LiveNets, NetHolds, Bears, VniIn
  <2> QED BY <2>1 DEF HeldVnis
<1>4. ASSUME NEW u, NEW w \in Workers, TaskHolds(w, u, i, v)
      PROVE  <<i, v>> \in HeldVnis
  <2>1. w \in Reserving /\ VniIn(task[w].tnet) = <<i, v>>
    BY <1>4 DEF Reserving, TaskHolds, Bears, VniIn
  <2> QED BY <2>1 DEF HeldVnis
<1> QED BY <1>1, <1>2, <1>3, <1>4 DEF HeldVnis, Holds

\* The VNI of every network, stored or about to be, is reserved in the TenantConfig, for any
\* number of concurrent admissions, conflicts, failures and updates of the TenantConfig
\* (confman.go), as long as none was freed twice or forgotten by an update.
THEOREM VniRecordedAlways == Spec => []VniRecorded
<1>1. IInv => VniRecorded
  <2> SUFFICES ASSUME IInv, ~disturbed, NEW h \in HeldVnis
               PROVE  h[1] \in Profiles /\ h[2] \in conf.alloc[h[1]]
    BY DEF VniRecorded
  <2>1. PICK m : h = <<VniProfile(m), VniOf(m)>>
    BY DEF HeldVnis, VniIn
  <2>2. PICK i, v : h = <<i, v>> /\ h[1] = i /\ h[2] = v
    BY <2>1
  <2>3. PICK u : Holds(u, i, v)
    BY <2>2, HeldIsHolds DEF IInv, Base
  <2>4. i \in Profiles
    BY <2>3, HolderFacts DEF IInv, Base
  <2> QED BY <2>2, <2>3, <2>4 DEF IInv, Recorded
<1> QED BY <1>1, IInvHolds, PTL

\* No two networks, stored or about to be, have the same VNI on the same interface, under
\* the same condition: no reservation of confman.Reserve hands out a VNI that is in use.
THEOREM VniExclusiveAlways == Spec => []VniExclusive
<1>1. IInv => VniExclusive
  <2> SUFFICES ASSUME IInv, ~disturbed PROVE VniExclusivity
    BY DEF VniExclusive
  <2>1. \A u, t, i, v : Holds(u, i, v) /\ Holds(t, i, v) => u = t
    BY DEF IInv, Exclusive
  <2>2. ASSUME NEW m \in LiveNets
        PROVE  /\ m \in DOMAIN networks
               /\ Holds(networks[m].uid, VniProfile(networks[m]), VniOf(networks[m]))
    <3>1. m \in Names /\ m \in DOMAIN networks
      BY DEF LiveNets, IInv, Base, TypeOK
    <3>2. NetHolds(m, networks[m].uid, VniProfile(networks[m]), VniOf(networks[m]))
      BY <3>1 DEF LiveNets, NetHolds, Bears
    <3> QED BY <3>1, <3>2 DEF Holds
  <2>3. ASSUME NEW w \in Reserving
        PROVE  /\ w \in Workers /\ task[w].pc \in Creating /\ task[w].pc # "idle"
               /\ Holds(task[w].tnet.uid, VniProfile(task[w].tnet), VniOf(task[w].tnet))
    <3>1. w \in Workers /\ task[w].pc \in Creating /\ task[w].pc # "idle"
      BY DEF Reserving, Creating
    <3>2. TaskHolds(w, task[w].tnet.uid, VniProfile(task[w].tnet), VniOf(task[w].tnet))
      BY DEF Reserving, TaskHolds, Bears
    <3> QED BY <3>1, <3>2 DEF Holds
  <2>4. \A m, n : VniIn(m) = VniIn(n) => VniProfile(m) = VniProfile(n) /\ VniOf(m) = VniOf(n)
    BY DEF VniIn
  <2>5. \A m, n \in LiveNets : m # n => VniIn(networks[m]) # VniIn(networks[n])
    <3> SUFFICES ASSUME NEW m \in LiveNets, NEW n \in LiveNets, m # n,
                        VniIn(networks[m]) = VniIn(networks[n])
                 PROVE  FALSE
      OBVIOUS
    <3>1. networks[m].uid = networks[n].uid
      BY <2>1, <2>2, <2>4
    <3> QED BY <2>2, <3>1 DEF IInv, Base, Uids
  <2>6. \A v, w \in Reserving : v # w => VniIn(task[v].tnet) # VniIn(task[w].tnet)
    <3> SUFFICES ASSUME NEW v \in Reserving, NEW w \in Reserving, v # w,
                        VniIn(task[v].tnet) = VniIn(task[w].tnet)
                 PROVE  FALSE
      OBVIOUS
    <3>1. task[v].tnet.uid = task[w].tnet.uid
      BY <2>1, <2>3, <2>4
    <3> QED BY <2>3, <3>1 DEF IInv, Base, Uids
  <2>7. \A n \in LiveNets, w \in Reserving : VniIn(networks[n]) # VniIn(task[w].tnet)
    <3> SUFFICES ASSUME NEW n \in LiveNets, NEW w \in Reserving,
                        VniIn(networks[n]) = VniIn(task[w].tnet)
                 PROVE  FALSE
      OBVIOUS
    <3>1. networks[n].uid = task[w].tnet.uid
      BY <2>1, <2>2, <2>3, <2>4
    <3> QED BY <2>2, <2>3, <3>1 DEF IInv, Base, Uids
  <2> QED BY <2>5, <2>6, <2>7 DEF VniExclusivity
<1> QED BY <1>1, IInvHolds, PTL

\* Without API failures and late denials every VNI that is reserved belongs to a network,
\* stored or about to be: neither a conflict of PUTs nor a race of deletions leaks one.
THEOREM NoVniLeakAlways == Spec => []NoVniLeak
<1>1. IInv => NoVniLeak
  BY HeldIsHolds DEF IInv, Base, NoLeak, NoVniLeak
<1> QED BY <1>1, IInvHolds, PTL

-----------------------------------------------------------------------------
\* The refinement: every effect is a step of the allocator.

\* What the abstract allocator takes for the VNIs of a network, and for the free ones.
HeldExact ==
    \A u \in 1 .. MaxRequests : \A h :
        h \in VniHeld[u] <=> \E i, v : h = <<i, v>> /\ Holds(u, i, v)

FreeExact ==
    /\ FreeVniSet \subseteq Vnis
    /\ \A i, v : <<i, v>> \in FreeVniSet <=> <<i, v>> \in Vnis /\ v \notin conf.alloc[i]

LEMMA HeldFacts ==
    ASSUME TypeOK, NEW u \in 1 .. MaxRequests, NEW h
    PROVE  h \in VniHeld[u] <=> \E i, v : h = <<i, v>> /\ Holds(u, i, v)
<1> DEFINE live == {networks[n] : n \in LiveNets} \cup {task[w].tnet : w \in Reserving}
<1>1. VniHeld[u] = {VniIn(m) : m \in {n \in live : n.uid = u}}
  BY DEF VniHeld
<1>2. ASSUME NEW m \in live, m.uid = u, h = VniIn(m)
      PROVE  Holds(u, VniProfile(m), VniOf(m)) /\ h = <<VniProfile(m), VniOf(m)>>
  <2>1. CASE \E n \in LiveNets : m = networks[n]
    <3>1. PICK n \in LiveNets : m = networks[n]
      BY <2>1
    <3>2. n \in Names /\ NetHolds(n, u, VniProfile(m), VniOf(m))
      BY <1>2, <3>1 DEF LiveNets, NetHolds, Bears, TypeOK
    <3> QED BY <1>2, <3>2 DEF Holds, VniIn
  <2>2. CASE \E w \in Reserving : m = task[w].tnet
    <3>1. PICK w \in Reserving : m = task[w].tnet
      BY <2>2
    <3>2. w \in Workers /\ TaskHolds(w, u, VniProfile(m), VniOf(m))
      BY <1>2, <3>1 DEF Reserving, TaskHolds, Bears
    <3> QED BY <1>2, <3>2 DEF Holds, VniIn
  <2> QED BY <1>2, <2>1, <2>2
<1>3. ASSUME NEW i, NEW v, h = <<i, v>>, Holds(u, i, v)
      PROVE  \E m \in live : m.uid = u /\ h = VniIn(m)
  <2>1. ASSUME NEW n \in Names, NetHolds(n, u, i, v)
        PROVE  networks[n] \in live /\ networks[n].uid = u /\ h = VniIn(networks[n])
    BY <1>3, <2>1 DEF LiveNets, NetHolds, Bears, VniIn
  <2>2. ASSUME NEW w \in Workers, TaskHolds(w, u, i, v)
        PROVE  task[w].tnet \in live /\ task[w].tnet.uid = u /\ h = VniIn(task[w].tnet)
    BY <1>3, <2>2 DEF Reserving, TaskHolds, Bears, VniIn
  <2> QED BY <1>3, <2>1, <2>2 DEF Holds
<1> HIDE DEF live
<1> QED BY <1>1, <1>2, <1>3

LEMMA HeldIsExact == TypeOK => HeldExact
BY HeldFacts DEF HeldExact

LEMMA HeldIsExactNext == TypeOK' => HeldExact'
BY HeldIsExact, PTL

LEMMA FreeIsExact == FreeExact
BY DEF Vnis, FreeVniSet, FreeExact

LEMMA FreeIsExactNext == FreeExact'
BY FreeIsExact, PTL

\* The VNIs of the profiles are pairs of a profile and a VNI of its range.
LEMMA VniFacts ==
    /\ \A h \in Vnis : \E i, v : h = <<i, v>>
    /\ \A i, v : <<i, v>> \in Vnis <=> i \in Profiles /\ v \in HostDevices[i].vniRange \ {0}
BY DEF Vnis

LEMMA InitMaps == Init => Atomic!Init
<1> SUFFICES ASSUME Init PROVE Atomic!Init
  OBVIOUS
<1>1. IInv
  BY InitIInv
<1>2. disturbed = FALSE
  BY DEF Init
<1>3. \A u, i, v : ~Holds(u, i, v)
  <2>1. DOMAIN networks = {} /\ \A w \in Workers : task[w] = Idle
    BY DEF Init
  <2> QED BY <2>1, IdleFacts DEF Holds, NetHolds, TaskHolds
<1>4. \A u \in 1 .. MaxRequests : VniHeld[u] = {}
  BY <1>1, <1>3, HeldIsExact DEF IInv, Base, HeldExact
<1>5. VniHeld = [u \in 1 .. MaxRequests |-> {}]
  BY <1>4 DEF VniHeld
<1>6. FreeVniSet \subseteq Vnis
  BY FreeIsExact DEF FreeExact
<1> QED BY <1>2, <1>5, <1>6 DEF Atomic!Init

LEMMA NextMaps == IInv /\ [Next]_vars => [Atomic!Next]_(Atomic!vars)
<1> SUFFICES ASSUME IInv, [Next]_vars PROVE [Atomic!Next]_(Atomic!vars)
  OBVIOUS
<1> DEFINE R == 1 .. MaxRequests
           F == FreeVniSet
           G == FreeVniSet'
           H == VniHeld
           K == VniHeld'
<1>1. IInv' /\ TypeOK /\ TypeOK'
  BY NextIInv DEF IInv, Base
<1>2. /\ disturbed \in BOOLEAN /\ disturbed' \in BOOLEAN
      /\ conf.alloc \in [Profiles -> SUBSET Nat] /\ conf'.alloc \in [Profiles -> SUBSET Nat]
  BY <1>1 DEF TypeOK, Conf
<1>3. /\ \A u \in R : \A h : h \in H[u] <=> \E i, v : h = <<i, v>> /\ Holds(u, i, v)
      /\ \A u \in R : \A h : h \in K[u] <=> \E i, v : h = <<i, v>> /\ Holds(u, i, v)'
  BY <1>1, HeldIsExact, HeldIsExactNext DEF HeldExact
<1>4. /\ F \subseteq Vnis /\ G \subseteq Vnis
      /\ \A i, v : <<i, v>> \in F <=> <<i, v>> \in Vnis /\ v \notin conf.alloc[i]
      /\ \A i, v : <<i, v>> \in G <=> <<i, v>> \in Vnis /\ v \notin conf'.alloc[i]
  BY FreeIsExact, FreeIsExactNext DEF FreeExact
<1>5. H = [u \in R |-> H[u]] /\ K = [u \in R |-> K[u]]
  BY DEF VniHeld
<1>6. \A u \in R : (\A i, v : Holds(u, i, v)' <=> Holds(u, i, v)) => K[u] = H[u]
  BY <1>3
<1>7. ASSUME NEW o \in R, \A u \in R : u # o => K[u] = H[u]
      PROVE  K = [H EXCEPT ![o] = K[o]]
  BY <1>5, <1>7
<1>8. conf'.alloc = conf.alloc => G = F
  BY DEF FreeVniSet
<1> HIDE DEF F, G, H, K
<1>9. ASSUME SameHolders PROVE K = H
  <2>1. \A u \in R : K[u] = H[u]
    BY <1>6, <1>9 DEF SameHolders
  <2> QED BY <1>5, <2>1
<1>10. ASSUME NEW o \in R, Leaves(o)
       PROVE  K[o] = {} /\ K = [H EXCEPT ![o] = {}]
  <2>1. K[o] = {}
    BY <1>3, <1>10 DEF Leaves
  <2>2. \A u \in R : u # o => K[u] = H[u]
    BY <1>6, <1>10 DEF Leaves
  <2> QED BY <1>7, <2>1, <2>2
<1>11. ASSUME NEW i, NEW v, Takes(i, v)
       PROVE  /\ <<i, v>> \in F
              /\ G = F \ {<<i, v>>}
  <2>1. <<i, v>> \in F
    BY <1>4, <1>11, VniFacts DEF Takes
  <2>2. /\ i \in Profiles /\ conf'.alloc[i] = conf.alloc[i] \cup {v}
        /\ \A j \in Profiles : j # i => conf'.alloc[j] = conf.alloc[j]
    BY <1>2, <1>11 DEF Takes
  <2>3. ASSUME NEW h \in Vnis PROVE h \in G <=> h \in F \ {<<i, v>>}
    <3>1. PICK j, x : h = <<j, x>>
      BY VniFacts
    <3>2. j \in Profiles
      BY <3>1, VniFacts
    <3>3. <<j, x>> = <<i, v>> <=> j = i /\ x = v
      OBVIOUS
    <3>4. x \in conf'.alloc[j] <=> x \in conf.alloc[j] \/ (j = i /\ x = v)
      BY <2>2, <3>2
    <3>5. <<j, x>> \in G <=> <<j, x>> \in F /\ <<j, x>> # <<i, v>>
      BY <1>4, <3>1, <3>3, <3>4
    <3> QED BY <3>1, <3>5
  <2> QED BY <1>4, <2>1, <2>3
<1>12. CASE UNCHANGED vars \/ Same
  <2>1. SameHolders /\ conf'.alloc = conf.alloc /\ disturbed' = disturbed
    BY <1>12 DEF Same, vars, objects, history, SameHolders, Holds, NetHolds, TaskHolds
  <2>2. K = H /\ G = F
    BY <1>8, <1>9, <2>1
  <2> QED BY <2>1, <2>2 DEF Atomic!vars, F, G, H, K
<1>13. CASE disturbed' = TRUE
  BY <1>13 DEF Atomic!Next
<1>14. ASSUME NEW o \in R, disturbed = FALSE, disturbed' = FALSE,
              Atomic!Acquire(o) \/ Atomic!Release(o) \/ Atomic!Fail(o)
       PROVE  Atomic!Next
  BY <1>14 DEF Atomic!Next
<1>15. ASSUME NEW u, Dropped(u), disturbed = FALSE, disturbed' = FALSE
       PROVE  Atomic!Next
  <2>1. u \in R /\ Leaves(u) /\ conf'.alloc = conf.alloc
    BY <1>15 DEF Dropped
  <2>2. K = [H EXCEPT ![u] = {}] /\ G = F
    BY <1>8, <1>10, <2>1
  <2>3. Atomic!Fail(u)
    BY <2>2 DEF Atomic!Fail, F, G, H, K
  <2> QED BY <1>14, <1>15, <2>1, <2>3
<1>16. ASSUME NEW u, NEW i, NEW v, Acquired(u, i, v), disturbed = FALSE, disturbed' = FALSE
       PROVE  Atomic!Next
  <2>1. /\ u \in R /\ Takes(i, v) /\ \A j, x : ~Holds(u, j, x)
        /\ \A t, j, x : Holds(t, j, x)' <=> Holds(t, j, x) \/ (t = u /\ j = i /\ x = v)
    BY <1>16 DEF Acquired, HasNone
  <2>2. H[u] = {} /\ K[u] = {<<i, v>>}
    <3>1. H[u] = {}
      BY <1>3, <2>1
    <3>2. \A h : h \in K[u] <=> h = <<i, v>>
      BY <1>3, <2>1
    <3> QED BY <3>1, <3>2
  <2>3. K = [H EXCEPT ![u] = K[u]]
    BY <1>6, <1>7, <2>1
  <2>4. K[u] \subseteq F /\ G = F \ K[u]
    BY <1>11, <2>1, <2>2
  <2>5. Atomic!Acquire(u)
    BY <2>2, <2>3, <2>4 DEF Atomic!Acquire, Atomic!Only, F, G, H, K
  <2> QED BY <1>14, <1>16, <2>1, <2>5
<1>17. ASSUME NEW u, NEW i, NEW v, Lost(u, i, v), disturbed = FALSE, disturbed' = FALSE
       PROVE  Atomic!Next
  <2>1. u \in R /\ Takes(i, v) /\ SameHolders /\ \A j, x : ~Holds(u, j, x)
    BY <1>17 DEF Lost, HasNone
  <2>2. K = H /\ H[u] = {}
    BY <1>3, <1>9, <2>1
  <2>3. K = [H EXCEPT ![u] = {}]
    BY <1>5, <2>1, <2>2
  <2>4. G \subseteq F
    BY <1>11, <2>1
  <2>5. Atomic!Fail(u)
    BY <2>2, <2>3, <2>4 DEF Atomic!Fail, F, G, H, K
  <2> QED BY <1>14, <1>17, <2>1, <2>5
<1>18. ASSUME NEW u, NEW i, NEW v, Released(u, i, v), disturbed = FALSE, disturbed' = FALSE
       PROVE  Atomic!Next
  <2>1. /\ Holds(u, i, v) /\ Leaves(u)
        /\ conf'.alloc = [conf.alloc EXCEPT ![i] = @ \ {v}]
    BY <1>18 DEF Released
  <2>2. /\ u \in R /\ i \in Profiles /\ v \in HostDevices[i].vniRange /\ v # 0
        /\ \A j, x : Holds(u, j, x) => j = i /\ x = v
    BY <2>1, HolderFacts DEF IInv, Base
  <2>3. K[u] = {} /\ K = [H EXCEPT ![u] = {}]
    BY <1>10, <2>1, <2>2
  <2>4. H[u] = {<<i, v>>}
    <3>1. \A h : h \in H[u] <=> h = <<i, v>>
      BY <1>3, <2>1, <2>2
    <3> QED BY <3>1
  <2>5. /\ conf'.alloc[i] = conf.alloc[i] \ {v}
        /\ \A j \in Profiles : j # i => conf'.alloc[j] = conf.alloc[j]
    BY <1>2, <2>1, <2>2
  <2>6. <<i, v>> \in Vnis
    BY <2>2, VniFacts
  <2>7. ASSUME NEW h \in Vnis PROVE h \in G <=> h \in F \cup {<<i, v>>}
    <3>1. PICK j, x : h = <<j, x>>
      BY VniFacts
    <3>2. j \in Profiles
      BY <3>1, VniFacts
    <3>3. <<j, x>> = <<i, v>> <=> j = i /\ x = v
      OBVIOUS
    <3>4. x \notin conf'.alloc[j] <=> x \notin conf.alloc[j] \/ (j = i /\ x = v)
      BY <2>5, <3>2
    <3>5. <<j, x>> \in G <=> <<j, x>> \in F \/ <<j, x>> = <<i, v>>
      BY <1>4, <3>1, <3>3, <3>4
    <3> QED BY <3>1, <3>5
  <2>8. G = F \cup {<<i, v>>}
    BY <1>4, <2>6, <2>7
  <2>9. Atomic!Release(u)
    BY <2>3, <2>4, <2>8 DEF Atomic!Release, Atomic!Only, F, G, H, K
  <2> QED BY <1>14, <1>18, <2>2, <2>9
<1>19. CASE Next
  <2>1. Effect
    BY <1>19, NextBase
  <2>2. CASE disturbed' = FALSE /\ ~Same
    <3>1. ~Disturbs
      BY <2>2 DEF Disturbs
    <3>2. \A u, i, v : Dropped(u) \/ Acquired(u, i, v) \/ Lost(u, i, v) \/ Released(u, i, v) =>
             disturbed = FALSE
      BY <2>2 DEF Dropped, Acquired, Lost, Takes, Released
    <3> QED BY <1>15, <1>16, <1>17, <1>18, <2>1, <2>2, <3>1, <3>2 DEF Effect
  <2> QED BY <1>2, <1>12, <1>13, <2>2
<1> QED BY <1>12, <1>19

\* Reservations and releases of VNIs implement the allocator with a lock, for any number of
\* networks and concurrent admissions: the optimistic PUTs of confman.Reserve and confman.Free
\* never lose or undo what another request has stored.
THEOREM AllocatorImplemented == Spec => ImplementsAllocator
<1>1. Init => Atomic!Init
  BY InitMaps
<1>2. IInv /\ [Next]_vars => [Atomic!Next]_(Atomic!vars)
  BY NextMaps
<1> QED BY <1>1, <1>2, IInvHolds, PTL DEF Spec, ImplementsAllocator, Atomic!Spec

=============================================================================
