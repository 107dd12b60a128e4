-------------------------- MODULE NetWatcherProofs --------------------------
(***************************************************************************)
(* Proofs about module NetWatcher, for any number of nodes and networks: how*)
(* the watchers of all nodes and the users write to one                     *)
(* NetworkAttachmentDefinition, and that on every node the host interfaces of*)
(* a network are those it asks for once its watcher is up to date.  Two     *)
(* invariants: IInv is about versions and patches of NADs; LInv, on top of it,*)
(* relates the API server, the events under way, what a watcher knows and the*)
(* interfaces of its node.                                                  *)
(***************************************************************************)
EXTENDS NetWatcher, FiniteSetTheorems, WellFoundedInduction, TLAPS

-----------------------------------------------------------------------------
(* Queues, and the events in them                                            *)

LEMMA AppendedEvents ==
    ASSUME NEW S, NEW q \in Seq(S), NEW e \in S
    PROVE  Append(q, e) \in Seq(S) /\ ToSet(Append(q, e)) = ToSet(q) \cup {e}
<1> DEFINE p == Append(q, e)
<1>1. /\ p \in Seq(S) /\ Len(p) = Len(q) + 1 /\ Len(q) \in Nat
      /\ p[Len(q) + 1] = e /\ \A j \in 1 .. Len(q) : p[j] = q[j]
      /\ DOMAIN p = 1 .. Len(p) /\ DOMAIN q = 1 .. Len(q)
  OBVIOUS
<1> HIDE DEF p
<1>2. \A j : j \in DOMAIN p <=> j \in DOMAIN q \/ j = Len(q) + 1
  BY <1>1
<1>3. ToSet(p) = ToSet(q) \cup {e}
  BY <1>1, <1>2 DEF ToSet
<1> QED BY <1>1, <1>3 DEF p

LEMMA PoppedEvents ==
    ASSUME NEW S, NEW q \in Seq(S), q # <<>>
    PROVE  /\ Head(q) \in S /\ Tail(q) \in Seq(S)
           /\ ToSet(q) = {Head(q)} \cup ToSet(Tail(q))
<1> DEFINE p == Tail(q)
<1>1. /\ p \in Seq(S) /\ Len(p) = Len(q) - 1 /\ Len(q) \in Nat \ {0}
      /\ q[1] = Head(q) /\ Head(q) \in S /\ \A j \in 1 .. Len(p) : p[j] = q[j + 1]
      /\ DOMAIN p = 1 .. Len(p) /\ DOMAIN q = 1 .. Len(q)
  OBVIOUS
<1> HIDE DEF p
<1>2. \A j : j \in DOMAIN q => j = 1 \/ (j - 1 \in DOMAIN p /\ p[j - 1] = q[j])
  BY <1>1
<1>3. \A j : j \in DOMAIN p => j + 1 \in DOMAIN q /\ p[j] = q[j + 1]
  BY <1>1
<1>4. 1 \in DOMAIN q
  BY <1>1
<1>5. ToSet(q) = {Head(q)} \cup ToSet(p)
  BY <1>1, <1>2, <1>3, <1>4 DEF ToSet
<1> QED BY <1>1, <1>5 DEF p

LEMMA JoinedEvents ==
    ASSUME NEW S, NEW p \in Seq(S), NEW q \in Seq(S)
    PROVE  p \o q \in Seq(S) /\ ToSet(p \o q) = ToSet(p) \cup ToSet(q)
<1> DEFINE r == p \o q
<1>1. /\ r \in Seq(S) /\ Len(r) = Len(p) + Len(q) /\ Len(p) \in Nat /\ Len(q) \in Nat
      /\ \A j \in 1 .. Len(p) : r[j] = p[j]
      /\ \A j \in 1 .. Len(q) : r[Len(p) + j] = q[j]
      /\ DOMAIN p = 1 .. Len(p) /\ DOMAIN q = 1 .. Len(q) /\ DOMAIN r = 1 .. Len(r)
  OBVIOUS
<1> HIDE DEF r
<1>2. \A j : j \in DOMAIN r =>
          (j \in DOMAIN p /\ r[j] = p[j]) \/ (j - Len(p) \in DOMAIN q /\ r[j] = q[j - Len(p)])
  <2> SUFFICES ASSUME NEW j \in 1 .. Len(r), j \notin DOMAIN p
               PROVE  j - Len(p) \in DOMAIN q /\ r[j] = q[j - Len(p)]
    BY <1>1
  <2>1. j - Len(p) \in 1 .. Len(q) /\ Len(p) + (j - Len(p)) = j
    BY <1>1
  <2> QED BY <1>1, <2>1
<1>3. /\ \A j : j \in DOMAIN p => j \in DOMAIN r /\ r[j] = p[j]
      /\ \A j : j \in DOMAIN q => Len(p) + j \in DOMAIN r /\ r[Len(p) + j] = q[j]
  BY <1>1
<1>4. ToSet(r) = ToSet(p) \cup ToSet(q)
  BY <1>2, <1>3 DEF ToSet
<1> QED BY <1>1, <1>4 DEF r

\* The informers deliver every object of a list once.
LEMMA ListedEvents ==
    ASSUME NEW S, IsFiniteSet(S)
    PROVE  SetToSeq(S) \in Seq(S) /\ ToSet(SetToSeq(S)) = S
<1> DEFINE n == Cardinality(S)
           q == SetToSeq(S)
<1>1. n \in Nat /\ ExistsBijection(1 .. n, S)
  BY FS_CardinalityType
<1>2. PICK g \in [1 .. n -> S] : \A a, b \in 1 .. n : g[a] = g[b] => a = b
  BY <1>1 DEF ExistsBijection, Bijection, Injection, IsInjective
<1>3. \E f \in [1 .. n -> S] : IsInjective(f)
  BY <1>2 DEF IsInjective
<1>4. q \in [1 .. n -> S] /\ IsInjective(q)
  BY <1>3, Zenon DEF SetToSeq
<1> HIDE DEF n, q
<1>5. q \in Seq(S) /\ DOMAIN q = 1 .. n
  BY <1>1, <1>4
<1>6. ToSet(q) \subseteq S
  BY <1>4, <1>5 DEF ToSet
<1>7. Cardinality(ToSet(q)) = n
  <2>1. q \in Bijection(1 .. n, ToSet(q))
    BY <1>4, <1>5 DEF ToSet, Bijection, Injection, Surjection, IsInjective
  <2>2. ExistsBijection(1 .. n, ToSet(q))
    BY <2>1 DEF ExistsBijection
  <2>3. IsFiniteSet(1 .. n) /\ Cardinality(1 .. n) = n
    BY <1>1, FS_Interval
  <2> QED BY <2>2, <2>3, FS_Bijection
<1>8. ToSet(q) = S
  BY <1>6, <1>7, FS_Subset DEF n
<1> QED BY <1>5, <1>8 DEF q

-----------------------------------------------------------------------------
(* The inductive invariant                                                   *)

\* An event belongs to the API of the queue it is in, and an object of the version in the
\* API server is the object in the API server: what a NAD handler gets accepted is what a
\* user wrote, with another device.
EventOK(k, e) ==
    /\ kind[e.net] = k
    /\ e.type = "put" =>
          e.obj.ver # 0 /\ (e.obj.ver = api[e.net].ver => e.obj = api[e.net])
Versions == \A i \in Nodes : \A k \in Kinds : \A e \in ToSet(queue[i][k]) : EventOK(k, e)

\* All but the device of an object is from a user.
IsOf(n, s) == \E t \in Specs[n] : s.id = t.id /\ s.vlan = t.vlan /\ s.vxlan = t.vxlan
Origins ==
    /\ \A n \in Networks : InApi(n) => IsOf(n, api[n].spec)
    /\ \A i \in Nodes : \A k \in Kinds : \A e \in ToSet(queue[i][k]) :
          e.type = "put" => IsOf(e.net, e.obj.spec)
    /\ \A i \in Nodes : \A n \in Networks :
          kind[n] = NadKind /\ known[i][n].ver # 0 => IsOf(n, known[i][n].spec)

\* A NAD that does not name its interface is in the queue of every watcher that runs.
IsNamed(s) == s.device = DetermineHostDeviceName(s)
Waits(i, n) ==
    \/ watch[i][NadKind] # "up"
    \/ Event("put", n, api[n]) \in ToSet(queue[i][NadKind])
IsSettled(n) ==
    kind[n] = NadKind /\ InApi(n) /\ HasVni(api[n].spec) /\ n \notin unpatched
        => IsNamed(api[n].spec) \/ \A i \in Nodes : Waits(i, n)
Pending == \A n \in Networks : IsSettled(n)

\* Every NAD that does not name its interface has a patch to come.
Unnamed == {n \in Networks : kind[n] = NadKind /\ InApi(n) /\ ~IsNamed(api[n].spec)}
Patches == FollowedAlike => rev + Cardinality(Unnamed) <= 2 * edits

IInv == TypeOK /\ Versions /\ Origins /\ Pending /\ Patches

-----------------------------------------------------------------------------
(* Types                                                                     *)

LEMMA SpecFields ==
    ASSUME NEW s \in AnySpec
    PROVE  /\ s = [id |-> s.id, device |-> s.device, vlan |-> s.vlan, vxlan |-> s.vxlan]
           /\ s.id \in Ids /\ s.device \in Parents /\ s.vlan \in Vnis /\ s.vxlan \in Vnis
BY DEF AnySpec

LEMMA NoSpecType == NoSpec \in AnySpec /\ 0 \in Vnis
<1>1. NoSpec.id \in Ids /\ NoSpec.vlan \in Vnis /\ NoSpec.vxlan \in Vnis
  BY DEF Ids, Vnis, SpecOf
<1> QED BY <1>1 DEF AnySpec, NoSpec, Parents

\* The host interface a device name is made of.
LEMMA HostDevice ==
    ASSUME NEW s \in AnySpec
    PROVE  /\ DetermineHostDeviceName(s) \in Parents
           /\ s.vlan # 0 => determineVlanHdev(s.vlan, s.id, s.device) \in Names
           /\ VxlanName(s.id) \in Names
BY SpecFields DEF DetermineHostDeviceName, determineVlanHdev, Parents, Names

LEMMA Patched ==
    ASSUME NEW s \in AnySpec, NEW d \in Parents
    PROVE  /\ PatchCniConf(s, d) \in AnySpec
           /\ PatchCniConf(s, d).id = s.id /\ PatchCniConf(s, d).device = d
           /\ PatchCniConf(s, d).vlan = s.vlan /\ PatchCniConf(s, d).vxlan = s.vxlan
           /\ d = s.device => PatchCniConf(s, d) = s
BY SpecFields DEF PatchCniConf, AnySpec

LEMMA Zeroed ==
    ASSUME NEW s \in AnySpec, NEW old \in AnySpec, NEW new \in AnySpec
    PROVE  /\ zeroVnis(s, old, new) \in AnySpec
           /\ zeroVnis(s, old, new).id = s.id /\ zeroVnis(s, old, new).device = s.device
           /\ zeroVnis(s, old, new).vlan =
                 IF old.vlan = new.vlan /\ old.device = new.device THEN 0 ELSE s.vlan
           /\ zeroVnis(s, old, new).vxlan =
                 IF old.vxlan = new.vxlan /\ old.device = new.device THEN 0 ELSE s.vxlan
<1>1. /\ old["vlan"] = old.vlan /\ new["vlan"] = new.vlan
      /\ old["vxlan"] = old.vxlan /\ new["vxlan"] = new.vxlan
  OBVIOUS
<1> QED BY <1>1, SpecFields, NoSpecType DEF zeroVnis, Unchanged, AnySpec

LinksOK(ls) == ls \subseteq Links /\ \A l, m \in ls : l.name = m.name => l = m

LEMMA AddedLink ==
    ASSUME NEW ls, LinksOK(ls), NEW link \in Links, link.name \notin LinkNames(ls),
           NEW type, NEW fault
    PROVE  LinksOK(addLink(ls, type, link, fault).links)
<1> DEFINE down == [link EXCEPT !.up = FALSE]
<1>1. down \in Links /\ down.name = link.name
  BY DEF Links
<1>2. \A l \in ls : l.name # link.name
  BY DEF LinkNames
<1>3. LinksOK(ls \cup {link}) /\ LinksOK(ls \cup {down})
  BY <1>1, <1>2 DEF LinksOK
<1> QED BY <1>3 DEF addLink, Result

LEMMA SetupLinks ==
    ASSUME NEW i \in Nodes, NEW s \in AnySpec, NEW ls, LinksOK(ls), NEW fault
    PROVE  LinksOK(setupHost(i, s, ls, fault).links)
<1> DEFINE vlan == [name |-> determineVlanHdev(s.vlan, s.id, s.device), vni |-> s.vlan,
                    parent |-> s.device, group |-> <<>>, up |-> TRUE]
           vxlan == [name |-> VxlanName(s.id), vni |-> s.vxlan, parent |-> s.device,
                     group |-> VxlanGroup(i, s), up |-> TRUE]
<1>1. s.vlan # 0 => vlan \in Links
  BY SpecFields, HostDevice DEF Links
<1>2. vxlan \in Links
  BY SpecFields, HostDevice DEF Links, VxlanGroup, getMulticastIp
<1>3. /\ vlan.name = determineVlanHdev(s.vlan, s.id, s.device)
      /\ vxlan.name = VxlanName(s.id)
  OBVIOUS
<1>4. LinksOK(setupVlan(ls, s, fault).links)
  <2>1. CASE ~shouldInterfaceBeCreated(ls, s.vlan, determineVlanHdev(s.vlan, s.id, s.device))
             \/ ~IsPresent(ls, s.device)
    BY <2>1 DEF setupVlan, Result
  <2>2. CASE shouldInterfaceBeCreated(ls, s.vlan, determineVlanHdev(s.vlan, s.id, s.device))
             /\ IsPresent(ls, s.device)
    <3>1. vlan \in Links /\ vlan.name \notin LinkNames(ls)
      BY <1>1, <1>3, <2>2 DEF shouldInterfaceBeCreated
    <3>2. setupVlan(ls, s, fault) = addLink(ls, "vlan", vlan, fault)
      BY <2>2 DEF setupVlan
    <3> HIDE DEF vlan
    <3> QED BY <3>1, <3>2, AddedLink
  <2> QED BY <2>1, <2>2
<1>5. ASSUME NEW ms, LinksOK(ms)
      PROVE  LinksOK(setupVxlan(i, ms, s, fault).links)
  <2>1. CASE ~shouldInterfaceBeCreated(ms, s.vxlan, VxlanName(s.id))
             \/ ~IsPresent(ms, s.device) \/ parseVxlanHostIp(i, s.device) = {}
    BY <1>5, <2>1 DEF setupVxlan, Result
  <2>2. CASE shouldInterfaceBeCreated(ms, s.vxlan, VxlanName(s.id))
             /\ ~(~IsPresent(ms, s.device) \/ parseVxlanHostIp(i, s.device) = {})
    <3>1. vxlan.name \notin LinkNames(ms)
      BY <1>3, <2>2 DEF shouldInterfaceBeCreated
    <3>2. setupVxlan(i, ms, s, fault) = addLink(ms, "vxlan", vxlan, fault)
      BY <2>2 DEF setupVxlan
    <3> HIDE DEF vxlan
    <3> QED BY <1>2, <1>5, <3>1, <3>2, AddedLink
  <2> QED BY <2>1, <2>2
<1> QED BY <1>4, <1>5 DEF setupHost, Result

LEMMA DeletedLinks ==
    ASSUME NEW s, NEW ls, LinksOK(ls), NEW fault
    PROVE  LinksOK(deleteNetworks(s, ls, fault).links)
<1>1. ASSUME NEW ms, LinksOK(ms), NEW type, NEW ifId, NEW ifName
      PROVE  LinksOK(deleteHostInterface(ms, type, ifId, ifName, fault).links)
  BY <1>1 DEF deleteHostInterface, Result, DelLink, LinksOK
<1> QED BY <1>1 DEF deleteNetworks, Result

\* Versions only grow, so an object that has its type keeps it.
LEMMA TypesGrow ==
    ASSUME rev \in Nat, rev' \in Nat, rev <= rev'
    PROVE  /\ Objects \subseteq Objects' /\ Events \subseteq Events'
           /\ Seq(Events) \subseteq Seq(Events')
           /\ [spec : AnySpec, orig : AnySpec, ver : 0 .. rev]
                 \subseteq [spec : AnySpec, orig : AnySpec, ver : 0 .. rev']
<1>1. Objects \subseteq Objects'
  BY DEF Objects
<1>2. Events \subseteq Events'
  BY <1>1 DEF Events
<1>3. \A A, B : A \subseteq B => Seq(A) \subseteq Seq(B)
  OBVIOUS
<1>4. Seq(Events) \subseteq Seq(Events')
  BY <1>2, <1>3
<1> QED BY <1>1, <1>2, <1>4

LEMMA EventFields ==
    ASSUME NEW e \in Events
    PROVE  /\ e = [type |-> e.type, net |-> e.net, obj |-> e.obj]
           /\ e.type \in {"put", "sync", "del", "tomb"} /\ e.net \in Networks
           /\ e.obj \in Objects /\ e.obj.spec \in AnySpec /\ e.obj.ver \in 0 .. rev
           /\ e.obj = [spec |-> e.obj.spec, ver |-> e.obj.ver]
BY DEF Events, Objects

LEMMA NextEventType ==
    ASSUME TypeOK, NEW i \in Nodes, NEW k \in Kinds, queue[i][k] # <<>>
    PROVE  /\ NextEvent(i, k) \in Events /\ Tail(queue[i][k]) \in Seq(Events)
           /\ ToSet(queue[i][k]) = {NextEvent(i, k)} \cup ToSet(Tail(queue[i][k]))
<1>1. queue[i][k] \in Seq(Events)
  BY DEF TypeOK
<1> QED BY <1>1, PoppedEvents DEF NextEvent

\* A handler takes the first event off its queue.
LEMMA PoppedType ==
    ASSUME TypeOK, NEW i \in Nodes, NEW k \in Kinds, queue[i][k] # <<>>
    PROVE  /\ Popped(i, k) \in [Nodes -> [Kinds -> Seq(Events)]]
           /\ \A j \in Nodes : \A m \in Kinds :
                 Popped(i, k)[j][m] = IF j = i /\ m = k THEN Tail(queue[i][k]) ELSE queue[j][m]
<1>1. queue \in [Nodes -> [Kinds -> Seq(Events)]] /\ Tail(queue[i][k]) \in Seq(Events)
  BY NextEventType DEF TypeOK
<1> QED BY <1>1 DEF Popped

\* The events in the queues after a delivery.
IsTold(i, k, n) == k = kind[n] /\ watch[i][k] = "up"
Told(q, r, n, e) ==
    \A i \in Nodes : \A k \in Kinds :
        /\ IsTold(i, k, n) => ToSet(r[i][k]) = ToSet(q[i][k]) \cup {e}
        /\ ~IsTold(i, k, n) => ToSet(r[i][k]) = ToSet(q[i][k])

LEMMA Delivered ==
    ASSUME NEW S, NEW q \in [Nodes -> [Kinds -> Seq(S)]], NEW e \in S
    PROVE  /\ Deliver(q, e) \in [Nodes -> [Kinds -> Seq(S)]]
           /\ Told(q, Deliver(q, e), e.net, e)
<1>1. \A i \in Nodes : \A k \in Kinds :
          /\ Append(q[i][k], e) \in Seq(S)
          /\ ToSet(Append(q[i][k], e)) = ToSet(q[i][k]) \cup {e}
  BY AppendedEvents
<1>2. \A i \in Nodes : \A k \in Kinds :
          Deliver(q, e)[i][k] = IF IsTold(i, k, e.net) THEN Append(q[i][k], e) ELSE q[i][k]
  BY DEF Deliver, IsTold
<1>3. Deliver(q, e) \in [Nodes -> [Kinds -> Seq(S)]]
  BY <1>1 DEF Deliver
<1> QED BY <1>1, <1>2, <1>3 DEF Told

\* The API server stores an object, or deletes it, and tells the watchers.
WriteEvent(n, obj) == IF obj = NoObj THEN Event("del", n, api[n]) ELSE Event("put", n, obj)

LEMMA Written ==
    ASSUME TypeOK, NEW n \in Networks, NEW obj, obj \in [spec : AnySpec, ver : 0 .. rev + 1],
           NEW q, q \in [Nodes -> [Kinds -> Seq(Events)]], Write(n, obj, q)
    PROVE  /\ api' = [api EXCEPT ![n] = obj] /\ rev' = rev + 1 /\ rev' \in Nat
           /\ api' \in [Networks -> Objects'] /\ queue' \in [Nodes -> [Kinds -> Seq(Events')]]
           /\ Told(q, queue', n, WriteEvent(n, obj))
<1>1. /\ api' = [api EXCEPT ![n] = obj] /\ rev' = rev + 1 /\ rev \in Nat /\ rev' \in Nat
      /\ rev <= rev'
  BY DEF Write, TypeOK
<1>2. /\ Objects \subseteq Objects' /\ Seq(Events) \subseteq Seq(Events')
  BY <1>1, TypesGrow
<1>3. obj \in Objects' /\ api \in [Networks -> Objects]
  BY <1>1 DEF Objects, TypeOK
<1>4. api' \in [Networks -> Objects']
  BY <1>1, <1>2, <1>3
<1>5. PICK e : e = WriteEvent(n, obj)
  OBVIOUS
<1>6. e \in Events' /\ e.net = n
  BY <1>2, <1>3, <1>5 DEF WriteEvent, Event, Events
<1>7. q \in [Nodes -> [Kinds -> Seq(Events')]]
  BY <1>2
<1>8. queue' = Deliver(q, e)
  BY <1>5 DEF Write, WriteEvent
<1>11. PICK S : S = Events'
  OBVIOUS
<1>9. Deliver(q, e) \in [Nodes -> [Kinds -> Seq(S)]] /\ Told(q, Deliver(q, e), e.net, e)
  <2>1. e \in S /\ q \in [Nodes -> [Kinds -> Seq(S)]]
    BY <1>6, <1>7, <1>11
  <2> QED BY <2>1, Delivered, Zenon
<1>10. queue' \in [Nodes -> [Kinds -> Seq(Events')]]
  BY <1>8, <1>9, <1>11
<1>12. Told(q, queue', n, e)
  BY <1>6, <1>8, <1>9
<1> QED BY <1>1, <1>4, <1>5, <1>10, <1>12

-----------------------------------------------------------------------------
(* What the steps do                                                         *)

\* A user's write.
LEMMA UserObject ==
    ASSUME TypeOK, NEW n \in Networks, PutNetwork(n) \/ DeleteNetwork(n)
    PROVE  \E obj :
              /\ obj \in [spec : AnySpec, ver : 0 .. rev + 1]
              /\ UserWrites(n, obj)
              /\ obj = NoObj \/ (obj.ver = rev + 1 /\ IsOf(n, obj.spec))
<1>1. rev \in Nat
  BY DEF TypeOK
<1>2. CASE PutNetwork(n)
  <2>1. PICK s \in Specs[n] : \E d \in {s.device, api[n].spec.device} :
            UserWrites(n, [spec |-> [s EXCEPT !.device = d], ver |-> rev + 1])
    BY <1>2 DEF PutNetwork
  <2> PICK d \in {s.device, api[n].spec.device} :
            UserWrites(n, [spec |-> [s EXCEPT !.device = d], ver |-> rev + 1])
    BY <2>1
  <2>2. /\ s = [id |-> s.id, device |-> s.device, vlan |-> s.vlan, vxlan |-> s.vxlan]
        /\ s.device \in Devices \cup {<<>>}
    BY WatcherAssumption
  <2>3. s.id \in Ids /\ s.vlan \in Vnis /\ s.vxlan \in Vnis
    BY DEF Ids, Vnis, SpecOf
  <2>4. api[n].spec.device \in Parents
    BY SpecFields DEF TypeOK, Objects
  <2>5. d \in Parents
    BY <2>2, <2>4 DEF Parents
  <2>6. [s EXCEPT !.device = d] = [id |-> s.id, device |-> d, vlan |-> s.vlan, vxlan |-> s.vxlan]
    BY <2>2
  <2>7. [s EXCEPT !.device = d] \in AnySpec /\ IsOf(n, [s EXCEPT !.device = d])
    BY <2>3, <2>5, <2>6 DEF AnySpec, IsOf
  <2> QED BY <1>1, <2>1, <2>7
<1>3. CASE DeleteNetwork(n)
  <2>1. NoObj \in [spec : AnySpec, ver : 0 .. rev + 1]
    BY <1>1, NoSpecType DEF NoObj
  <2> QED BY <1>3, <2>1 DEF DeleteNetwork
<1> QED BY <1>2, <1>3

LEMMA UserTypes ==
    ASSUME TypeOK, NEW n \in Networks, NEW obj, obj \in [spec : AnySpec, ver : 0 .. rev + 1],
           UserWrites(n, obj)
    PROVE  TypeOK'
<1>1. queue \in [Nodes -> [Kinds -> Seq(Events)]] /\ Write(n, obj, queue) /\ rev \in Nat
  BY DEF TypeOK, UserWrites
<1>2. /\ rev' = rev + 1 /\ rev' \in Nat /\ api' \in [Networks -> Objects']
      /\ queue' \in [Nodes -> [Kinds -> Seq(Events')]]
  BY <1>1, Written
<1>3. rev <= rev'
  BY <1>1, <1>2
<1>4. known' \in [Nodes -> [Networks -> [spec : AnySpec, orig : AnySpec, ver : 0 .. rev']]]
  <2>1. known \in [Nodes -> [Networks -> [spec : AnySpec, orig : AnySpec, ver : 0 .. rev]]]
        /\ known' = known
    BY DEF TypeOK, UserWrites
  <2> QED BY <1>1, <1>2, <1>3, <2>1, TypesGrow
<1>5. edits' \in 0 .. MaxEdits
  BY WatcherAssumption DEF TypeOK, UserWrites
<1>6. excused' \in [Nodes -> SUBSET Networks]
  BY DEF TypeOK, UserWrites, Unseen
<1>7. UNCHANGED <<kind, watch, links, upsets, unpatched>>
  BY DEF UserWrites
<1> QED BY <1>2, <1>4, <1>5, <1>6, <1>7 DEF TypeOK

-----------------------------------------------------------------------------
(* The informers                                                             *)

\* A list of the networks of an API has one event for each.
LEMMA ListedNetworks ==
    ASSUME NEW S, NEW N \in SUBSET Networks, NEW T \in SUBSET S,
           NEW f \in Surjection(N, T)
    PROVE  SetToSeq(T) \in Seq(S) /\ ToSet(SetToSeq(T)) = T
<1>1. IsFiniteSet(N)
  BY WatcherAssumption, FS_Subset
<1>3. IsFiniteSet(T)
  BY <1>1, FS_Surjection
<1>4. SetToSeq(T) \in Seq(T) /\ ToSet(SetToSeq(T)) = T
  BY <1>3, ListedEvents
<1>5. SetToSeq(T) \in Seq(S)
  <2>1. \A A, B : A \subseteq B => Seq(A) \subseteq Seq(B)
    OBVIOUS
  <2> QED BY <1>4, <2>1
<1> QED BY <1>4, <1>5

LEMMA EventType ==
    ASSUME TypeOK, NEW n \in Networks, NEW type \in {"put", "sync", "del", "tomb"}
    PROVE  Event(type, n, api[n]) \in Events /\ Event(type, n, NoObj) \in Events
<1>1. api[n] \in Objects /\ NoObj \in Objects
  BY NoSpecType DEF TypeOK, Objects, NoObj
<1> QED BY <1>1 DEF Event, Events

LEMMA ListedPuts ==
    ASSUME TypeOK, NEW k \in Kinds
    PROVE  /\ Puts(k) \in Seq(Events)
           /\ \A e : e \in ToSet(Puts(k)) <=>
                 \E n \in Networks : kind[n] = k /\ InApi(n) /\ e = Event("put", n, api[n])
<1> DEFINE N == {m \in OfKind(k) : InApi(m)}
           f == [n \in N |-> Event("put", n, api[n])]
<1>1. N \in SUBSET Networks
  BY DEF OfKind
<1>3. PICK T : T = {Event("put", n, api[n]) : n \in N}
  OBVIOUS
<1>2. T \in SUBSET Events
  BY <1>1, <1>3, EventType
<1>4. f \in Surjection(N, T) /\ Puts(k) = SetToSeq(T)
  BY <1>3 DEF Puts, Surjection
<1> HIDE DEF f, N
<1>5. Puts(k) \in Seq(Events) /\ ToSet(Puts(k)) = T
  BY <1>1, <1>2, <1>4, ListedNetworks
<1> QED BY <1>3, <1>5 DEF N, OfKind

\* One event for every network of a set.
EventsOf(type, N) == {Event(type, n, NoObj) : n \in N}

LEMMA ListedOthers ==
    ASSUME TypeOK, NEW k \in Kinds, NEW N \in SUBSET OfKind(k), NEW type \in {"sync", "tomb"},
           NEW T, T = EventsOf(type, N)
    PROVE  /\ SetToSeq(T) \in Seq(Events)
           /\ \A e \in ToSet(SetToSeq(T)) :
                 /\ kind[e.net] = k /\ e.type # "put"
                 /\ \E n \in N : e = Event(type, n, NoObj)
           /\ \A n \in N : Event(type, n, NoObj) \in ToSet(SetToSeq(T))
<1> USE DEF EventsOf
<1> DEFINE f == [n \in N |-> Event(type, n, NoObj)]
<1>1. N \in SUBSET Networks
  BY DEF OfKind
<1>2. T \in SUBSET Events
  BY <1>1, EventType
<1>3. f \in Surjection(N, T)
  BY DEF Surjection
<1> HIDE DEF f
<1>4. SetToSeq(T) \in Seq(Events) /\ ToSet(SetToSeq(T)) = T
  BY <1>1, <1>2, <1>3, ListedNetworks
<1>5. \A e \in T : kind[e.net] = k /\ e.type # "put" /\ \E n \in N : e = Event(type, n, NoObj)
  BY DEF Event, OfKind
<1> QED BY <1>4, <1>5

\* What the informers of a node do: the objects stay, and a watcher that is started or
\* lists again gets all of them.
Fresh(k, e) ==
    \/ kind[e.net] = k /\ e.type # "put"
    \/ \E n \in Networks : kind[n] = k /\ InApi(n) /\ e = Event("put", n, api[n])
Lists ==
    /\ UNCHANGED <<kind, api, rev, edits, unpatched>>
    /\ \A i \in Nodes : \A k \in Kinds : \A e \in ToSet(queue'[i][k]) :
          e \in ToSet(queue[i][k]) \/ Fresh(k, e)
    /\ \A i \in Nodes : watch'[i][NadKind] = "up" =>
          \/ /\ watch[i][NadKind] = "up"
             /\ ToSet(queue[i][NadKind]) \subseteq ToSet(queue'[i][NadKind])
          \/ \A n \in Networks : kind[n] = NadKind /\ InApi(n) =>
                Event("put", n, api[n]) \in ToSet(queue'[i][NadKind])
    /\ \A i \in Nodes : \A n \in Networks : known'[i][n] \in {known[i][n], NoKnown}

LEMMA QueueTypes ==
    ASSUME TypeOK
    PROVE  /\ queue \in [Nodes -> [Kinds -> Seq(Events)]] /\ Nodes # {} /\ NadKind \in Kinds
           /\ watch \in [Nodes -> [Kinds -> {"off", "up", "lost"}]]
           /\ kind \in [Networks -> Kinds]
BY WatcherAssumption DEF TypeOK, Kinds

LEMMA ResyncStep ==
    ASSUME TypeOK, NEW i \in Nodes, NEW k \in Kinds, Resync(i, k)
    PROVE  TypeOK' /\ Lists
<1>1. PICK N \in SUBSET OfKind(k) :
          queue' = [queue EXCEPT ![i][k] = @ \o SetToSeq({Event("sync", n, NoObj) : n \in N})]
  BY DEF Resync
<1> PICK T : T = {Event("sync", n, NoObj) : n \in N}
  OBVIOUS
<1>2. PICK q : q = SetToSeq(T)
  OBVIOUS
<1>3. q \in Seq(Events) /\ \A e \in ToSet(q) : Fresh(k, e)
  <2>1. T = EventsOf("sync", N)
    BY DEF EventsOf
  <2>2. SetToSeq(T) \in Seq(Events) /\ \A e \in ToSet(SetToSeq(T)) : kind[e.net] = k /\ e.type # "put"
    BY ONLY TypeOK, <2>1, ListedOthers
  <2> QED BY <1>2, <2>2 DEF Fresh
<1>4. queue[i][k] \in Seq(Events)
  BY QueueTypes
<1>5. /\ queue[i][k] \o q \in Seq(Events)
      /\ ToSet(queue[i][k] \o q) = ToSet(queue[i][k]) \cup ToSet(q)
  BY <1>3, <1>4, JoinedEvents
<1>6. queue' = [queue EXCEPT ![i][k] = queue[i][k] \o q]
  BY <1>1, <1>2, QueueTypes
<1>7. \A j \in Nodes : \A m \in Kinds :
          queue'[j][m] = IF j = i /\ m = k THEN queue[i][k] \o q ELSE queue[j][m]
  BY <1>6, QueueTypes
<1>8. queue' \in [Nodes -> [Kinds -> Seq(Events)]]
  BY <1>5, <1>6, QueueTypes
<1>9. /\ UNCHANGED <<kind, api, rev, watch, known, links, edits, excused, unpatched>>
      /\ upsets' \in 0 .. MaxUpsets
  BY WatcherAssumption DEF Resync, history, TypeOK
<1>10. TypeOK'
  BY <1>8, <1>9 DEF TypeOK, Events, Objects
<1>11. \A j \in Nodes : \A m \in Kinds :
          /\ ToSet(queue[j][m]) \subseteq ToSet(queue'[j][m])
          /\ \A e \in ToSet(queue'[j][m]) : e \in ToSet(queue[j][m]) \/ Fresh(m, e)
  BY <1>3, <1>5, <1>7
<1> QED BY <1>9, <1>10, <1>11, QueueTypes DEF Lists

LEMMA WatchClosedStep ==
    ASSUME TypeOK, NEW i \in Nodes, NEW k \in Kinds, WatchClosed(i, k)
    PROVE  TypeOK' /\ Lists
<1>1. /\ UNCHANGED <<kind, api, rev, queue, known, links, edits, excused, unpatched>>
      /\ upsets' \in 0 .. MaxUpsets
  BY WatcherAssumption DEF WatchClosed, history, TypeOK
<1>2. /\ watch' \in [Nodes -> [Kinds -> {"off", "up", "lost"}]]
      /\ \A j \in Nodes : watch'[j][NadKind] = "up" => watch[j][NadKind] = "up"
  BY QueueTypes DEF WatchClosed
<1>3. TypeOK'
  BY <1>1, <1>2 DEF TypeOK, Events, Objects
<1> QED BY <1>1, <1>2, <1>3 DEF Lists

LEMMA RelistStep ==
    ASSUME TypeOK, NEW i \in Nodes, NEW k \in Kinds, Relist(i, k)
    PROVE  TypeOK' /\ Lists
<1>1. PICK T : T = {Event("tomb", n, NoObj) : n \in {m \in OfKind(k) : ~InApi(m) /\ Cached(i, m)}}
  OBVIOUS
<1>2. PICK t : t = SetToSeq(T)
  OBVIOUS
<1>3. t \in Seq(Events) /\ \A e \in ToSet(t) : Fresh(k, e)
  <2>1. PICK N \in SUBSET OfKind(k) : T = {Event("tomb", n, NoObj) : n \in N}
    BY <1>1
  <2>2. /\ SetToSeq(T) \in Seq(Events)
        /\ \A e \in ToSet(SetToSeq(T)) : kind[e.net] = k /\ e.type # "put"
    <3>1. T = EventsOf("tomb", N)
      BY <2>1 DEF EventsOf
    <3> QED BY <3>1, ListedOthers
  <2> QED BY <1>2, <2>2 DEF Fresh
<1>4. PICK p : p = Puts(k)
  OBVIOUS
<1>5. /\ p \in Seq(Events) /\ \A e \in ToSet(p) : Fresh(k, e)
      /\ \A n \in Networks : kind[n] = k /\ InApi(n) => Event("put", n, api[n]) \in ToSet(p)
  BY <1>4, ListedPuts DEF Fresh
<1>6. queue[i][k] \in Seq(Events)
  BY QueueTypes
<1>7. PICK u : u = queue[i][k] \o t
  OBVIOUS
<1>8. u \in Seq(Events) /\ ToSet(u) = ToSet(queue[i][k]) \cup ToSet(t)
  BY <1>3, <1>6, <1>7, JoinedEvents
<1>9. PICK q : q = u \o p
  OBVIOUS
<1>10. q \in Seq(Events) /\ ToSet(q) = ToSet(u) \cup ToSet(p)
  BY <1>5, <1>8, <1>9, JoinedEvents
<1>11. queue' = [queue EXCEPT ![i][k] = q]
  BY <1>1, <1>2, <1>4, <1>7, <1>9, QueueTypes DEF Relist, Tombstones
<1>12. \A j \in Nodes : \A m \in Kinds :
          queue'[j][m] = IF j = i /\ m = k THEN q ELSE queue[j][m]
  BY <1>11, QueueTypes
<1>13. queue' \in [Nodes -> [Kinds -> Seq(Events)]]
  BY <1>10, <1>11, QueueTypes
<1>14. UNCHANGED <<kind, api, rev, known, links, edits, upsets, excused, unpatched>>
  BY DEF Relist, history, bounds
<1>15. /\ watch' \in [Nodes -> [Kinds -> {"off", "up", "lost"}]]
       /\ \A j \in Nodes : \A m \in Kinds : ~(j = i /\ m = k) => watch'[j][m] = watch[j][m]
  BY QueueTypes DEF Relist
<1>16. TypeOK'
  BY <1>13, <1>14, <1>15 DEF TypeOK, Events, Objects
<1>17. \A j \in Nodes : \A m \in Kinds :
          /\ ToSet(queue[j][m]) \subseteq ToSet(queue'[j][m])
          /\ \A e \in ToSet(queue'[j][m]) : e \in ToSet(queue[j][m]) \/ Fresh(m, e)
  BY <1>3, <1>5, <1>8, <1>10, <1>12
<1>18. \A n \in Networks : kind[n] = k /\ InApi(n) =>
          Event("put", n, api[n]) \in ToSet(queue'[i][k])
  BY <1>5, <1>10, <1>12
<1> QED BY <1>14, <1>15, <1>16, <1>17, <1>18, QueueTypes DEF Lists

LEMMA StartStep ==
    ASSUME TypeOK, NEW i \in Nodes, NewWatcher(i)
    PROVE  TypeOK' /\ Lists
<1>1. PICK found \in SUBSET Apis :
          /\ upsets + Cardinality(Apis \ found) <= MaxUpsets
          /\ upsets' = upsets + Cardinality(Apis \ found)
          /\ watch' = [watch EXCEPT ![i] = [k \in Kinds |-> IF k \in found THEN "up" ELSE "off"]]
          /\ queue' = [queue EXCEPT ![i] = [k \in Kinds |-> IF k \in found THEN Puts(k) ELSE <<>>]]
  BY DEF NewWatcher
<1>2. upsets' \in 0 .. MaxUpsets
  <2>1. IsFiniteSet(Kinds)
    <3>1. \A S, x : IsFiniteSet(S) => IsFiniteSet(S \cup {x})
      BY FS_AddElement
    <3>2. IsFiniteSet({DanmNetKind})
      BY FS_Singleton
    <3>3. IsFiniteSet((({DanmNetKind} \cup {TenantNetworkKind}) \cup {ClusterNetworkKind})
                          \cup {NadKind})
      BY <3>1, <3>2
    <3>4. Kinds = (({DanmNetKind} \cup {TenantNetworkKind}) \cup {ClusterNetworkKind})
                      \cup {NadKind}
      BY DEF Kinds
    <3> QED BY <3>3, <3>4
  <2>2. Apis \ found \subseteq Kinds
    BY QueueTypes DEF Apis
  <2>3. Cardinality(Apis \ found) \in Nat
    BY <2>1, <2>2, FS_Subset, FS_CardinalityType
  <2> QED BY <1>1, <2>3, WatcherAssumption DEF TypeOK
<1>3. \A k \in Kinds :
          /\ Puts(k) \in Seq(Events) /\ \A e \in ToSet(Puts(k)) : Fresh(k, e)
          /\ \A n \in Networks : kind[n] = k /\ InApi(n) =>
                Event("put", n, api[n]) \in ToSet(Puts(k))
  BY ListedPuts DEF Fresh
<1>4. /\ \A k \in Kinds : queue'[i][k] = IF k \in found THEN Puts(k) ELSE <<>>
      /\ \A j \in Nodes \ {i} : queue'[j] = queue[j]
  BY <1>1, QueueTypes
<1>5. queue' \in [Nodes -> [Kinds -> Seq(Events)]]
  <2>1. [k \in Kinds |-> IF k \in found THEN Puts(k) ELSE <<>>] \in [Kinds -> Seq(Events)]
    BY <1>3
  <2> QED BY <1>1, <2>1, QueueTypes
<1>6. /\ watch' \in [Nodes -> [Kinds -> {"off", "up", "lost"}]]
      /\ \A k \in Kinds : watch'[i][k] = "up" => k \in found
      /\ \A j \in Nodes \ {i} : watch'[j] = watch[j]
  BY <1>1, QueueTypes
<1>7. UNCHANGED <<kind, api, rev, known, links, edits, excused, unpatched>>
  BY DEF NewWatcher, history
<1>8. TypeOK'
  BY <1>2, <1>5, <1>6, <1>7 DEF TypeOK, Events, Objects
<1>9. ToSet(<<>>) = {}
  BY DEF ToSet
<1>10. ASSUME NEW j \in Nodes, NEW k \in Kinds, NEW e \in ToSet(queue'[j][k])
       PROVE  e \in ToSet(queue[j][k]) \/ Fresh(k, e)
  BY <1>3, <1>4, <1>9
<1>11. ASSUME NEW j \in Nodes, watch'[j][NadKind] = "up"
       PROVE  \/ /\ watch[j][NadKind] = "up"
                 /\ ToSet(queue[j][NadKind]) \subseteq ToSet(queue'[j][NadKind])
              \/ \A n \in Networks : kind[n] = NadKind /\ InApi(n) =>
                    Event("put", n, api[n]) \in ToSet(queue'[j][NadKind])
  <2>1. CASE j = i
    BY <1>3, <1>4, <1>6, <1>11, <2>1, QueueTypes
  <2>2. CASE j # i
    BY <1>4, <1>6, <1>11, <2>2
  <2> QED BY <2>1, <2>2
<1> QED BY <1>7, <1>8, <1>10, <1>11 DEF Lists

LEMMA CrashStep ==
    ASSUME TypeOK, NEW i \in Nodes, NEW reboots \in BOOLEAN, WatchErrorHandler(i, reboots)
    PROVE  TypeOK' /\ Lists
<1>1. /\ \A k \in Kinds : queue'[i][k] = <<>> /\ watch'[i][k] = "off"
      /\ \A j \in Nodes \ {i} : queue'[j] = queue[j] /\ watch'[j] = watch[j]
      /\ watch' \in [Nodes -> [Kinds -> {"off", "up", "lost"}]]
  BY QueueTypes DEF WatchErrorHandler
<1>2. queue' \in [Nodes -> [Kinds -> Seq(Events)]]
  <2>1. [k \in Kinds |-> <<>>] \in [Kinds -> Seq(Events)]
    OBVIOUS
  <2> QED BY <2>1, QueueTypes DEF WatchErrorHandler
<1>3. /\ known' \in [Nodes -> [Networks -> [spec : AnySpec, orig : AnySpec, ver : 0 .. rev]]]
      /\ \A j \in Nodes : \A n \in Networks : known'[j][n] \in {known[j][n], NoKnown}
  BY NoSpecType DEF TypeOK, WatchErrorHandler, NoKnown
<1>4. excused' \in [Nodes -> SUBSET Networks]
  BY DEF TypeOK, WatchErrorHandler
<1>5. /\ links' \in [Nodes -> SUBSET Links]
      /\ \A j \in Nodes : \A l, m \in links'[j] : l.name = m.name => l = m
  BY DEF TypeOK, WatchErrorHandler
<1>6. UNCHANGED <<kind, api, rev, edits, unpatched>> /\ upsets' \in 0 .. MaxUpsets
  BY WatcherAssumption DEF WatchErrorHandler, TypeOK
<1>7. TypeOK'
  BY <1>1, <1>2, <1>3, <1>4, <1>5, <1>6 DEF TypeOK, Events, Objects
<1>8. ToSet(<<>>) = {}
  BY DEF ToSet
<1>9. \A j \in Nodes : \A k \in Kinds : \A e \in ToSet(queue'[j][k]) : e \in ToSet(queue[j][k])
  BY <1>1, <1>8
<1>10. \A j \in Nodes : watch'[j][NadKind] = "up" =>
          watch[j][NadKind] = "up" /\ ToSet(queue[j][NadKind]) \subseteq ToSet(queue'[j][NadKind])
  BY <1>1, QueueTypes
<1> QED BY <1>3, <1>6, <1>7, <1>9, <1>10 DEF Lists

-----------------------------------------------------------------------------
(* The handlers                                                              *)

LEMMA HandlerTypes ==
    ASSUME TypeOK, NEW i \in Nodes, NEW n \in Networks, NEW fault, NEW obj, NEW r, NEW lost,
           obj \in [spec : AnySpec, orig : AnySpec, ver : 0 .. rev], LinksOK(r.links),
           CountFault(fault), Handled(i, n, obj, r, lost),
           rev' \in Nat, rev <= rev', api' \in [Networks -> Objects'],
           queue' \in [Nodes -> [Kinds -> Seq(Events')]], unpatched' \subseteq Networks
    PROVE  TypeOK'
<1>1. UNCHANGED <<kind, watch, edits>>
  BY DEF Handled
<1>2. upsets' \in 0 .. MaxUpsets
  BY WatcherAssumption DEF CountFault, TypeOK
<1>3. known' \in [Nodes -> [Networks -> [spec : AnySpec, orig : AnySpec, ver : 0 .. rev]]]
  BY DEF Handled, TypeOK
<1>4. known' \in [Nodes -> [Networks -> [spec : AnySpec, orig : AnySpec, ver : 0 .. rev']]]
  <2>1. rev \in Nat
    BY DEF TypeOK
  <2>2. [spec : AnySpec, orig : AnySpec, ver : 0 .. rev]
            \subseteq [spec : AnySpec, orig : AnySpec, ver : 0 .. rev']
    BY <2>1, TypesGrow
  <2> QED BY <1>3, <2>2
<1>5. /\ links' \in [Nodes -> SUBSET Links]
      /\ \A j \in Nodes : \A l, m \in links'[j] : l.name = m.name => l = m
  BY DEF Handled, TypeOK, LinksOK
<1>6. excused' \in [Nodes -> SUBSET Networks]
  BY DEF Handled, TypeOK
<1> QED BY <1>1, <1>2, <1>4, <1>5, <1>6 DEF TypeOK

LEMMA LinksOfNode ==
    ASSUME TypeOK, NEW i \in Nodes
    PROVE  LinksOK(links[i])
BY DEF TypeOK, LinksOK

LEMMA ReplacedLinks ==
    ASSUME TypeOK, NEW i \in Nodes, NEW old \in AnySpec, NEW new \in AnySpec, NEW fault
    PROVE  LinksOK(Replaced(i, old, new, fault).links)
<1>1. PICK ls : ls = deleteNetworks(zeroVnis(old, old, new), links[i], fault).links
  OBVIOUS
<1>2. LinksOK(ls)
  BY <1>1, LinksOfNode, DeletedLinks
<1>3. PICK s : s = zeroVnis(new, old, new)
  OBVIOUS
<1>4. s \in AnySpec
  BY <1>3, Zeroed
<1>5. LinksOK(setupHost(i, s, ls, fault).links)
  BY <1>2, <1>4, SetupLinks
<1>6. Replaced(i, old, new, fault).links = setupHost(i, s, ls, fault).links
  BY <1>1, <1>3 DEF Replaced, Result
<1> QED BY <1>5, <1>6

\* A handler that does not write to the API server.
Handles(i, k) ==
    /\ UNCHANGED <<kind, api, rev, edits, unpatched, watch>>
    /\ queue[i][k] # <<>> /\ queue' = Popped(i, k)
    /\ \A j \in Nodes : \A n \in Networks :
          kind[n] = NadKind /\ k # NadKind /\ kind[NextEvent(i, k).net] = k
              => known'[j][n] = known[j][n]
    /\ k = NadKind => /\ NextEvent(i, k).type # "put"
                      /\ \A j \in Nodes : \A n \in Networks :
                            known'[j][n] \in {known[j][n], NoKnown}

\* The object of the event and the one it replaces.
LEMMA EventObjects ==
    ASSUME TypeOK, NEW i \in Nodes, NEW k \in Kinds, queue[i][k] # <<>>
    PROVE  /\ NextEvent(i, k) \in Events /\ NextEvent(i, k).net \in Networks
           /\ NextEvent(i, k).obj \in Objects
           /\ NextEvent(i, k).obj.spec \in AnySpec /\ NextEvent(i, k).obj.ver \in 0 .. rev
           /\ known[i][NextEvent(i, k).net]
                  \in [spec : AnySpec, orig : AnySpec, ver : 0 .. rev]
<1>1. PICK e : e = NextEvent(i, k)
  OBVIOUS
<1>2. e \in Events
  BY <1>1, NextEventType
<1>3. e.net \in Networks /\ e.obj \in Objects /\ e.obj.spec \in AnySpec /\ e.obj.ver \in 0 .. rev
  BY <1>2, EventFields
<1>4. known[i][e.net] \in [spec : AnySpec, orig : AnySpec, ver : 0 .. rev]
  BY <1>3 DEF TypeOK
<1> QED BY <1>1, <1>2, <1>3, <1>4

LEMMA KnownAsType ==
    ASSUME NEW spec \in AnySpec, NEW o, o.spec \in AnySpec, o.ver \in 0 .. rev
    PROVE  /\ KnownAs(o, spec) \in [spec : AnySpec, orig : AnySpec, ver : 0 .. rev]
           /\ KnownAs(o, spec).spec = spec /\ KnownAs(o, spec).ver = o.ver
BY DEF KnownAs

\* Handlers that pop their event and write what they know of one network.
LEMMA QuietStep ==
    ASSUME TypeOK, NEW i \in Nodes, NEW k \in Kinds, queue[i][k] # <<>>, NEW fault,
           NEW n \in Networks, n = NextEvent(i, k).net, NEW obj, NEW r, NEW lost,
           obj \in [spec : AnySpec, orig : AnySpec, ver : 0 .. rev], LinksOK(r.links),
           CountFault(fault), Handled(i, n, obj, r, lost), Quietly(i, k),
           k = NadKind => NextEvent(i, k).type # "put" /\ obj = NoKnown
    PROVE  TypeOK' /\ Handles(i, k)
<1>1. UNCHANGED <<kind, api, rev, edits, unpatched, watch>> /\ queue' = Popped(i, k)
  BY DEF Handled, Quietly
<1>2. Popped(i, k) \in [Nodes -> [Kinds -> Seq(Events)]]
  BY PoppedType
<1>3. /\ rev' \in Nat /\ rev <= rev' /\ api' \in [Networks -> Objects']
      /\ queue' \in [Nodes -> [Kinds -> Seq(Events')]] /\ unpatched' \subseteq Networks
  <2>1. rev \in Nat /\ rev' = rev /\ api' = api /\ api \in [Networks -> Objects]
        /\ unpatched' \subseteq Networks
    BY <1>1 DEF TypeOK
  <2>2. Objects \subseteq Objects' /\ Seq(Events) \subseteq Seq(Events')
    BY <2>1, TypesGrow
  <2> QED BY <1>1, <1>2, <2>1, <2>2
<1>4. TypeOK'
  BY <1>3, HandlerTypes
<1>5. \A j \in Nodes : \A m \in Networks :
          known'[j][m] = IF j = i /\ m = n THEN obj ELSE known[j][m]
  BY DEF Handled, TypeOK
<1> QED BY <1>1, <1>4, <1>5 DEF Handles

LEMMA AddStep ==
    ASSUME TypeOK, NEW i \in Nodes, NEW k \in Kinds \ {NadKind}, NEW fault,
           AddNetwork(i, k, fault)
    PROVE  TypeOK' /\ Handles(i, k)
<1>1. queue[i][k] # <<>> /\ CountFault(fault) /\ Quietly(i, k)
  BY DEF AddNetwork, IsNext
<1>2. PICK e : e = NextEvent(i, k)
  OBVIOUS
<1>3. e.net \in Networks /\ e.obj.spec \in AnySpec /\ e.obj.ver \in 0 .. rev
  BY <1>1, <1>2, EventObjects
<1>4. PICK r : r = setupHost(i, e.obj.spec, links[i], fault)
  OBVIOUS
<1>5. LinksOK(r.links)
  BY <1>3, <1>4, LinksOfNode, SetupLinks
<1>6. PICK obj : obj = KnownAs(e.obj, e.obj.spec)
  OBVIOUS
<1>7. obj \in [spec : AnySpec, orig : AnySpec, ver : 0 .. rev]
  BY <1>3, <1>6, KnownAsType
<1>8. PICK n \in Networks : n = e.net
  BY <1>3
<1>9. PICK lost : lost = r.err
  OBVIOUS
<1>10. Handled(i, n, obj, r, lost)
  BY <1>2, <1>4, <1>6, <1>8, <1>9 DEF AddNetwork
<1>11. n = NextEvent(i, k).net
  BY <1>2, <1>8
<1> QED BY <1>1, <1>5, <1>7, <1>10, <1>11, QuietStep

LEMMA UpdateObjects ==
    ASSUME TypeOK, NEW i \in Nodes, NEW k \in Kinds, queue[i][k] # <<>>
    PROVE  /\ UpdateEvent(i, k).net = NextEvent(i, k).net
           /\ UpdateEvent(i, k).net \in Networks
           /\ UpdateEvent(i, k).old = known[i][NextEvent(i, k).net]
           /\ UpdateEvent(i, k).old \in [spec : AnySpec, orig : AnySpec, ver : 0 .. rev]
           /\ UpdateEvent(i, k).new \in [spec : AnySpec, orig : AnySpec, ver : 0 .. rev]
<1>1. PICK e : e = NextEvent(i, k)
  OBVIOUS
<1>2. e.net \in Networks /\ e.obj.spec \in AnySpec /\ e.obj.ver \in 0 .. rev
  BY <1>1, EventObjects
<1>3. known[i][e.net] \in [spec : AnySpec, orig : AnySpec, ver : 0 .. rev]
  BY <1>1, EventObjects
<1>4. KnownAs(e.obj, e.obj.spec) \in [spec : AnySpec, orig : AnySpec, ver : 0 .. rev]
  BY <1>2, KnownAsType
<1>5. UpdateEvent(i, k) =
          [net |-> e.net, old |-> known[i][e.net], isSync |-> e.type = "sync",
           new |-> IF e.type = "sync" THEN known[i][e.net] ELSE KnownAs(e.obj, e.obj.spec)]
  BY <1>1 DEF UpdateEvent
<1> QED BY <1>1, <1>2, <1>3, <1>4, <1>5

LEMMA UpdateStep ==
    ASSUME TypeOK, NEW i \in Nodes, NEW k \in Kinds \ {NadKind}, NEW fault,
           \/ k = DanmNetKind /\ UpdateDanmNet(i, fault)
           \/ UpdateConverted(i, k, fault)
    PROVE  TypeOK' /\ Handles(i, k)
<1>1. queue[i][k] # <<>> /\ CountFault(fault) /\ Quietly(i, k)
  BY DEF UpdateDanmNet, UpdateConverted, IsUpdate, IsNext
<1>2. PICK u : u = UpdateEvent(i, k)
  OBVIOUS
<1>3. /\ u.net = NextEvent(i, k).net /\ u.net \in Networks
      /\ u.old \in [spec : AnySpec, orig : AnySpec, ver : 0 .. rev]
      /\ u.new \in [spec : AnySpec, orig : AnySpec, ver : 0 .. rev]
  BY <1>1, <1>2, UpdateObjects
<1>4. u.old.spec \in AnySpec /\ u.new.spec \in AnySpec
  BY <1>3
<1>5. PICK r : r = Replaced(i, u.old.spec, u.new.spec, fault)
  OBVIOUS
<1>6. LinksOK(r.links)
  BY <1>4, <1>5, ReplacedLinks
<1>7. PICK zeroed : zeroed = zeroVnis(u.new.spec, u.old.spec, u.new.spec)
  OBVIOUS
<1>8. zeroed \in AnySpec
  BY <1>4, <1>7, Zeroed
<1>9. PICK n \in Networks : n = u.net
  BY <1>3
<1>10. PICK lost : lost = (r.err \/ CannotFollow(u.old, u.new.orig))
  OBVIOUS
<1>11. CASE k = DanmNetKind /\ UpdateDanmNet(i, fault)
  <2>1. PICK obj : obj = [u.new EXCEPT !.spec = zeroed]
    OBVIOUS
  <2>2. obj \in [spec : AnySpec, orig : AnySpec, ver : 0 .. rev]
    BY <1>3, <1>8, <2>1
  <2>3. obj = [u.new EXCEPT !.spec = zeroVnis(@, u.old.spec, @)]
    BY <1>3, <1>7, <2>1
  <2>4. Handled(i, n, obj, r, lost)
    BY <1>2, <1>5, <1>9, <1>10, <1>11, <2>3 DEF UpdateDanmNet
  <2> QED BY <1>1, <1>3, <1>6, <1>9, <2>2, <2>4, QuietStep
<1>12. CASE UpdateConverted(i, k, fault)
  <2>1. PICK obj : obj = u.new
    OBVIOUS
  <2>2. Handled(i, n, obj, r, lost)
    BY <1>2, <1>5, <1>9, <1>10, <1>12, <2>1 DEF UpdateConverted
  <2> QED BY <1>1, <1>3, <1>6, <1>9, <2>1, <2>2, QuietStep
<1> QED BY <1>11, <1>12

LEMMA DeleteStep ==
    ASSUME TypeOK, NEW i \in Nodes, NEW k \in Kinds, NEW fault, DeleteOf(i, k, fault)
    PROVE  TypeOK' /\ Handles(i, k)
<1>1. queue[i][k] # <<>> /\ CountFault(fault) /\ Quietly(i, k)
  BY DEF DeleteOf, IsNext
<1>2. PICK e : e = NextEvent(i, k)
  OBVIOUS
<1>3. e.net \in Networks /\ e.type # "put"
  <2>1. e.net \in Networks
    BY <1>1, <1>2, EventObjects
  <2>2. e.type = "put" =>
            "delete" = IF known[i][e.net].ver = 0 THEN "add" ELSE "update"
    BY <1>2 DEF DeleteOf, IsNext, NextEvent
  <2> QED BY <2>1, <2>2
<1>4. PICK s : s = IF e.type = "del" THEN e.obj.spec ELSE known[i][e.net].spec
  OBVIOUS
<1>5. PICK r : r = deleteNetworks(s, links[i], fault)
  OBVIOUS
<1>6. LinksOK(r.links)
  BY <1>5, LinksOfNode, DeletedLinks
<1>7. PICK n \in Networks : n = e.net
  BY <1>3
<1>8. PICK lost : lost = (r.err \/ (e.type = "tomb" /\ k = DanmNetKind
                                   /\ known[i][e.net].spec # known[i][e.net].orig))
  OBVIOUS
<1>9. PICK obj : obj = NoKnown
  OBVIOUS
<1>10. Handled(i, n, obj, r, lost)
  BY <1>2, <1>4, <1>5, <1>7, <1>8, <1>9 DEF DeleteOf
<1>11. obj \in [spec : AnySpec, orig : AnySpec, ver : 0 .. rev]
  BY <1>9, NoSpecType DEF NoKnown, TypeOK
<1>12. n = NextEvent(i, k).net /\ NextEvent(i, k).type # "put"
  BY <1>2, <1>3, <1>7
<1> QED BY <1>1, <1>6, <1>9, <1>10, <1>11, <1>12, QuietStep

-----------------------------------------------------------------------------
(* The handlers of NADs                                                      *)

\* A NAD with a VNI is named after its NetworkID and VNI, whatever its device is.
LEMMA NamedAlike ==
    ASSUME NEW s \in AnySpec, NEW d \in Parents, d = DetermineHostDeviceName(s), HasVni(s)
    PROVE  IsNamed(PatchCniConf(s, d))
<1>1. PICK p : p = PatchCniConf(s, d)
  OBVIOUS
<1>2. p.id = s.id /\ p.device = d /\ p.vlan = s.vlan /\ p.vxlan = s.vxlan
  BY <1>1, Patched
<1> QED BY <1>1, <1>2 DEF IsNamed, HasVni, DetermineHostDeviceName, determineVlanHdev

\* A watcher that zeroes VNIs still writes the right interface, or nothing, except in the
\* case FollowedAlike excludes.
LEMMA NamedAfterZeroing ==
    ASSUME NEW old \in AnySpec, NEW new \in AnySpec, NEW d \in Parents,
           d = DetermineHostDeviceName(zeroVnis(new, old, new)),
           DetermineHostDeviceName(old) # DetermineHostDeviceName(new),
           PatchCniConf(new, d) # new
    PROVE  /\ HasVni(new)
           /\ (old.vxlan = new.vxlan /\ old.vxlan # 0 /\ old.vlan # new.vlan => old.id = new.id)
                 => IsNamed(PatchCniConf(new, d))
<1>1. PICK z : z = zeroVnis(new, old, new)
  OBVIOUS
<1>2. /\ z.id = new.id /\ z.device = new.device
      /\ z.vlan = IF old.vlan = new.vlan /\ old.device = new.device THEN 0 ELSE new.vlan
      /\ z.vxlan = IF old.vxlan = new.vxlan /\ old.device = new.device THEN 0 ELSE new.vxlan
  BY <1>1, Zeroed
<1>3. d # new.device
  BY Patched
<1>4. d = DetermineHostDeviceName(z)
  BY <1>1
<1>5. z.vxlan # 0 \/ z.vlan # 0
  BY <1>2, <1>3, <1>4 DEF DetermineHostDeviceName, determineVlanHdev
<1>6. HasVni(new)
  BY <1>2, <1>5 DEF HasVni
<1>7. ASSUME old.vxlan = new.vxlan /\ old.vxlan # 0 /\ old.vlan # new.vlan => old.id = new.id
      PROVE  d = DetermineHostDeviceName(new)
  <2>1. CASE z.vxlan # 0
    BY <1>2, <1>4, <2>1 DEF DetermineHostDeviceName
  <2>2. CASE z.vxlan = 0
    <3>1. z.vlan # 0 /\ z.vlan = new.vlan
      BY <1>2, <1>5, <2>2
    <3>2. d = VlanName(new.id, new.vlan)
      BY <1>2, <1>4, <2>2, <3>1 DEF DetermineHostDeviceName, determineVlanHdev
    <3>3. CASE new.vxlan = 0
      BY <3>1, <3>2, <3>3 DEF DetermineHostDeviceName, determineVlanHdev
    <3>4. CASE new.vxlan # 0
      <4>1. old.vxlan = new.vxlan /\ old.device = new.device
        BY <1>2, <2>2, <3>4
      <4>2. old.vlan # new.vlan
        BY <1>2, <3>1, <4>1
      <4>3. old.id = new.id
        BY <1>7, <3>4, <4>1, <4>2
      <4> QED BY <3>4, <4>1, <4>3 DEF DetermineHostDeviceName
    <3> QED BY <3>3, <3>4
  <2> QED BY <2>1, <2>2
<1> QED BY <1>6, <1>7, NamedAlike

\* A handler that leaves the NAD as it is: a NAD without its name is then unpatched, or the
\* event was not about it.
Keeps(i, e) ==
    /\ queue' = Popped(i, NadKind) /\ UNCHANGED <<api, rev>>
    /\ (e.net \in unpatched \/ e = Event("put", e.net, api[e.net])) /\ e.net \notin unpatched'
           /\ HasVni(api[e.net].spec) => IsNamed(api[e.net].spec)

\* The names of the interfaces of a network.
IdsOf(n) == {s.id : s \in Specs[n]}
NamesOf(n) ==
    {VlanName(id, v) : id \in IdsOf(n), v \in Vnis} \cup {VxlanName(id) : id \in IdsOf(n)}

LEMMA NamesOfNetwork ==
    ASSUME NEW n \in Networks, NEW s \in AnySpec, s.id \in IdsOf(n)
    PROVE  /\ VlanName(s.id, s.vlan) \in NamesOf(n) /\ VxlanName(s.id) \in NamesOf(n)
           /\ DetermineHostDeviceName(s) \in NamesOf(n) \cup {s.device}
           /\ WantedNames(s) \subseteq NamesOf(n)
<1>1. VlanName(s.id, s.vlan) \in NamesOf(n) /\ VxlanName(s.id) \in NamesOf(n)
  BY SpecFields DEF NamesOf
<1> QED BY <1>1 DEF DetermineHostDeviceName, determineVlanHdev, WantedNames

\* A handler that patches the NAD: it got the object that is in the API server, and
\* changes nothing but its device.
PatchesTo(i, e, p) ==
    /\ e = Event("put", e.net, api[e.net])
    /\ p \in AnySpec /\ p # api[e.net].spec /\ p = PatchCniConf(api[e.net].spec, p.device)
    /\ Write(e.net, [spec |-> p, ver |-> rev + 1], Popped(i, NadKind))
    /\ HasVni(p) /\ p.device \in NamesOf(e.net)
    /\ e.net \notin unpatched' \/ FollowedAlike => IsNamed(p)

HandlesNad(i, e) ==
    /\ queue[i][NadKind] # <<>> /\ e = NextEvent(i, NadKind)
    /\ UNCHANGED <<kind, edits, watch>>
    /\ \A j \in Nodes : \A n \in Networks :
          \/ known'[j][n] = known[j][n]
          \/ n = e.net /\ (known'[j][n].ver # 0 => IsOf(n, known'[j][n].spec))
    /\ unpatched \ {e.net} \subseteq unpatched'
    /\ Keeps(i, e) \/ \E p : PatchesTo(i, e, p)

LEMMA NadEvent ==
    ASSUME TypeOK, Versions, Origins, NEW i \in Nodes, queue[i][NadKind] # <<>>,
           NEW e, e = NextEvent(i, NadKind)
    PROVE  /\ e \in Events /\ e \in ToSet(queue[i][NadKind]) /\ kind[e.net] = NadKind
           /\ e.net \in Networks /\ e.obj.spec \in AnySpec /\ e.obj.ver \in 0 .. rev
           /\ e.obj = [spec |-> e.obj.spec, ver |-> e.obj.ver]
           /\ e.type = "put" =>
                 /\ e.obj.ver # 0 /\ IsOf(e.net, e.obj.spec)
                 /\ e.obj.ver = api[e.net].ver => e.obj = api[e.net]
           /\ e.type = "put" /\ e.obj = api[e.net] <=> e = Event("put", e.net, api[e.net])
<1>1. NadKind \in Kinds
  BY QueueTypes
<1>2. e \in Events /\ e \in ToSet(queue[i][NadKind])
  BY <1>1, NextEventType
<1>3. EventOK(NadKind, e) /\ (e.type = "put" => IsOf(e.net, e.obj.spec))
  BY <1>1, <1>2 DEF Versions, Origins
<1>4. /\ e = [type |-> e.type, net |-> e.net, obj |-> e.obj]
      /\ e.net \in Networks /\ e.obj.spec \in AnySpec /\ e.obj.ver \in 0 .. rev
      /\ e.obj = [spec |-> e.obj.spec, ver |-> e.obj.ver]
  BY <1>2, EventFields
<1>5. e.type = "put" /\ e.obj = api[e.net] <=> e = Event("put", e.net, api[e.net])
  BY <1>4 DEF Event
<1> QED BY <1>2, <1>3, <1>4, <1>5 DEF EventOK

\* What the API server makes of a patched NAD.
LEMMA PutNadEffect ==
    ASSUME NEW n, NEW obj, NEW q, NEW refused, PutNad(n, obj, q, refused)
    PROVE  \/ /\ queue' = q /\ UNCHANGED <<api, rev>>
              /\ refused \/ api[n].ver # obj.ver \/ api[n].spec = obj.spec
           \/ /\ Write(n, [spec |-> obj.spec, ver |-> rev + 1], q)
              /\ ~refused /\ api[n].ver = obj.ver /\ api[n].spec # obj.spec
BY DEF PutNad

LEMMA AddNadStep ==
    ASSUME TypeOK, Versions, Origins, NEW i \in Nodes, NEW fault, AddNad(i, fault)
    PROVE  \E e : HandlesNad(i, e)
<1>1. queue[i][NadKind] # <<>>
  BY DEF AddNad, IsNext
<1>2. PICK e : e = NextEvent(i, NadKind)
  OBVIOUS
<1>3. e.type = "put"
  <2>1. e.type \in {"put", "sync", "del", "tomb"}
    BY <1>1, <1>2, NadEvent, EventFields
  <2>2. IsNext(i, NadKind, "add") /\ e = Head(queue[i][NadKind])
    BY <1>2 DEF AddNad, NextEvent
  <2> QED BY <2>1, <2>2 DEF IsNext
<1>4. /\ e.net \in Networks /\ e.obj.spec \in AnySpec /\ kind[e.net] = NadKind
      /\ e.obj = [spec |-> e.obj.spec, ver |-> e.obj.ver]
      /\ IsOf(e.net, e.obj.spec)
      /\ e.obj.ver = api[e.net].ver => e.obj = api[e.net]
      /\ e.obj = api[e.net] <=> e = Event("put", e.net, api[e.net])
  BY <1>1, <1>2, <1>3, NadEvent
<1>5. PICK n \in Networks : n = e.net
  BY <1>4
<1>6. PICK s \in AnySpec : s = e.obj.spec
  BY <1>4
<1>7. PICK r : r = setupHost(i, s, links[i], fault)
  OBVIOUS
<1>8. PICK d : d = DetermineHostDeviceName(s)
  OBVIOUS
<1>9. PICK p : p = PatchCniConf(s, d)
  OBVIOUS
<1>10. PICK patches \in BOOLEAN : patches = (~r.err /\ HasVni(s))
  <2>1. (~r.err /\ HasVni(s)) \in BOOLEAN
    OBVIOUS
  <2> QED BY <2>1
<1>11. PICK obj : obj = KnownAs(e.obj, IF patches THEN p ELSE s)
  OBVIOUS
<1>12. PICK nad : nad = [e.obj EXCEPT !.spec = p]
  OBVIOUS
<1>13. /\ Handled(i, n, obj, r, r.err \/ (patches /\ s.device = <<>>))
       /\ IF patches
          THEN PutNad(n, nad, Popped(i, NadKind), fault = ApiFault)
          ELSE queue' = Popped(i, NadKind) /\ UNCHANGED <<api, rev>>
       /\ Unpatched(n, e.obj, patches, HasVni(s) /\ (~patches \/ fault = ApiFault))
  BY <1>2, <1>5, <1>6, <1>7, <1>8, <1>9, <1>10, <1>11, <1>12 DEF AddNad
<1>14. d \in Parents /\ p \in AnySpec /\ p.device = d /\ IsOf(n, p) /\ IsOf(n, s)
       /\ (HasVni(s) => HasVni(p))
  <2>1. d \in Parents
    BY <1>8, HostDevice
  <2>2. p \in AnySpec /\ p.device = d /\ p.id = s.id /\ p.vlan = s.vlan /\ p.vxlan = s.vxlan
    BY <1>9, <2>1, Patched
  <2> QED BY <1>4, <1>5, <1>6, <2>1, <2>2 DEF IsOf, HasVni
<1>15. HasVni(s) => IsNamed(p)
  BY <1>8, <1>9, <1>14, NamedAlike
<1>16. nad.spec = p /\ nad.ver = e.obj.ver
  BY <1>4, <1>12
<1>17. UNCHANGED <<kind, edits, watch>>
  BY <1>13 DEF Handled
<1>18. \A j \in Nodes : \A m \in Networks :
          \/ known'[j][m] = known[j][m]
          \/ m = n /\ (known'[j][m].ver # 0 => IsOf(m, known'[j][m].spec))
  <2>1. IsOf(n, obj.spec)
    BY <1>11, <1>14 DEF KnownAs
  <2>2. /\ known' = [known EXCEPT ![i][n] = obj]
        /\ known \in [Nodes -> [Networks -> [spec : AnySpec, orig : AnySpec, ver : 0 .. rev]]]
    BY <1>13 DEF Handled, TypeOK
  <2> QED BY <2>1, <2>2
<1>19. unpatched \ {n} \subseteq unpatched'
  BY <1>13 DEF Unpatched
<1>20. \/ queue' = Popped(i, NadKind) /\ UNCHANGED <<api, rev>>
       \/ /\ patches /\ fault # ApiFault /\ api[n].ver = e.obj.ver /\ api[n].spec # p
          /\ Write(n, [spec |-> p, ver |-> rev + 1], Popped(i, NadKind))
  <2>1. CASE ~patches
    BY <1>13, <2>1
  <2>2. CASE patches
    <3>1. PICK q, refused : q = Popped(i, NadKind) /\ refused = (fault = ApiFault)
      OBVIOUS
    <3>2. PutNad(n, nad, q, refused)
      BY <1>13, <2>2, <3>1
    <3> QED BY <1>16, <2>2, <3>1, <3>2, PutNadEffect
  <2> QED BY <2>1, <2>2
<1>21. CASE queue' = Popped(i, NadKind) /\ UNCHANGED <<api, rev>>
  <2>1. ASSUME n \in unpatched \/ e = Event("put", n, api[n]), n \notin unpatched',
               HasVni(api[n].spec)
        PROVE  IsNamed(api[n].spec)
    <3>1. e.obj = api[n]
      <4>1. CASE n \in unpatched
        BY <1>4, <1>5, <1>13, <2>1, <4>1 DEF Unpatched
      <4> QED BY <1>4, <1>5, <2>1, <4>1
    <3>2. s = api[n].spec /\ e.obj.ver = api[n].ver
      BY <1>6, <3>1
    <3>3. patches /\ fault # ApiFault
      BY <1>13, <2>1, <3>2 DEF Unpatched
    <3>4. PICK q, refused : q = Popped(i, NadKind) /\ refused = (fault = ApiFault)
      OBVIOUS
    <3>5. PutNad(n, nad, q, refused) /\ ~refused
      BY <1>13, <3>3, <3>4
    <3>6. api[n].spec = p
      <4>1. CASE Write(n, [spec |-> p, ver |-> rev + 1], q)
        BY <1>21, <4>1 DEF Write, TypeOK
      <4> QED BY <1>16, <3>2, <3>5, <4>1, PutNadEffect
    <3> QED BY <1>15, <3>2, <3>6, <2>1
  <2>2. Keeps(i, e)
    BY <1>5, <1>21, <2>1 DEF Keeps
  <2> QED BY <1>1, <1>2, <1>5, <1>17, <1>18, <1>19, <2>2 DEF HandlesNad
<1>22. CASE /\ patches /\ fault # ApiFault /\ api[n].ver = e.obj.ver /\ api[n].spec # p
            /\ Write(n, [spec |-> p, ver |-> rev + 1], Popped(i, NadKind))
  <2>1. e.obj = api[n] /\ e = Event("put", n, api[n])
    BY <1>4, <1>5, <1>22
  <2>2. s = api[n].spec /\ HasVni(s)
    BY <1>6, <1>10, <1>22, <2>1
  <2>3. p = PatchCniConf(api[n].spec, p.device)
    BY <1>9, <1>14, <2>2
  <2>4. p.device \in NamesOf(n)
    <3>1. d # s.device
      BY <1>9, <1>14, <1>22, <2>2, Patched
    <3>2. s.id \in IdsOf(n)
      BY <1>14 DEF IsOf, IdsOf
    <3> QED BY <1>8, <1>14, <3>1, <3>2, NamesOfNetwork
  <2>5. PatchesTo(i, e, p)
    BY <1>5, <1>14, <1>15, <1>22, <2>1, <2>2, <2>3, <2>4 DEF PatchesTo
  <2> QED BY <1>1, <1>2, <1>5, <1>17, <1>18, <1>19, <2>5 DEF HandlesNad
<1> QED BY <1>20, <1>21, <1>22

LEMMA UpdateNadStep ==
    ASSUME TypeOK, Versions, Origins, NEW i \in Nodes, NEW fault, UpdateNad(i, fault)
    PROVE  \E e : HandlesNad(i, e)
<1>1. queue[i][NadKind] # <<>> /\ NadKind \in Kinds
  BY QueueTypes DEF UpdateNad, IsUpdate, IsNext
<1>2. PICK e : e = NextEvent(i, NadKind)
  OBVIOUS
<1>3. PICK n \in Networks : n = e.net
  BY <1>1, <1>2, NadEvent
<1>4. PICK o : o = known[i][n]
  OBVIOUS
<1>5. e.type = "sync" \/ (e.type = "put" /\ o.ver # 0)
  <2>1. e.type \in {"put", "sync", "del", "tomb"}
    BY <1>1, <1>2, NadEvent, EventFields
  <2>2. e = Head(queue[i][NadKind])
    BY <1>2 DEF NextEvent
  <2> QED BY <1>3, <1>4, <2>1, <2>2 DEF UpdateNad, IsUpdate, IsNext
<1>6. PICK u : u = UpdateEvent(i, NadKind)
  OBVIOUS
<1>7. /\ u.net = n /\ u.old = o
      /\ o \in [spec : AnySpec, orig : AnySpec, ver : 0 .. rev]
      /\ u.new \in [spec : AnySpec, orig : AnySpec, ver : 0 .. rev]
  BY <1>1, <1>2, <1>3, <1>4, <1>6, UpdateObjects
<1>8. u.new = IF e.type = "sync" THEN o ELSE KnownAs(e.obj, e.obj.spec)
  BY <1>2, <1>3, <1>4, <1>6 DEF UpdateEvent
<1>9. PICK old \in AnySpec : old = u.old.spec
  BY <1>7
<1>10. PICK new \in AnySpec : new = u.new.spec
  BY <1>7
<1>11. kind[n] = NadKind /\ (o.ver # 0 => IsOf(n, old))
  <2>1. kind[n] = NadKind
    BY <1>1, <1>2, <1>3, NadEvent
  <2>2. known[i][n].ver # 0 => IsOf(n, known[i][n].spec)
    BY <2>1 DEF Origins
  <2>3. old = known[i][n].spec
    BY <1>4, <1>7, <1>9
  <2> QED BY <1>4, <2>1, <2>2, <2>3
<1>12. e.type = "put" =>
          /\ new = e.obj.spec /\ u.new.ver = e.obj.ver /\ IsOf(n, new) /\ IsOf(n, old)
          /\ e.obj.ver = api[n].ver => e.obj = api[n]
          /\ e.obj = api[n] <=> e = Event("put", n, api[n])
  <2>1. e.type = "put" => new = e.obj.spec /\ u.new.ver = e.obj.ver
    BY <1>8, <1>10 DEF KnownAs
  <2>2. e.type = "put" => o.ver # 0
    BY <1>5
  <2> QED BY <1>1, <1>2, <1>3, <1>11, <2>1, <2>2, NadEvent
<1>13. PICK needed \in BOOLEAN :
          needed = (DetermineHostDeviceName(old) # DetermineHostDeviceName(new))
  <2>1. (DetermineHostDeviceName(old) # DetermineHostDeviceName(new)) \in BOOLEAN
    OBVIOUS
  <2> QED BY <2>1
<1>14. needed => e.type = "put"
  BY <1>5, <1>7, <1>8, <1>9, <1>10, <1>13
<1>15. PICK d : d = DetermineHostDeviceName(zeroVnis(new, old, new))
  OBVIOUS
<1>16. PICK p : p = PatchCniConf(new, d)
  OBVIOUS
<1>17. PICK obj : obj = [u.new EXCEPT !.spec = IF needed THEN p ELSE new]
  OBVIOUS
<1>18. PICK r : r = Replaced(i, old, new, fault)
  OBVIOUS
<1>19. PICK nad : nad = [spec |-> p, ver |-> u.new.ver]
  OBVIOUS
<1>20. /\ Handled(i, n, obj, r, \/ r.err \/ IsRenamed(old, new)
                              \/ (needed /\ new.device = <<>>) \/ GoesAlong(i, old, new))
       /\ IF needed
          THEN PutNad(n, nad, Popped(i, NadKind), fault = ApiFault)
          ELSE queue' = Popped(i, NadKind) /\ UNCHANGED <<api, rev>>
       /\ Unpatched(n, u.new, needed,
                    /\ HasVni(new)
                    /\ \/ needed /\ fault = ApiFault
                       \/ obj.spec.device # DetermineHostDeviceName(new))
  BY <1>6, <1>7, <1>9, <1>10, <1>13, <1>15, <1>16, <1>17, <1>18, <1>19 DEF UpdateNad
<1>21. /\ d \in Parents /\ p \in AnySpec /\ p.device = d /\ obj.ver = u.new.ver
       /\ obj.spec = IF needed THEN p ELSE new
       /\ p.id = new.id /\ p.vlan = new.vlan /\ p.vxlan = new.vxlan
  <2>1. zeroVnis(new, old, new) \in AnySpec
    BY Zeroed
  <2>2. d \in Parents
    BY <1>15, <2>1, HostDevice
  <2>3. p \in AnySpec /\ p.device = d /\ p.id = new.id /\ p.vlan = new.vlan /\ p.vxlan = new.vxlan
    BY <1>16, <2>2, Patched
  <2> QED BY <1>7, <1>17, <2>2, <2>3
<1>22. UNCHANGED <<kind, edits, watch>>
  BY <1>20 DEF Handled
<1>23. \A j \in Nodes : \A m \in Networks :
          \/ known'[j][m] = known[j][m]
          \/ m = n /\ (known'[j][m].ver # 0 => IsOf(m, known'[j][m].spec))
  <2>1. obj.ver # 0 => IsOf(n, obj.spec)
    <3>1. u.new.ver # 0 => IsOf(n, new)
      BY <1>5, <1>7, <1>8, <1>9, <1>10, <1>11, <1>12
    <3> QED BY <1>21, <3>1 DEF IsOf
  <2>2. /\ known' = [known EXCEPT ![i][n] = obj]
        /\ known \in [Nodes -> [Networks -> [spec : AnySpec, orig : AnySpec, ver : 0 .. rev]]]
    BY <1>20 DEF Handled, TypeOK
  <2> QED BY <2>1, <2>2
<1>24. unpatched \ {n} \subseteq unpatched'
  BY <1>20 DEF Unpatched
<1>25. \/ queue' = Popped(i, NadKind) /\ UNCHANGED <<api, rev>>
       \/ /\ needed /\ fault # ApiFault /\ api[n].ver = u.new.ver /\ api[n].spec # p
          /\ Write(n, [spec |-> p, ver |-> rev + 1], Popped(i, NadKind))
  <2>1. CASE ~needed
    BY <1>20, <2>1
  <2>2. CASE needed
    <3>1. PICK q, refused : q = Popped(i, NadKind) /\ refused = (fault = ApiFault)
      OBVIOUS
    <3>2. PutNad(n, nad, q, refused)
      BY <1>20, <2>2, <3>1
    <3>3. nad.spec = p /\ nad.ver = u.new.ver
      BY <1>19
    <3>4. \/ queue' = q /\ UNCHANGED <<api, rev>>
          \/ /\ Write(n, [spec |-> nad.spec, ver |-> rev + 1], q)
             /\ ~refused /\ api[n].ver = nad.ver /\ api[n].spec # nad.spec
      BY <3>2, PutNadEffect, Zenon
    <3> QED BY <2>2, <3>1, <3>3, <3>4
  <2> QED BY <2>1, <2>2
<1>26. HasVni(new) /\ d = DetermineHostDeviceName(new) => IsNamed(p)
  BY <1>16, <1>21, NamedAlike
<1>27. CASE queue' = Popped(i, NadKind) /\ UNCHANGED <<api, rev>>
  <2>1. ASSUME n \in unpatched \/ e = Event("put", n, api[n]), n \notin unpatched',
               HasVni(api[n].spec)
        PROVE  IsNamed(api[n].spec)
    <3>1. e.type = "put" /\ e.obj = api[n]
      <4>1. CASE n \in unpatched
        <5>1. u.new.ver = api[n].ver /\ needed
          BY <1>20, <2>1, <4>1 DEF Unpatched
        <5> QED BY <1>12, <1>14, <5>1
      <4>2. CASE e = Event("put", n, api[n])
        <5>1. e.type = "put"
          BY <4>2 DEF Event
        <5> QED BY <1>12, <4>2, <5>1
      <4> QED BY <2>1, <4>1, <4>2
    <3>2. new = api[n].spec /\ u.new.ver = api[n].ver
      BY <1>12, <3>1
    <3>3. ~(needed /\ fault = ApiFault) /\ obj.spec.device = DetermineHostDeviceName(new)
      BY <1>20, <2>1, <3>2 DEF Unpatched
    <3>4. CASE ~needed
      BY <1>21, <3>2, <3>3, <3>4 DEF IsNamed
    <3>5. CASE needed
      <4>1. PICK q, refused : q = Popped(i, NadKind) /\ refused = (fault = ApiFault)
        OBVIOUS
      <4>2. PutNad(n, nad, q, refused) /\ ~refused
        BY <1>20, <3>3, <3>5, <4>1
      <4>3. nad.ver = api[n].ver /\ nad.spec = p
        BY <1>19, <3>2
      <4>4. api[n].spec = p
        <5>1. CASE Write(n, [spec |-> p, ver |-> rev + 1], q)
          BY <1>27, <5>1 DEF Write, TypeOK
        <5> QED BY <4>2, <4>3, <5>1, PutNadEffect
      <4> QED BY <1>21, <3>2, <3>3, <3>5, <4>4 DEF IsNamed
    <3> QED BY <3>4, <3>5
  <2>2. Keeps(i, e)
    BY <1>3, <1>27, <2>1 DEF Keeps
  <2> QED BY <1>1, <1>2, <1>3, <1>22, <1>23, <1>24, <2>2 DEF HandlesNad
<1>28. CASE /\ needed /\ fault # ApiFault /\ api[n].ver = u.new.ver /\ api[n].spec # p
            /\ Write(n, [spec |-> p, ver |-> rev + 1], Popped(i, NadKind))
  <2>1. e.type = "put" /\ e.obj = api[n] /\ e = Event("put", n, api[n])
    BY <1>12, <1>14, <1>28
  <2>2. new = api[n].spec /\ u.new.ver = api[n].ver
    BY <1>12, <2>1
  <2>3. p = PatchCniConf(api[n].spec, p.device)
    BY <1>16, <1>21, <2>2
  <2>4. /\ HasVni(new)
        /\ (old.vxlan = new.vxlan /\ old.vxlan # 0 /\ old.vlan # new.vlan => old.id = new.id)
              => IsNamed(p)
    <3>1. DetermineHostDeviceName(old) # DetermineHostDeviceName(new) /\ PatchCniConf(new, d) # new
      BY <1>13, <1>16, <1>28, <2>2
    <3> QED BY <1>15, <1>16, <1>21, <3>1, NamedAfterZeroing
  <2>5. /\ HasVni(p)
        /\ n \notin unpatched' => IsNamed(p)
        /\ FollowedAlike => IsNamed(p)
    <3>1. HasVni(p)
      BY <1>21, <2>4 DEF HasVni
    <3>2. n \notin unpatched' => d = DetermineHostDeviceName(new)
      BY <1>20, <1>21, <1>28, <2>2, <2>4 DEF Unpatched
    <3>3. FollowedAlike =>
              (old.vxlan = new.vxlan /\ old.vxlan # 0 /\ old.vlan # new.vlan => old.id = new.id)
      BY <1>12, <2>1 DEF FollowedAlike, IsOf
    <3> QED BY <1>26, <2>4, <3>1, <3>2, <3>3
  <2>6. p.device \in NamesOf(n)
    <3>1. PICK z : z = zeroVnis(new, old, new)
      OBVIOUS
    <3>2. z \in AnySpec /\ z.id = new.id /\ z.device = new.device
      BY <3>1, Zeroed
    <3>3. d # new.device
      BY <1>16, <1>21, <1>28, <2>2, Patched
    <3>4. new.id \in IdsOf(n)
      BY <1>12, <2>1 DEF IsOf, IdsOf
    <3> QED BY <1>15, <1>21, <3>1, <3>2, <3>3, <3>4, NamesOfNetwork
  <2>7. PatchesTo(i, e, p)
    BY <1>3, <1>21, <1>28, <2>1, <2>3, <2>5, <2>6 DEF PatchesTo
  <2> QED BY <1>1, <1>2, <1>3, <1>22, <1>23, <1>24, <2>7 DEF HandlesNad
<1> QED BY <1>25, <1>27, <1>28

\* The NAD the API server has after a patch, and the events of the watchers.
LEMMA PatchWritten ==
    ASSUME TypeOK, NEW i \in Nodes, NEW e, HandlesNad(i, e), NEW p, PatchesTo(i, e, p)
    PROVE  /\ e.net \in Networks
           /\ api' = [api EXCEPT ![e.net] = [spec |-> p, ver |-> rev + 1]]
           /\ rev' = rev + 1 /\ rev' \in Nat /\ api' \in [Networks -> Objects']
           /\ queue' \in [Nodes -> [Kinds -> Seq(Events')]]
           /\ Told(Popped(i, NadKind), queue', e.net,
                   Event("put", e.net, [spec |-> p, ver |-> rev + 1]))
<1>1. queue[i][NadKind] # <<>> /\ NadKind \in Kinds /\ e = NextEvent(i, NadKind) /\ rev \in Nat
  BY QueueTypes DEF HandlesNad, TypeOK
<1>2. e.net \in Networks
  BY <1>1, EventObjects
<1>3. PICK obj : obj = [spec |-> p, ver |-> rev + 1]
  OBVIOUS
<1>4. obj \in [spec : AnySpec, ver : 0 .. rev + 1] /\ obj # NoObj
  BY <1>1, <1>3 DEF PatchesTo, NoObj
<1>5. PICK q : q = Popped(i, NadKind)
  OBVIOUS
<1>6. q \in [Nodes -> [Kinds -> Seq(Events)]]
  BY <1>1, <1>5, PoppedType
<1>7. PICK n \in Networks : n = e.net
  BY <1>2
<1>8. Write(n, obj, q)
  BY <1>3, <1>5, <1>7 DEF PatchesTo
<1>9. WriteEvent(n, obj) = Event("put", n, obj)
  BY <1>4 DEF WriteEvent
<1>10. /\ api' = [api EXCEPT ![n] = obj] /\ rev' = rev + 1 /\ rev' \in Nat
       /\ api' \in [Networks -> Objects'] /\ queue' \in [Nodes -> [Kinds -> Seq(Events')]]
       /\ Told(q, queue', n, WriteEvent(n, obj))
  BY <1>4, <1>6, <1>8, Written
<1> QED BY <1>3, <1>5, <1>7, <1>9, <1>10

LEMMA NadTypes ==
    ASSUME TypeOK, NEW i \in Nodes, NEW e, HandlesNad(i, e), NEW n \in Networks,
           NEW fault, NEW obj, NEW r, NEW lost,
           obj \in [spec : AnySpec, orig : AnySpec, ver : 0 .. rev], LinksOK(r.links),
           CountFault(fault), Handled(i, n, obj, r, lost), unpatched' \subseteq Networks
    PROVE  TypeOK'
<1>1. rev \in Nat /\ api \in [Networks -> Objects] /\ NadKind \in Kinds
  BY QueueTypes DEF TypeOK
<1>2. /\ rev' \in Nat /\ rev <= rev' /\ api' \in [Networks -> Objects']
      /\ queue' \in [Nodes -> [Kinds -> Seq(Events')]]
  <2>1. CASE Keeps(i, e)
    <3>1. api' = api /\ rev' = rev /\ queue' = Popped(i, NadKind)
      BY <2>1 DEF Keeps
    <3>2. Popped(i, NadKind) \in [Nodes -> [Kinds -> Seq(Events)]]
      BY <1>1, PoppedType DEF HandlesNad
    <3>3. rev' \in Nat /\ rev <= rev'
      BY <1>1, <3>1
    <3>4. Objects \subseteq Objects' /\ Seq(Events) \subseteq Seq(Events')
      BY <1>1, <3>3, TypesGrow
    <3> QED BY <1>1, <3>1, <3>2, <3>3, <3>4
  <2>2. CASE \E p : PatchesTo(i, e, p)
    <3>1. PICK p : PatchesTo(i, e, p)
      BY <2>2
    <3>2. /\ rev' = rev + 1 /\ rev' \in Nat /\ api' \in [Networks -> Objects']
          /\ queue' \in [Nodes -> [Kinds -> Seq(Events')]]
      BY <3>1, PatchWritten
    <3> QED BY <1>1, <3>2
  <2> QED BY <2>1, <2>2 DEF HandlesNad
<1> QED BY <1>2, HandlerTypes

LEMMA AddNadTypes ==
    ASSUME TypeOK, Versions, Origins, NEW i \in Nodes, NEW fault, AddNad(i, fault)
    PROVE  TypeOK'
<1>1. queue[i][NadKind] # <<>> /\ NadKind \in Kinds /\ CountFault(fault)
  BY QueueTypes DEF AddNad, IsNext
<1>2. PICK e : e = NextEvent(i, NadKind)
  OBVIOUS
<1>3. e.net \in Networks /\ e.obj.spec \in AnySpec /\ e.obj.ver \in 0 .. rev
  BY <1>1, <1>2, EventObjects
<1>4. PICK s \in AnySpec : s = e.obj.spec
  BY <1>3
<1>5. PICK r : r = setupHost(i, s, links[i], fault)
  OBVIOUS
<1>6. PICK d : d = DetermineHostDeviceName(s)
  OBVIOUS
<1>7. PICK cached : cached = IF ~r.err /\ HasVni(s) THEN PatchCniConf(s, d) ELSE s
  OBVIOUS
<1>8. PICK n \in Networks : n = e.net
  BY <1>3
<1>9. PICK obj : obj = KnownAs(e.obj, cached)
  OBVIOUS
<1>10. PICK lost : lost = (r.err \/ (~r.err /\ HasVni(s) /\ s.device = <<>>))
  OBVIOUS
<1>11. /\ Handled(i, n, obj, r, lost)
       /\ \E writes, isUnpatched : Unpatched(n, e.obj, writes, isUnpatched)
  BY <1>2, <1>4, <1>5, <1>6, <1>7, <1>8, <1>9, <1>10 DEF AddNad
<1>12. LinksOK(r.links)
  BY <1>5, LinksOfNode, SetupLinks
<1>13. cached \in AnySpec
  BY <1>6, <1>7, HostDevice, Patched
<1>14. obj \in [spec : AnySpec, orig : AnySpec, ver : 0 .. rev]
  BY <1>3, <1>9, <1>13, KnownAsType
<1>15. unpatched' \subseteq Networks
  BY <1>11 DEF Unpatched, TypeOK
<1>16. PICK f : HandlesNad(i, f)
  BY AddNadStep
<1> QED BY <1>1, <1>11, <1>12, <1>14, <1>15, <1>16, NadTypes

LEMMA UpdateNadTypes ==
    ASSUME TypeOK, Versions, Origins, NEW i \in Nodes, NEW fault, UpdateNad(i, fault)
    PROVE  TypeOK'
<1>1. queue[i][NadKind] # <<>> /\ NadKind \in Kinds /\ CountFault(fault)
  BY QueueTypes DEF UpdateNad, IsUpdate, IsNext
<1>2. PICK u : u = UpdateEvent(i, NadKind)
  OBVIOUS
<1>3. /\ u.net \in Networks
      /\ u.old \in [spec : AnySpec, orig : AnySpec, ver : 0 .. rev]
      /\ u.new \in [spec : AnySpec, orig : AnySpec, ver : 0 .. rev]
  BY <1>1, <1>2, UpdateObjects
<1>4. PICK old \in AnySpec : old = u.old.spec
  BY <1>3
<1>5. PICK new \in AnySpec : new = u.new.spec
  BY <1>3
<1>6. PICK r : r = Replaced(i, old, new, fault)
  OBVIOUS
<1>7. PICK d : d = DetermineHostDeviceName(zeroVnis(new, old, new))
  OBVIOUS
<1>8. PICK cached : cached = IF DetermineHostDeviceName(old) # DetermineHostDeviceName(new)
                             THEN PatchCniConf(new, d) ELSE new
  OBVIOUS
<1>9. PICK n \in Networks : n = u.net
  BY <1>3
<1>10. PICK obj : obj = [u.new EXCEPT !.spec = cached]
  OBVIOUS
<1>11. PICK lost :
          lost = \/ r.err \/ IsRenamed(old, new)
                 \/ (/\ DetermineHostDeviceName(old) # DetermineHostDeviceName(new)
                     /\ new.device = <<>>)
                 \/ GoesAlong(i, old, new)
  OBVIOUS
<1>12. /\ Handled(i, n, obj, r, lost)
       /\ \E writes, isUnpatched : Unpatched(n, u.new, writes, isUnpatched)
  BY <1>2, <1>4, <1>5, <1>6, <1>7, <1>8, <1>9, <1>10, <1>11 DEF UpdateNad
<1>13. LinksOK(r.links)
  BY <1>6, ReplacedLinks
<1>14. cached \in AnySpec
  <2>1. d \in Parents
    BY <1>7, Zeroed, HostDevice
  <2> QED BY <1>8, <2>1, Patched
<1>15. obj \in [spec : AnySpec, orig : AnySpec, ver : 0 .. rev]
  BY <1>3, <1>10, <1>14
<1>16. unpatched' \subseteq Networks
  BY <1>12 DEF Unpatched, TypeOK
<1>17. PICK f : HandlesNad(i, f)
  BY UpdateNadStep
<1> QED BY <1>1, <1>12, <1>13, <1>15, <1>16, <1>17, NadTypes

-----------------------------------------------------------------------------
(* The invariant is preserved                                                *)

LEMMA QueuedEvent ==
    ASSUME TypeOK, NEW i \in Nodes, NEW k \in Kinds, NEW e \in ToSet(queue[i][k])
    PROVE  /\ e \in Events /\ e.net \in Networks /\ e.obj.ver \in 0 .. rev
           /\ e = [type |-> e.type, net |-> e.net, obj |-> e.obj]
<1>1. queue[i][k] \in Seq(Events)
  BY QueueTypes
<1>2. e \in Events
  BY <1>1 DEF ToSet
<1> QED BY <1>2, EventFields

LEMMA UnnamedFinite ==
    IsFiniteSet(Unnamed) /\ Cardinality(Unnamed) \in Nat
BY WatcherAssumption, FS_Subset, FS_CardinalityType DEF Unnamed

\* A user's write reaches every watcher that runs, and makes at most one NAD unnamed.
LEMMA UserPreserves ==
    ASSUME IInv, NEW n \in Networks, NEW obj, obj \in [spec : AnySpec, ver : 0 .. rev + 1],
           UserWrites(n, obj), obj = NoObj \/ (obj.ver = rev + 1 /\ IsOf(n, obj.spec))
    PROVE  Versions' /\ Origins' /\ Pending' /\ Patches'
<1>1. TypeOK /\ rev \in Nat /\ NadKind \in Kinds /\ api \in [Networks -> Objects]
  BY QueueTypes DEF IInv, TypeOK
<1>2. /\ UNCHANGED <<kind, watch, known, unpatched>> /\ edits' = edits + 1 /\ edits \in Nat
      /\ Write(n, obj, queue) /\ queue \in [Nodes -> [Kinds -> Seq(Events)]]
  BY <1>1, QueueTypes, WatcherAssumption DEF UserWrites, TypeOK
<1>3. PICK ev : ev = WriteEvent(n, obj)
  OBVIOUS
<1>4. PICK q : q = queue
  OBVIOUS
<1>5. api' = [api EXCEPT ![n] = obj] /\ rev' = rev + 1 /\ Told(q, queue', n, ev)
  <2>1. q \in [Nodes -> [Kinds -> Seq(Events)]] /\ Write(n, obj, q)
    BY <1>2, <1>4
  <2> QED BY <1>1, <1>3, <2>1, Written
<1>6. /\ api'[n] = obj /\ \A m \in Networks \ {n} : api'[m] = api[m]
      /\ api[n] \in Objects
  BY <1>1, <1>5
<1>7. obj.ver = 0 \/ (obj.ver = rev + 1 /\ obj # NoObj)
  BY <1>1 DEF NoObj
<1>8. /\ ev.net = n /\ ev.type = "put" => obj.ver = rev + 1 /\ ev.obj = obj /\ IsOf(n, obj.spec)
      /\ obj.ver # 0 => ev = Event("put", n, obj)
  BY <1>1, <1>3, <1>7 DEF WriteEvent, Event, NoObj
<1>9. ev.net = n
  BY <1>3 DEF WriteEvent, Event
<1>10. \A i \in Nodes : \A k \in Kinds :
          /\ ToSet(queue[i][k]) \subseteq ToSet(queue'[i][k])
          /\ kind[n] = k /\ watch[i][k] = "up" => ev \in ToSet(queue'[i][k])
          /\ \A e \in ToSet(queue'[i][k]) : e \in ToSet(queue[i][k]) \/ (e = ev /\ kind[n] = k)
  BY <1>4, <1>5 DEF Told, IsTold
<1>11. Versions'
  <2>1. ASSUME NEW i \in Nodes, NEW k \in Kinds, NEW e \in ToSet(queue'[i][k])
        PROVE  /\ kind[e.net] = k
               /\ e.type = "put" =>
                     e.obj.ver # 0 /\ (e.obj.ver = api'[e.net].ver => e.obj = api'[e.net])
    <3>1. CASE e \in ToSet(queue[i][k])
      <4>1. EventOK(k, e)
        BY <3>1 DEF IInv, Versions
      <4>2. e.net \in Networks /\ e.obj.ver \in 0 .. rev
        BY <1>1, <3>1, QueuedEvent
      <4>3. e.net = n /\ e.type = "put" => e.obj.ver # api'[n].ver
        BY <1>1, <1>6, <1>7, <4>1, <4>2 DEF EventOK
      <4> QED BY <1>6, <4>1, <4>2, <4>3 DEF EventOK
    <3>2. CASE e = ev /\ kind[n] = k
      BY <1>1, <1>6, <1>8, <1>9, <3>2
    <3> QED BY <1>10, <3>1, <3>2
  <2> QED BY <1>2, <2>1 DEF Versions, EventOK
<1>12. Origins'
  <2>1. \A m \in Networks : api'[m].ver # 0 => IsOf(m, api'[m].spec)
    BY <1>6, <1>7 DEF IInv, Origins, InApi, NoObj
  <2>2. \A i \in Nodes : \A k \in Kinds : \A e \in ToSet(queue'[i][k]) :
            e.type = "put" => IsOf(e.net, e.obj.spec)
    BY <1>8, <1>9, <1>10 DEF IInv, Origins
  <2>3. \A i \in Nodes : \A m \in Networks :
            kind[m] = NadKind /\ known[i][m].ver # 0 => IsOf(m, known[i][m].spec)
    BY DEF IInv, Origins
  <2> QED BY <1>2, <2>1, <2>2, <2>3 DEF Origins, IsOf, InApi
<1>13. Pending'
  <2>1. ASSUME NEW m \in Networks, kind[m] = NadKind, api'[m].ver # 0, HasVni(api'[m].spec),
               m \notin unpatched, ~IsNamed(api'[m].spec), NEW i \in Nodes
        PROVE  watch[i][NadKind] # "up" \/ Event("put", m, api'[m]) \in ToSet(queue'[i][NadKind])
    <3>1. CASE m = n
      BY <1>1, <1>6, <1>8, <1>10, <2>1, <3>1
    <3>2. CASE m # n
      <4>1. api'[m] = api[m]
        BY <1>6, <3>2
      <4>2. Waits(i, m)
        BY <2>1, <4>1 DEF IInv, Pending, IsSettled, InApi
      <4> QED BY <1>1, <1>10, <4>1, <4>2 DEF Waits
    <3> QED BY <3>1, <3>2
  <2> QED BY <1>2, <2>1 DEF Pending, IsSettled, InApi, Waits, IsNamed, HasVni
<1>14. Patches'
  <2>1. PICK U : U = Unnamed
    OBVIOUS
  <2>2. PICK V : V = Unnamed'
    OBVIOUS
  <2>3. V \subseteq U \cup {n}
    BY <1>2, <1>6, <2>1, <2>2 DEF Unnamed, InApi, IsNamed
  <2>4. IsFiniteSet(U) /\ Cardinality(U) \in Nat
    BY <2>1, UnnamedFinite
  <2>5. IsFiniteSet(U \cup {n}) /\ Cardinality(U \cup {n}) \in Nat
        /\ Cardinality(U \cup {n}) <= Cardinality(U) + 1
    <3>1. /\ IsFiniteSet(U \cup {n})
          /\ Cardinality(U \cup {n}) = IF n \in U THEN Cardinality(U) ELSE Cardinality(U) + 1
      BY <2>4, FS_AddElement
    <3> QED BY <2>4, <3>1
  <2>6. Cardinality(V) \in Nat /\ Cardinality(V) <= Cardinality(U) + 1
    BY <2>3, <2>4, <2>5, FS_Subset, FS_CardinalityType
  <2>7. FollowedAlike => rev + Cardinality(U) <= 2 * edits
    BY <2>1 DEF IInv, Patches
  <2>8. FollowedAlike => rev' + Cardinality(V) <= 2 * edits'
    BY <1>1, <1>2, <1>5, <2>4, <2>6, <2>7
  <2> QED BY <2>2, <2>8 DEF Patches, FollowedAlike
<1> QED BY <1>11, <1>12, <1>13, <1>14

\* Nothing is written, nothing is lost: the informers and the handlers without a patch.
LEMMA SameObjects ==
    ASSUME IInv, UNCHANGED <<kind, api, rev, edits>>
    PROVE  Patches'
<1>1. Unnamed' = Unnamed
  BY DEF Unnamed, InApi, IsNamed
<1> QED BY <1>1 DEF IInv, Patches, FollowedAlike

LEMMA ListsPreserve ==
    ASSUME IInv, Lists
    PROVE  Versions' /\ Origins' /\ Pending' /\ Patches'
<1>1. UNCHANGED <<kind, api, rev, edits, unpatched>> /\ NadKind \in Kinds /\ TypeOK
  BY QueueTypes DEF Lists, IInv
<1>2. \A i \in Nodes : \A k \in Kinds : \A e \in ToSet(queue'[i][k]) :
          EventOK(k, e) /\ (e.type = "put" => IsOf(e.net, e.obj.spec))
  <2> SUFFICES ASSUME NEW i \in Nodes, NEW k \in Kinds, NEW e \in ToSet(queue'[i][k])
               PROVE  EventOK(k, e) /\ (e.type = "put" => IsOf(e.net, e.obj.spec))
    OBVIOUS
  <2>1. CASE e \in ToSet(queue[i][k])
    BY <2>1 DEF IInv, Versions, Origins
  <2>2. CASE kind[e.net] = k /\ e.type # "put"
    BY <2>2 DEF EventOK
  <2>3. CASE \E n \in Networks : kind[n] = k /\ InApi(n) /\ e = Event("put", n, api[n])
    <3>1. PICK n \in Networks : kind[n] = k /\ InApi(n) /\ e = Event("put", n, api[n])
      BY <2>3
    <3>2. e.net = n /\ e.obj = api[n] /\ api[n].ver # 0 /\ IsOf(n, api[n].spec)
      BY <3>1 DEF Event, IInv, Origins, InApi
    <3> QED BY <3>1, <3>2 DEF EventOK
  <2> QED BY <2>1, <2>2, <2>3 DEF Lists, Fresh
<1>3. Versions'
  BY <1>1, <1>2 DEF Versions, EventOK
<1>4. Origins'
  <2>1. \A i \in Nodes : \A n \in Networks :
            kind[n] = NadKind /\ known'[i][n].ver # 0 => IsOf(n, known'[i][n].spec)
    BY DEF IInv, Origins, Lists, NoKnown
  <2>2. \A n \in Networks : InApi(n) => IsOf(n, api[n].spec)
    BY DEF IInv, Origins
  <2> QED BY <1>1, <1>2, <2>1, <2>2 DEF Origins, IsOf, InApi
<1>5. Pending'
  <2>1. ASSUME NEW n \in Networks, kind[n] = NadKind, api[n].ver # 0, HasVni(api[n].spec),
               n \notin unpatched, ~IsNamed(api[n].spec), NEW i \in Nodes,
               watch'[i][NadKind] = "up"
        PROVE  Event("put", n, api[n]) \in ToSet(queue'[i][NadKind])
    <3>1. Waits(i, n) /\ InApi(n)
      BY <2>1 DEF IInv, Pending, IsSettled, InApi
    <3> QED BY <2>1, <3>1 DEF Lists, Waits
  <2> QED BY <1>1, <2>1 DEF Pending, IsSettled, InApi, Waits, IsNamed, HasVni
<1> QED BY <1>1, <1>3, <1>4, <1>5, SameObjects

\* The event that is handled leaves its queue.
Loses(r, i, k, f) ==
    \A j \in Nodes : \A m \in Kinds :
        /\ ToSet(r[j][m]) \subseteq ToSet(queue[j][m])
        /\ \A e \in ToSet(queue[j][m]) : e \in ToSet(r[j][m]) \/ (j = i /\ m = k /\ e = f)

LEMMA PoppedQueues ==
    ASSUME TypeOK, NEW i \in Nodes, NEW k \in Kinds, queue[i][k] # <<>>
    PROVE  Loses(Popped(i, k), i, k, NextEvent(i, k))
<1>1. ToSet(queue[i][k]) = {NextEvent(i, k)} \cup ToSet(Tail(queue[i][k]))
  BY NextEventType
<1>2. \A j \in Nodes : \A m \in Kinds :
          Popped(i, k)[j][m] = IF j = i /\ m = k THEN Tail(queue[i][k]) ELSE queue[j][m]
  BY PoppedType
<1> SUFFICES ASSUME NEW j \in Nodes, NEW m \in Kinds
             PROVE  /\ ToSet(Popped(i, k)[j][m]) \subseteq ToSet(queue[j][m])
                    /\ \A e \in ToSet(queue[j][m]) :
                          e \in ToSet(Popped(i, k)[j][m]) \/ (j = i /\ m = k /\ e = NextEvent(i, k))
  BY DEF Loses
<1>3. CASE j = i /\ m = k
  <2>1. Popped(i, k)[j][m] = Tail(queue[i][k])
    BY <1>2, <1>3
  <2> QED BY <1>1, <1>3, <2>1
<1>4. CASE ~(j = i /\ m = k)
  <2>1. Popped(i, k)[j][m] = queue[j][m]
    BY <1>2, <1>4
  <2> QED BY <2>1
<1> QED BY <1>3, <1>4

LEMMA HandlesPreserve ==
    ASSUME IInv, NEW i \in Nodes, NEW k \in Kinds, Handles(i, k)
    PROVE  Versions' /\ Origins' /\ Pending' /\ Patches'
<1>1. /\ UNCHANGED <<kind, api, rev, edits, unpatched, watch>> /\ NadKind \in Kinds /\ TypeOK
      /\ queue[i][k] # <<>> /\ queue' = Popped(i, k)
  BY QueueTypes DEF Handles, IInv
<1>2. \A j \in Nodes : \A m \in Kinds :
          /\ ToSet(queue'[j][m]) \subseteq ToSet(queue[j][m])
          /\ \A e \in ToSet(queue[j][m]) :
                e \in ToSet(queue'[j][m]) \/ (j = i /\ m = k /\ e = NextEvent(i, k))
  <2>1. Loses(queue', i, k, NextEvent(i, k))
    BY <1>1, PoppedQueues
  <2> QED BY <2>1 DEF Loses
<1>3. PICK f : f = NextEvent(i, k)
  OBVIOUS
<1>4. kind[f.net] = k
  <2>1. f \in ToSet(queue[i][k])
    BY <1>1, <1>3, NextEventType
  <2> QED BY <2>1 DEF IInv, Versions, EventOK
<1>5. Versions'
  <2>1. \A j \in Nodes : \A m \in Kinds : \A e \in ToSet(queue'[j][m]) : EventOK(m, e)
    BY <1>2 DEF IInv, Versions
  <2> QED BY <1>1, <2>1 DEF Versions, EventOK
<1>6. Origins'
  <2>1. \A j \in Nodes : \A n \in Networks :
            kind[n] = NadKind /\ known'[j][n].ver # 0 => IsOf(n, known'[j][n].spec)
    BY <1>3, <1>4 DEF IInv, Origins, Handles, NoKnown
  <2>2. \A n \in Networks : InApi(n) => IsOf(n, api[n].spec)
    BY DEF IInv, Origins
  <2>3. \A j \in Nodes : \A m \in Kinds : \A e \in ToSet(queue'[j][m]) :
            e.type = "put" => IsOf(e.net, e.obj.spec)
    BY <1>2 DEF IInv, Origins
  <2> QED BY <1>1, <2>1, <2>2, <2>3 DEF Origins, IsOf, InApi
<1>7. Pending'
  <2>1. ASSUME NEW n \in Networks, kind[n] = NadKind, api[n].ver # 0, HasVni(api[n].spec),
               n \notin unpatched, ~IsNamed(api[n].spec), NEW j \in Nodes,
               watch[j][NadKind] = "up"
        PROVE  Event("put", n, api[n]) \in ToSet(queue'[j][NadKind])
    <3>1. Event("put", n, api[n]) \in ToSet(queue[j][NadKind])
      BY <2>1 DEF IInv, Pending, IsSettled, InApi, Waits
    <3>2. k = NadKind => Event("put", n, api[n]) # NextEvent(i, k)
      BY DEF Handles, Event
    <3> QED BY <1>1, <1>2, <3>1, <3>2
  <2> QED BY <1>1, <2>1 DEF Pending, IsSettled, InApi, Waits, IsNamed, HasVni
<1> QED BY <1>1, <1>5, <1>6, <1>7, SameObjects

\* A NAD handler: the patch it writes reaches all watchers and names the interface.
LEMMA NadPreserves ==
    ASSUME IInv, NEW i \in Nodes, NEW f, HandlesNad(i, f)
    PROVE  Versions' /\ Origins' /\ Pending' /\ Patches'
<1>1. /\ TypeOK /\ NadKind \in Kinds /\ rev \in Nat /\ api \in [Networks -> Objects]
      /\ queue[i][NadKind] # <<>> /\ f = NextEvent(i, NadKind)
      /\ UNCHANGED <<kind, edits, watch>>
  BY QueueTypes DEF IInv, TypeOK, HandlesNad
<1>2. PICK n \in Networks : n = f.net
  BY <1>1, EventObjects
<1>3. kind[n] = NadKind
  BY <1>1, <1>2, NadEvent DEF IInv
<1>4. PICK q : q = Popped(i, NadKind)
  OBVIOUS
<1>5. \A j \in Nodes : \A k \in Kinds :
          /\ ToSet(q[j][k]) \subseteq ToSet(queue[j][k])
          /\ \A e \in ToSet(queue[j][k]) :
                e \in ToSet(q[j][k]) \/ (j = i /\ k = NadKind /\ e = f)
  <2>1. Loses(q, i, NadKind, f)
    BY <1>1, <1>4, PoppedQueues
  <2> QED BY <2>1 DEF Loses
<1>6. \A j \in Nodes : \A m \in Networks :
          kind[m] = NadKind /\ known'[j][m].ver # 0 => IsOf(m, known'[j][m].spec)
  BY <1>2 DEF HandlesNad, IInv, Origins
<1>7. unpatched \ {n} \subseteq unpatched'
  BY <1>2 DEF HandlesNad
<1>8. CASE Keeps(i, f)
  <2>1. queue' = q /\ UNCHANGED <<api, rev>>
    BY <1>4, <1>8 DEF Keeps
  <2>2. Versions'
    <3>1. \A j \in Nodes : \A k \in Kinds : \A e \in ToSet(queue'[j][k]) : EventOK(k, e)
      BY <1>5, <2>1 DEF IInv, Versions
    <3> QED BY <1>1, <2>1, <3>1 DEF Versions, EventOK
  <2>3. Origins'
    <3>1. \A m \in Networks : InApi(m) => IsOf(m, api[m].spec)
      BY DEF IInv, Origins
    <3>2. \A j \in Nodes : \A k \in Kinds : \A e \in ToSet(queue'[j][k]) :
              e.type = "put" => IsOf(e.net, e.obj.spec)
      BY <1>5, <2>1 DEF IInv, Origins
    <3> QED BY <1>1, <1>6, <2>1, <3>1, <3>2 DEF Origins, IsOf, InApi
  <2>4. Pending'
    <3>1. ASSUME NEW m \in Networks, kind[m] = NadKind, api[m].ver # 0, HasVni(api[m].spec),
                 m \notin unpatched', ~IsNamed(api[m].spec), NEW j \in Nodes,
                 watch[j][NadKind] = "up"
          PROVE  Event("put", m, api[m]) \in ToSet(queue'[j][NadKind])
      <4>1. m = n => n \notin unpatched /\ f # Event("put", n, api[n])
        BY <1>2, <1>8, <3>1 DEF Keeps
      <4>2. m \notin unpatched
        BY <1>7, <3>1, <4>1
      <4>3. Event("put", m, api[m]) \in ToSet(queue[j][NadKind])
        BY <3>1, <4>2 DEF IInv, Pending, IsSettled, InApi, Waits
      <4>4. Event("put", m, api[m]) # f
        BY <1>2, <4>1 DEF Event
      <4> QED BY <1>1, <1>5, <2>1, <4>3, <4>4
    <3> QED BY <1>1, <2>1, <3>1 DEF Pending, IsSettled, InApi, Waits, IsNamed, HasVni
  <2> QED BY <1>1, <2>1, <2>2, <2>3, <2>4, SameObjects
<1>9. CASE \E p : PatchesTo(i, f, p)
  <2>1. PICK p : PatchesTo(i, f, p)
    BY <1>9
  <2>2. PICK obj : obj = [spec |-> p, ver |-> rev + 1]
    OBVIOUS
  <2>3. PICK ev : ev = Event("put", n, obj)
    OBVIOUS
  <2>4. api' = [api EXCEPT ![n] = obj] /\ rev' = rev + 1 /\ Told(q, queue', n, ev)
    BY <1>1, <1>2, <1>4, <2>1, <2>2, <2>3, PatchWritten
  <2>5. /\ api'[n] = obj /\ \A m \in Networks \ {n} : api'[m] = api[m]
        /\ obj.spec = p /\ obj.ver = rev + 1
    BY <1>1, <2>2, <2>4
  <2>6. /\ f = Event("put", n, api[n]) /\ p \in AnySpec /\ p # api[n].spec
        /\ p = PatchCniConf(api[n].spec, p.device) /\ HasVni(p)
        /\ n \notin unpatched' \/ FollowedAlike => IsNamed(p)
    BY <1>2, <2>1 DEF PatchesTo
  <2>7. ev.net = n /\ ev.type = "put" /\ ev.obj = obj
    BY <2>3 DEF Event
  <2>8. \A j \in Nodes : \A k \in Kinds :
            /\ ToSet(q[j][k]) \subseteq ToSet(queue'[j][k])
            /\ kind[n] = k /\ watch[j][k] = "up" => ev \in ToSet(queue'[j][k])
            /\ \A e \in ToSet(queue'[j][k]) : e \in ToSet(q[j][k]) \/ (e = ev /\ kind[n] = k)
    BY <2>4 DEF Told, IsTold
  <2>9. /\ api[n].spec \in AnySpec /\ p.id = api[n].spec.id /\ p.vlan = api[n].spec.vlan
        /\ p.vxlan = api[n].spec.vxlan /\ p.device # api[n].spec.device
    <3>1. api[n].spec \in AnySpec /\ p.device \in Parents
      BY <1>1, <2>6, SpecFields DEF Objects
    <3> QED BY <2>6, <3>1, Patched
  <2>10. IsOf(n, p)
    <3>1. f.type = "put" /\ f.obj = api[n]
      BY <2>6 DEF Event
    <3>2. IsOf(n, api[n].spec)
      BY <1>1, <1>2, <3>1, NadEvent DEF IInv
    <3> QED BY <2>9, <3>2 DEF IsOf
  <2>11. Versions'
    <3>1. ASSUME NEW j \in Nodes, NEW k \in Kinds, NEW e \in ToSet(queue'[j][k])
          PROVE  /\ kind[e.net] = k
                 /\ e.type = "put" =>
                       e.obj.ver # 0 /\ (e.obj.ver = api'[e.net].ver => e.obj = api'[e.net])
      <4>1. CASE e \in ToSet(q[j][k])
        <5>1. e \in ToSet(queue[j][k])
          BY <1>5, <4>1
        <5>2. EventOK(k, e)
          BY <5>1 DEF IInv, Versions
        <5>3. e.net \in Networks /\ e.obj.ver \in 0 .. rev
          BY <1>1, <5>1, QueuedEvent
        <5>4. e.net = n => e.obj.ver # api'[n].ver
          BY <1>1, <2>5, <5>3
        <5> QED BY <2>5, <5>2, <5>3, <5>4 DEF EventOK
      <4>2. CASE e = ev /\ kind[n] = k
        BY <1>1, <2>5, <2>7, <4>2
      <4> QED BY <2>8, <4>1, <4>2
    <3> QED BY <1>1, <3>1 DEF Versions, EventOK
  <2>12. Origins'
    <3>1. \A m \in Networks : api'[m].ver # 0 => IsOf(m, api'[m].spec)
      BY <2>5, <2>10 DEF IInv, Origins, InApi
    <3>2. \A j \in Nodes : \A k \in Kinds : \A e \in ToSet(queue'[j][k]) :
              e.type = "put" => IsOf(e.net, e.obj.spec)
      <4>1. IsOf(ev.net, ev.obj.spec)
        BY <2>5, <2>7, <2>10
      <4>2. \A j \in Nodes : \A k \in Kinds : \A e \in ToSet(queue[j][k]) :
                e.type = "put" => IsOf(e.net, e.obj.spec)
        BY DEF IInv, Origins
      <4>3. \A j \in Nodes : \A k \in Kinds : \A e \in ToSet(queue'[j][k]) :
                e \in ToSet(queue[j][k]) \/ e = ev
        BY <1>5, <2>8
      <4> QED BY <4>1, <4>2, <4>3, Zenon
    <3> QED BY <1>1, <1>6, <3>1, <3>2 DEF Origins, IsOf, InApi
  <2>13. Pending'
    <3>1. ASSUME NEW m \in Networks, kind[m] = NadKind, api'[m].ver # 0, HasVni(api'[m].spec),
                 m \notin unpatched', ~IsNamed(api'[m].spec), NEW j \in Nodes,
                 watch[j][NadKind] = "up"
          PROVE  Event("put", m, api'[m]) \in ToSet(queue'[j][NadKind])
      <4>1. m # n
        BY <2>5, <2>6, <3>1
      <4>2. api'[m] = api[m] /\ m \notin unpatched
        BY <1>7, <2>5, <3>1, <4>1
      <4>3. Event("put", m, api[m]) \in ToSet(queue[j][NadKind])
        BY <3>1, <4>2 DEF IInv, Pending, IsSettled, InApi, Waits
      <4>4. Event("put", m, api[m]) # f
        BY <1>2, <4>1 DEF Event
      <4> QED BY <1>1, <1>5, <2>8, <4>2, <4>3, <4>4
    <3> QED BY <1>1, <3>1 DEF Pending, IsSettled, InApi, Waits, IsNamed, HasVni
  <2>14. Patches'
    <3>1. PICK U : U = Unnamed
      OBVIOUS
    <3>2. PICK V : V = Unnamed'
      OBVIOUS
    <3>3. FollowedAlike => n \in U /\ n \notin V
      <4>1. api[n].ver # 0
        <5>1. f.type = "put" /\ f.obj = api[n]
          BY <2>6 DEF Event
        <5> QED BY <1>1, <1>2, <5>1, NadEvent DEF IInv
      <4>2. DetermineHostDeviceName(p) = DetermineHostDeviceName(api[n].spec)
        BY <2>6, <2>9 DEF DetermineHostDeviceName, determineVlanHdev, HasVni
      <4>3. IsNamed(p) => ~IsNamed(api[n].spec)
        BY <2>9, <4>2 DEF IsNamed
      <4> QED BY <1>3, <2>5, <2>6, <3>1, <3>2, <4>1, <4>3 DEF Unnamed, InApi, IsNamed
    <3>4. V \subseteq U \cup {n}
      BY <1>1, <2>5, <3>1, <3>2 DEF Unnamed, InApi, IsNamed
    <3>5. IsFiniteSet(U) /\ Cardinality(U) \in Nat
      BY <3>1, UnnamedFinite
    <3>6. ASSUME FollowedAlike
          PROVE  rev' + Cardinality(V) <= 2 * edits
      <4>1. V \subseteq U \ {n} /\ n \in U
        BY <3>3, <3>4, <3>6
      <4>2. IsFiniteSet(U \ {n}) /\ Cardinality(U \ {n}) = Cardinality(U) - 1
        BY <3>5, <4>1, FS_RemoveElement
      <4>3. Cardinality(V) \in Nat /\ Cardinality(V) <= Cardinality(U) - 1
        BY <4>1, <4>2, FS_Subset, FS_CardinalityType
      <4>4. rev + Cardinality(U) <= 2 * edits
        BY <3>1, <3>6 DEF IInv, Patches
      <4>5. edits \in Nat
        BY <1>1, WatcherAssumption DEF TypeOK
      <4> QED BY <1>1, <2>4, <3>5, <4>3, <4>4, <4>5
    <3> QED BY <1>1, <3>2, <3>6 DEF Patches, FollowedAlike
  <2> QED BY <2>11, <2>12, <2>13, <2>14
<1> QED BY <1>8, <1>9 DEF HandlesNad

-----------------------------------------------------------------------------
(* Theorems                                                                  *)

LEMMA InitIInv == Init => IInv
<1> SUFFICES ASSUME Init PROVE IInv
  OBVIOUS
<1>1. NoObj \in Objects /\ NoKnown \in [spec : AnySpec, orig : AnySpec, ver : 0 .. rev]
  BY NoSpecType DEF Init, Objects, NoObj, NoKnown
<1>2. [k \in Kinds |-> <<>>] \in [Kinds -> Seq(Events)]
  OBVIOUS
<1>3. TypeOK
  BY <1>1, <1>2, WatcherAssumption DEF Init, TypeOK
<1>4. ToSet(<<>>) = {}
  BY DEF ToSet
<1>5. /\ \A i \in Nodes : \A k \in Kinds : ToSet(queue[i][k]) = {}
      /\ \A n \in Networks : api[n].ver = 0 /\ \A i \in Nodes : known[i][n].ver = 0
  BY <1>4 DEF Init, NoObj, NoKnown
<1>6. Versions /\ Origins /\ Pending
  BY <1>5 DEF Versions, Origins, Pending, IsSettled, InApi
<1>7. Unnamed = {}
  BY <1>5 DEF Unnamed, InApi
<1>8. Patches
  BY <1>7, FS_EmptySet DEF Patches, Init
<1> QED BY <1>3, <1>6, <1>8 DEF IInv

\* Every step is one of four: a user writes, informers list, a handler does not write, a
\* handler of NADs.
UserStep ==
    \E n \in Networks, obj \in [spec : AnySpec, ver : 0 .. rev + 1] :
        UserWrites(n, obj) /\ (obj = NoObj \/ (obj.ver = rev + 1 /\ IsOf(n, obj.spec)))

LEMMA Steps ==
    ASSUME IInv, Next
    PROVE  /\ TypeOK'
           /\ \/ UserStep
              \/ Lists
              \/ \E i \in Nodes : \E k \in Kinds : Handles(i, k)
              \/ \E i \in Nodes : \E e : HandlesNad(i, e)
<1>1. TypeOK /\ Versions /\ Origins
  BY DEF IInv
<1>2. /\ DanmNetKind \in Kinds \ {NadKind} /\ TenantNetworkKind \in Kinds \ {NadKind}
      /\ ClusterNetworkKind \in Kinds \ {NadKind} /\ NadKind \in Kinds
  BY DEF Kinds, DanmNetKind, TenantNetworkKind, ClusterNetworkKind, NadKind
<1>3. CASE Users
  <2>1. PICK n \in Networks : PutNetwork(n) \/ DeleteNetwork(n)
    BY <1>3 DEF Users
  <2>2. PICK obj :
            /\ obj \in [spec : AnySpec, ver : 0 .. rev + 1]
            /\ UserWrites(n, obj)
            /\ obj = NoObj \/ (obj.ver = rev + 1 /\ IsOf(n, obj.spec))
    BY <1>1, <2>1, UserObject
  <2>3. TypeOK'
    BY <1>1, <2>2, UserTypes
  <2> QED BY <2>2, <2>3 DEF UserStep
<1>4. ASSUME NEW i \in Nodes, Informers(i)
      PROVE  TypeOK' /\ Lists
  BY <1>1, <1>4, ResyncStep, WatchClosedStep, RelistStep DEF Informers
<1>5. ASSUME NEW i \in Nodes, NewWatcher(i)
      PROVE  TypeOK' /\ Lists
  BY <1>1, <1>5, StartStep
<1>6. ASSUME NEW i \in Nodes, NEW reboots \in BOOLEAN, WatchErrorHandler(i, reboots)
      PROVE  TypeOK' /\ Lists
  BY <1>1, <1>6, CrashStep
<1>7. ASSUME NEW i \in Nodes, Handlers(i)
      PROVE  TypeOK' /\ \E k \in Kinds : Handles(i, k)
  <2>1. PICK fault :
            \/ AddDanmNet(i, fault) \/ UpdateDanmNet(i, fault) \/ DeleteDanmNet(i, fault)
            \/ AddTenantNetwork(i, fault) \/ UpdateTenantNetwork(i, fault)
            \/ DeleteTenantNetwork(i, fault)
            \/ AddClusterNetwork(i, fault) \/ UpdateClusterNetwork(i, fault)
            \/ DeleteClusterNetwork(i, fault)
    BY <1>7 DEF Handlers
  <2>2. PICK k \in Kinds \ {NadKind} :
            \/ AddNetwork(i, k, fault)
            \/ k = DanmNetKind /\ UpdateDanmNet(i, fault)
            \/ UpdateConverted(i, k, fault)
            \/ DeleteOf(i, k, fault)
    BY <1>2, <2>1, Zenon DEF AddDanmNet, DeleteDanmNet, AddTenantNetwork, UpdateTenantNetwork,
        DeleteTenantNetwork, AddClusterNetwork, UpdateClusterNetwork, DeleteClusterNetwork
  <2>3. TypeOK' /\ Handles(i, k)
    BY <1>1, <2>2, AddStep, UpdateStep, DeleteStep
  <2> QED BY <2>3
<1>8. ASSUME NEW i \in Nodes, NadHandlers(i)
      PROVE  TypeOK' /\ ((\E k \in Kinds : Handles(i, k)) \/ \E e : HandlesNad(i, e))
  <2>1. PICK fault : AddNad(i, fault) \/ UpdateNad(i, fault) \/ DeleteNad(i, fault)
    BY <1>8 DEF NadHandlers
  <2>2. CASE AddNad(i, fault)
    BY <1>1, <2>2, AddNadStep, AddNadTypes
  <2>3. CASE UpdateNad(i, fault)
    BY <1>1, <2>3, UpdateNadStep, UpdateNadTypes
  <2>4. CASE DeleteNad(i, fault)
    BY <1>1, <1>2, <2>4, DeleteStep DEF DeleteNad
  <2> QED BY <2>1, <2>2, <2>3, <2>4
<1> QED BY <1>3, <1>4, <1>5, <1>6, <1>7, <1>8 DEF Next

LEMMA NextIInv == IInv /\ [Next]_vars => IInv'
<1> SUFFICES ASSUME IInv, [Next]_vars PROVE IInv'
  OBVIOUS
<1>1. CASE Next
  <2>1. TypeOK'
    BY <1>1, Steps
  <2>2. CASE UserStep
    <3>1. PICK n \in Networks, obj \in [spec : AnySpec, ver : 0 .. rev + 1] :
              UserWrites(n, obj) /\ (obj = NoObj \/ (obj.ver = rev + 1 /\ IsOf(n, obj.spec)))
      BY <2>2 DEF UserStep
    <3>2. Versions' /\ Origins' /\ Pending' /\ Patches'
      BY <3>1, UserPreserves
    <3> QED BY <2>1, <3>2 DEF IInv
  <2>3. CASE Lists
    BY <2>1, <2>3, ListsPreserve DEF IInv
  <2>4. ASSUME NEW i \in Nodes, NEW k \in Kinds, Handles(i, k)
        PROVE  IInv'
    <3>1. Versions' /\ Origins' /\ Pending' /\ Patches'
      BY <2>4, HandlesPreserve
    <3> QED BY <2>1, <3>1 DEF IInv
  <2>5. ASSUME NEW i \in Nodes, NEW e, HandlesNad(i, e)
        PROVE  IInv'
    <3>1. Versions' /\ Origins' /\ Pending' /\ Patches'
      BY <2>5, NadPreserves
    <3> QED BY <2>1, <3>1 DEF IInv
  <2> QED BY <1>1, <2>2, <2>3, <2>4, <2>5, Steps
<1>2. CASE UNCHANGED vars
  <2>1. UNCHANGED <<kind, api, rev, watch, queue, known, links, edits, upsets, excused, unpatched>>
    BY <1>2 DEF vars, bounds, history
  <2>2. TypeOK'
    BY <2>1 DEF IInv, TypeOK, Events, Objects
  <2>3. Lists
    BY <2>1 DEF Lists
  <2> QED BY <2>2, <2>3, ListsPreserve DEF IInv
<1> QED BY <1>1, <1>2

\* The inductive invariant holds in every reachable state.
THEOREM IInvHolds == Spec => []IInv
BY InitIInv, NextIInv, PTL DEF Spec

\* The variables have their types, and no two interfaces of a node have the same name.
THEOREM TypeCorrect == Spec => []TypeOK
<1>1. IInv => TypeOK
  BY DEF IInv
<1> QED BY <1>1, IInvHolds, PTL

\* Once all watchers are done with a NAD, its CNI configuration names the host interface
\* of the NAD (netcontrol.go), for any number of nodes.
THEOREM NadsNameTheirLinkAlways == Spec => []NadsNameTheirLink
<1>1. IInv => NadsNameTheirLink
  <2> SUFFICES ASSUME IInv, NEW n \in Networks, kind[n] = NadKind, InApi(n),
                      HasVni(api[n].spec), n \notin unpatched,
                      \A i \in Nodes : IsUpToDate(i, n)
               PROVE  api[n].spec.device = DetermineHostDeviceName(api[n].spec)
    BY DEF NadsNameTheirLink
  <2>1. PICK i \in Nodes : watch[i][NadKind] = "up" /\ queue[i][NadKind] = <<>>
    BY WatcherAssumption DEF IsUpToDate
  <2>2. ToSet(<<>>) = {}
    BY DEF ToSet
  <2>3. ~Waits(i, n)
    BY <2>1, <2>2 DEF Waits
  <2> QED BY <2>3 DEF IInv, Pending, IsSettled, IsNamed
<1> QED BY <1>1, IInvHolds, PTL

\* The watchers of all nodes patch a NAD at most once per change of a user.
THEOREM OnePatchPerEditAlways == Spec => []OnePatchPerEdit
<1>1. IInv => OnePatchPerEdit
  <2>1. IInv => rev \in Nat /\ edits \in Nat
    BY WatcherAssumption DEF IInv, TypeOK
  <2> QED BY <2>1, UnnamedFinite DEF IInv, Patches, OnePatchPerEdit
<1> QED BY <1>1, IInvHolds, PTL

\* A watcher never overwrites what a user has written to a NAD: the PUT carries the version
\* of the object it was made from (netcontrol.go).
THEOREM PatchesKeepEditsAlways == Spec => PatchesKeepEdits
<1> DEFINE Kept == \A n \in Networks : edits' = edits =>
                       api'[n].spec = [api[n].spec EXCEPT !.device = api'[n].spec.device]
<1>1. IInv /\ [Next]_vars => [Kept]_vars
  <2> SUFFICES ASSUME IInv, Next PROVE Kept
    OBVIOUS
  <2>1. TypeOK /\ \A n \in Networks : api[n].spec \in AnySpec
    BY DEF IInv, TypeOK, Objects
  <2>2. api' = api => Kept
    BY <2>1, SpecFields
  <2>3. CASE UserStep
    <3>1. edits' = edits + 1 /\ edits \in Nat
      BY <2>1, <2>3, WatcherAssumption DEF UserStep, UserWrites, TypeOK
    <3> QED BY <3>1
  <2>4. ASSUME NEW i \in Nodes, NEW e, HandlesNad(i, e)
        PROVE  Kept
    <3>1. CASE Keeps(i, e)
      BY <2>2, <3>1 DEF Keeps
    <3>2. ASSUME NEW p, PatchesTo(i, e, p)
          PROVE  Kept
      <4>1. /\ e.net \in Networks
            /\ api' = [api EXCEPT ![e.net] = [spec |-> p, ver |-> rev + 1]]
        BY <2>1, <2>4, <3>2, PatchWritten
      <4>2. api'[e.net].spec = p /\ \A n \in Networks \ {e.net} : api'[n] = api[n]
        BY <4>1 DEF IInv, TypeOK
      <4>3. p = [api[e.net].spec EXCEPT !.device = p.device]
        BY <3>2 DEF PatchesTo, PatchCniConf
      <4> QED BY <2>1, <4>2, <4>3, SpecFields
    <3> QED BY <2>4, <3>1, <3>2 DEF HandlesNad
  <2> QED BY <2>2, <2>3, <2>4, Steps DEF Lists, Handles
<1> QED BY <1>1, IInvHolds, PTL DEF Spec, PatchesKeepEdits

-----------------------------------------------------------------------------
(* What the events of a queue say of a network                               *)

\* The spec a network has after an event, for the informer, in the API server: none or one.
Concerns(e, n) == e.net = n /\ e.type # "sync"
Content(e) == IF e.type = "put" THEN <<e.obj.spec>> ELSE <<>>
Held(o) == IF o.ver # 0 THEN <<o.orig>> ELSE <<>>
Stored(n) == IF InApi(n) THEN <<api[n].spec>> ELSE <<>>

\* The events of the network between two places of the queue all say x.
Say(q, n, a, b, x) ==
    \A j \in DOMAIN q : a < j /\ j < b /\ Concerns(q[j], n) => Content(q[j]) = x

\* What was said last of the network before place m of the queue is x.
IsSaid(q, o, n, m, x) ==
    \/ \E j \in DOMAIN q :
          j < m /\ Concerns(q[j], n) /\ Content(q[j]) = x /\ Say(q, n, j, m, x)
    \/ Held(o) = x /\ Say(q, n, 0, m, x)

\* What is said first of the network is said at place j.
Leads(q, n, j) ==
    /\ j \in DOMAIN q /\ Concerns(q[j], n) /\ q[j].type = "put"
    /\ Say(q, n, 0, j, Content(q[j]))

\* The handler of the first event knows what it says.
Learns(q, n, o, p) == Held(p) = IF Concerns(q[1], n) THEN Content(q[1]) ELSE Held(o)

LEMMA Shifted ==
    ASSUME NEW S, NEW q \in Seq(S), q # <<>>
    PROVE  /\ Tail(q) \in Seq(S) /\ Len(Tail(q)) = Len(q) - 1 /\ Len(q) \in Nat \ {0}
           /\ DOMAIN q = 1 .. Len(q) /\ DOMAIN Tail(q) = 1 .. Len(q) - 1
           /\ \A j \in 1 .. Len(q) - 1 : Tail(q)[j] = q[j + 1]
           /\ Head(q) = q[1]
OBVIOUS

LEMMA SayShifted ==
    ASSUME NEW S, NEW q \in Seq(S), q # <<>>, NEW n, NEW a \in Nat, NEW b \in Nat, NEW x,
           Say(q, n, a, b, x)
    PROVE  \A c \in Int : a - 1 <= c => Say(Tail(q), n, c, b - 1, x)
<1>1. PICK t : t = Tail(q)
  OBVIOUS
<1>2. /\ DOMAIN q = 1 .. Len(q) /\ DOMAIN t = 1 .. Len(q) - 1 /\ Len(q) \in Nat
      /\ \A j \in 1 .. Len(q) - 1 : t[j] = q[j + 1]
  BY <1>1, Shifted
<1>3. SUFFICES ASSUME NEW c \in Int, a - 1 <= c, NEW j \in DOMAIN t, c < j, j < b - 1,
                      Concerns(t[j], n)
               PROVE  Content(t[j]) = x
  BY <1>1 DEF Say
<1>4. j + 1 \in DOMAIN q /\ a < j + 1 /\ j + 1 < b /\ q[j + 1] = t[j]
  BY <1>2, <1>3
<1> QED BY <1>3, <1>4 DEF Say

LEMMA SaidAfterPop ==
    ASSUME NEW S, NEW q \in Seq(S), q # <<>>, NEW o, NEW p, NEW n,
           NEW m \in Nat, m > 1, NEW x, IsSaid(q, o, n, m, x), Learns(q, n, o, p)
    PROVE  IsSaid(Tail(q), p, n, m - 1, x)
<1>1. PICK t : t = Tail(q)
  OBVIOUS
<1>2. /\ DOMAIN q = 1 .. Len(q) /\ DOMAIN t = 1 .. Len(q) - 1 /\ Len(q) \in Nat \ {0}
      /\ \A j \in 1 .. Len(q) - 1 : t[j] = q[j + 1]
  BY <1>1, Shifted
<1>3. ASSUME NEW j \in DOMAIN q, j < m, Concerns(q[j], n), Content(q[j]) = x, Say(q, n, j, m, x)
      PROVE  IsSaid(t, p, n, m - 1, x)
  <2>0. j \in Nat
    BY <1>2
  <2>1. Say(t, n, j - 1, m - 1, x)
    BY <1>1, <1>3, <2>0, SayShifted
  <2>2. CASE j = 1
    <3>1. Held(p) = x
      BY <1>3, <2>2 DEF Learns
    <3> QED BY <2>1, <2>2, <3>1 DEF IsSaid
  <2>3. CASE j # 1
    <3>1. j - 1 \in DOMAIN t /\ t[j - 1] = q[j] /\ j - 1 < m - 1
      BY <1>2, <1>3, <2>3
    <3> QED BY <1>3, <2>1, <3>1 DEF IsSaid
  <2> QED BY <2>2, <2>3
<1>4. CASE Held(o) = x /\ Say(q, n, 0, m, x)
  <2>1. Say(t, n, 0, m - 1, x)
    BY <1>1, <1>4, SayShifted
  <2>2. Held(p) = x
    BY <1>2, <1>4 DEF Learns, Say
  <2> QED BY <1>1, <2>1, <2>2 DEF IsSaid
<1> QED BY <1>1, <1>3, <1>4 DEF IsSaid

LEMMA LeadsAfterPop ==
    ASSUME NEW S, NEW q \in Seq(S), q # <<>>, NEW n, NEW j, Leads(q, n, j)
    PROVE  /\ ~Concerns(q[1], n) => /\ j - 1 \in DOMAIN Tail(q) /\ Tail(q)[j - 1] = q[j]
                                    /\ Leads(Tail(q), n, j - 1)
           /\ Concerns(q[1], n) => Content(q[1]) = Content(q[j])
<1>1. PICK t : t = Tail(q)
  OBVIOUS
<1>2. /\ DOMAIN q = 1 .. Len(q) /\ DOMAIN t = 1 .. Len(q) - 1 /\ Len(q) \in Nat \ {0}
      /\ \A a \in 1 .. Len(q) - 1 : t[a] = q[a + 1]
  BY <1>1, Shifted
<1>3. j \in 1 .. Len(q) /\ j \in Nat /\ Say(q, n, 0, j, Content(q[j]))
  BY <1>2 DEF Leads
<1>4. Say(t, n, 0, j - 1, Content(q[j]))
  BY <1>1, <1>3, SayShifted
<1>5. ~Concerns(q[1], n) => j - 1 \in DOMAIN t /\ t[j - 1] = q[j]
  BY <1>2, <1>3 DEF Leads
<1>6. Concerns(q[1], n) => Content(q[1]) = Content(q[j])
  BY <1>2, <1>3 DEF Say
<1> QED BY <1>1, <1>4, <1>5, <1>6 DEF Leads

LEMMA Lengthened ==
    ASSUME NEW S, NEW q \in Seq(S), NEW p \in Seq(S), NEW r, r = q \o p
    PROVE  /\ r \in Seq(S) /\ Len(q) \in Nat /\ Len(p) \in Nat /\ Len(r) = Len(q) + Len(p)
           /\ DOMAIN q = 1 .. Len(q) /\ DOMAIN p = 1 .. Len(p) /\ DOMAIN r = 1 .. Len(q) + Len(p)
           /\ \A j \in 1 .. Len(q) : r[j] = q[j]
           /\ \A j \in 1 .. Len(p) : r[Len(q) + j] = p[j]
           /\ \A j \in 1 .. Len(r) : j > Len(q) => r[j] \in ToSet(p)
<1>1. /\ r \in Seq(S) /\ Len(q) \in Nat /\ Len(p) \in Nat /\ Len(r) = Len(q) + Len(p)
      /\ DOMAIN q = 1 .. Len(q) /\ DOMAIN p = 1 .. Len(p) /\ DOMAIN r = 1 .. Len(q) + Len(p)
      /\ \A j \in 1 .. Len(q) : r[j] = q[j]
      /\ \A j \in 1 .. Len(p) : r[Len(q) + j] = p[j]
  OBVIOUS
<1>2. ASSUME NEW j \in 1 .. Len(r), j > Len(q)
      PROVE  r[j] \in ToSet(p)
  <2>1. j - Len(q) \in 1 .. Len(p) /\ Len(q) + (j - Len(q)) = j
    BY <1>1, <1>2
  <2>2. r[j] = p[j - Len(q)] /\ j - Len(q) \in DOMAIN p
    BY <1>1, <2>1
  <2> QED BY <2>2 DEF ToSet
<1> QED BY <1>1, <1>2

\* Events that come later change nothing about what was said before.
LEMMA SaidBefore ==
    ASSUME NEW S, NEW q \in Seq(S), NEW p \in Seq(S), NEW r, r = q \o p, NEW o, NEW n,
           NEW m \in 1 .. Len(q) + 1, NEW x, IsSaid(q, o, n, m, x)
    PROVE  IsSaid(r, o, n, m, x)
<1>1. /\ Len(q) \in Nat /\ DOMAIN q = 1 .. Len(q) /\ DOMAIN r = 1 .. Len(q) + Len(p)
      /\ Len(p) \in Nat /\ \A j \in 1 .. Len(q) : r[j] = q[j]
  BY Lengthened
<1>2. ASSUME NEW a, Say(q, n, a, m, x)
      PROVE  Say(r, n, a, m, x)
  <2> SUFFICES ASSUME NEW j \in DOMAIN r, a < j, j < m, Concerns(r[j], n)
               PROVE  Content(r[j]) = x
    BY DEF Say
  <2>1. j \in DOMAIN q /\ r[j] = q[j]
    BY <1>1
  <2> QED BY <1>2, <2>1 DEF Say
<1>3. ASSUME NEW j \in DOMAIN q
      PROVE  j \in DOMAIN r /\ r[j] = q[j]
  BY <1>1
<1> QED BY <1>2, <1>3 DEF IsSaid

LEMMA LeadsBefore ==
    ASSUME NEW S, NEW q \in Seq(S), NEW p \in Seq(S), NEW r, r = q \o p, NEW n, NEW j,
           Leads(q, n, j)
    PROVE  Leads(r, n, j) /\ r[j] = q[j]
<1>1. /\ Len(q) \in Nat /\ DOMAIN q = 1 .. Len(q) /\ DOMAIN r = 1 .. Len(q) + Len(p)
      /\ Len(p) \in Nat /\ \A a \in 1 .. Len(q) : r[a] = q[a]
  BY Lengthened
<1>2. j \in 1 .. Len(q) /\ j \in DOMAIN r /\ r[j] = q[j]
  BY <1>1 DEF Leads
<1>3. Say(r, n, 0, j, Content(q[j]))
  <2> SUFFICES ASSUME NEW a \in DOMAIN r, 0 < a, a < j, Concerns(r[a], n)
               PROVE  Content(r[a]) = Content(q[j])
    BY DEF Say
  <2>1. a \in DOMAIN q /\ r[a] = q[a]
    BY <1>1, <1>2
  <2> QED BY <2>1 DEF Leads, Say
<1> QED BY <1>2, <1>3 DEF Leads

\* After events that all say x, at least one of them or what was said before.
LEMMA SaidAfter ==
    ASSUME NEW S, NEW q \in Seq(S), NEW p \in Seq(S), NEW r, r = q \o p, NEW o, NEW n, NEW x,
           \A e \in ToSet(p) : Concerns(e, n) => Content(e) = x,
           (\E e \in ToSet(p) : Concerns(e, n)) \/ IsSaid(q, o, n, Len(q) + 1, x)
    PROVE  IsSaid(r, o, n, Len(r) + 1, x)
<1>0. /\ Len(q) \in Nat /\ Len(p) \in Nat /\ Len(r) = Len(q) + Len(p)
      /\ DOMAIN q = 1 .. Len(q) /\ DOMAIN p = 1 .. Len(p) /\ DOMAIN r = 1 .. Len(q) + Len(p)
      /\ \A j \in 1 .. Len(q) : r[j] = q[j]
      /\ \A j \in 1 .. Len(p) : r[Len(q) + j] = p[j]
  OBVIOUS
<1>1. /\ DOMAIN r = 1 .. Len(r)
      /\ \A j \in DOMAIN r : j > Len(q) => r[j] \in ToSet(p)
  BY <1>0, Lengthened
<1>2. CASE \E e \in ToSet(p) : Concerns(e, n)
  <2>1. PICK j \in 1 .. Len(p) : Concerns(p[j], n)
    BY <1>0, <1>1, <1>2 DEF ToSet
  <2>2. Len(q) + j \in DOMAIN r /\ r[Len(q) + j] = p[j] /\ Len(q) + j < Len(r) + 1
    BY <1>0, <1>1, <2>1
  <2>3. Content(r[Len(q) + j]) = x
    BY <1>0, <1>1, <2>1, <2>2 DEF ToSet
  <2>4. Say(r, n, Len(q) + j, Len(r) + 1, x)
    BY <1>0, <1>1, <2>1 DEF Say
  <2> QED BY <2>1, <2>2, <2>3, <2>4 DEF IsSaid
<1>3. CASE IsSaid(q, o, n, Len(q) + 1, x)
  <2>1. ASSUME NEW a, Say(q, n, a, Len(q) + 1, x)
        PROVE  Say(r, n, a, Len(r) + 1, x)
    <3> SUFFICES ASSUME NEW j \in DOMAIN r, a < j, Concerns(r[j], n)
                 PROVE  Content(r[j]) = x
      BY DEF Say
    <3>1. CASE j <= Len(q)
      <4>1. j \in DOMAIN q /\ r[j] = q[j] /\ j < Len(q) + 1
        BY <1>0, <1>1, <3>1
      <4> QED BY <2>1, <4>1 DEF Say
    <3>2. CASE j > Len(q)
      BY <1>0, <1>1, <3>2
    <3> QED BY <1>0, <1>1, <3>1, <3>2
  <2>2. ASSUME NEW j \in DOMAIN q
        PROVE  j \in DOMAIN r /\ r[j] = q[j] /\ j < Len(r) + 1
    BY <1>0, <1>1
  <2> QED BY <1>3, <2>1, <2>2 DEF IsSaid
<1> QED BY <1>2, <1>3

LEMMA LeadsFirst ==
    ASSUME NEW S, NEW q \in Seq(S), NEW n, NEW x,
           \A e \in ToSet(q) : Concerns(e, n) => Content(e) = x,
           NEW e \in ToSet(q), Concerns(e, n), e.type = "put"
    PROVE  \E j \in DOMAIN q : Leads(q, n, j) /\ q[j] = e
<1>1. PICK j \in DOMAIN q : q[j] = e
  BY DEF ToSet
<1>2. \A a \in DOMAIN q : q[a] \in ToSet(q)
  BY DEF ToSet
<1> QED BY <1>1, <1>2 DEF Leads, Say

-----------------------------------------------------------------------------
(* Events and the objects in the API server                                  *)

\* A deletion event has the last state of the network; what was said last of a network
\* to a watcher that runs is what is in the API server.
ChainOK(q, o, w, n, x) ==
    /\ \A m \in DOMAIN q :
          Concerns(q[m], n) /\ q[m].type = "del" => IsSaid(q, o, n, m, <<q[m].obj.spec>>)
    /\ w = "up" => IsSaid(q, o, n, Len(q) + 1, x)
    /\ w = "off" => q = <<>> /\ o = NoKnown

LEMMA ChainAfterPop ==
    ASSUME NEW S, NEW q \in Seq(S), q # <<>>, NEW o, NEW p, NEW w, NEW n, NEW x,
           ChainOK(q, o, w, n, x), Learns(q, n, o, p)
    PROVE  ChainOK(Tail(q), p, w, n, x)
<1>1. PICK t : t = Tail(q)
  OBVIOUS
<1>2. /\ DOMAIN q = 1 .. Len(q) /\ DOMAIN t = 1 .. Len(q) - 1 /\ Len(q) \in Nat \ {0}
      /\ \A j \in 1 .. Len(q) - 1 : t[j] = q[j + 1]
      /\ Len(t) = Len(q) - 1
  BY <1>1, Shifted
<1>3. ASSUME NEW m \in DOMAIN t, Concerns(t[m], n), t[m].type = "del"
      PROVE  IsSaid(t, p, n, m, <<t[m].obj.spec>>)
  <2>1. m \in Nat /\ m + 1 \in DOMAIN q /\ q[m + 1] = t[m] /\ m + 1 > 1 /\ (m + 1) - 1 = m
        /\ m + 1 \in Nat
    BY <1>2
  <2>2. IsSaid(q, o, n, m + 1, <<t[m].obj.spec>>)
    BY <1>3, <2>1 DEF ChainOK
  <2>3. IsSaid(Tail(q), p, n, (m + 1) - 1, <<t[m].obj.spec>>)
    BY <2>1, <2>2, SaidAfterPop
  <2> QED BY <1>1, <2>1, <2>3
<1>4. w = "up" => IsSaid(t, p, n, Len(t) + 1, x)
  <2>1. Len(q) + 1 > 1 /\ Len(q) + 1 \in Nat /\ (Len(q) + 1) - 1 = Len(t) + 1
    BY <1>2
  <2>2. w = "up" => IsSaid(Tail(q), p, n, (Len(q) + 1) - 1, x)
    BY <2>1, SaidAfterPop DEF ChainOK
  <2> QED BY <1>1, <2>1, <2>2
<1>5. w # "off"
  BY DEF ChainOK
<1> QED BY <1>1, <1>3, <1>4, <1>5 DEF ChainOK

\* Events that come later, none of them a deletion event of the network.
NoDel(p, n) == \A e \in ToSet(p) : Concerns(e, n) => e.type # "del"

LEMMA ChainAfterMore ==
    ASSUME NEW S, NEW q \in Seq(S), NEW p \in Seq(S), NEW r, r = q \o p, NEW o,
           NEW w, NEW n, NEW x, ChainOK(q, o, w, n, x), NEW y, NEW v, v # "off",
           NoDel(p, n), v = "up" => IsSaid(r, o, n, Len(r) + 1, y)
    PROVE  ChainOK(r, o, v, n, y)
<1>1. /\ Len(q) \in Nat /\ DOMAIN q = 1 .. Len(q) /\ DOMAIN r = 1 .. Len(r)
      /\ Len(r) \in Nat /\ \A j \in 1 .. Len(q) : r[j] = q[j]
      /\ \A j \in 1 .. Len(r) : j > Len(q) => r[j] \in ToSet(p)
  <2>1. /\ Len(q) \in Nat /\ DOMAIN q = 1 .. Len(q) /\ DOMAIN r = 1 .. Len(r)
        /\ Len(r) \in Nat /\ \A j \in 1 .. Len(q) : r[j] = q[j]
    OBVIOUS
  <2> QED BY <2>1, Lengthened
<1>2. ASSUME NEW m \in DOMAIN r, Concerns(r[m], n), r[m].type = "del"
      PROVE  IsSaid(r, o, n, m, <<r[m].obj.spec>>)
  <2>1. m \in DOMAIN q /\ r[m] = q[m] /\ m \in 1 .. Len(q) + 1
    BY <1>1, <1>2 DEF NoDel
  <2>2. IsSaid(q, o, n, m, <<r[m].obj.spec>>)
    BY <1>2, <2>1 DEF ChainOK
  <2> QED BY <2>1, <2>2, SaidBefore
<1> QED BY <1>2 DEF ChainOK

\* The API server stores an object or deletes it, and tells the watchers that run.
LEMMA ChainAfterWrite ==
    ASSUME NEW S, NEW q \in Seq(S), NEW e \in S, NEW o, NEW w, NEW n, NEW x,
           ChainOK(q, o, w, n, x), Concerns(e, n),
           e.type = "del" => x = <<e.obj.spec>>
    PROVE  ChainOK(IF w = "up" THEN Append(q, e) ELSE q, o, w, n, Content(e))
<1>1. CASE w # "up"
  BY <1>1 DEF ChainOK
<1>2. CASE w = "up"
  <2>1. PICK p : p = <<e>>
    OBVIOUS
  <2>2. PICK r : r = Append(q, e)
    OBVIOUS
  <2>3. /\ p \in Seq(S) /\ r = q \o p /\ ToSet(p) = {e}
        /\ DOMAIN r = 1 .. Len(r) /\ DOMAIN q = 1 .. Len(q) /\ Len(q) \in Nat
        /\ Len(r) = Len(q) + 1 /\ r[Len(q) + 1] = e /\ \A j \in 1 .. Len(q) : r[j] = q[j]
    <3>1. /\ p \in Seq(S) /\ r = q \o p /\ DOMAIN p = {1} /\ p[1] = e
          /\ DOMAIN r = 1 .. Len(r) /\ DOMAIN q = 1 .. Len(q) /\ Len(q) \in Nat
          /\ Len(r) = Len(q) + 1 /\ r[Len(q) + 1] = e /\ \A j \in 1 .. Len(q) : r[j] = q[j]
      BY <2>1, <2>2
    <3> QED BY <3>1 DEF ToSet
  <2>4. IsSaid(r, o, n, Len(r) + 1, Content(e))
    BY <2>3, SaidAfter
  <2>5. ASSUME NEW m \in DOMAIN r, Concerns(r[m], n), r[m].type = "del"
        PROVE  IsSaid(r, o, n, m, <<r[m].obj.spec>>)
    <3>1. CASE m = Len(q) + 1
      <4>1. m \in 1 .. Len(q) + 1 /\ IsSaid(q, o, n, m, <<r[m].obj.spec>>)
        BY <1>2, <2>3, <2>5, <3>1 DEF ChainOK
      <4> QED BY <2>3, <4>1, SaidBefore
    <3>2. CASE m # Len(q) + 1
      <4>1. m \in DOMAIN q /\ r[m] = q[m] /\ m \in 1 .. Len(q) + 1
        BY <2>3, <3>2
      <4>2. IsSaid(q, o, n, m, <<r[m].obj.spec>>)
        BY <2>5, <4>1 DEF ChainOK
      <4> QED BY <2>3, <4>1, <4>2, SaidBefore
    <3> QED BY <3>1, <3>2
  <2> QED BY <1>2, <2>2, <2>4, <2>5 DEF ChainOK
<1> QED BY <1>1, <1>2

\* The last of some places of a queue.
LEMMA LastPlace ==
    ASSUME NEW T, NEW m \in Nat, T \subseteq 1 .. m, T # {}
    PROVE  \E j \in T : \A k \in T : k <= j
<1> DEFINE U == {m - j : j \in T}
<1>1. U \subseteq Nat /\ U # {}
  <2>1. \A j \in T : m - j \in Nat
    OBVIOUS
  <2>2. PICK j \in T : TRUE
    OBVIOUS
  <2>3. m - j \in U
    BY <2>2
  <2> QED BY <2>1, <2>3
<1>2. \E a \in U : \A b \in U : ~(b < a)
  <2>1. \A a, b \in Nat : <<b, a>> \in OpToRel(<, Nat) <=> b < a
    BY DEF OpToRel
  <2>2. \E a \in U : \A b \in U : ~(<<b, a>> \in OpToRel(<, Nat))
    BY <1>1, NatLessThanWellFounded, WFMin, Zenon
  <2> QED BY <1>1, <2>1, <2>2
<1>3. PICK a \in U : \A b \in U : ~(b < a)
  BY <1>2
<1>4. PICK j \in T : a = m - j
  OBVIOUS
<1>5. ASSUME NEW k \in T
      PROVE  k <= j
  <2>1. m - k \in U /\ k \in Int /\ j \in Int
    OBVIOUS
  <2>2. ~(m - k < m - j)
    BY <1>3, <1>4, <2>1
  <2> QED BY <2>1, <2>2
<1> QED BY <1>5

\* What an informer has not in its cache was said to be gone.
LEMMA NotCached ==
    ASSUME TypeOK, NEW i \in Nodes, NEW n \in Networks, ~Cached(i, n),
           NEW q, q = queue[i][kind[n]]
    PROVE  IsSaid(q, known[i][n], n, Len(q) + 1, <<>>)
<1>1. q \in Seq(Events) /\ DOMAIN q = 1 .. Len(q) /\ Len(q) \in Nat
  BY QueueTypes
<1>2. PICK at : at = {j \in DOMAIN q : q[j].net = n /\ q[j].type # "sync"}
  OBVIOUS
<1>3. \A j \in DOMAIN q : j \in at <=> Concerns(q[j], n)
  BY <1>2 DEF Concerns
<1>4. /\ at = {} => known[i][n].ver = 0
      /\ at # {} => \A j \in at : q[j].type = "put" => \E k \in at : ~(k <= j)
  BY <1>2 DEF Cached
<1>5. CASE at = {}
  BY <1>3, <1>4, <1>5 DEF IsSaid, Held, Say
<1>6. CASE at # {}
  <2>1. at \subseteq 1 .. Len(q)
    BY <1>1, <1>2
  <2>2. PICK j \in at : \A k \in at : k <= j
    BY <1>1, <1>6, <2>1, LastPlace
  <2>3. j \in DOMAIN q /\ Concerns(q[j], n) /\ Content(q[j]) = <<>> /\ j < Len(q) + 1
    BY <1>1, <1>3, <1>4, <1>6, <2>1, <2>2 DEF Content
  <2>4. Say(q, n, j, Len(q) + 1, <<>>)
    BY <1>1, <1>3, <2>2, <2>3 DEF Say
  <2> QED BY <2>3, <2>4 DEF IsSaid
<1> QED BY <1>5, <1>6

-----------------------------------------------------------------------------
(* The interfaces of one network                                             *)

OwnOf(ls, n) == {l \in ls : l.name \in NamesOf(n)}

\* The devices the networks of users and the NADs a watcher has patched may name.
Home(n) == Devices \cup {<<>>} \cup (IF kind[n] = NadKind THEN NamesOf(n) ELSE {})
IsFrom(n, s) == s.id \in IdsOf(n) /\ s.device \in Home(n)

\* Interfaces of a network are on a device or on each other.
OnOwn(ls, n) == \A l \in OwnOf(ls, n) : l.parent \in Devices \cup NamesOf(n)

\* Only interfaces of one network change.
Touches(n, ls, ms) ==
    /\ \A m \in Networks \ {n} : OwnOf(ms, m) = OwnOf(ls, m)
    /\ OnOwn(ms, n)

LEMMA NamesDiffer ==
    ASSUME NEW a, NEW b, NEW v, NEW w
    PROVE  /\ VlanName(a, v) = VlanName(b, w) <=> a = b /\ v = w
           /\ VxlanName(a) = VxlanName(b) <=> a = b
           /\ VlanName(a, v) # VxlanName(b)
           /\ Len(VlanName(a, v)) = 3 /\ Len(VxlanName(a)) = 2 /\ Len(<<>>) = 0
BY DEF VlanName, VxlanName

LEMMA NamesApart ==
    ASSUME NEW n \in Networks
    PROVE  /\ \A m \in Networks \ {n} : NamesOf(m) \cap NamesOf(n) = {}
           /\ Devices \cap NamesOf(n) = {} /\ <<>> \notin NamesOf(n) /\ <<>> \notin Devices
<1>1. \A m \in Networks \ {n} : \A id \in IdsOf(m) : id \notin IdsOf(n)
  BY WatcherAssumption DEF IdsOf
<1>2. \A name \in NamesOf(n) : Len(name) = 2 \/ Len(name) = 3
  BY NamesDiffer DEF NamesOf
<1>3. \A d \in Devices : Len(d) = 1
  BY WatcherAssumption
<1>4. Len(<<>>) = 0
  BY NamesDiffer
<1>5. \A m \in Networks \ {n} : NamesOf(m) \cap NamesOf(n) = {}
  <2> SUFFICES ASSUME NEW m \in Networks \ {n}, NEW name \in NamesOf(m), name \in NamesOf(n)
               PROVE  FALSE
    OBVIOUS
  <2>1. \/ \E id \in IdsOf(m), v \in Vnis : name = VlanName(id, v)
        \/ \E id \in IdsOf(m) : name = VxlanName(id)
    BY DEF NamesOf
  <2>2. \/ \E id \in IdsOf(n), v \in Vnis : name = VlanName(id, v)
        \/ \E id \in IdsOf(n) : name = VxlanName(id)
    BY DEF NamesOf
  <2>3. CASE \E id \in IdsOf(m), v \in Vnis : name = VlanName(id, v)
    <3>1. PICK id \in IdsOf(m), v \in Vnis : name = VlanName(id, v)
      BY <2>3
    <3> QED BY <1>1, <2>2, <3>1, NamesDiffer
  <2>4. CASE \E id \in IdsOf(m) : name = VxlanName(id)
    <3>1. PICK id \in IdsOf(m) : name = VxlanName(id)
      BY <2>4
    <3> QED BY <1>1, <2>2, <3>1, NamesDiffer
  <2> QED BY <2>1, <2>3, <2>4
<1>6. Devices \cap NamesOf(n) = {}
  BY <1>2, <1>3
<1>7. <<>> \notin NamesOf(n) /\ <<>> \notin Devices
  BY <1>2, <1>3, <1>4
<1> QED BY <1>5, <1>6, <1>7

LEMMA InterfaceDeleted ==
    ASSUME NEW ls, NEW type, NEW ifId, NEW ifName, NEW fault,
           NEW r, r = deleteHostInterface(ls, type, ifId, ifName, fault)
    PROVE  /\ r.links \subseteq ls
           /\ \A l \in ls \ r.links : ifId # 0 /\ (l.name = ifName \/ l.parent = ifName)
           /\ ~r.err /\ ifId # 0 => \A l \in r.links : l.name # ifName
<1>1. CASE ifId = 0 \/ ifName \notin LinkNames(ls)
  BY <1>1 DEF deleteHostInterface, Result, LinkNames
<1>2. CASE ~(ifId = 0 \/ ifName \notin LinkNames(ls)) /\ fault = <<"del", type>>
  <2>1. r = Result(ls, TRUE)
    BY <1>2, Zenon DEF deleteHostInterface
  <2> QED BY <2>1 DEF Result
<1>3. CASE ~(ifId = 0 \/ ifName \notin LinkNames(ls)) /\ fault # <<"del", type>>
  <2>1. r = Result(DelLink(ls, ifName), FALSE)
    BY <1>3, Zenon DEF deleteHostInterface
  <2> QED BY <1>3, <2>1 DEF Result, DelLink
<1> QED BY <1>1, <1>2, <1>3

\* What deleteNetworks does: all interfaces the spec asks for are gone, unless it fails.
LEMMA NetworkDeleted ==
    ASSUME NEW s, NEW ls, NEW fault, NEW r, r = deleteNetworks(s, ls, fault)
    PROVE  /\ r.links \subseteq ls
           /\ \A l \in ls \ r.links : l.name \in WantedNames(s) \/ l.parent \in WantedNames(s)
           /\ ~r.err => \A l \in r.links : l.name \notin WantedNames(s)
<1>1. CASE s.device = <<>>
  BY <1>1 DEF deleteNetworks, Result, WantedNames
<1>2. CASE s.device # <<>>
  <2>1. PICK name : name = determineVlanHdev(s.vlan, s.id, s.device)
    OBVIOUS
  <2>2. s.vlan # 0 => name = VlanName(s.id, s.vlan)
    BY <2>1 DEF determineVlanHdev
  <2>3. PICK vx : vx = deleteHostInterface(ls, "vxlan", s.vxlan, VxlanName(s.id), fault)
    OBVIOUS
  <2>4. PICK vl : vl = deleteHostInterface(vx.links, "vlan", s.vlan, name, fault)
    OBVIOUS
  <2>5. r = Result(vl.links, vx.err \/ vl.err)
    BY <1>2, <2>1, <2>3, <2>4 DEF deleteNetworks
  <2>6. r.links = vl.links /\ (~r.err => ~vx.err /\ ~vl.err)
    <3>1. r.links = vl.links /\ r.err = (vx.err \/ vl.err)
      BY <2>5 DEF Result
    <3> QED BY <3>1, Zenon
  <2>7. /\ vx.links \subseteq ls
        /\ \A l \in ls \ vx.links :
              s.vxlan # 0 /\ (l.name = VxlanName(s.id) \/ l.parent = VxlanName(s.id))
        /\ ~vx.err /\ s.vxlan # 0 => \A l \in vx.links : l.name # VxlanName(s.id)
    BY <2>3, InterfaceDeleted
  <2>8. /\ vl.links \subseteq vx.links
        /\ \A l \in vx.links \ vl.links : s.vlan # 0 /\ (l.name = name \/ l.parent = name)
        /\ ~vl.err /\ s.vlan # 0 => \A l \in vl.links : l.name # name
    BY <2>4, InterfaceDeleted
  <2>9. WantedNames(s) = (IF s.vlan # 0 THEN {VlanName(s.id, s.vlan)} ELSE {})
                         \cup (IF s.vxlan # 0 THEN {VxlanName(s.id)} ELSE {})
    BY <1>2 DEF WantedNames
  <2> QED BY <2>2, <2>6, <2>7, <2>8, <2>9
<1> QED BY <1>1, <1>2

LEMMA LinkAdded ==
    ASSUME NEW ls, NEW type, NEW link, NEW fault, NEW r, r = addLink(ls, type, link, fault)
    PROVE  /\ ls \subseteq r.links
           /\ \A l \in r.links \ ls : l = link \/ l = [link EXCEPT !.up = FALSE]
           /\ ~r.err => r.links = ls \cup {link}
BY DEF addLink, Result

VlanLink(s) ==
    [name |-> VlanName(s.id, s.vlan), vni |-> s.vlan, parent |-> s.device,
     group |-> <<>>, up |-> TRUE]
VxlanLink(i, s) ==
    [name |-> VxlanName(s.id), vni |-> s.vxlan, parent |-> s.device,
     group |-> VxlanGroup(i, s), up |-> TRUE]

\* A device is there for the VLAN interface, an address of a device for the VxLAN interface.
LEMMA VlanSetUp ==
    ASSUME NEW s, NEW ls, NEW fault, NEW r, r = setupVlan(ls, s, fault)
    PROVE  /\ ls \subseteq r.links
           /\ \A l \in r.links \ ls :
                 /\ s.vlan # 0 /\ s.device \in Devices \cup LinkNames(ls)
                 /\ l.name = VlanName(s.id, s.vlan) /\ l.parent = s.device
                 /\ l.name \notin LinkNames(ls) /\ (~r.err => l = VlanLink(s))
           /\ ~r.err /\ s.vlan # 0 => VlanName(s.id, s.vlan) \in LinkNames(r.links)
<1>1. PICK name : name = determineVlanHdev(s.vlan, s.id, s.device)
  OBVIOUS
<1>2. s.vlan # 0 => name = VlanName(s.id, s.vlan)
  BY <1>1 DEF determineVlanHdev
<1>3. CASE ~shouldInterfaceBeCreated(ls, s.vlan, name)
  <2>1. r = Result(ls, FALSE)
    BY <1>1, <1>3 DEF setupVlan
  <2> QED BY <1>2, <1>3, <2>1 DEF Result, shouldInterfaceBeCreated
<1>4. CASE shouldInterfaceBeCreated(ls, s.vlan, name) /\ ~IsPresent(ls, s.device)
  <2>1. r = Result(ls, TRUE)
    BY <1>1, <1>4 DEF setupVlan
  <2> QED BY <2>1 DEF Result
<1>5. CASE shouldInterfaceBeCreated(ls, s.vlan, name) /\ IsPresent(ls, s.device)
  <2>1. /\ s.vlan # 0 /\ s.device \in Devices \cup LinkNames(ls)
        /\ VlanName(s.id, s.vlan) \notin LinkNames(ls)
    BY <1>2, <1>5 DEF shouldInterfaceBeCreated, IsPresent
  <2>2. r = addLink(ls, "vlan", VlanLink(s), fault)
    BY <1>1, <1>2, <1>5, <2>1 DEF setupVlan, VlanLink
  <2>3. PICK link : link = VlanLink(s)
    OBVIOUS
  <2>4. link.name = VlanName(s.id, s.vlan) /\ link.parent = s.device
        /\ [link EXCEPT !.up = FALSE].name = link.name
        /\ [link EXCEPT !.up = FALSE].parent = link.parent
    BY <2>3 DEF VlanLink
  <2>5. /\ ls \subseteq r.links
        /\ \A l \in r.links \ ls : l = link \/ l = [link EXCEPT !.up = FALSE]
        /\ ~r.err => r.links = ls \cup {link}
    BY <2>2, <2>3, LinkAdded
  <2>6. ~r.err => link.name \in LinkNames(r.links)
    BY <2>5 DEF LinkNames
  <2> QED BY <2>1, <2>3, <2>4, <2>5, <2>6
<1> QED BY <1>3, <1>4, <1>5

LEMMA VxlanSetUp ==
    ASSUME NEW i, NEW s, NEW ls, NEW fault, NEW r, r = setupVxlan(i, ls, s, fault)
    PROVE  /\ ls \subseteq r.links
           /\ \A l \in r.links \ ls :
                 /\ s.vxlan # 0 /\ s.device \in Devices
                 /\ l.name = VxlanName(s.id) /\ l.parent = s.device
                 /\ l.name \notin LinkNames(ls) /\ (~r.err => l = VxlanLink(i, s))
           /\ ~r.err /\ s.vxlan # 0 => VxlanName(s.id) \in LinkNames(r.links)
<1>1. CASE ~shouldInterfaceBeCreated(ls, s.vxlan, VxlanName(s.id))
  <2>1. r = Result(ls, FALSE)
    BY <1>1 DEF setupVxlan
  <2> QED BY <1>1, <2>1 DEF Result, shouldInterfaceBeCreated
<1>2. CASE /\ shouldInterfaceBeCreated(ls, s.vxlan, VxlanName(s.id))
           /\ ~IsPresent(ls, s.device) \/ parseVxlanHostIp(i, s.device) = {}
  <2>1. r = Result(ls, TRUE)
    BY <1>2 DEF setupVxlan
  <2> QED BY <2>1 DEF Result
<1>3. CASE /\ shouldInterfaceBeCreated(ls, s.vxlan, VxlanName(s.id))
           /\ ~(~IsPresent(ls, s.device) \/ parseVxlanHostIp(i, s.device) = {})
  <2>1. s.vxlan # 0 /\ s.device \in Devices /\ VxlanName(s.id) \notin LinkNames(ls)
    BY <1>3 DEF shouldInterfaceBeCreated, parseVxlanHostIp
  <2>2. r = addLink(ls, "vxlan", VxlanLink(i, s), fault)
    BY <1>3 DEF setupVxlan, VxlanLink
  <2>3. PICK link : link = VxlanLink(i, s)
    OBVIOUS
  <2>4. link.name = VxlanName(s.id) /\ link.parent = s.device
        /\ [link EXCEPT !.up = FALSE].name = link.name
        /\ [link EXCEPT !.up = FALSE].parent = link.parent
    BY <2>3 DEF VxlanLink
  <2>5. /\ ls \subseteq r.links
        /\ \A l \in r.links \ ls : l = link \/ l = [link EXCEPT !.up = FALSE]
        /\ ~r.err => r.links = ls \cup {link}
    BY <2>2, <2>3, LinkAdded
  <2>6. ~r.err => link.name \in LinkNames(r.links)
    BY <2>5 DEF LinkNames
  <2> QED BY <2>1, <2>3, <2>4, <2>5, <2>6
<1> QED BY <1>1, <1>2, <1>3

\* What setupHost does: the spec has all interfaces it asks for, unless it fails.
LEMMA NetworkSetUp ==
    ASSUME NEW i, NEW s, NEW ls, NEW fault, NEW r, r = setupHost(i, s, ls, fault)
    PROVE  /\ ls \subseteq r.links
           /\ \A l \in r.links \ ls :
                 /\ l.name \in WantedNames(s) /\ l.name \notin LinkNames(ls)
                 /\ l.parent = s.device /\ s.device # <<>>
           /\ ~r.err => /\ WantedNames(s) \subseteq LinkNames(r.links)
                        /\ \A l \in r.links \ ls :
                              \/ l = VlanLink(s) /\ s.vlan # 0
                                 /\ s.device \in Devices \cup LinkNames(ls)
                              \/ l = VxlanLink(i, s) /\ s.vxlan # 0 /\ s.device \in Devices
<1>1. CASE s.device = <<>>
  BY <1>1 DEF setupHost, Result, WantedNames
<1>2. CASE s.device # <<>>
  <2>1. PICK vl : vl = setupVlan(ls, s, fault)
    OBVIOUS
  <2>2. PICK vx : vx = setupVxlan(i, vl.links, s, fault)
    OBVIOUS
  <2>3. r = IF vl.err THEN vl ELSE vx
    BY <1>2, <2>1, <2>2 DEF setupHost
  <2>4. /\ ls \subseteq vl.links
        /\ \A l \in vl.links \ ls :
              /\ s.vlan # 0 /\ s.device \in Devices \cup LinkNames(ls)
              /\ l.name = VlanName(s.id, s.vlan) /\ l.parent = s.device
              /\ l.name \notin LinkNames(ls) /\ (~vl.err => l = VlanLink(s))
        /\ ~vl.err /\ s.vlan # 0 => VlanName(s.id, s.vlan) \in LinkNames(vl.links)
    BY <2>1, VlanSetUp
  <2>5. /\ vl.links \subseteq vx.links
        /\ \A l \in vx.links \ vl.links :
              /\ s.vxlan # 0 /\ s.device \in Devices
              /\ l.name = VxlanName(s.id) /\ l.parent = s.device
              /\ l.name \notin LinkNames(vl.links) /\ (~vx.err => l = VxlanLink(i, s))
        /\ ~vx.err /\ s.vxlan # 0 => VxlanName(s.id) \in LinkNames(vx.links)
    BY <2>2, VxlanSetUp
  <2>6. WantedNames(s) = (IF s.vlan # 0 THEN {VlanName(s.id, s.vlan)} ELSE {})
                         \cup (IF s.vxlan # 0 THEN {VxlanName(s.id)} ELSE {})
    BY <1>2 DEF WantedNames
  <2>7. LinkNames(ls) \subseteq LinkNames(vl.links) /\ LinkNames(vl.links) \subseteq LinkNames(vx.links)
    BY <2>4, <2>5 DEF LinkNames
  <2> QED BY <1>2, <2>3, <2>4, <2>5, <2>6, <2>7
<1> QED BY <1>1, <1>2

AllOnOwn(ls) == \A n \in Networks : OnOwn(ls, n)

LEMMA TouchesAgain ==
    ASSUME NEW n \in Networks, NEW ls, NEW ms, NEW os, Touches(n, ls, ms), Touches(n, ms, os)
    PROVE  Touches(n, ls, os)
BY DEF Touches

LEMMA TouchesKeeps ==
    ASSUME NEW n \in Networks, NEW ls, NEW ms, Touches(n, ls, ms), AllOnOwn(ls)
    PROVE  AllOnOwn(ms)
BY DEF Touches, AllOnOwn, OnOwn

LEMMA DeleteTouches ==
    ASSUME NEW n \in Networks, NEW s, WantedNames(s) \subseteq NamesOf(n),
           NEW ls, AllOnOwn(ls), NEW fault
    PROVE  Touches(n, ls, deleteNetworks(s, ls, fault).links)
<1>1. PICK r : r = deleteNetworks(s, ls, fault)
  OBVIOUS
<1>2. /\ r.links \subseteq ls
      /\ \A l \in ls \ r.links : l.name \in NamesOf(n) \/ l.parent \in NamesOf(n)
  BY <1>1, NetworkDeleted
<1>3. ASSUME NEW m \in Networks \ {n}
      PROVE  OwnOf(r.links, m) = OwnOf(ls, m)
  <2>1. \A l \in OwnOf(ls, m) : l.name \in NamesOf(m) /\ l.parent \in Devices \cup NamesOf(m)
    BY DEF AllOnOwn, OnOwn, OwnOf
  <2>2. NamesOf(m) \cap NamesOf(n) = {} /\ Devices \cap NamesOf(n) = {}
    BY NamesApart
  <2> QED BY <1>2, <2>1, <2>2 DEF OwnOf
<1>4. OnOwn(r.links, n)
  BY <1>2 DEF AllOnOwn, OnOwn, OwnOf
<1> QED BY <1>1, <1>3, <1>4 DEF Touches

LEMMA SetupTouches ==
    ASSUME NEW n \in Networks, NEW i, NEW s, WantedNames(s) \subseteq NamesOf(n),
           s.device \in Home(n), NEW ls, AllOnOwn(ls), NEW fault
    PROVE  Touches(n, ls, setupHost(i, s, ls, fault).links)
<1>1. PICK r : r = setupHost(i, s, ls, fault)
  OBVIOUS
<1>2. /\ ls \subseteq r.links
      /\ \A l \in r.links \ ls :
            l.name \in WantedNames(s) /\ l.parent = s.device /\ s.device # <<>>
  BY <1>1, NetworkSetUp
<1>3. \A l \in r.links \ ls : l.name \in NamesOf(n) /\ l.parent \in Devices \cup NamesOf(n)
  BY <1>2 DEF Home
<1>4. ASSUME NEW m \in Networks \ {n}
      PROVE  OwnOf(r.links, m) = OwnOf(ls, m)
  <2>1. NamesOf(m) \cap NamesOf(n) = {}
    BY NamesApart
  <2> QED BY <1>2, <1>3, <2>1 DEF OwnOf
<1>5. OnOwn(r.links, n)
  BY <1>3 DEF AllOnOwn, OnOwn, OwnOf
<1> QED BY <1>1, <1>4, <1>5 DEF Touches

LEMMA ZeroedNames ==
    ASSUME NEW s \in AnySpec, NEW old \in AnySpec, NEW new \in AnySpec
    PROVE  WantedNames(zeroVnis(s, old, new)) \subseteq WantedNames(s)
BY Zeroed DEF WantedNames

LEMMA ReplacedTouches ==
    ASSUME NEW n \in Networks, NEW i \in Nodes, AllOnOwn(links[i]),
           NEW old \in AnySpec, WantedNames(old) \subseteq NamesOf(n),
           NEW new \in AnySpec, WantedNames(new) \subseteq NamesOf(n), new.device \in Home(n),
           NEW fault
    PROVE  Touches(n, links[i], Replaced(i, old, new, fault).links)
<1>1. PICK zo : zo = zeroVnis(old, old, new)
  OBVIOUS
<1>2. PICK zn : zn = zeroVnis(new, old, new)
  OBVIOUS
<1>3. PICK ls : ls = deleteNetworks(zo, links[i], fault).links
  OBVIOUS
<1>4. Replaced(i, old, new, fault).links = setupHost(i, zn, ls, fault).links
  BY <1>1, <1>2, <1>3 DEF Replaced, Result
<1>5. WantedNames(zo) \subseteq NamesOf(n) /\ WantedNames(zn) \subseteq NamesOf(n)
  BY <1>1, <1>2, ZeroedNames
<1>6. zn.device = new.device
  BY <1>2, Zeroed
<1>7. Touches(n, links[i], ls)
  BY <1>3, <1>5, DeleteTouches
<1>8. AllOnOwn(ls)
  BY <1>7, TouchesKeeps
<1>9. Touches(n, ls, setupHost(i, zn, ls, fault).links)
  BY <1>5, <1>6, <1>8, SetupTouches
<1> QED BY <1>4, <1>7, <1>9, TouchesAgain

\* An interface is what a spec asks for, on a device, or a VLAN interface on the VxLAN
\* interface of the same NAD.
Right(i, l, s) ==
    /\ l.name \in WantedNames(s) /\ IsFor(i, l, s)
    /\ l.parent \in Devices \/ (l.name # VxlanName(s.id) /\ l.parent = VxlanName(s.id))
Fits(i, own, s) ==
    /\ WantedNames(s) \subseteq LinkNames(own)
    /\ \A l \in own : Right(i, l, s)

LEMMA WantedName ==
    ASSUME NEW s, NEW name \in WantedNames(s)
    PROVE  /\ s.device # <<>>
           /\ \/ name = VlanName(s.id, s.vlan) /\ s.vlan # 0 /\ name # VxlanName(s.id)
              \/ name = VxlanName(s.id) /\ s.vxlan # 0
BY NamesDiffer DEF WantedNames

\* The interfaces a spec gets are right.
LEMMA NewLinkRight ==
    ASSUME NEW n \in Networks, NEW i \in Nodes, NEW s \in AnySpec, s.device \in Home(n),
           WantedNames(s) \subseteq NamesOf(n),
           NEW ls, \A l \in OwnOf(ls, n) : Right(i, l, s),
           NEW z \in AnySpec, z.id = s.id, z.device = s.device,
           z.vlan \in {0, s.vlan}, z.vxlan \in {0, s.vxlan},
           NEW fault, NEW r, r = setupHost(i, z, ls, fault), ~r.err
    PROVE  \A l \in OwnOf(r.links, n) : Right(i, l, s)
<1> SUFFICES ASSUME NEW l \in r.links \ ls, l.name \in NamesOf(n)
             PROVE  Right(i, l, s)
  BY DEF OwnOf
<1>1. /\ l.name \in WantedNames(z) /\ l.name \notin LinkNames(ls)
      /\ \/ l = VlanLink(z) /\ z.vlan # 0 /\ z.device \in Devices \cup LinkNames(ls)
         \/ l = VxlanLink(i, z) /\ z.vxlan # 0 /\ z.device \in Devices
  BY NetworkSetUp
<1>2. l.name \in WantedNames(s) /\ s.device # <<>>
  BY <1>1 DEF WantedNames
<1>3. CASE l = VlanLink(z) /\ z.vlan # 0 /\ z.device \in Devices \cup LinkNames(ls)
  <2>1. /\ l.name = VlanName(s.id, s.vlan) /\ l.vni = s.vlan /\ l.parent = s.device /\ l.up
        /\ l.name # VxlanName(s.id)
    BY <1>3, NamesDiffer DEF VlanLink
  <2>2. IsFor(i, l, s)
    BY <2>1 DEF IsFor
  <2>3. s.device \in Devices \/ s.device = VxlanName(s.id)
    <3> SUFFICES ASSUME s.device \notin Devices PROVE s.device = VxlanName(s.id)
      OBVIOUS
    <3>1. s.device \in LinkNames(ls) /\ s.device \in NamesOf(n)
      BY <1>2, <1>3 DEF Home
    <3>2. PICK m \in OwnOf(ls, n) : m.name = s.device
      BY <3>1 DEF LinkNames, OwnOf
    <3>3. m.name \in WantedNames(s) /\ m.name # l.name
      BY <1>1, <3>1, <3>2 DEF Right
    <3> QED BY <2>1, <3>2, <3>3, WantedName
  <2> QED BY <1>2, <2>1, <2>2, <2>3 DEF Right
<1>4. CASE l = VxlanLink(i, z) /\ z.vxlan # 0 /\ z.device \in Devices
  <2>1. /\ l.name = VxlanName(s.id) /\ l.vni = s.vxlan /\ l.parent = s.device /\ l.up
        /\ l.group = VxlanGroup(i, s)
    BY <1>4 DEF VxlanLink, VxlanGroup
  <2> QED BY <1>2, <1>4, <2>1 DEF Right, IsFor
<1> QED BY <1>1, <1>3, <1>4

\* Adding a network.
LEMMA SetUpFits ==
    ASSUME NEW n \in Networks, NEW i \in Nodes, NEW s \in AnySpec, s.device \in Home(n),
           WantedNames(s) \subseteq NamesOf(n),
           NEW ls, \A l \in OwnOf(ls, n) : Right(i, l, s),
           NEW fault, NEW r, r = setupHost(i, s, ls, fault), ~r.err
    PROVE  Fits(i, OwnOf(r.links, n), s)
<1>1. \A l \in OwnOf(r.links, n) : Right(i, l, s)
  BY NewLinkRight
<1>2. WantedNames(s) \subseteq LinkNames(r.links)
  BY NetworkSetUp
<1> QED BY <1>1, <1>2 DEF Fits, OwnOf, LinkNames

\* An update that zeroes all VNIs it has no interface to set up for changes nothing.
LEMMA ReplacedNothing ==
    ASSUME NEW i, NEW old, NEW new, NEW fault,
           WantedNames(zeroVnis(old, old, new)) = {},
           WantedNames(zeroVnis(new, old, new)) \subseteq LinkNames(links[i])
    PROVE  Replaced(i, old, new, fault).links = links[i]
<1>1. PICK zo : zo = zeroVnis(old, old, new)
  OBVIOUS
<1>2. PICK zn : zn = zeroVnis(new, old, new)
  OBVIOUS
<1>3. PICK ls : ls = deleteNetworks(zo, links[i], fault).links
  OBVIOUS
<1>4. Replaced(i, old, new, fault).links = setupHost(i, zn, ls, fault).links
  BY <1>1, <1>2, <1>3 DEF Replaced, Result
<1>5. ls = links[i]
  <2>1. /\ ls \subseteq links[i]
        /\ \A l \in links[i] \ ls : l.name \in WantedNames(zo) \/ l.parent \in WantedNames(zo)
    BY <1>3, NetworkDeleted
  <2>2. WantedNames(zo) = {}
    BY <1>1
  <2> QED BY <2>1, <2>2
<1>6. PICK ms : ms = setupHost(i, zn, ls, fault).links
  OBVIOUS
<1>7. ls \subseteq ms /\ \A l \in ms \ ls : l.name \in WantedNames(zn) /\ l.name \notin LinkNames(ls)
  BY <1>6, NetworkSetUp
<1> QED BY <1>2, <1>4, <1>5, <1>6, <1>7

\* What a network with another name keeps: nothing, unless the watcher lost track of it.
LEMMA KeptAlike ==
    ASSUME NEW old \in AnySpec, NEW new \in AnySpec, ~IsRenamed(old, new),
           old.device = new.device
    PROVE  /\ old.vlan = new.vlan /\ new.vlan # 0 => old.id = new.id
           /\ old.vxlan = new.vxlan /\ new.vxlan # 0 => old.id = new.id
<1>1. old.id = new.id \/ zeroVnis(new, old, new) = new
  BY DEF IsRenamed
<1>2. /\ zeroVnis(new, old, new).vlan = IF old.vlan = new.vlan THEN 0 ELSE new.vlan
      /\ zeroVnis(new, old, new).vxlan = IF old.vxlan = new.vxlan THEN 0 ELSE new.vxlan
  BY Zeroed
<1> QED BY <1>1, <1>2

\* An update on another device: all interfaces go, and come again.
LEMMA MovedFits ==
    ASSUME NEW n \in Networks, NEW i \in Nodes, NEW t \in AnySpec, NEW old \in AnySpec,
           NEW new \in AnySpec, new.device \in Home(n),
           WantedNames(new) \subseteq NamesOf(n),
           old.id = t.id, old.vlan = t.vlan, old.vxlan = t.vxlan,
           old.device = <<>> => t.device = <<>>,
           Fits(i, OwnOf(links[i], n), t), old.device # new.device,
           NEW fault, NEW r, r = Replaced(i, old, new, fault), ~r.err
    PROVE  Fits(i, OwnOf(r.links, n), new)
<1>1. PICK zo : zo = zeroVnis(old, old, new)
  OBVIOUS
<1>2. PICK zn : zn = zeroVnis(new, old, new)
  OBVIOUS
<1>3. PICK del : del = deleteNetworks(zo, links[i], fault)
  OBVIOUS
<1>4. PICK add : add = setupHost(i, zn, del.links, fault)
  OBVIOUS
<1>5. r.links = add.links /\ ~del.err /\ ~add.err
  <2>1. r = Result(add.links, del.err \/ add.err)
    BY <1>1, <1>2, <1>3, <1>4 DEF Replaced
  <2>2. r.links = add.links /\ r.err = (del.err \/ add.err)
    BY <2>1 DEF Result
  <2> QED BY <2>2, Zenon
<1>6. /\ zo.id = old.id /\ zo.device = old.device /\ zo.vlan = old.vlan /\ zo.vxlan = old.vxlan
      /\ zn \in AnySpec /\ zn.id = new.id /\ zn.device = new.device
      /\ zn.vlan = new.vlan /\ zn.vxlan = new.vxlan
  BY <1>1, <1>2, Zeroed
<1>7. WantedNames(t) \subseteq WantedNames(zo)
  BY <1>6 DEF WantedNames
<1>8. OwnOf(del.links, n) = {}
  <2> SUFFICES ASSUME NEW l \in del.links, l.name \in NamesOf(n) PROVE FALSE
    BY DEF OwnOf
  <2>1. l \in links[i] /\ l.name \notin WantedNames(zo)
    BY <1>3, <1>5, NetworkDeleted
  <2>2. l.name \in WantedNames(t)
    BY <2>1 DEF Fits, Right, OwnOf
  <2> QED BY <1>7, <2>1, <2>2
<1>9. WantedNames(zn) = WantedNames(new)
  BY <1>6 DEF WantedNames
<1>10. \A l \in OwnOf(add.links, n) : Right(i, l, new)
  BY <1>4, <1>5, <1>6, <1>8, NewLinkRight
<1>11. WantedNames(new) \subseteq LinkNames(add.links)
  BY <1>4, <1>5, <1>9, NetworkSetUp
<1> QED BY <1>5, <1>10, <1>11 DEF Fits, OwnOf, LinkNames

\* An interface an update spares is right for the new spec too.
LEMMA SparedRight ==
    ASSUME NEW n \in Networks, NEW i \in Nodes, NEW t \in AnySpec, NEW old \in AnySpec,
           NEW new \in AnySpec, old.id = t.id, old.vlan = t.vlan, old.vxlan = t.vxlan,
           old.device = new.device, new.device # <<>>,
           new.device \in Devices => t.device = new.device,
           ~IsRenamed(old, new), NEW l, Right(i, l, t),
           l.name \notin WantedNames(zeroVnis(old, old, new))
    PROVE  Right(i, l, new)
<1>1. PICK zo : zo = zeroVnis(old, old, new)
  OBVIOUS
<1>2. /\ zo.id = old.id /\ zo.device = old.device
      /\ zo.vlan = (IF old.vlan = new.vlan THEN 0 ELSE old.vlan)
      /\ zo.vxlan = (IF old.vxlan = new.vxlan THEN 0 ELSE old.vxlan)
  BY <1>1, Zeroed
<1>3. \/ l.name = VlanName(t.id, t.vlan) /\ t.vlan # 0 /\ l.name # VxlanName(t.id)
      \/ l.name = VxlanName(t.id) /\ t.vxlan # 0
  BY WantedName DEF Right
<1>4. CASE l.name = VlanName(t.id, t.vlan) /\ t.vlan # 0 /\ l.name # VxlanName(t.id)
  <2>1. old.vlan = new.vlan /\ new.vlan # 0
    BY <1>1, <1>2, <1>4 DEF WantedNames
  <2>2. t.id = new.id /\ t.vlan = new.vlan
    BY <2>1, KeptAlike
  <2>3. l.name \in WantedNames(new)
    BY <1>4, <2>1, <2>2 DEF WantedNames
  <2>4. IsFor(i, l, new)
    BY <1>4, <2>2 DEF Right, IsFor
  <2> QED BY <1>4, <2>2, <2>3, <2>4 DEF Right
<1>5. CASE l.name = VxlanName(t.id) /\ t.vxlan # 0
  <2>1. old.vxlan = new.vxlan /\ new.vxlan # 0
    BY <1>1, <1>2, <1>5 DEF WantedNames
  <2>2. t.id = new.id /\ t.vxlan = new.vxlan
    BY <2>1, KeptAlike
  <2>3. l.name \in WantedNames(new)
    BY <1>5, <2>1, <2>2 DEF WantedNames
  <2>4. new.device \in Devices => VxlanGroup(i, t) = VxlanGroup(i, new)
    BY <2>2 DEF VxlanGroup
  <2>5. IsFor(i, l, new)
    BY <1>5, <2>2, <2>4 DEF Right, IsFor
  <2> QED BY <1>5, <2>2, <2>3, <2>5 DEF Right
<1> QED BY <1>3, <1>4, <1>5

\* An update on the same device.
LEMMA SameDeviceFits ==
    ASSUME NEW n \in Networks, NEW i \in Nodes, NEW t \in AnySpec, NEW old \in AnySpec,
           NEW new \in AnySpec, new.device \in Home(n),
           WantedNames(old) \subseteq NamesOf(n), WantedNames(new) \subseteq NamesOf(n),
           old.id = t.id, old.vlan = t.vlan, old.vxlan = t.vxlan,
           old.device = new.device, new.device # <<>>, t.device # <<>>,
           new.device \in Devices => t.device = new.device,
           Fits(i, OwnOf(links[i], n), t), ~IsRenamed(old, new), ~GoesAlong(i, old, new),
           NEW fault, NEW r, r = Replaced(i, old, new, fault), ~r.err
    PROVE  Fits(i, OwnOf(r.links, n), new)
<1>1. PICK zo : zo = zeroVnis(old, old, new)
  OBVIOUS
<1>2. PICK zn : zn = zeroVnis(new, old, new)
  OBVIOUS
<1>3. PICK del : del = deleteNetworks(zo, links[i], fault)
  OBVIOUS
<1>4. PICK add : add = setupHost(i, zn, del.links, fault)
  OBVIOUS
<1>5. r.links = add.links /\ ~del.err /\ ~add.err
  <2>1. r = Result(add.links, del.err \/ add.err)
    BY <1>1, <1>2, <1>3, <1>4 DEF Replaced
  <2>2. r.links = add.links /\ r.err = (del.err \/ add.err)
    BY <2>1 DEF Result
  <2> QED BY <2>2, Zenon
<1>6. /\ zo.id = old.id /\ zo.device = old.device
      /\ zo.vlan = (IF old.vlan = new.vlan THEN 0 ELSE old.vlan)
      /\ zo.vxlan = (IF old.vxlan = new.vxlan THEN 0 ELSE old.vxlan)
      /\ zn \in AnySpec /\ zn.id = new.id /\ zn.device = new.device
      /\ zn.vlan = (IF old.vlan = new.vlan THEN 0 ELSE new.vlan)
      /\ zn.vxlan = (IF old.vxlan = new.vxlan THEN 0 ELSE new.vxlan)
  BY <1>1, <1>2, Zeroed
<1>7. /\ del.links \subseteq links[i]
      /\ \A l \in links[i] \ del.links :
            l.name \in WantedNames(zo) \/ l.parent \in WantedNames(zo)
      /\ \A l \in del.links : l.name \notin WantedNames(zo)
  BY <1>3, <1>5, NetworkDeleted
<1>8. \A l \in OwnOf(del.links, n) : Right(i, l, new)
  <2> SUFFICES ASSUME NEW l \in del.links, l.name \in NamesOf(n) PROVE Right(i, l, new)
    BY DEF OwnOf
  <2>1. Right(i, l, t)
    BY <1>7 DEF Fits, OwnOf
  <2>2. l.name \notin WantedNames(zeroVnis(old, old, new))
    BY <1>1, <1>7
  <2> QED BY <2>1, <2>2, SparedRight
<1>9. \A l \in OwnOf(add.links, n) : Right(i, l, new)
  BY <1>4, <1>5, <1>6, <1>8, NewLinkRight
<1>10. /\ del.links \subseteq add.links /\ WantedNames(zn) \subseteq LinkNames(add.links)
  BY <1>4, <1>5, NetworkSetUp
<1>11. ASSUME NEW name \in WantedNames(new), name \notin WantedNames(zn)
       PROVE  name \in LinkNames(del.links)
  <2>1. \/ name = VlanName(new.id, new.vlan) /\ new.vlan # 0 /\ name # VxlanName(new.id)
        \/ name = VxlanName(new.id) /\ new.vxlan # 0
    BY <1>11, WantedName
  <2>2. CASE name = VlanName(new.id, new.vlan) /\ new.vlan # 0 /\ name # VxlanName(new.id)
    <3>1. old.vlan = new.vlan
      BY <1>6, <1>11, <2>2 DEF WantedNames
    <3>2. old.id = new.id
      BY <2>2, <3>1, KeptAlike
    <3>3. name \in WantedNames(t)
      BY <2>2, <3>1, <3>2 DEF WantedNames
    <3>4. PICK l \in OwnOf(links[i], n) : l.name = name
      BY <3>3 DEF Fits, LinkNames
    <3>5. l \in links[i] /\ (l.parent \in Devices \/ l.parent = VxlanName(t.id))
      BY <3>4 DEF Fits, Right, OwnOf
    <3>6. Unchanged(old, new, "vlan") /\ (Unchanged(old, new, "vxlan") <=> old.vxlan = new.vxlan)
      BY <3>1 DEF Unchanged
    <3>7. l.parent \in Devices \/ old.vxlan = new.vxlan
      BY <2>2, <3>1, <3>2, <3>4, <3>5, <3>6 DEF GoesAlong
    <3>8. WantedNames(zo) \subseteq {VxlanName(old.id)} /\ (old.vxlan = new.vxlan => WantedNames(zo) = {})
      BY <1>6, <3>1 DEF WantedNames
    <3>9. VxlanName(old.id) \notin Devices \/ WantedNames(zo) = {}
      <4>1. WantedNames(zo) \subseteq NamesOf(n)
        BY <1>1, ZeroedNames
      <4>2. Devices \cap NamesOf(n) = {}
        BY NamesApart
      <4> QED BY <3>8, <4>1, <4>2
    <3>10. l.name \notin WantedNames(zo) /\ l.parent \notin WantedNames(zo)
      BY <2>2, <3>2, <3>4, <3>7, <3>8, <3>9
    <3> QED BY <1>7, <3>4, <3>5, <3>10 DEF LinkNames
  <2>3. CASE name = VxlanName(new.id) /\ new.vxlan # 0
    <3>1. old.vxlan = new.vxlan
      BY <1>6, <1>11, <2>3 DEF WantedNames
    <3>2. old.id = new.id
      BY <2>3, <3>1, KeptAlike
    <3>3. name \in WantedNames(t)
      BY <2>3, <3>1, <3>2 DEF WantedNames
    <3>4. PICK l \in OwnOf(links[i], n) : l.name = name
      BY <3>3 DEF Fits, LinkNames
    <3>5. l \in links[i] /\ l.parent \in Devices
      BY <2>3, <3>2, <3>4 DEF Fits, Right, OwnOf
    <3>6. WantedNames(zo) \subseteq {VlanName(old.id, old.vlan)}
      BY <1>6, <3>1 DEF WantedNames
    <3>7. VlanName(old.id, old.vlan) # name
      BY <2>3, NamesDiffer
    <3>8. WantedNames(zo) \subseteq NamesOf(n) /\ Devices \cap NamesOf(n) = {}
      BY <1>1, ZeroedNames, NamesApart
    <3> QED BY <1>7, <3>4, <3>5, <3>6, <3>7, <3>8 DEF LinkNames
  <2> QED BY <2>1, <2>2, <2>3
<1>12. WantedNames(new) \subseteq LinkNames(add.links)
  BY <1>10, <1>11 DEF LinkNames
<1> QED BY <1>5, <1>9, <1>12 DEF Fits, OwnOf, LinkNames

-----------------------------------------------------------------------------
(* Interfaces and what the watcher knows                                     *)

\* An interface an earlier watcher left is right for what this one will hear first.
LeftFor(i, l, q, w, n, x) ==
    \/ \E j \in DOMAIN q : Leads(q, n, j) /\ Right(i, l, q[j].obj.spec)
    \/ w = "off" /\ x # <<>> /\ Right(i, l, x[1])

\* The interfaces of a network are those of the object the watcher has heard of.
HostsOK(i, own, q, o, w, n, x) ==
    IF o.ver # 0 THEN Fits(i, own, o.orig)
                 ELSE \A l \in own : LeftFor(i, l, q, w, n, x)

\* What the handlers make of the object they got: NADs are patched, the VNIs of DanmNets
\* zeroed.
KnowsOK(o, k, n, isExcused) ==
    IF o.ver = 0 THEN o = NoKnown
    ELSE /\ o.spec.id = o.orig.id
         /\ k = NadKind =>
               /\ o.spec.vlan = o.orig.vlan /\ o.spec.vxlan = o.orig.vxlan
               /\ o.spec.device # o.orig.device =>
                     o.spec.device \in NamesOf(n) /\ (o.orig.device # <<>> \/ isExcused)
         /\ k # NadKind =>
               /\ o.spec.device = o.orig.device
               /\ o.spec.vlan \in {0, o.orig.vlan} /\ o.spec.vxlan \in {0, o.orig.vxlan}
         /\ k \notin {NadKind, DanmNetKind} => o.spec = o.orig

\* One watcher and one network: w is its watch, x what is in the API server.
PairOK(i, k, n, q, o, w, own, x, isExcused) ==
    /\ ChainOK(q, o, w, n, x)
    /\ KnowsOK(o, k, n, isExcused)
    /\ ~isExcused => HostsOK(i, own, q, o, w, n, x)

Pairs ==
    \A i \in Nodes : \A n \in Networks :
        PairOK(i, kind[n], n, queue[i][kind[n]], known[i][n], watch[i][kind[n]], OwnOf(links[i], n),
               Stored(n), n \in excused[i])

\* Objects, wherever they are, have a NetworkID of their network and a device of it, and
\* interfaces of a network are on a device or on each other.
Homes ==
    /\ \A n \in Networks : api[n] = NoObj \/ (InApi(n) /\ IsFrom(n, api[n].spec))
    /\ \A i \in Nodes : \A k \in Kinds : \A e \in ToSet(queue[i][k]) :
          e.type \in {"put", "del"} => IsFrom(e.net, e.obj.spec)
    /\ \A i \in Nodes : \A n \in Networks :
          known[i][n].ver # 0 => IsFrom(n, known[i][n].orig)
    /\ \A i \in Nodes : AllOnOwn(links[i])

LInv == Homes /\ Pairs

\* More events, none of them a deletion event of the network.
LEMMA PairAfterMore ==
    ASSUME NEW i, NEW k, NEW n, NEW S, NEW q \in Seq(S), NEW p \in Seq(S), NEW r, r = q \o p, NEW o,
           NEW w, NEW v, NEW own, NEW x, NEW f, PairOK(i, k, n, q, o, w, own, x, f), w # "off",
           v # "off", NoDel(p, n),
           NEW y, v = "up" => IsSaid(r, o, n, Len(r) + 1, y)
    PROVE  PairOK(i, k, n, r, o, v, own, y, f)
<1>1. ChainOK(r, o, v, n, y)
  <2>1. ChainOK(q, o, w, n, x)
    BY DEF PairOK
  <2> QED BY <2>1, ChainAfterMore
<1>2. ASSUME NEW l, LeftFor(i, l, q, w, n, x)
      PROVE  LeftFor(i, l, r, v, n, y)
  <2>1. PICK j \in DOMAIN q : Leads(q, n, j) /\ Right(i, l, q[j].obj.spec)
    BY <1>2 DEF LeftFor
  <2>2. Leads(r, n, j) /\ r[j] = q[j]
    BY <2>1, LeadsBefore
  <2>3. j \in DOMAIN r
    BY <2>2 DEF Leads
  <2> QED BY <2>1, <2>2, <2>3 DEF LeftFor
<1>3. HostsOK(i, own, q, o, w, n, x) => HostsOK(i, own, r, o, v, n, y)
  BY <1>2 DEF HostsOK
<1> QED BY <1>1, <1>3 DEF PairOK

\* An event of another network.
LEMMA PairAfterOther ==
    ASSUME NEW i, NEW k, NEW n, NEW S, NEW q \in Seq(S), NEW e \in S, ~Concerns(e, n), NEW o,
           NEW w, w = "up", NEW own, NEW x, NEW f, PairOK(i, k, n, q, o, w, own, x, f)
    PROVE  PairOK(i, k, n, Append(q, e), o, w, own, x, f)
<1>1. PICK p : p = <<e>>
  OBVIOUS
<1>2. PICK r : r = Append(q, e)
  OBVIOUS
<1>3. p \in Seq(S) /\ r = q \o p /\ DOMAIN p = {1} /\ p[1] = e
  BY <1>1, <1>2
<1>4. ToSet(p) = {e}
  BY <1>3 DEF ToSet
<1>5. IsSaid(q, o, n, Len(q) + 1, x)
  BY DEF PairOK, ChainOK
<1>6. IsSaid(r, o, n, Len(r) + 1, x)
  BY <1>3, <1>4, <1>5, SaidAfter
<1>7. NoDel(p, n)
  BY <1>4 DEF NoDel
<1> QED BY <1>2, <1>3, <1>6, <1>7, PairAfterMore

\* A write to the network.
Inherits(i, x, y) == \A l : x # <<>> /\ Right(i, l, x[1]) => y # <<>> /\ Right(i, l, y[1])

\* The queue of a watcher after a write.
IsAfterWrite(r, q, e, w) == r = IF w = "up" THEN Append(q, e) ELSE q

LEMMA PairAfterWrite ==
    ASSUME NEW i, NEW k, NEW n, NEW S, NEW q \in Seq(S), NEW e \in S, Concerns(e, n), NEW o, NEW w,
           NEW own, NEW x, NEW f, PairOK(i, k, n, q, o, w, own, x, f),
           e.type = "del" => x = <<e.obj.spec>>, NEW g, f => g,
           w = "off" /\ ~g => Inherits(i, x, Content(e)),
           NEW r, IsAfterWrite(r, q, e, w)
    PROVE  PairOK(i, k, n, r, o, w, own, Content(e), g)
<1>1. r = IF w = "up" THEN Append(q, e) ELSE q
  BY DEF IsAfterWrite
<1>2. ChainOK(r, o, w, n, Content(e))
  <2>1. ChainOK(q, o, w, n, x)
    BY DEF PairOK
  <2> QED BY <1>1, <2>1, ChainAfterWrite
<1>3. ASSUME ~g, NEW l, LeftFor(i, l, q, w, n, x)
      PROVE  LeftFor(i, l, r, w, n, Content(e))
  <2>1. CASE \E j \in DOMAIN q : Leads(q, n, j) /\ Right(i, l, q[j].obj.spec)
    <3>1. PICK j \in DOMAIN q : Leads(q, n, j) /\ Right(i, l, q[j].obj.spec)
      BY <2>1
    <3>2. Leads(r, n, j) /\ r[j] = q[j]
      <4>1. CASE w = "up"
        <5>1. PICK p : p = <<e>>
          OBVIOUS
        <5>2. p \in Seq(S) /\ r = q \o p
          BY <1>1, <4>1, <5>1
        <5>3. Leads(q, n, j)
          BY <3>1
        <5>4. q \in Seq(S)
          OBVIOUS
        <5> QED BY ONLY <5>2, <5>3, <5>4, LeadsBefore
      <4>2. CASE w # "up"
        BY <1>1, <3>1, <4>2
      <4> QED BY <4>1, <4>2
    <3>3. j \in DOMAIN r
      BY <3>2 DEF Leads
    <3> QED BY <3>1, <3>2, <3>3 DEF LeftFor
  <2>2. CASE w = "off" /\ x # <<>> /\ Right(i, l, x[1])
    BY <1>3, <2>2 DEF LeftFor, Inherits
  <2> QED BY <1>3, <2>1, <2>2 DEF LeftFor
<1>4. ~g => HostsOK(i, own, r, o, w, n, Content(e))
  BY <1>3 DEF HostsOK, PairOK
<1>5. KnowsOK(o, k, n, g)
  BY DEF PairOK, KnowsOK
<1> QED BY <1>2, <1>4, <1>5 DEF PairOK

\* Another network's event, or a resync, has been handled.
LEMMA PairAfterPop ==
    ASSUME NEW i, NEW k, NEW n, NEW S, NEW q \in Seq(S), q # <<>>, ~Concerns(q[1], n), NEW o, NEW w,
           NEW own, NEW x, NEW f, PairOK(i, k, n, q, o, w, own, x, f)
    PROVE  PairOK(i, k, n, Tail(q), o, w, own, x, f)
<1>1. ChainOK(Tail(q), o, w, n, x)
  BY ChainAfterPop DEF PairOK, Learns
<1>2. ASSUME NEW l, LeftFor(i, l, q, w, n, x)
      PROVE  LeftFor(i, l, Tail(q), w, n, x)
  <2>1. CASE \E j \in DOMAIN q : Leads(q, n, j) /\ Right(i, l, q[j].obj.spec)
    BY <2>1, LeadsAfterPop DEF LeftFor
  <2>2. CASE w = "off" /\ x # <<>> /\ Right(i, l, x[1])
    BY <2>2 DEF LeftFor
  <2> QED BY <1>2, <2>1, <2>2 DEF LeftFor
<1>3. ~f => HostsOK(i, own, Tail(q), o, w, n, x)
  BY <1>2 DEF HostsOK, PairOK
<1> QED BY <1>1, <1>3 DEF PairOK

LEMMA PairWeakens ==
    ASSUME NEW i, NEW k, NEW n, NEW q, NEW o, NEW w, NEW own, NEW x, NEW f, NEW g, f => g,
           PairOK(i, k, n, q, o, w, own, x, f)
    PROVE  PairOK(i, k, n, q, o, w, own, x, g)
BY DEF PairOK, KnowsOK

LEMMA StoredAfter ==
    ASSUME TypeOK, NEW n \in Networks, NEW obj, api' = [api EXCEPT ![n] = obj],
           obj = NoObj \/ obj.ver # 0
    PROVE  /\ Stored(n)' = Content(WriteEvent(n, obj))
           /\ \A m \in Networks \ {n} : Stored(m)' = Stored(m)
<1>1. api \in [Networks -> Objects]
  BY DEF TypeOK
<1>2. api'[n] = obj /\ \A m \in Networks \ {n} : api'[m] = api[m]
  BY <1>1
<1>3. Content(WriteEvent(n, obj)) = IF obj = NoObj THEN <<>> ELSE <<obj.spec>>
  BY DEF WriteEvent, Event, Content
<1>4. NoObj.ver = 0
  BY DEF NoObj
<1> QED BY <1>2, <1>3, <1>4 DEF Stored, InApi

\* A write to the API server, for one watcher and one network.
LEMMA PairWritten ==
    ASSUME TypeOK, NEW n \in Networks, NEW obj, obj = NoObj \/ obj.ver # 0,
           obj = NoObj => InApi(n), NEW Q \in [Nodes -> [Kinds -> Seq(Events)]],
           Write(n, obj, Q), NEW i \in Nodes, NEW m \in Networks, NEW o, NEW own, NEW f, NEW g,
           PairOK(i, kind[m], m, Q[i][kind[m]], o, watch[i][kind[m]], own, Stored(m), f), f => g,
           m = n /\ watch[i][kind[m]] = "off" /\ ~g =>
              Inherits(i, Stored(n), IF obj = NoObj THEN <<>> ELSE <<obj.spec>>)
    PROVE  PairOK(i, kind[m], m, queue'[i][kind[m]], o, watch[i][kind[m]], own, Stored(m)', g)
<1>1. PICK e : e = WriteEvent(n, obj)
  OBVIOUS
<1>2. PICK k \in Kinds : k = kind[m]
  BY DEF TypeOK
<1>3. /\ e.net = n /\ e.type \in {"put", "del"} /\ Concerns(e, n)
      /\ obj = NoObj => e.type = "del" /\ e.obj = api[n] /\ Content(e) = <<>>
      /\ obj # NoObj => e.type = "put" /\ Content(e) = <<obj.spec>>
  <2>1. CASE obj = NoObj
    <3>1. e = Event("del", n, api[n])
      BY <1>1, <2>1 DEF WriteEvent
    <3> QED BY <2>1, <3>1 DEF Event, Concerns, Content
  <2>2. CASE obj # NoObj
    <3>1. e = Event("put", n, obj)
      BY <1>1, <2>2 DEF WriteEvent
    <3> QED BY <2>2, <3>1 DEF Event, Concerns, Content
  <2> QED BY <2>1, <2>2
<1>4. PICK q : q = Q[i][k]
  OBVIOUS
<1>5. PICK S : S = Events \cup {e}
  OBVIOUS
<1>6. e \in S /\ q \in Seq(S)
  <2>1. q \in Seq(Events)
    BY <1>4
  <2> QED BY <1>5, <2>1
<1>7. queue'[i][k] = IF k = kind[n] /\ watch[i][k] = "up" THEN Append(q, e) ELSE q
  <2>1. queue' = Deliver(Q, e)
    BY <1>1 DEF Write, WriteEvent
  <2> QED BY <1>3, <1>4, <2>1 DEF Deliver
<1>8. api' = [api EXCEPT ![n] = obj]
  BY DEF Write
<1>9. Stored(n)' = Content(e) /\ (m # n => Stored(m)' = Stored(m))
  BY <1>1, <1>8, StoredAfter
<1>10. PICK w : w = watch[i][k]
  OBVIOUS
<1>11. PairOK(i, k, m, q, o, w, own, Stored(m), f)
  BY <1>2, <1>4, <1>10
<1>12. CASE m # n
  <2>1. ~Concerns(e, m)
    BY <1>3, <1>12 DEF Concerns
  <2>2. w = "up" => PairOK(i, k, m, Append(q, e), o, w, own, Stored(m), f)
    BY <1>6, <1>11, <2>1, PairAfterOther
  <2>3. PairOK(i, k, m, queue'[i][k], o, w, own, Stored(m), f)
    BY <1>7, <1>10, <1>11, <2>2
  <2>4. PairOK(i, k, m, queue'[i][k], o, w, own, Stored(m), g)
    BY <2>3, PairWeakens
  <2> QED BY <1>2, <1>9, <1>10, <1>12, <2>4
<1>13. CASE m = n
  <2>0. PICK x : x = Stored(n)
    OBVIOUS
  <2>1. e.type = "del" => x = <<e.obj.spec>>
    <3>1. e.type = "del" => InApi(n) /\ e.obj = api[n]
      BY <1>3
    <3> QED BY <2>0, <3>1 DEF Stored
  <2>2. w = "off" /\ ~g => Inherits(i, x, Content(e))
    BY <1>2, <1>3, <1>10, <1>13, <2>0
  <2>3. PairOK(i, k, n, q, o, w, own, x, f)
    BY <1>11, <1>13, <2>0
  <2>4. PICK r : r = IF w = "up" THEN Append(q, e) ELSE q
    OBVIOUS
  <2>5. PairOK(i, k, n, r, o, w, own, Content(e), g)
    <3>1. e \in S
      BY <1>6
    <3>2. q \in Seq(S)
      BY <1>6
    <3>3. Concerns(e, n)
      BY <1>3
    <3>4. f => g
      OBVIOUS
    <3>5. IsAfterWrite(r, q, e, w)
      BY <2>4 DEF IsAfterWrite
    <3> QED BY ONLY <3>1, <3>2, <3>3, <3>4, <3>5, <2>1, <2>2, <2>3, PairAfterWrite
  <2> QED BY <1>2, <1>7, <1>9, <1>10, <1>13, <2>4, <2>5
<1> QED BY <1>12, <1>13

\* A NAD that is patched still asks for the interfaces it asked for.
LEMMA PatchedRight ==
    ASSUME NEW n \in Networks, NEW s \in AnySpec, NEW p, p = PatchCniConf(s, p.device),
           p.device \in NamesOf(n), NEW i, NEW l, Right(i, l, s)
    PROVE  Right(i, l, p)
<1>1. p.id = s.id /\ p.vlan = s.vlan /\ p.vxlan = s.vxlan
  BY DEF PatchCniConf, AnySpec
<1>2. p.device \notin Devices /\ p.device # <<>> /\ s.device # <<>>
  BY NamesApart, WantedName DEF Right
<1>3. WantedNames(p) = WantedNames(s)
  BY <1>1, <1>2 DEF WantedNames
<1>4. IsFor(i, l, p)
  BY <1>1, <1>2 DEF IsFor, Right
<1> QED BY <1>1, <1>3, <1>4 DEF Right

-----------------------------------------------------------------------------
(* The handlers of updates                                                   *)

\* A NAD, whose device may be the name the watcher has written there.
LEMMA NadFollows ==
    ASSUME NEW n \in Networks, NEW i \in Nodes, NEW t \in AnySpec, NEW old \in AnySpec,
           NEW new \in AnySpec, IsFrom(n, t), IsFrom(n, new),
           old.id = t.id, old.vlan = t.vlan, old.vxlan = t.vxlan,
           old.device # t.device => old.device \in NamesOf(n) /\ t.device # <<>>,
           Fits(i, OwnOf(links[i], n), t), ~IsRenamed(old, new), ~GoesAlong(i, old, new),
           NEW fault, NEW r, r = Replaced(i, old, new, fault), ~r.err
    PROVE  Fits(i, OwnOf(r.links, n), new)
<1>1. /\ new.device \in Home(n) /\ WantedNames(new) \subseteq NamesOf(n)
      /\ WantedNames(old) \subseteq NamesOf(n)
  BY NamesOfNetwork DEF IsFrom
<1>2. Devices \cap NamesOf(n) = {} /\ <<>> \notin NamesOf(n)
  BY NamesApart
<1>3. old.device = <<>> => t.device = <<>>
  BY <1>2
<1>4. CASE old.device # new.device
  BY <1>1, <1>3, <1>4, MovedFits
<1>5. CASE old.device = new.device /\ new.device = <<>>
  <2>1. /\ zeroVnis(old, old, new).device = <<>> /\ zeroVnis(new, old, new).device = <<>>
    BY <1>5, Zeroed
  <2>2. /\ WantedNames(zeroVnis(old, old, new)) = {} /\ WantedNames(zeroVnis(new, old, new)) = {}
    BY <2>1 DEF WantedNames
  <2>3. r.links = links[i]
    BY <2>2, ReplacedNothing
  <2>4. WantedNames(t) = {} /\ WantedNames(new) = {}
    BY <1>3, <1>5 DEF WantedNames
  <2>5. OwnOf(links[i], n) = {}
    BY <2>4 DEF Fits, Right
  <2> QED BY <2>3, <2>4, <2>5 DEF Fits
<1>6. CASE old.device = new.device /\ new.device # <<>>
  <2>1. t.device # <<>> /\ (new.device \in Devices => t.device = new.device)
    BY <1>2, <1>6
  <2> QED BY <1>1, <1>6, <2>1, SameDeviceFits
<1> QED BY <1>4, <1>5, <1>6

\* A network of another API is what the handler got, or has VNIs that were zeroed.
LEMMA OtherFollows ==
    ASSUME NEW n \in Networks, NEW i \in Nodes, NEW o, o.spec \in AnySpec, o.orig \in AnySpec,
           NEW new \in AnySpec, IsFrom(n, o.orig), IsFrom(n, new), kind[n] # NadKind,
           o.spec.device = o.orig.device,
           o.spec.vlan \in {0, o.orig.vlan}, o.spec.vxlan \in {0, o.orig.vxlan},
           Fits(i, OwnOf(links[i], n), o.orig), ~CannotFollow(o, new),
           NEW fault, NEW r, r = Replaced(i, o.spec, new, fault), ~r.err
    PROVE  Fits(i, OwnOf(r.links, n), new)
<1>1. CASE o.orig = new
  <2>1. PICK z : z = zeroVnis(o.spec, o.spec, new)
    OBVIOUS
  <2>2. z.vlan = 0 /\ z.vxlan = 0
    BY <1>1, <2>1, Zeroed
  <2>3. WantedNames(z) = {}
    BY <2>2 DEF WantedNames
  <2>4. WantedNames(zeroVnis(new, o.spec, new)) \subseteq WantedNames(new)
    BY ZeroedNames
  <2>5. LinkNames(OwnOf(links[i], n)) \subseteq LinkNames(links[i])
    BY DEF LinkNames, OwnOf
  <2>6. WantedNames(new) \subseteq LinkNames(OwnOf(links[i], n))
    BY <1>1 DEF Fits
  <2>7. WantedNames(zeroVnis(new, o.spec, new)) \subseteq LinkNames(links[i])
    BY <2>4, <2>5, <2>6
  <2>8. WantedNames(zeroVnis(o.spec, o.spec, new)) = {}
    BY <2>1, <2>3
  <2>9. Replaced(i, o.spec, new, fault).links = links[i]
    BY <2>7, <2>8, ReplacedNothing
  <2> QED BY <1>1, <2>9
<1>2. CASE o.spec = o.orig /\ ~IsRenamed(o.orig, new)
  <2>1. ~GoesAlong(i, o.spec, new)
    <3> SUFFICES ASSUME GoesAlong(i, o.spec, new) PROVE FALSE
      OBVIOUS
    <3>1. PICK l \in links[i] :
             l.name = VlanName(o.orig.id, o.orig.vlan) /\ l.parent = VxlanName(o.orig.id)
      BY <1>2 DEF GoesAlong
    <3>2. VlanName(o.orig.id, o.orig.vlan) \in NamesOf(n) /\ VxlanName(o.orig.id) \in NamesOf(n)
      BY NamesOfNetwork DEF IsFrom
    <3>3. Right(i, l, o.orig)
      BY <3>1, <3>2 DEF OwnOf, Fits
    <3>4. o.orig.device # <<>> /\ l.parent = o.orig.device /\ o.orig.device \in Devices
      BY <3>3, WantedName DEF Right, IsFor, IsFrom, Home
    <3> QED BY <3>1, <3>2, <3>4, NamesApart
  <2> QED BY <1>2, <2>1, NadFollows
<1> QED BY <1>1, <1>2 DEF CannotFollow

LEMMA FollowsFits ==
    ASSUME NEW n \in Networks, NEW i \in Nodes, NEW o, o.spec \in AnySpec, o.orig \in AnySpec,
           NEW new \in AnySpec, IsFrom(n, o.orig), IsFrom(n, new), o.ver # 0,
           KnowsOK(o, kind[n], n, FALSE), Fits(i, OwnOf(links[i], n), o.orig),
           NEW fault, NEW r, r = Replaced(i, o.spec, new, fault), ~r.err,
           IF kind[n] = NadKind THEN ~IsRenamed(o.spec, new) /\ ~GoesAlong(i, o.spec, new)
                                ELSE ~CannotFollow(o, new)
    PROVE  Fits(i, OwnOf(r.links, n), new)
<1>1. CASE kind[n] = NadKind
  <2>1. /\ o.spec.id = o.orig.id /\ o.spec.vlan = o.orig.vlan /\ o.spec.vxlan = o.orig.vxlan
        /\ o.spec.device # o.orig.device =>
              o.spec.device \in NamesOf(n) /\ o.orig.device # <<>>
    BY <1>1 DEF KnowsOK
  <2> QED BY <1>1, <2>1, NadFollows
<1>2. CASE kind[n] # NadKind
  <2>1. /\ o.spec.device = o.orig.device
        /\ o.spec.vlan \in {0, o.orig.vlan} /\ o.spec.vxlan \in {0, o.orig.vxlan}
    BY <1>2 DEF KnowsOK
  <2> QED BY <1>2, <2>1, OtherFollows
<1> QED BY <1>1, <1>2

-----------------------------------------------------------------------------
(* What the handlers do to the interfaces of their network                   *)

\* The handler of an event: what it leaves of its network is right for what it has heard,
\* unless it lost track of the network.
Tracks(i, k, e, obj, r, lost) ==
    /\ queue[i][k] # <<>> /\ e = NextEvent(i, k)
    /\ Touches(e.net, links[i], r.links)
    /\ Learns(queue[i][k], e.net, known[i][e.net], obj)
    /\ obj.ver # 0 => IsFrom(e.net, obj.orig)
    /\ KnowsOK(obj, k, e.net, e.net \in excused[i] \/ lost)
    /\ e.net \notin excused[i] /\ ~lost =>
          HostsOK(i, OwnOf(r.links, e.net), Tail(queue[i][k]), obj, watch[i][k], e.net,
                  Stored(e.net))

LEMMA EventPair ==
    ASSUME IInv, LInv, NEW i \in Nodes, NEW k \in Kinds, queue[i][k] # <<>>,
           NEW e, e = NextEvent(i, k), NEW o, o = known[i][e.net], NEW q, q = queue[i][k]
    PROVE  /\ e \in Events /\ e.net \in Networks /\ kind[e.net] = k /\ q \in Seq(Events) /\ e = q[1]
           /\ e.obj.spec \in AnySpec /\ o.spec \in AnySpec /\ o.orig \in AnySpec
           /\ PairOK(i, k, e.net, q, o, watch[i][k], OwnOf(links[i], e.net), Stored(e.net),
                     e.net \in excused[i])
           /\ watch[i][k] # "off" /\ AllOnOwn(links[i])
           /\ e.type = "put" => e.obj.ver # 0
           /\ e.type \in {"put", "del"} => IsFrom(e.net, e.obj.spec)
           /\ o.ver # 0 => IsFrom(e.net, o.orig)
           /\ o.ver = 0 => o = NoKnown
<1>1. TypeOK /\ Versions /\ Homes /\ Pairs
  BY DEF IInv, LInv
<1>2. /\ e \in Events /\ e.net \in Networks /\ e.obj.spec \in AnySpec
      /\ o \in [spec : AnySpec, orig : AnySpec, ver : 0 .. rev]
  BY <1>1, EventObjects
<1>3. e \in ToSet(queue[i][k])
  BY <1>1, NextEventType
<1>4. EventOK(k, e)
  BY <1>1, <1>3 DEF Versions
<1>5. kind[e.net] = k /\ (e.type = "put" => e.obj.ver # 0)
  BY <1>4 DEF EventOK
<1>6. PairOK(i, k, e.net, q, o, watch[i][k], OwnOf(links[i], e.net), Stored(e.net),
             e.net \in excused[i])
  BY <1>1, <1>2, <1>5 DEF Pairs
<1>7. q \in Seq(Events) /\ e = q[1]
  BY <1>1 DEF TypeOK, NextEvent
<1>8. ChainOK(q, o, watch[i][k], e.net, Stored(e.net))
  BY <1>6 DEF PairOK
<1>9. watch[i][k] # "off"
  BY <1>8 DEF ChainOK
<1>10. o.ver = 0 => o = NoKnown
  BY <1>6 DEF PairOK, KnowsOK
<1>11. /\ AllOnOwn(links[i]) /\ (e.type \in {"put", "del"} => IsFrom(e.net, e.obj.spec))
       /\ (o.ver # 0 => IsFrom(e.net, o.orig))
  BY <1>1, <1>2, <1>3 DEF Homes
<1> QED BY <1>2, <1>5, <1>6, <1>7, <1>9, <1>10, <1>11

\* What an earlier watcher has left of a network is right for the network it first hears of.
LEMMA FoundRight ==
    ASSUME NEW i, NEW k, NEW n, NEW q \in Seq(Events), q # <<>>, NEW o, o.ver = 0, NEW w, w # "off",
           NEW own, NEW x, PairOK(i, k, n, q, o, w, own, x, FALSE),
           Concerns(q[1], n), NEW l \in own
    PROVE  q[1].type = "put" /\ Right(i, l, q[1].obj.spec)
<1>1. LeftFor(i, l, q, w, n, x)
  BY DEF PairOK, HostsOK
<1>2. PICK j \in DOMAIN q : Leads(q, n, j) /\ Right(i, l, q[j].obj.spec)
  BY <1>1 DEF LeftFor
<1>3. Content(q[1]) = Content(q[j])
  BY <1>2, LeadsAfterPop
<1>4. Content(q[j]) = <<q[j].obj.spec>>
  BY <1>2 DEF Leads, Content
<1>5. q[1].type = "put" /\ <<q[1].obj.spec>> = <<q[j].obj.spec>>
  BY <1>3, <1>4 DEF Content
<1>6. q[1].obj.spec = q[j].obj.spec
  BY <1>5
<1> QED BY <1>2, <1>5, <1>6

\* A network that is added.
LEMMA AddTracks ==
    ASSUME IInv, LInv, NEW i \in Nodes, NEW k \in Kinds, IsNext(i, k, "add"),
           NEW e, e = NextEvent(i, k), NEW fault, NEW r, r = setupHost(i, e.obj.spec, links[i], fault),
           NEW obj, obj.orig = e.obj.spec, obj.ver = e.obj.ver, NEW lost, r.err => lost,
           KnowsOK(obj, k, e.net, lost)
    PROVE  Tracks(i, k, e, obj, r, lost)
<1>1. queue[i][k] # <<>> /\ e.type = "put" /\ known[i][e.net].ver = 0
  BY DEF IsNext, NextEvent
<1>2. PICK q : q = queue[i][k]
  OBVIOUS
<1>3. PICK o : o = known[i][e.net]
  OBVIOUS
<1>4. /\ e.net \in Networks /\ kind[e.net] = k /\ q \in Seq(Events) /\ e = q[1]
      /\ e.obj.spec \in AnySpec /\ watch[i][k] # "off" /\ AllOnOwn(links[i])
      /\ PairOK(i, k, e.net, q, o, watch[i][k], OwnOf(links[i], e.net), Stored(e.net),
                e.net \in excused[i])
      /\ e.obj.ver # 0 /\ IsFrom(e.net, e.obj.spec)
  BY <1>1, <1>2, <1>3, EventPair
<1>5. WantedNames(e.obj.spec) \subseteq NamesOf(e.net) /\ e.obj.spec.device \in Home(e.net)
  BY <1>4, NamesOfNetwork DEF IsFrom
<1>6. Touches(e.net, links[i], r.links)
  BY <1>4, <1>5, SetupTouches
<1>7. Learns(q, e.net, o, obj)
  BY <1>1, <1>4 DEF Learns, Held, Content, Concerns
<1>8. ASSUME e.net \notin excused[i], ~lost
      PROVE  HostsOK(i, OwnOf(r.links, e.net), Tail(q), obj, watch[i][k], e.net, Stored(e.net))
  <2>1. Concerns(q[1], e.net)
    BY <1>1, <1>4 DEF Concerns
  <2>2. PairOK(i, k, e.net, q, o, watch[i][k], OwnOf(links[i], e.net), Stored(e.net), FALSE)
    BY <1>4, <1>8 DEF PairOK, KnowsOK
  <2>3. \A l \in OwnOf(links[i], e.net) : Right(i, l, e.obj.spec)
    BY <1>1, <1>2, <1>3, <1>4, <2>1, <2>2, FoundRight
  <2>4. Fits(i, OwnOf(r.links, e.net), e.obj.spec)
    BY <1>4, <1>5, <1>8, <2>3, SetUpFits
  <2> QED BY <1>4, <2>4 DEF HostsOK
<1>9. KnowsOK(obj, k, e.net, e.net \in excused[i] \/ lost)
  BY DEF KnowsOK
<1> QED BY <1>1, <1>2, <1>3, <1>4, <1>6, <1>7, <1>8, <1>9 DEF Tracks

\* A network that is deleted.
LEMMA DeleteTracks ==
    ASSUME IInv, LInv, NEW i \in Nodes, NEW k \in Kinds, IsNext(i, k, "delete"),
           NEW e, e = NextEvent(i, k), NEW o, o = known[i][e.net],
           NEW s, s = (IF e.type = "del" THEN e.obj.spec ELSE o.spec),
           NEW fault, NEW r, r = deleteNetworks(s, links[i], fault), NEW lost,
           r.err \/ (e.type = "tomb" /\ k = DanmNetKind /\ o.spec # o.orig) => lost
    PROVE  Tracks(i, k, e, NoKnown, r, lost)
<1>1. queue[i][k] # <<>> /\ e.type \notin {"put", "sync"}
  BY DEF IsNext, NextEvent
<1>2. PICK q : q = queue[i][k]
  OBVIOUS
<1>3. PICK n : n = e.net
  OBVIOUS
<1>4. /\ e \in Events /\ n \in Networks /\ kind[n] = k /\ q \in Seq(Events) /\ e = q[1]
      /\ e.obj.spec \in AnySpec /\ o.spec \in AnySpec /\ o.orig \in AnySpec
      /\ watch[i][k] # "off" /\ AllOnOwn(links[i])
      /\ PairOK(i, k, n, q, o, watch[i][k], OwnOf(links[i], n), Stored(n), n \in excused[i])
      /\ e.type = "del" => IsFrom(n, e.obj.spec)
      /\ o.ver # 0 => IsFrom(n, o.orig)
      /\ o.ver = 0 => o = NoKnown
  BY <1>1, <1>2, <1>3, EventPair
<1>5. e.type \in {"del", "tomb"}
  BY <1>1, <1>4, EventFields
<1>6. Concerns(q[1], n) /\ Content(q[1]) = <<>>
  BY <1>1, <1>3, <1>4 DEF Concerns, Content
<1>7. KnowsOK(o, k, n, n \in excused[i])
  BY <1>4 DEF PairOK
<1>8. WantedNames(s) \subseteq NamesOf(n)
  <2>1. CASE e.type = "del"
    BY <1>4, <2>1, NamesOfNetwork DEF IsFrom
  <2>2. CASE e.type # "del" /\ o.ver # 0
    <3>1. s = o.spec /\ o.spec.id = o.orig.id
      BY <1>7, <2>2 DEF KnowsOK
    <3> QED BY <1>4, <2>2, <3>1, NamesOfNetwork DEF IsFrom
  <2>3. CASE e.type # "del" /\ o.ver = 0
    <3>1. s = NoSpec
      BY <1>4, <2>3 DEF NoKnown
    <3>2. WantedNames(NoSpec) = {}
      BY DEF NoSpec, WantedNames
    <3> QED BY <3>1, <3>2
  <2> QED BY <2>1, <2>2, <2>3
<1>9. Touches(n, links[i], r.links)
  BY <1>4, <1>8, DeleteTouches
<1>10. Learns(q, n, o, NoKnown)
  BY <1>6 DEF Learns, Held, NoKnown
<1>11. KnowsOK(NoKnown, k, n, n \in excused[i] \/ lost)
  BY DEF KnowsOK, NoKnown
<1>12. ASSUME n \notin excused[i], ~lost
       PROVE  OwnOf(r.links, n) = {}
  <2>1. r.links \subseteq links[i] /\ \A l \in r.links : l.name \notin WantedNames(s)
    BY <1>12, NetworkDeleted
  <2>2. PairOK(i, k, n, q, o, watch[i][k], OwnOf(links[i], n), Stored(n), FALSE)
    BY <1>4, <1>12 DEF PairOK, KnowsOK
  <2>3. CASE o.ver = 0
    <3>1. \A l \in OwnOf(links[i], n) : q[1].type = "put"
      BY <1>1, <1>2, <1>4, <1>6, <2>2, <2>3, FoundRight
    <3> QED BY <1>1, <1>4, <2>1, <3>1 DEF OwnOf
  <2>4. CASE o.ver # 0
    <3>1. \A l \in OwnOf(links[i], n) : l.name \in WantedNames(o.orig)
      BY <2>2, <2>4 DEF PairOK, HostsOK, Fits, Right
    <3>2. WantedNames(o.orig) \subseteq WantedNames(s)
      <4>1. CASE e.type = "del"
        <5>0. 1 \in DOMAIN q
          <6>1. q # <<>> /\ q \in Seq(Events)
            BY <1>1, <1>2, <1>4
          <6> QED BY <6>1
        <5>1. ChainOK(q, o, watch[i][k], n, Stored(n))
          BY <2>2 DEF PairOK
        <5>2. IsSaid(q, o, n, 1, <<e.obj.spec>>)
          BY <1>4, <1>6, <4>1, <5>0, <5>1 DEF ChainOK
        <5>3. Held(o) = <<e.obj.spec>>
          <6>1. \A j \in DOMAIN q : ~(j < 1)
            BY <1>4
          <6> QED BY <5>2, <6>1 DEF IsSaid
        <5>4. <<o.orig>> = <<e.obj.spec>>
          BY <2>4, <5>3 DEF Held
        <5> QED BY <4>1, <5>4
      <4>2. CASE e.type # "del" /\ k = NadKind
        <5>1. /\ s = o.spec /\ s.id = o.orig.id /\ s.vlan = o.orig.vlan /\ s.vxlan = o.orig.vxlan
              /\ s.device # o.orig.device => s.device \in NamesOf(n)
          BY <1>7, <2>4, <4>2 DEF KnowsOK
        <5>2. s.device = <<>> => o.orig.device = <<>>
          BY <1>4, <5>1, NamesApart
        <5> QED BY <5>1, <5>2 DEF WantedNames
      <4>3. CASE e.type # "del" /\ k # NadKind
        <5>1. s = o.orig
          BY <1>5, <1>7, <1>12, <2>4, <4>3 DEF KnowsOK
        <5> QED BY <5>1
      <4> QED BY <4>1, <4>2, <4>3
    <3> QED BY <2>1, <3>1, <3>2 DEF OwnOf
  <2> QED BY <2>3, <2>4
<1>13. n \notin excused[i] /\ ~lost =>
          HostsOK(i, OwnOf(r.links, n), Tail(q), NoKnown, watch[i][k], n, Stored(n))
  BY <1>12 DEF HostsOK, NoKnown
<1>14. NoKnown.ver = 0
  BY DEF NoKnown
<1> QED BY <1>1, <1>2, <1>3, <1>9, <1>10, <1>11, <1>13, <1>14 DEF Tracks

\* A resync finds nothing to do.
LEMMA SyncTracks ==
    ASSUME IInv, LInv, NEW i \in Nodes, NEW k \in Kinds, queue[i][k] # <<>>,
           NEW e, e = NextEvent(i, k), e.type = "sync", NEW o, o = known[i][e.net],
           NEW fault, NEW r, r = Replaced(i, o.spec, o.spec, fault),
           NEW obj, obj.orig = o.orig, obj.ver = o.ver, NEW lost,
           KnowsOK(obj, k, e.net, e.net \in excused[i] \/ lost)
    PROVE  Tracks(i, k, e, obj, r, lost)
<1>1. PICK q : q = queue[i][k]
  OBVIOUS
<1>2. PICK n : n = e.net
  OBVIOUS
<1>3. PICK w : w = watch[i][k]
  OBVIOUS
<1>4. PICK own : own = OwnOf(links[i], n)
  OBVIOUS
<1>5. PICK x : x = Stored(n)
  OBVIOUS
<1>6. PICK f : f = (n \in excused[i])
  OBVIOUS
<1>7. /\ n \in Networks /\ q \in Seq(Events) /\ e = q[1] /\ o.spec \in AnySpec
      /\ AllOnOwn(links[i]) /\ (o.ver # 0 => IsFrom(n, o.orig))
  BY <1>1, <1>2, EventPair
<1>8. PairOK(i, k, n, q, o, w, own, x, f)
  BY <1>1, <1>2, <1>3, <1>4, <1>5, <1>6, EventPair
<1>9. ~Concerns(q[1], n)
  BY <1>7 DEF Concerns
<1>10. PairOK(i, k, n, Tail(q), o, w, own, x, f)
  BY <1>1, <1>7, <1>8, <1>9, PairAfterPop
<1>11. r.links = links[i]
  <2>1. PICK z : z = zeroVnis(o.spec, o.spec, o.spec)
    OBVIOUS
  <2>2. z.vlan = 0 /\ z.vxlan = 0
    BY <1>7, <2>1 DEF zeroVnis, Unchanged, AnySpec
  <2>3. WantedNames(z) = {}
    BY <2>2 DEF WantedNames
  <2> QED BY <2>1, <2>3, ReplacedNothing
<1>12. Touches(n, links[i], r.links)
  BY <1>7, <1>11 DEF Touches, AllOnOwn
<1>13. Learns(q, n, o, obj)
  BY <1>9 DEF Learns, Held
<1>14. ~f => HostsOK(i, own, Tail(q), obj, w, n, x)
  BY <1>10 DEF PairOK, HostsOK
<1> QED BY <1>1, <1>2, <1>3, <1>4, <1>5, <1>6, <1>7, <1>11, <1>12, <1>13, <1>14 DEF Tracks

\* A network that is modified.
LEMMA UpdateTracks ==
    ASSUME IInv, LInv, NEW i \in Nodes, NEW k \in Kinds, IsNext(i, k, "update"),
           NEW e, e = NextEvent(i, k), NEW o, o = known[i][e.net],
           NEW new, new = e.obj.spec, NEW fault, NEW r, r = Replaced(i, o.spec, new, fault),
           NEW obj, obj.orig = new, obj.ver = e.obj.ver, NEW lost,
           KnowsOK(obj, k, e.net, e.net \in excused[i] \/ lost), r.err => lost,
           IF k = NadKind THEN IsRenamed(o.spec, new) \/ GoesAlong(i, o.spec, new) => lost
                          ELSE CannotFollow(o, new) => lost
    PROVE  Tracks(i, k, e, obj, r, lost)
<1>1. queue[i][k] # <<>> /\ e.type = "put" /\ o.ver # 0
  BY DEF IsNext, NextEvent
<1>2. PICK q : q = queue[i][k]
  OBVIOUS
<1>3. PICK n : n = e.net
  OBVIOUS
<1>4. /\ n \in Networks /\ kind[n] = k /\ q \in Seq(Events) /\ e = q[1]
      /\ new \in AnySpec /\ o.spec \in AnySpec /\ o.orig \in AnySpec /\ AllOnOwn(links[i])
      /\ PairOK(i, k, n, q, o, watch[i][k], OwnOf(links[i], n), Stored(n), n \in excused[i])
      /\ e.obj.ver # 0 /\ IsFrom(n, new) /\ IsFrom(n, o.orig)
  BY <1>1, <1>2, <1>3, EventPair
<1>5. KnowsOK(o, k, n, n \in excused[i])
  BY <1>4 DEF PairOK
<1>6. o.spec.id = o.orig.id
  BY <1>1, <1>5 DEF KnowsOK
<1>7. /\ WantedNames(new) \subseteq NamesOf(n) /\ WantedNames(o.spec) \subseteq NamesOf(n)
      /\ new.device \in Home(n)
  BY <1>4, <1>6, NamesOfNetwork DEF IsFrom
<1>8. Touches(n, links[i], r.links)
  BY <1>4, <1>7, ReplacedTouches
<1>9. Learns(q, n, o, obj)
  BY <1>1, <1>3, <1>4 DEF Learns, Held, Content, Concerns
<1>10. ASSUME n \notin excused[i], ~lost
       PROVE  HostsOK(i, OwnOf(r.links, n), Tail(q), obj, watch[i][k], n, Stored(n))
  <2>1. KnowsOK(o, kind[n], n, FALSE)
    BY <1>4, <1>5, <1>10 DEF KnowsOK
  <2>2. Fits(i, OwnOf(links[i], n), o.orig)
    BY <1>1, <1>4, <1>10 DEF PairOK, HostsOK
  <2>3. IF kind[n] = NadKind THEN ~IsRenamed(o.spec, new) /\ ~GoesAlong(i, o.spec, new)
                             ELSE ~CannotFollow(o, new)
    BY <1>4, <1>10
  <2>4. Fits(i, OwnOf(r.links, n), new)
    BY <1>1, <1>4, <1>10, <2>1, <2>2, <2>3, FollowsFits
  <2> QED BY <1>4, <2>4 DEF HostsOK
<1> QED BY <1>1, <1>2, <1>3, <1>4, <1>8, <1>9, <1>10 DEF Tracks

-----------------------------------------------------------------------------
(* All handlers keep track                                                   *)

KeepsTrack(i, k) ==
    \E e, obj, r, lost : Handled(i, e.net, obj, r, lost) /\ Tracks(i, k, e, obj, r, lost)

LEMMA AddNetworkTracks ==
    ASSUME IInv, LInv, NEW i \in Nodes, NEW k \in Kinds \ {NadKind}, NEW fault,
           AddNetwork(i, k, fault)
    PROVE  KeepsTrack(i, k) /\ Quietly(i, k)
<1>1. PICK e : e = NextEvent(i, k)
  OBVIOUS
<1>2. PICK r : r = setupHost(i, e.obj.spec, links[i], fault)
  OBVIOUS
<1>3. PICK obj : obj = KnownAs(e.obj, e.obj.spec)
  OBVIOUS
<1>4. /\ IsNext(i, k, "add") /\ Quietly(i, k) /\ Handled(i, e.net, obj, r, r.err)
  BY <1>1, <1>2, <1>3 DEF AddNetwork
<1>5. queue[i][k] # <<>> /\ e.type = "put"
  BY <1>1, <1>4 DEF IsNext, NextEvent
<1>6. e.obj.ver # 0
  BY <1>1, <1>5, EventPair
<1>7. obj.spec = e.obj.spec /\ obj.orig = e.obj.spec /\ obj.ver = e.obj.ver
  BY <1>3 DEF KnownAs
<1>8. KnowsOK(obj, k, e.net, r.err)
  BY <1>6, <1>7 DEF KnowsOK
<1>9. Tracks(i, k, e, obj, r, r.err)
  BY <1>1, <1>2, <1>4, <1>7, <1>8, AddTracks
<1> QED BY <1>4, <1>9 DEF KeepsTrack

LEMMA DeleteOfTracks ==
    ASSUME IInv, LInv, NEW i \in Nodes, NEW k \in Kinds, NEW fault, DeleteOf(i, k, fault)
    PROVE  KeepsTrack(i, k) /\ Quietly(i, k)
<1>1. PICK e : e = NextEvent(i, k)
  OBVIOUS
<1>2. PICK o : o = known[i][e.net]
  OBVIOUS
<1>3. PICK s : s = IF e.type = "del" THEN e.obj.spec ELSE o.spec
  OBVIOUS
<1>4. PICK r : r = deleteNetworks(s, links[i], fault)
  OBVIOUS
<1>5. PICK lost : lost = (r.err \/ (e.type = "tomb" /\ k = DanmNetKind /\ o.spec # o.orig))
  OBVIOUS
<1>6. IsNext(i, k, "delete") /\ Quietly(i, k) /\ Handled(i, e.net, NoKnown, r, lost)
  BY <1>1, <1>2, <1>3, <1>4, <1>5 DEF DeleteOf
<1>7. Tracks(i, k, e, NoKnown, r, lost)
  BY <1>1, <1>2, <1>3, <1>4, <1>5, <1>6, DeleteTracks
<1> QED BY <1>6, <1>7 DEF KeepsTrack

\* The old and the new object of an update or a resync.
LEMMA Updated ==
    ASSUME IInv, LInv, NEW i \in Nodes, NEW k \in Kinds, IsUpdate(i, k),
           NEW e, e = NextEvent(i, k), NEW o, o = known[i][e.net], NEW u, u = UpdateEvent(i, k)
    PROVE  /\ queue[i][k] # <<>> /\ e.net \in Networks /\ kind[e.net] = k
           /\ u.net = e.net /\ u.old = o /\ o.spec \in AnySpec /\ o.orig \in AnySpec
           /\ u.new.spec \in AnySpec /\ u.new.orig \in AnySpec
           /\ KnowsOK(o, k, e.net, e.net \in excused[i])
           /\ \/ /\ e.type = "sync" /\ u.new = o
              \/ /\ IsNext(i, k, "update") /\ e.type = "put" /\ u.new.spec = e.obj.spec
                 /\ u.new.orig = e.obj.spec /\ u.new.ver = e.obj.ver /\ u.new.ver # 0
                 /\ IsFrom(e.net, e.obj.spec) /\ o.ver # 0
<1>1. /\ queue[i][k] # <<>>
      /\ e.type = "sync" \/ (IsNext(i, k, "update") /\ e.type = "put" /\ o.ver # 0)
  BY DEF IsUpdate, IsNext, NextEvent
<1>2. u.net = e.net /\ u.old = o /\ u.new = IF e.type = "sync" THEN o ELSE KnownAs(e.obj, e.obj.spec)
  BY DEF UpdateEvent
<1>3. /\ e.net \in Networks /\ kind[e.net] = k /\ e.obj.spec \in AnySpec
      /\ o.spec \in AnySpec /\ o.orig \in AnySpec
      /\ PairOK(i, k, e.net, queue[i][k], o, watch[i][k], OwnOf(links[i], e.net), Stored(e.net),
                e.net \in excused[i])
      /\ e.type = "put" => e.obj.ver # 0
      /\ e.type \in {"put", "del"} => IsFrom(e.net, e.obj.spec)
  BY <1>1, EventPair
<1>4. KnowsOK(o, k, e.net, e.net \in excused[i])
  BY <1>3 DEF PairOK
<1> QED BY <1>1, <1>2, <1>3, <1>4 DEF KnownAs

\* The VNIs of a DanmNet are as its users have set them, or zeroed.
LEMMA ZeroedKnown ==
    ASSUME NEW o, o.orig \in AnySpec, o.spec \in AnySpec, NEW n, NEW f,
           KnowsOK(o, DanmNetKind, n, f), NEW old \in AnySpec,
           NEW new, new.orig = o.orig, new.ver = o.ver, new.spec = zeroVnis(o.spec, old, o.spec),
           o.ver = 0 => new = [o EXCEPT !.spec = zeroVnis(o.spec, old, o.spec)]
    PROVE  KnowsOK(new, DanmNetKind, n, f)
<1>1. /\ new.spec.id = o.spec.id /\ new.spec.device = o.spec.device
      /\ new.spec.vlan \in {0, o.spec.vlan} /\ new.spec.vxlan \in {0, o.spec.vxlan}
  BY Zeroed
<1>2. CASE o.ver = 0
  <2>1. o = NoKnown /\ new = [NoKnown EXCEPT !.spec = zeroVnis(NoSpec, old, NoSpec)]
    BY <1>2 DEF KnowsOK, NoKnown
  <2>2. zeroVnis(NoSpec, old, NoSpec) = NoSpec
    <3>1. PICK z : z = zeroVnis(NoSpec, old, NoSpec)
      OBVIOUS
    <3>2. z \in AnySpec /\ z.id = "" /\ z.device = <<>> /\ z.vlan = 0 /\ z.vxlan = 0
      <4>1. NoSpec \in AnySpec
        BY NoSpecType
      <4>2. /\ z \in AnySpec /\ z.id = NoSpec.id /\ z.device = NoSpec.device
            /\ z.vlan \in {0, NoSpec.vlan} /\ z.vxlan \in {0, NoSpec.vxlan}
        BY <3>1, <4>1, Zeroed
      <4> QED BY <4>2 DEF NoSpec
    <3>3. z = [id |-> z.id, device |-> z.device, vlan |-> z.vlan, vxlan |-> z.vxlan]
      BY <3>2, SpecFields
    <3> QED BY <3>1, <3>2, <3>3 DEF NoSpec
  <2>3. new = NoKnown
    BY <2>1, <2>2 DEF NoKnown
  <2> QED BY <2>1, <2>3
<1>3. CASE o.ver # 0
  <2>1. /\ o.spec.id = o.orig.id /\ o.spec.device = o.orig.device
        /\ o.spec.vlan \in {0, o.orig.vlan} /\ o.spec.vxlan \in {0, o.orig.vxlan}
    BY <1>3 DEF KnowsOK, DanmNetKind, NadKind
  <2> QED BY <1>1, <1>3, <2>1 DEF KnowsOK, DanmNetKind, NadKind
<1> QED BY <1>2, <1>3

LEMMA UpdateDanmNetTracks ==
    ASSUME IInv, LInv, NEW i \in Nodes, NEW fault, UpdateDanmNet(i, fault)
    PROVE  KeepsTrack(i, DanmNetKind) /\ Quietly(i, DanmNetKind)
<1>0. PICK k \in Kinds : k = DanmNetKind
  BY DEF Kinds
<1>1. PICK e : e = NextEvent(i, k)
  OBVIOUS
<1>2. PICK o : o = known[i][e.net]
  OBVIOUS
<1>3. PICK u : u = UpdateEvent(i, k)
  OBVIOUS
<1>4. IsUpdate(i, k) /\ Quietly(i, k)
  BY <1>0 DEF UpdateDanmNet
<1>5. /\ queue[i][k] # <<>> /\ u.net = e.net /\ u.old = o
      /\ o.spec \in AnySpec /\ o.orig \in AnySpec /\ u.new.spec \in AnySpec /\ u.new.orig \in AnySpec
      /\ KnowsOK(o, k, e.net, e.net \in excused[i])
      /\ \/ /\ e.type = "sync" /\ u.new = o
         \/ /\ IsNext(i, k, "update") /\ e.type = "put" /\ u.new.spec = e.obj.spec
            /\ u.new.orig = e.obj.spec /\ u.new.ver = e.obj.ver /\ u.new.ver # 0
  BY <1>1, <1>2, <1>3, <1>4, Updated
<1>6. PICK r : r = Replaced(i, o.spec, u.new.spec, fault)
  OBVIOUS
<1>7. PICK obj : obj = [u.new EXCEPT !.spec = zeroVnis(u.new.spec, o.spec, u.new.spec)]
  OBVIOUS
<1>8. PICK lost : lost = (r.err \/ CannotFollow(o, u.new.orig))
  OBVIOUS
<1>9. Handled(i, e.net, obj, r, lost)
  BY <1>0, <1>3, <1>5, <1>6, <1>7, <1>8 DEF UpdateDanmNet
<1>10. PICK old \in AnySpec : old = o.spec
  BY <1>5
<1>11. u.new = [spec |-> u.new.spec, orig |-> u.new.orig, ver |-> u.new.ver]
  BY <1>1, <1>3, <1>5, UpdateObjects DEF IInv
<1>12. obj.orig = u.new.orig /\ obj.ver = u.new.ver /\ obj.spec = zeroVnis(u.new.spec, old, u.new.spec)
  BY <1>7, <1>10, <1>11
<1>13. KnowsOK(u.new, k, e.net, e.net \in excused[i])
  BY <1>0, <1>5 DEF KnowsOK, DanmNetKind, NadKind
<1>14. KnowsOK(obj, k, e.net, e.net \in excused[i])
  BY <1>0, <1>5, <1>7, <1>10, <1>12, <1>13, ZeroedKnown
<1>15. KnowsOK(obj, k, e.net, e.net \in excused[i] \/ lost)
  BY <1>14 DEF KnowsOK
<1>16. CASE e.type = "sync"
  <2>1. r = Replaced(i, o.spec, o.spec, fault) /\ obj.orig = o.orig /\ obj.ver = o.ver
    BY <1>5, <1>6, <1>12, <1>16
  <2>2. Tracks(i, k, e, obj, r, lost)
    BY <1>1, <1>2, <1>5, <1>15, <1>16, <2>1, SyncTracks
  <2> QED BY <1>0, <1>4, <1>9, <2>2 DEF KeepsTrack
<1>17. CASE e.type # "sync"
  <2>1. IF k = NadKind THEN IsRenamed(o.spec, u.new.spec) \/ GoesAlong(i, o.spec, u.new.spec) => lost
                       ELSE CannotFollow(o, u.new.spec) => lost
    BY <1>0, <1>5, <1>8, <1>17 DEF DanmNetKind, NadKind
  <2>2. Tracks(i, k, e, obj, r, lost)
    BY <1>1, <1>2, <1>5, <1>6, <1>8, <1>12, <1>15, <1>17, <2>1, UpdateTracks
  <2> QED BY <1>0, <1>4, <1>9, <2>2 DEF KeepsTrack
<1> QED BY <1>16, <1>17

LEMMA UpdateConvertedTracks ==
    ASSUME IInv, LInv, NEW i \in Nodes, NEW k \in Kinds \ {NadKind, DanmNetKind}, NEW fault,
           UpdateConverted(i, k, fault)
    PROVE  KeepsTrack(i, k) /\ Quietly(i, k)
<1>1. PICK e : e = NextEvent(i, k)
  OBVIOUS
<1>2. PICK o : o = known[i][e.net]
  OBVIOUS
<1>3. PICK u : u = UpdateEvent(i, k)
  OBVIOUS
<1>4. IsUpdate(i, k) /\ Quietly(i, k)
  BY DEF UpdateConverted
<1>5. /\ queue[i][k] # <<>> /\ u.net = e.net /\ u.old = o
      /\ KnowsOK(o, k, e.net, e.net \in excused[i])
      /\ \/ /\ e.type = "sync" /\ u.new = o
         \/ /\ IsNext(i, k, "update") /\ e.type = "put" /\ u.new.spec = e.obj.spec
            /\ u.new.orig = e.obj.spec /\ u.new.ver = e.obj.ver /\ u.new.ver # 0
  BY <1>1, <1>2, <1>3, <1>4, Updated
<1>6. PICK r : r = Replaced(i, o.spec, u.new.spec, fault)
  OBVIOUS
<1>7. PICK lost : lost = (r.err \/ CannotFollow(o, u.new.orig))
  OBVIOUS
<1>8. Handled(i, e.net, u.new, r, lost)
  BY <1>3, <1>5, <1>6, <1>7 DEF UpdateConverted
<1>9. KnowsOK(u.new, k, e.net, e.net \in excused[i] \/ lost)
  BY <1>5 DEF KnowsOK
<1>10. CASE e.type = "sync"
  <2>1. r = Replaced(i, o.spec, o.spec, fault) /\ u.new.orig = o.orig /\ u.new.ver = o.ver
    BY <1>5, <1>6, <1>10
  <2>2. Tracks(i, k, e, u.new, r, lost)
    BY <1>1, <1>2, <1>5, <1>9, <1>10, <2>1, SyncTracks
  <2> QED BY <1>4, <1>8, <2>2 DEF KeepsTrack
<1>11. CASE e.type # "sync"
  <2>1. IF k = NadKind THEN IsRenamed(o.spec, u.new.spec) \/ GoesAlong(i, o.spec, u.new.spec) => lost
                       ELSE CannotFollow(o, u.new.spec) => lost
    BY <1>5, <1>7, <1>11
  <2>2. Tracks(i, k, e, u.new, r, lost)
    BY <1>1, <1>2, <1>5, <1>6, <1>7, <1>9, <1>11, <2>1, UpdateTracks
  <2> QED BY <1>4, <1>8, <2>2 DEF KeepsTrack
<1> QED BY <1>10, <1>11

\* What the handler of a NAD writes is the name of an interface, if it has one.
LEMMA PatchKnown ==
    ASSUME NEW n \in Networks, NEW s \in AnySpec, IsFrom(n, s), NEW d,
           d \in NamesOf(n) \cup {s.device}, NEW f, s.device = <<>> => f,
           NEW obj, obj.orig = s, obj.ver # 0, obj.spec = PatchCniConf(s, d)
    PROVE  KnowsOK(obj, NadKind, n, f)
<1>1. /\ obj.spec.id = s.id /\ obj.spec.device = d
      /\ obj.spec.vlan = s.vlan /\ obj.spec.vxlan = s.vxlan
  BY DEF PatchCniConf, AnySpec
<1> QED BY <1>1 DEF KnowsOK

LEMMA AddNadTracks ==
    ASSUME IInv, LInv, NEW i \in Nodes, NEW fault, AddNad(i, fault)
    PROVE  KeepsTrack(i, NadKind)
<1>0. PICK k \in Kinds : k = NadKind
  BY DEF Kinds
<1>1. PICK e : e = NextEvent(i, k)
  OBVIOUS
<1>2. PICK s : s = e.obj.spec
  OBVIOUS
<1>3. PICK r : r = setupHost(i, s, links[i], fault)
  OBVIOUS
<1>4. PICK patched : patched = PatchCniConf(s, DetermineHostDeviceName(s))
  OBVIOUS
<1>5. PICK lost : lost = (r.err \/ ((~r.err /\ HasVni(s)) /\ s.device = <<>>))
  OBVIOUS
<1>6. PICK obj : obj = KnownAs(e.obj, IF ~r.err /\ HasVni(s) THEN patched ELSE s)
  OBVIOUS
<1>7. IsNext(i, k, "add") /\ Handled(i, e.net, obj, r, lost)
  BY <1>0, <1>1, <1>2, <1>3, <1>4, <1>5, <1>6 DEF AddNad
<1>8. queue[i][k] # <<>> /\ e.type = "put"
  BY <1>1, <1>7 DEF IsNext, NextEvent
<1>9. e.obj.ver # 0 /\ IsFrom(e.net, s) /\ e.net \in Networks /\ s \in AnySpec
  BY <1>1, <1>2, <1>8, EventPair
<1>10. obj.orig = s /\ obj.ver = e.obj.ver /\ obj.spec = IF ~r.err /\ HasVni(s) THEN patched ELSE s
  BY <1>2, <1>6 DEF KnownAs
<1>11. KnowsOK(obj, k, e.net, lost)
  <2>1. CASE ~r.err /\ HasVni(s)
    <3>1. DetermineHostDeviceName(s) \in NamesOf(e.net) \cup {s.device}
      BY <1>9, NamesOfNetwork DEF IsFrom
    <3>2. s.device = <<>> => lost
      BY <1>5, <2>1
    <3>3. obj.spec = PatchCniConf(s, DetermineHostDeviceName(s))
      BY <1>4, <1>10, <2>1
    <3> QED BY <1>0, <1>9, <1>10, <3>1, <3>2, <3>3, PatchKnown
  <2>2. CASE ~(~r.err /\ HasVni(s))
    BY <1>0, <1>9, <1>10, <2>2 DEF KnowsOK
  <2> QED BY <2>1, <2>2
<1>12. r.err => lost
  BY <1>5
<1>13. Tracks(i, k, e, obj, r, lost)
  BY <1>1, <1>2, <1>3, <1>7, <1>10, <1>11, <1>12, AddTracks
<1> QED BY <1>0, <1>7, <1>13 DEF KeepsTrack

LEMMA UpdateNadTracks ==
    ASSUME IInv, LInv, NEW i \in Nodes, NEW fault, UpdateNad(i, fault)
    PROVE  KeepsTrack(i, NadKind)
<1>0. PICK k \in Kinds : k = NadKind
  BY DEF Kinds
<1>1. PICK e : e = NextEvent(i, k)
  OBVIOUS
<1>2. PICK o : o = known[i][e.net]
  OBVIOUS
<1>3. PICK u : u = UpdateEvent(i, k)
  OBVIOUS
<1>4. IsUpdate(i, k)
  BY <1>0 DEF UpdateNad
<1>5. /\ queue[i][k] # <<>> /\ u.net = e.net /\ u.old = o /\ e.net \in Networks
      /\ o.spec \in AnySpec /\ o.orig \in AnySpec /\ u.new.spec \in AnySpec /\ u.new.orig \in AnySpec
      /\ KnowsOK(o, k, e.net, e.net \in excused[i])
      /\ \/ /\ e.type = "sync" /\ u.new = o
         \/ /\ IsNext(i, k, "update") /\ e.type = "put" /\ u.new.spec = e.obj.spec
            /\ u.new.orig = e.obj.spec /\ u.new.ver = e.obj.ver /\ u.new.ver # 0
            /\ IsFrom(e.net, e.obj.spec)
  BY <1>1, <1>2, <1>3, <1>4, Updated
<1>6. PICK new : new = u.new.spec
  OBVIOUS
<1>7. PICK r : r = Replaced(i, o.spec, new, fault)
  OBVIOUS
<1>8. PICK d : d = DetermineHostDeviceName(zeroVnis(new, o.spec, new))
  OBVIOUS
<1>9. PICK isNew \in BOOLEAN :
         isNew = (DetermineHostDeviceName(o.spec) # DetermineHostDeviceName(new))
  OBVIOUS
<1>10. PICK obj : obj = [u.new EXCEPT !.spec = IF isNew THEN PatchCniConf(new, d) ELSE new]
  OBVIOUS
<1>11. PICK lost : lost = (\/ r.err \/ IsRenamed(o.spec, new) \/ (isNew /\ new.device = <<>>)
                           \/ GoesAlong(i, o.spec, new))
  OBVIOUS
<1>12. Handled(i, e.net, obj, r, lost)
  <2>1. Handled(i, u.net,
           [u.new EXCEPT !.spec =
              IF DetermineHostDeviceName(u.old.spec) # DetermineHostDeviceName(u.new.spec)
              THEN PatchCniConf(u.new.spec, DetermineHostDeviceName(
                                               zeroVnis(u.new.spec, u.old.spec, u.new.spec)))
              ELSE u.new.spec],
           Replaced(i, u.old.spec, u.new.spec, fault),
           \/ Replaced(i, u.old.spec, u.new.spec, fault).err \/ IsRenamed(u.old.spec, u.new.spec)
           \/ (/\ DetermineHostDeviceName(u.old.spec) # DetermineHostDeviceName(u.new.spec)
               /\ u.new.spec.device = <<>>)
           \/ GoesAlong(i, u.old.spec, u.new.spec))
    BY <1>0, <1>3 DEF UpdateNad
  <2> QED BY <1>5, <1>6, <1>7, <1>8, <1>9, <1>10, <1>11, <2>1
<1>13. u.new = [spec |-> u.new.spec, orig |-> u.new.orig, ver |-> u.new.ver]
  BY <1>1, <1>3, <1>5, UpdateObjects DEF IInv
<1>14. /\ obj.orig = u.new.orig /\ obj.ver = u.new.ver
       /\ obj.spec = IF isNew THEN PatchCniConf(new, d) ELSE new
  BY <1>10, <1>13
<1>15. CASE e.type = "sync"
  <2>1. new = o.spec /\ ~isNew
    BY <1>5, <1>6, <1>9, <1>15
  <2>2. obj = o
    BY <1>5, <1>6, <1>10, <1>13, <1>15, <2>1
  <2>3. KnowsOK(obj, k, e.net, e.net \in excused[i] \/ lost)
    BY <1>5, <2>2 DEF KnowsOK
  <2>4. r = Replaced(i, o.spec, o.spec, fault) /\ obj.orig = o.orig /\ obj.ver = o.ver
    BY <1>7, <2>1, <2>2
  <2>5. Tracks(i, k, e, obj, r, lost)
    BY <1>1, <1>2, <1>5, <1>15, <2>3, <2>4, SyncTracks
  <2> QED BY <1>0, <1>12, <2>5 DEF KeepsTrack
<1>16. CASE e.type # "sync"
  <2>1. /\ new = e.obj.spec /\ obj.orig = new /\ obj.ver = e.obj.ver /\ obj.ver # 0
        /\ IsFrom(e.net, new) /\ IsNext(i, k, "update") /\ new \in AnySpec
    BY <1>5, <1>6, <1>14, <1>16
  <2>2. KnowsOK(obj, k, e.net, e.net \in excused[i] \/ lost)
    <3>1. CASE isNew
      <4>1. zeroVnis(new, o.spec, new) \in AnySpec
        BY <1>5, <2>1, Zeroed
      <4>2. PICK z \in AnySpec : z = zeroVnis(new, o.spec, new)
        BY <4>1
      <4>3. z.id = new.id /\ z.device = new.device
        BY <1>5, <2>1, <4>2, Zeroed
      <4>4. d \in NamesOf(e.net) \cup {new.device}
        BY <1>5, <1>8, <2>1, <4>2, <4>3, NamesOfNetwork DEF IsFrom
      <4>5. new.device = <<>> => (e.net \in excused[i] \/ lost)
        BY <1>11, <3>1
      <4>6. obj.spec = PatchCniConf(new, d)
        BY <1>14, <3>1
      <4> QED BY <1>0, <1>5, <2>1, <4>4, <4>5, <4>6, PatchKnown
    <3>2. CASE ~isNew
      BY <1>0, <1>14, <2>1, <3>2 DEF KnowsOK
    <3> QED BY <3>1, <3>2
  <2>3. IF k = NadKind THEN IsRenamed(o.spec, new) \/ GoesAlong(i, o.spec, new) => lost
                       ELSE CannotFollow(o, new) => lost
    BY <1>0, <1>11
  <2>4. r.err => lost
    BY <1>11
  <2>5. Tracks(i, k, e, obj, r, lost)
    BY <1>1, <1>2, <1>7, <2>1, <2>2, <2>3, <2>4, UpdateTracks
  <2> QED BY <1>0, <1>12, <2>5 DEF KeepsTrack
<1> QED BY <1>15, <1>16

-----------------------------------------------------------------------------
(* The handlers preserve the invariant                                       *)

\* What the handler of an event of n changes.
LEMMA HandledFields ==
    ASSUME TypeOK, NEW i \in Nodes, NEW n \in Networks, NEW obj, NEW r, NEW lost,
           Handled(i, n, obj, r, lost)
    PROVE  /\ UNCHANGED <<kind, watch>>
           /\ known'[i][n] = obj /\ links'[i] = r.links
           /\ \A j \in Nodes : \A m \in Networks : j # i \/ m # n => known'[j][m] = known[j][m]
           /\ \A j \in Nodes \ {i} : links'[j] = links[j] /\ excused'[j] = excused[j]
           /\ \A m : m \in excused'[i] <=> m \in excused[i] \/ (lost /\ m = n)
<1>1. /\ known \in [Nodes -> [Networks -> [spec : AnySpec, orig : AnySpec, ver : 0 .. rev]]]
      /\ links \in [Nodes -> SUBSET Links] /\ excused \in [Nodes -> SUBSET Networks]
  BY DEF TypeOK
<1> QED BY <1>1 DEF Handled

LEMMA PairHandled ==
    ASSUME IInv, LInv, NEW i \in Nodes, NEW k \in Kinds, NEW e, NEW obj, NEW r, NEW lost,
           Handled(i, e.net, obj, r, lost), Tracks(i, k, e, obj, r, lost),
           NEW j \in Nodes, NEW m \in Networks
    PROVE  PairOK(j, kind[m], m, Popped(i, k)[j][kind[m]], known'[j][m], watch[j][kind[m]],
                  OwnOf(links'[j], m), Stored(m), m \in excused'[j])
<1>1. PICK n : n = e.net
  OBVIOUS
<1>2. PICK q : q = queue[i][k]
  OBVIOUS
<1>3. queue[i][k] # <<>> /\ e = NextEvent(i, k)
  BY DEF Tracks
<1>4. /\ n \in Networks /\ kind[n] = k /\ q \in Seq(Events) /\ e = q[1]
      /\ PairOK(i, k, n, q, known[i][n], watch[i][k], OwnOf(links[i], n), Stored(n), n \in excused[i])
  BY <1>1, <1>2, <1>3, EventPair
<1>5. TypeOK /\ kind[m] \in Kinds
  BY DEF IInv, TypeOK
<1>6. /\ known'[i][n] = obj /\ links'[i] = r.links
      /\ j # i \/ m # n => known'[j][m] = known[j][m]
      /\ j # i => links'[j] = links[j] /\ excused'[j] = excused[j]
      /\ \A b : b \in excused'[i] <=> b \in excused[i] \/ (lost /\ b = n)
  <2>1. Handled(i, n, obj, r, lost)
    BY <1>1
  <2>2. /\ known'[i][n] = obj /\ links'[i] = r.links
        /\ \A a \in Nodes : \A b \in Networks : a # i \/ b # n => known'[a][b] = known[a][b]
        /\ \A a \in Nodes \ {i} : links'[a] = links[a] /\ excused'[a] = excused[a]
        /\ \A b : b \in excused'[i] <=> b \in excused[i] \/ (lost /\ b = n)
    <3>1. TypeOK /\ n \in Networks /\ i \in Nodes
      BY <1>4, <1>5
    <3> QED BY ONLY <2>1, <3>1, HandledFields
  <2> QED BY <2>2
<1>7. Popped(i, k)[j][kind[m]] = IF j = i /\ kind[m] = k THEN Tail(q) ELSE queue[j][kind[m]]
  BY <1>2, <1>3, <1>5, PoppedType
<1>8. PairOK(j, kind[m], m, queue[j][kind[m]], known[j][m], watch[j][kind[m]],
             OwnOf(links[j], m), Stored(m), m \in excused[j])
  BY DEF LInv, Pairs
<1>9. m # n => OwnOf(r.links, m) = OwnOf(links[i], m)
  BY <1>1 DEF Tracks, Touches
<1>10. CASE m # n \/ j # i
  <2>1. known'[j][m] = known[j][m] /\ OwnOf(links'[j], m) = OwnOf(links[j], m)
    BY <1>6, <1>9, <1>10
  <2>2. (m \in excused'[j]) = (m \in excused[j])
    BY <1>6, <1>10
  <2>3. CASE j = i /\ kind[m] = k
    <3>1. ~Concerns(q[1], m)
      BY <1>1, <1>4, <1>10, <2>3 DEF Concerns
    <3>2. PICK o : o = known[j][m]
      OBVIOUS
    <3>3. PICK w : w = watch[j][k]
      OBVIOUS
    <3>4. PICK own : own = OwnOf(links[j], m)
      OBVIOUS
    <3>5. PICK x : x = Stored(m)
      OBVIOUS
    <3>6. PICK f : f = (m \in excused[j])
      OBVIOUS
    <3>7. q # <<>>
      BY <1>2, <1>3
    <3>8. PairOK(j, k, m, q, o, w, own, x, f)
      BY <1>2, <1>8, <2>3, <3>2, <3>3, <3>4, <3>5, <3>6
    <3>9. PairOK(j, k, m, Tail(q), o, w, own, x, f)
      <4>1. q \in Seq(Events)
        BY <1>4
      <4> QED BY ONLY <3>1, <3>7, <3>8, <4>1, PairAfterPop
    <3> QED BY <1>7, <2>1, <2>2, <2>3, <3>2, <3>3, <3>4, <3>5, <3>6, <3>9
  <2>4. CASE ~(j = i /\ kind[m] = k)
    <3>1. Popped(i, k)[j][kind[m]] = queue[j][kind[m]]
      BY <1>7, <2>4
    <3> QED BY <1>8, <2>1, <2>2, <3>1
  <2> QED BY <2>3, <2>4
<1>11. CASE m = n /\ j = i
  <2>1. ChainOK(q, known[i][n], watch[i][k], n, Stored(n))
    BY <1>4 DEF PairOK
  <2>2. Learns(q, n, known[i][n], obj)
    BY <1>1, <1>2 DEF Tracks
  <2>3. ChainOK(Tail(q), obj, watch[i][k], n, Stored(n))
    BY <1>2, <1>3, <1>4, <2>1, <2>2, ChainAfterPop
  <2>4. (n \in excused'[i]) = (n \in excused[i] \/ lost)
    BY <1>6
  <2>5. KnowsOK(obj, k, n, n \in excused[i] \/ lost)
    BY <1>1 DEF Tracks
  <2>6. n \notin excused[i] /\ ~lost =>
           HostsOK(i, OwnOf(r.links, n), Tail(q), obj, watch[i][k], n, Stored(n))
    BY <1>1, <1>2 DEF Tracks
  <2>7. KnowsOK(obj, k, n, n \in excused'[i])
    BY <2>4, <2>5 DEF KnowsOK
  <2>8. n \notin excused'[i] =>
           HostsOK(i, OwnOf(r.links, n), Tail(q), obj, watch[i][k], n, Stored(n))
    BY <2>4, <2>6
  <2>9. PairOK(i, k, n, Tail(q), obj, watch[i][k], OwnOf(r.links, n), Stored(n), n \in excused'[i])
    BY <2>3, <2>7, <2>8 DEF PairOK
  <2>10. /\ kind[m] = k /\ Popped(i, k)[j][kind[m]] = Tail(q) /\ known'[j][m] = obj
         /\ links'[j] = r.links
    BY <1>4, <1>6, <1>7, <1>11
  <2> QED BY <1>11, <2>9, <2>10
<1> QED BY <1>10, <1>11

LEMMA HomesHandled ==
    ASSUME IInv, LInv, NEW i \in Nodes, NEW k \in Kinds, NEW e, NEW obj, NEW r, NEW lost,
           Handled(i, e.net, obj, r, lost), Tracks(i, k, e, obj, r, lost)
    PROVE  /\ UNCHANGED <<kind, watch>> /\ queue[i][k] # <<>>
           /\ \A j \in Nodes : AllOnOwn(links'[j])
           /\ \A j \in Nodes : \A m \in Networks :
                 known'[j][m].ver # 0 => IsFrom(m, known'[j][m].orig)
<1>1. PICK n : n = e.net
  OBVIOUS
<1>2. /\ queue[i][k] # <<>> /\ e = NextEvent(i, k) /\ Touches(n, links[i], r.links)
      /\ obj.ver # 0 => IsFrom(n, obj.orig)
  BY <1>1 DEF Tracks
<1>3. n \in Networks
  BY <1>1, <1>2, EventPair
<1>4. /\ UNCHANGED <<kind, watch>>
      /\ known'[i][n] = obj /\ links'[i] = r.links
      /\ \A j \in Nodes : \A m \in Networks : j # i \/ m # n => known'[j][m] = known[j][m]
      /\ \A j \in Nodes \ {i} : links'[j] = links[j]
  <2>1. Handled(i, n, obj, r, lost) /\ TypeOK
    BY <1>1 DEF IInv
  <2> QED BY <1>3, <2>1, HandledFields
<1>5. /\ \A j \in Nodes : AllOnOwn(links[j])
      /\ \A j \in Nodes : \A m \in Networks :
            known[j][m].ver # 0 => IsFrom(m, known[j][m].orig)
  BY DEF LInv, Homes
<1>6. AllOnOwn(r.links)
  BY <1>2, <1>3, <1>5, TouchesKeeps
<1> QED BY <1>2, <1>4, <1>5, <1>6

\* The networks have not changed.
LEMMA LInvAfter ==
    ASSUME UNCHANGED kind,
           \A n \in Networks : api'[n] = NoObj \/ (InApi(n)' /\ IsFrom(n, api'[n].spec)),
           \A i \in Nodes : \A k \in Kinds : \A e \in ToSet(queue'[i][k]) :
              e.type \in {"put", "del"} => IsFrom(e.net, e.obj.spec),
           \A i \in Nodes : \A n \in Networks :
              known'[i][n].ver # 0 => IsFrom(n, known'[i][n].orig),
           \A i \in Nodes : AllOnOwn(links'[i]),
           \A i \in Nodes : \A n \in Networks :
              PairOK(i, kind[n], n, queue'[i][kind[n]], known'[i][n], watch'[i][kind[n]],
                     OwnOf(links'[i], n), Stored(n)', n \in excused'[i])
    PROVE  LInv'
<1>1. \A n, s : IsFrom(n, s)' <=> IsFrom(n, s)
  BY DEF IsFrom, Home
<1>2. Homes'
  BY <1>1 DEF Homes
<1>3. Pairs'
  BY DEF Pairs
<1> QED BY <1>2, <1>3 DEF LInv

LEMMA QuietKeeps ==
    ASSUME IInv, LInv, NEW i \in Nodes, NEW k \in Kinds, KeepsTrack(i, k),
           queue' = Popped(i, k), UNCHANGED api
    PROVE  LInv'
<1>1. PICK e, obj, r, lost : Handled(i, e.net, obj, r, lost) /\ Tracks(i, k, e, obj, r, lost)
  BY DEF KeepsTrack
<1>2. /\ UNCHANGED <<kind, watch>> /\ queue[i][k] # <<>>
      /\ \A j \in Nodes : AllOnOwn(links'[j])
      /\ \A j \in Nodes : \A m \in Networks :
            known'[j][m].ver # 0 => IsFrom(m, known'[j][m].orig)
  BY <1>1, HomesHandled
<1>3. \A j \in Nodes : \A m \in Networks :
         PairOK(j, kind[m], m, Popped(i, k)[j][kind[m]], known'[j][m], watch[j][kind[m]],
                OwnOf(links'[j], m), Stored(m), m \in excused'[j])
  BY <1>1, PairHandled
<1>4. \A m : Stored(m)' = Stored(m)
  BY DEF Stored, InApi
<1>5. \A j \in Nodes : \A m \in Networks :
         PairOK(j, kind[m], m, queue'[j][kind[m]], known'[j][m], watch'[j][kind[m]],
                OwnOf(links'[j], m), Stored(m)', m \in excused'[j])
  BY <1>2, <1>3, <1>4
<1>6. \A n \in Networks : api'[n] = NoObj \/ (InApi(n)' /\ IsFrom(n, api'[n].spec))
  BY DEF LInv, Homes, InApi
<1>7. \A j \in Nodes : \A m \in Kinds : \A f \in ToSet(queue'[j][m]) :
         f.type \in {"put", "del"} => IsFrom(f.net, f.obj.spec)
  <2>1. Loses(Popped(i, k), i, k, NextEvent(i, k))
    BY <1>2, PoppedQueues DEF IInv
  <2> QED BY <2>1 DEF Loses, LInv, Homes
<1> QED BY <1>2, <1>5, <1>6, <1>7, LInvAfter

\* The networks and their events after a write.
LEMMA WrittenHomes ==
    ASSUME TypeOK, Homes, NEW n \in Networks, NEW obj, obj \in [spec : AnySpec, ver : 0 .. rev + 1],
           obj = NoObj => InApi(n), obj # NoObj => obj.ver # 0 /\ IsFrom(n, obj.spec),
           NEW Q, Q \in [Nodes -> [Kinds -> Seq(Events)]], Write(n, obj, Q),
           \A i \in Nodes : \A k \in Kinds : ToSet(Q[i][k]) \subseteq ToSet(queue[i][k])
    PROVE  /\ \A m \in Networks : api'[m] = NoObj \/ (InApi(m)' /\ IsFrom(m, api'[m].spec))
           /\ \A i \in Nodes : \A k \in Kinds : \A e \in ToSet(queue'[i][k]) :
                 e.type \in {"put", "del"} => IsFrom(e.net, e.obj.spec)
<1>1. /\ api' = [api EXCEPT ![n] = obj] /\ Told(Q, queue', n, WriteEvent(n, obj))
  BY Written
<1>2. api'[n] = obj /\ \A m \in Networks \ {n} : api'[m] = api[m]
  BY <1>1 DEF TypeOK
<1>3. ASSUME NEW m \in Networks
      PROVE  api'[m] = NoObj \/ (InApi(m)' /\ IsFrom(m, api'[m].spec))
  <2>1. CASE m = n
    BY <1>2, <2>1 DEF InApi
  <2>2. CASE m # n
    BY <1>2, <2>2 DEF Homes, InApi
  <2> QED BY <2>1, <2>2
<1>4. ASSUME NEW i \in Nodes, NEW k \in Kinds, NEW e \in ToSet(queue'[i][k]),
             e.type \in {"put", "del"}
      PROVE  IsFrom(e.net, e.obj.spec)
  <2>1. e \in ToSet(Q[i][k]) \/ e = WriteEvent(n, obj)
    BY <1>1, <1>4 DEF Told
  <2>2. CASE e \in ToSet(Q[i][k])
    BY <1>4, <2>2 DEF Homes
  <2>3. CASE e = WriteEvent(n, obj)
    <3>1. InApi(n) => IsFrom(n, api[n].spec)
      BY DEF Homes, InApi, NoObj
    <3> QED BY <2>3, <3>1 DEF WriteEvent, Event
  <2> QED BY <2>1, <2>2, <2>3
<1> QED BY <1>3, <1>4

LEMMA NadKeeps ==
    ASSUME IInv, LInv, NEW i \in Nodes, NEW e, HandlesNad(i, e), KeepsTrack(i, NadKind)
    PROVE  LInv'
<1>1. CASE Keeps(i, e)
  <2>1. queue' = Popped(i, NadKind) /\ UNCHANGED api /\ NadKind \in Kinds
    BY <1>1 DEF Keeps, Kinds
  <2> QED BY <2>1, QuietKeeps
<1>2. ASSUME NEW p, PatchesTo(i, e, p)
      PROVE  LInv'
  <2>1. PICK k \in Kinds : k = NadKind
    BY DEF Kinds
  <2>2. PICK n : n = e.net
    OBVIOUS
  <2>3. PICK Q : Q = Popped(i, k)
    OBVIOUS
  <2>4. PICK obj : obj = [spec |-> p, ver |-> rev + 1]
    OBVIOUS
  <2>5. /\ TypeOK /\ Versions /\ Origins /\ Homes /\ rev \in Nat
    BY DEF IInv, LInv, TypeOK
  <2>6. /\ p \in AnySpec /\ p = PatchCniConf(api[n].spec, p.device)
        /\ Write(n, obj, Q) /\ p.device \in NamesOf(n) /\ queue[i][k] # <<>>
        /\ e = NextEvent(i, k) /\ e.type = "put" /\ e.obj = api[n]
    BY <1>2, <2>1, <2>2, <2>3, <2>4 DEF PatchesTo, HandlesNad, Event
  <2>7. n \in Networks /\ kind[n] = NadKind /\ InApi(n)
    BY <2>1, <2>2, <2>5, <2>6, NadEvent DEF InApi
  <2>8. /\ Q \in [Nodes -> [Kinds -> Seq(Events)]]
        /\ \A j \in Nodes : \A m \in Kinds : ToSet(Q[j][m]) \subseteq ToSet(queue[j][m])
    BY <2>3, <2>5, <2>6, PoppedType, PoppedQueues DEF Loses
  <2>9. obj.ver # 0 /\ obj # NoObj /\ obj \in [spec : AnySpec, ver : 0 .. rev + 1] /\ obj.spec = p
    BY <2>4, <2>5, <2>6 DEF NoObj
  <2>10. IsFrom(n, p)
    <3>1. IsFrom(n, api[n].spec)
      BY <2>5, <2>7 DEF Homes, InApi, NoObj
    <3>2. api[n].spec \in AnySpec
      BY <2>5, <2>7 DEF TypeOK, Objects
    <3>3. p.id = api[n].spec.id
      BY <2>6, <3>2 DEF PatchCniConf, AnySpec
    <3> QED BY <2>6, <2>7, <3>1, <3>3 DEF IsFrom, Home
  <2>11. /\ \A m \in Networks : api'[m] = NoObj \/ (InApi(m)' /\ IsFrom(m, api'[m].spec))
         /\ \A j \in Nodes : \A m \in Kinds : \A f \in ToSet(queue'[j][m]) :
               f.type \in {"put", "del"} => IsFrom(f.net, f.obj.spec)
    BY <2>5, <2>6, <2>7, <2>8, <2>9, <2>10, WrittenHomes
  <2>12. PICK f, o, r, lost : Handled(i, f.net, o, r, lost) /\ Tracks(i, k, f, o, r, lost)
    BY <2>1 DEF KeepsTrack
  <2>13. /\ UNCHANGED <<kind, watch>>
         /\ \A j \in Nodes : AllOnOwn(links'[j])
         /\ \A j \in Nodes : \A m \in Networks :
               known'[j][m].ver # 0 => IsFrom(m, known'[j][m].orig)
    BY <2>12, HomesHandled
  <2>14. ASSUME NEW j \in Nodes, NEW m \in Networks
         PROVE  PairOK(j, kind[m], m, queue'[j][kind[m]], known'[j][m], watch'[j][kind[m]],
                       OwnOf(links'[j], m), Stored(m)', m \in excused'[j])
    <3>1. PICK g : g = (m \in excused'[j])
      OBVIOUS
    <3>2. PairOK(j, kind[m], m, Q[j][kind[m]], known'[j][m], watch[j][kind[m]],
                 OwnOf(links'[j], m), Stored(m), g)
      BY <2>3, <2>12, <3>1, PairHandled
    <3>3. Inherits(j, Stored(n), IF obj = NoObj THEN <<>> ELSE <<obj.spec>>)
      <4>1. Stored(n) = <<api[n].spec>>
        BY <2>7 DEF Stored
      <4>2. api[n].spec \in AnySpec
        BY <2>5, <2>7 DEF TypeOK, Objects
      <4>3. ASSUME NEW l, Right(j, l, api[n].spec)
            PROVE  Right(j, l, p)
        BY <2>6, <2>7, <4>2, <4>3, PatchedRight
      <4> QED BY <2>9, <4>1, <4>3 DEF Inherits
    <3>4. PICK o1 : o1 = known'[j][m]
      OBVIOUS
    <3>5. PICK own : own = OwnOf(links'[j], m)
      OBVIOUS
    <3>6. PairOK(j, kind[m], m, Q[j][kind[m]], o1, watch[j][kind[m]], own, Stored(m), g)
      BY <3>2, <3>4, <3>5
    <3>7. PairOK(j, kind[m], m, queue'[j][kind[m]], o1, watch[j][kind[m]], own, Stored(m)', g)
      <4>1. obj = NoObj \/ obj.ver # 0
        BY <2>9
      <4>2. obj = NoObj => InApi(n)
        BY <2>7
      <4>3. m = n /\ watch[j][kind[m]] = "off" /\ ~g =>
               Inherits(j, Stored(n), IF obj = NoObj THEN <<>> ELSE <<obj.spec>>)
        BY <3>3
      <4>4. Write(n, obj, Q)
        BY <2>6
      <4>5. TypeOK /\ n \in Networks /\ Q \in [Nodes -> [Kinds -> Seq(Events)]] /\ j \in Nodes
            /\ m \in Networks /\ (g => g)
        BY <2>5, <2>7, <2>8
      <4> QED BY ONLY <4>1, <4>2, <4>3, <4>4, <4>5, <3>6, PairWritten
    <3> QED BY <2>13, <3>1, <3>4, <3>5, <3>7
  <2> QED BY <2>11, <2>13, <2>14, LInvAfter
<1> QED BY <1>1, <1>2 DEF HandlesNad

-----------------------------------------------------------------------------
(* Users and informers preserve the invariant                                *)

LEMMA UserHomes ==
    ASSUME TypeOK, Homes, NEW n \in Networks, PutNetwork(n) \/ DeleteNetwork(n)
    PROVE  \E obj :
              /\ obj \in [spec : AnySpec, ver : 0 .. rev + 1] /\ UserWrites(n, obj)
              /\ (obj = NoObj /\ InApi(n)) \/ (obj.ver # 0 /\ obj # NoObj /\ IsFrom(n, obj.spec))
<1>1. CASE DeleteNetwork(n)
  <2>1. NoObj \in [spec : AnySpec, ver : 0 .. rev + 1]
    BY NoSpecType DEF NoObj, TypeOK
  <2> QED BY <1>1, <2>1 DEF DeleteNetwork
<1>2. CASE PutNetwork(n)
  <2>0. PICK s \in Specs[n] :
           \E d \in {s.device} \cup
                    (IF InApi(n) /\ kind[n] = NadKind THEN {api[n].spec.device} ELSE {}) :
              UserWrites(n, [spec |-> [s EXCEPT !.device = d], ver |-> rev + 1])
    BY <1>2 DEF PutNetwork
  <2>1. PICK d \in {s.device} \cup
                  (IF InApi(n) /\ kind[n] = NadKind THEN {api[n].spec.device} ELSE {}) :
           UserWrites(n, [spec |-> [s EXCEPT !.device = d], ver |-> rev + 1])
    BY <2>0
  <2>2. PICK p : p = [s EXCEPT !.device = d]
    OBVIOUS
  <2>3. /\ s = [id |-> s.id, device |-> s.device, vlan |-> s.vlan, vxlan |-> s.vxlan]
        /\ s.device \in Devices \cup {<<>>}
    BY WatcherAssumption
  <2>4. p = [id |-> s.id, device |-> d, vlan |-> s.vlan, vxlan |-> s.vxlan]
    BY <2>2, <2>3
  <2>5. s.id \in IdsOf(n) /\ s.id \in Ids /\ s.vlan \in Vnis /\ s.vxlan \in Vnis
    BY DEF IdsOf, Ids, Vnis, SpecOf
  <2>6. d \in Home(n) /\ d \in Parents
    <3>1. CASE d = s.device
      BY <2>3, <3>1 DEF Home, Parents
    <3>2. CASE InApi(n) /\ kind[n] = NadKind /\ d = api[n].spec.device
      <4>1. IsFrom(n, api[n].spec)
        BY <3>2 DEF Homes, InApi, NoObj
      <4>2. api[n].spec.device \in Parents
        BY DEF TypeOK, Objects, AnySpec
      <4> QED BY <3>2, <4>1, <4>2 DEF IsFrom
    <3> QED BY <2>1, <3>1, <3>2
  <2>7. p \in AnySpec /\ IsFrom(n, p)
    BY <2>4, <2>5, <2>6 DEF AnySpec, IsFrom
  <2>8. PICK obj : obj = [spec |-> p, ver |-> rev + 1]
    OBVIOUS
  <2>9. rev \in Nat
    BY DEF TypeOK
  <2>10. /\ obj.spec = p /\ obj.ver # 0 /\ obj # NoObj
         /\ obj \in [spec : AnySpec, ver : 0 .. rev + 1]
    BY <2>7, <2>8, <2>9 DEF NoObj
  <2>11. UserWrites(n, obj)
    BY <2>1, <2>2, <2>8
  <2> QED BY <2>7, <2>10, <2>11
<1> QED BY <1>1, <1>2

LEMMA UserKeeps ==
    ASSUME IInv, LInv, NEW n \in Networks, PutNetwork(n) \/ DeleteNetwork(n)
    PROVE  LInv'
<1>1. TypeOK /\ Homes /\ Pairs
  BY DEF IInv, LInv
<1>2. PICK obj : /\ obj \in [spec : AnySpec, ver : 0 .. rev + 1] /\ UserWrites(n, obj)
                 /\ \/ obj = NoObj /\ InApi(n)
                    \/ obj.ver # 0 /\ obj # NoObj /\ IsFrom(n, obj.spec)
  BY <1>1, UserHomes
<1>3. /\ Write(n, obj, queue) /\ UNCHANGED <<kind, watch, known, links>>
      /\ excused' = [i \in Nodes |-> excused[i] \cup Unseen(i, n, obj)]
  BY <1>2 DEF UserWrites
<1>4. queue \in [Nodes -> [Kinds -> Seq(Events)]]
  BY <1>1 DEF TypeOK
<1>5. /\ \A m \in Networks : api'[m] = NoObj \/ (InApi(m)' /\ IsFrom(m, api'[m].spec))
      /\ \A i \in Nodes : \A k \in Kinds : \A e \in ToSet(queue'[i][k]) :
            e.type \in {"put", "del"} => IsFrom(e.net, e.obj.spec)
  <2>1. (obj = NoObj => InApi(n)) /\ (obj # NoObj => obj.ver # 0 /\ IsFrom(n, obj.spec))
    BY <1>2
  <2> QED BY <1>1, <1>2, <1>3, <1>4, <2>1, WrittenHomes
<1>6. ASSUME NEW i \in Nodes, NEW m \in Networks
      PROVE  PairOK(i, kind[m], m, queue'[i][kind[m]], known'[i][m], watch'[i][kind[m]],
                    OwnOf(links'[i], m), Stored(m)', m \in excused'[i])
  <2>1. PICK f : f = (m \in excused[i])
    OBVIOUS
  <2>2. PICK g : g = (m \in excused'[i])
    OBVIOUS
  <2>3. PICK o : o = known[i][m]
    OBVIOUS
  <2>4. PICK own : own = OwnOf(links[i], m)
    OBVIOUS
  <2>5. PairOK(i, kind[m], m, queue[i][kind[m]], o, watch[i][kind[m]], own, Stored(m), f)
    BY <1>1, <2>1, <2>3, <2>4 DEF Pairs
  <2>6. f => g
    BY <1>3, <2>1, <2>2
  <2>7. ASSUME m = n, watch[i][kind[m]] = "off", ~g
        PROVE  Inherits(i, Stored(n), IF obj = NoObj THEN <<>> ELSE <<obj.spec>>)
    <3>1. ~InApi(n) \/ api[n].spec = obj.spec
      BY <1>3, <2>2, <2>7 DEF Unseen
    <3>2. CASE ~InApi(n)
      BY <3>2 DEF Stored, Inherits
    <3>3. CASE InApi(n) /\ api[n].spec = obj.spec /\ obj # NoObj
      BY <3>3 DEF Stored, Inherits
    <3>4. CASE InApi(n) /\ api[n].spec = obj.spec /\ obj = NoObj
      <4>1. WantedNames(NoSpec) = {}
        BY DEF WantedNames, NoSpec
      <4>2. Stored(n) = <<NoSpec>>
        BY <3>4 DEF Stored, NoObj
      <4> QED BY <4>1, <4>2 DEF Inherits, Right
    <3> QED BY <3>1, <3>2, <3>3, <3>4
  <2>8. PairOK(i, kind[m], m, queue'[i][kind[m]], o, watch[i][kind[m]], own, Stored(m)', g)
    <3>1. obj = NoObj \/ obj.ver # 0
      BY <1>2
    <3>2. obj = NoObj => InApi(n)
      BY <1>2
    <3>3. m = n /\ watch[i][kind[m]] = "off" /\ ~g =>
             Inherits(i, Stored(n), IF obj = NoObj THEN <<>> ELSE <<obj.spec>>)
      BY <2>7
    <3>4. Write(n, obj, queue)
      BY <1>3
    <3>5. TypeOK /\ n \in Networks /\ i \in Nodes /\ m \in Networks
      BY <1>1
    <3> QED BY ONLY <1>4, <2>5, <2>6, <3>1, <3>2, <3>3, <3>4, <3>5, PairWritten
  <2> QED BY <1>3, <2>2, <2>3, <2>4, <2>8
<1>7. /\ UNCHANGED kind /\ \A i \in Nodes : AllOnOwn(links'[i])
      /\ \A i \in Nodes : \A m \in Networks :
            known'[i][m].ver # 0 => IsFrom(m, known'[i][m].orig)
  BY <1>1, <1>3 DEF Homes
<1> QED BY <1>5, <1>6, <1>7, LInvAfter

\* The informer of an API gets more events, or its watch ends or begins.
LEMMA InformerKeeps ==
    ASSUME TypeOK, LInv, UNCHANGED <<kind, api, known, links, excused>>,
           NEW i \in Nodes, NEW k \in Kinds, NEW r \in Seq(Events), NEW v,
           queue' = [queue EXCEPT ![i][k] = r], watch' = [watch EXCEPT ![i][k] = v],
           \A e \in ToSet(r) : e.type \in {"put", "del"} => IsFrom(e.net, e.obj.spec),
           \A n \in Networks : kind[n] = k =>
              PairOK(i, k, n, r, known[i][n], v, OwnOf(links[i], n), Stored(n), n \in excused[i])
    PROVE  LInv'
<1>1. \A j \in Nodes : \A m \in Kinds :
         /\ queue'[j][m] = IF j = i /\ m = k THEN r ELSE queue[j][m]
         /\ watch'[j][m] = IF j = i /\ m = k THEN v ELSE watch[j][m]
  BY QueueTypes
<1>2. \A n : Stored(n)' = Stored(n)
  BY DEF Stored, InApi
<1>3. ASSUME NEW j \in Nodes, NEW n \in Networks
      PROVE  PairOK(j, kind[n], n, queue'[j][kind[n]], known'[j][n], watch'[j][kind[n]],
                    OwnOf(links'[j], n), Stored(n)', n \in excused'[j])
  <2>1. kind[n] \in Kinds
    BY QueueTypes
  <2>2. CASE j = i /\ kind[n] = k
    BY <1>1, <1>2, <2>2
  <2>3. CASE ~(j = i /\ kind[n] = k)
    <3>1. queue'[j][kind[n]] = queue[j][kind[n]] /\ watch'[j][kind[n]] = watch[j][kind[n]]
      BY <1>1, <2>1, <2>3
    <3>2. PairOK(j, kind[n], n, queue[j][kind[n]], known[j][n], watch[j][kind[n]],
                 OwnOf(links[j], n), Stored(n), n \in excused[j])
      BY DEF LInv, Pairs
    <3> QED BY <1>2, <3>1, <3>2
  <2> QED BY <2>2, <2>3
<1>4. /\ \A n \in Networks : api'[n] = NoObj \/ (InApi(n)' /\ IsFrom(n, api'[n].spec))
      /\ \A j \in Nodes : \A n \in Networks :
            known'[j][n].ver # 0 => IsFrom(n, known'[j][n].orig)
      /\ \A j \in Nodes : AllOnOwn(links'[j])
  BY DEF LInv, Homes, InApi
<1>5. \A j \in Nodes : \A m \in Kinds : \A e \in ToSet(queue'[j][m]) :
         e.type \in {"put", "del"} => IsFrom(e.net, e.obj.spec)
  BY <1>1 DEF LInv, Homes
<1> QED BY <1>3, <1>4, <1>5, LInvAfter

LEMMA ResyncKeeps ==
    ASSUME IInv, LInv, NEW i \in Nodes, NEW k \in Kinds, Resync(i, k)
    PROVE  LInv'
<1>0. TypeOK
  BY DEF IInv
<1>1. PICK N \in SUBSET OfKind(k) :
          queue' = [queue EXCEPT ![i][k] = @ \o SetToSeq({Event("sync", n, NoObj) : n \in N})]
  BY DEF Resync
<1>2. PICK T : T = {Event("sync", n, NoObj) : n \in N}
  OBVIOUS
<1>3. PICK p : p = SetToSeq(T)
  OBVIOUS
<1>4. p \in Seq(Events) /\ \A e \in ToSet(p) : \E n \in N : e = Event("sync", n, NoObj)
  <2>1. T = EventsOf("sync", N)
    BY <1>2 DEF EventsOf
  <2> QED BY <1>0, <1>3, <2>1, ListedOthers
<1>5. PICK q : q = queue[i][k]
  OBVIOUS
<1>6. q \in Seq(Events)
  BY <1>0, <1>5, QueueTypes
<1>7. PICK r : r = q \o p
  OBVIOUS
<1>8. r \in Seq(Events) /\ ToSet(r) = ToSet(q) \cup ToSet(p)
  BY <1>4, <1>6, <1>7, JoinedEvents
<1>9. queue' = [queue EXCEPT ![i][k] = r]
  BY <1>0, <1>1, <1>2, <1>3, <1>5, <1>7, QueueTypes
<1>10. /\ UNCHANGED <<kind, api, known, links, excused>> /\ watch[i][k] = "up"
       /\ watch' = [watch EXCEPT ![i][k] = "up"]
  BY <1>0, QueueTypes DEF Resync, history
<1>11. \A e \in ToSet(p) : e.type = "sync"
  BY <1>4 DEF Event
<1>12. \A e \in ToSet(r) : e.type \in {"put", "del"} => IsFrom(e.net, e.obj.spec)
  BY <1>5, <1>8, <1>11 DEF LInv, Homes
<1>13. ASSUME NEW n \in Networks, kind[n] = k
       PROVE  PairOK(i, k, n, r, known[i][n], "up", OwnOf(links[i], n), Stored(n), n \in excused[i])
  <2>1. PICK o : o = known[i][n]
    OBVIOUS
  <2>2. PICK own : own = OwnOf(links[i], n)
    OBVIOUS
  <2>3. PICK x : x = Stored(n)
    OBVIOUS
  <2>4. PICK f : f = (n \in excused[i])
    OBVIOUS
  <2>5. PairOK(i, k, n, q, o, "up", own, x, f)
    BY <1>5, <1>10, <1>13, <2>1, <2>2, <2>3, <2>4 DEF LInv, Pairs
  <2>6. IsSaid(q, o, n, Len(q) + 1, x)
    BY <2>5 DEF PairOK, ChainOK
  <2>7. NoDel(p, n) /\ \A e \in ToSet(p) : Concerns(e, n) => Content(e) = x
    BY <1>11 DEF NoDel, Concerns
  <2>8. IsSaid(r, o, n, Len(r) + 1, x)
    BY <1>4, <1>6, <1>7, <2>6, <2>7, SaidAfter
  <2>9. PairOK(i, k, n, r, o, "up", own, x, f)
    <3>1. p \in Seq(Events) /\ q \in Seq(Events) /\ r = q \o p /\ NoDel(p, n) /\ "up" # "off"
      BY <1>4, <1>6, <1>7, <2>7
    <3> QED BY ONLY <2>5, <2>8, <3>1, PairAfterMore
  <2> QED BY <2>1, <2>2, <2>3, <2>4, <2>9
<1> QED BY <1>0, <1>8, <1>9, <1>10, <1>12, <1>13, InformerKeeps

LEMMA WatchClosedKeeps ==
    ASSUME IInv, LInv, NEW i \in Nodes, NEW k \in Kinds, WatchClosed(i, k)
    PROVE  LInv'
<1>0. TypeOK
  BY DEF IInv
<1>1. PICK q : q = queue[i][k]
  OBVIOUS
<1>2. q \in Seq(Events)
  BY <1>0, <1>1, QueueTypes
<1>3. /\ UNCHANGED <<kind, api, known, links, excused>> /\ watch[i][k] = "up"
      /\ watch' = [watch EXCEPT ![i][k] = "lost"] /\ queue' = [queue EXCEPT ![i][k] = q]
  BY <1>0, <1>1, QueueTypes DEF WatchClosed, history
<1>4. \A e \in ToSet(q) : e.type \in {"put", "del"} => IsFrom(e.net, e.obj.spec)
  BY <1>1 DEF LInv, Homes
<1>5. ASSUME NEW n \in Networks, kind[n] = k
      PROVE  PairOK(i, k, n, q, known[i][n], "lost", OwnOf(links[i], n), Stored(n), n \in excused[i])
  <2>1. PairOK(i, k, n, q, known[i][n], "up", OwnOf(links[i], n), Stored(n), n \in excused[i])
    BY <1>1, <1>3, <1>5 DEF LInv, Pairs
  <2> QED BY <2>1 DEF PairOK, ChainOK, HostsOK, LeftFor
<1> QED BY <1>0, <1>2, <1>3, <1>4, <1>5, InformerKeeps

\* The watcher lists the networks again: it hears of those that are there, and that those
\* are gone it knew and are not.
LEMMA ListedPair ==
    ASSUME TypeOK, NEW i \in Nodes, NEW k \in Kinds, NEW n \in Networks, kind[n] = k,
           NEW q, q = queue[i][k], NEW t \in Seq(Events), NEW p \in Seq(Events),
           \A e \in ToSet(t) : \E m \in Networks : ~InApi(m) /\ e = Event("tomb", m, NoObj),
           ~InApi(n) /\ Cached(i, n) => Event("tomb", n, NoObj) \in ToSet(t),
           \A e \in ToSet(p) : \E m \in Networks : InApi(m) /\ e = Event("put", m, api[m]),
           InApi(n) => Event("put", n, api[n]) \in ToSet(p),
           NEW u, u = q \o t, NEW r, r = u \o p, NEW o, o = known[i][n],
           NEW own, NEW f, PairOK(i, k, n, q, o, "lost", own, Stored(n), f)
    PROVE  PairOK(i, k, n, r, o, "up", own, Stored(n), f)
<1>1. q \in Seq(Events) /\ u \in Seq(Events)
  <2>1. q \in Seq(Events)
    BY QueueTypes
  <2> QED BY <2>1, JoinedEvents
<1>2. PICK x : x = Stored(n)
  OBVIOUS
<1>3. /\ \A e \in ToSet(t) : Concerns(e, n) => ~InApi(n) /\ Content(e) = <<>> /\ e.type # "del"
      /\ \A e \in ToSet(p) : Concerns(e, n) => InApi(n) /\ Content(e) = x /\ e.type # "del"
      /\ ~InApi(n) => x = <<>>
  BY <1>2 DEF Concerns, Content, Event, Stored
<1>4. NoDel(t, n) /\ NoDel(p, n)
  BY <1>3 DEF NoDel
<1>5. PairOK(i, k, n, q, o, "lost", own, x, f)
  BY <1>2
<1>6. PairOK(i, k, n, u, o, "lost", own, x, f)
  <2>1. "lost" # "off" /\ ("lost" = "up" => IsSaid(u, o, n, Len(u) + 1, x)) /\ t \in Seq(Events) /\ u = q \o t
    OBVIOUS
  <2> QED BY ONLY <1>1, <1>4, <1>5, <2>1, PairAfterMore
<1>7. IsSaid(r, o, n, Len(r) + 1, x)
  <2>1. CASE InApi(n)
    <3>1. Concerns(Event("put", n, api[n]), n)
      BY DEF Concerns, Event
    <3>2. \E e \in ToSet(p) : Concerns(e, n)
      BY <2>1, <3>1
    <3>3. \A e \in ToSet(p) : Concerns(e, n) => Content(e) = x
      BY <1>3
    <3>4. p \in Seq(Events) /\ r = u \o p
      OBVIOUS
    <3> QED BY ONLY <1>1, <3>2, <3>3, <3>4, SaidAfter
  <2>2. CASE ~InApi(n)
    <3>1. \A e \in ToSet(t) : Concerns(e, n) => Content(e) = x
      BY <1>3
    <3>2. (\E e \in ToSet(t) : Concerns(e, n)) \/ IsSaid(q, o, n, Len(q) + 1, x)
      <4>1. CASE Cached(i, n)
        <5>1. Concerns(Event("tomb", n, NoObj), n)
          BY DEF Concerns, Event
        <5> QED BY <2>2, <4>1, <5>1
      <4>2. CASE ~Cached(i, n)
        BY <1>3, <2>2, <4>2, NotCached
      <4> QED BY <4>1, <4>2
    <3>3. IsSaid(u, o, n, Len(u) + 1, x)
      BY <1>1, <3>1, <3>2, SaidAfter
    <3>4. \A e \in ToSet(p) : Concerns(e, n) => Content(e) = x
      BY <1>3
    <3>5. p \in Seq(Events) /\ r = u \o p
      OBVIOUS
    <3> QED BY ONLY <1>1, <3>3, <3>4, <3>5, SaidAfter
  <2> QED BY <2>1, <2>2
<1>8. PairOK(i, k, n, r, o, "up", own, x, f)
  <2>1. "lost" # "off" /\ "up" # "off" /\ p \in Seq(Events) /\ r = u \o p
    OBVIOUS
  <2> QED BY ONLY <1>1, <1>4, <1>6, <1>7, <2>1, PairAfterMore
<1> QED BY <1>2, <1>8

LEMMA RelistKeeps ==
    ASSUME IInv, LInv, NEW i \in Nodes, NEW k \in Kinds, Relist(i, k)
    PROVE  LInv'
<1>0. TypeOK
  BY DEF IInv
<1>1. PICK N : N = {m \in OfKind(k) : ~InApi(m) /\ Cached(i, m)}
  OBVIOUS
<1>2. PICK t : t = Tombstones(i, k)
  OBVIOUS
<1>3. /\ t \in Seq(Events)
      /\ \A e \in ToSet(t) : \E m \in N : e = Event("tomb", m, NoObj)
      /\ \A m \in N : Event("tomb", m, NoObj) \in ToSet(t)
  <2>1. N \in SUBSET OfKind(k)
    BY <1>1
  <2>2. PICK T : T = EventsOf("tomb", N)
    OBVIOUS
  <2>3. t = SetToSeq(T)
    BY <1>1, <1>2, <2>2 DEF EventsOf, Tombstones
  <2>4. /\ SetToSeq(T) \in Seq(Events)
        /\ \A e \in ToSet(SetToSeq(T)) : \E m \in N : e = Event("tomb", m, NoObj)
        /\ \A m \in N : Event("tomb", m, NoObj) \in ToSet(SetToSeq(T))
    BY <1>0, <2>1, <2>2, ListedOthers
  <2> QED BY <2>3, <2>4
<1>4. PICK p : p = Puts(k)
  OBVIOUS
<1>5. /\ p \in Seq(Events)
      /\ \A e \in ToSet(p) : \E m \in Networks : InApi(m) /\ e = Event("put", m, api[m])
      /\ \A m \in Networks : kind[m] = k /\ InApi(m) => Event("put", m, api[m]) \in ToSet(p)
  BY <1>0, <1>4, ListedPuts
<1>6. PICK q : q = queue[i][k]
  OBVIOUS
<1>7. q \in Seq(Events)
  BY <1>0, <1>6, QueueTypes
<1>8. PICK u : u = q \o t
  OBVIOUS
<1>9. u \in Seq(Events) /\ ToSet(u) = ToSet(q) \cup ToSet(t)
  BY <1>3, <1>7, <1>8, JoinedEvents
<1>10. PICK r : r = u \o p
  OBVIOUS
<1>11. r \in Seq(Events) /\ ToSet(r) = ToSet(u) \cup ToSet(p)
  BY <1>5, <1>9, <1>10, JoinedEvents
<1>12. /\ queue' = [queue EXCEPT ![i][k] = r] /\ watch' = [watch EXCEPT ![i][k] = "up"]
       /\ watch[i][k] = "lost" /\ UNCHANGED <<kind, api, known, links, excused>>
  BY <1>0, <1>2, <1>4, <1>6, <1>8, <1>10, QueueTypes DEF Relist, history
<1>13. \A e \in ToSet(r) : e.type \in {"put", "del"} => IsFrom(e.net, e.obj.spec)
  <2>1. \A e \in ToSet(q) : e.type \in {"put", "del"} => IsFrom(e.net, e.obj.spec)
    BY <1>6 DEF LInv, Homes
  <2>2. \A e \in ToSet(t) : e.type \notin {"put", "del"}
    BY <1>3 DEF Event
  <2>3. \A m \in Networks : InApi(m) => IsFrom(m, api[m].spec)
    BY DEF LInv, Homes, InApi, NoObj
  <2>4. \A e \in ToSet(p) : IsFrom(e.net, e.obj.spec)
    BY <1>5, <2>3 DEF Event
  <2> QED BY <1>9, <1>11, <2>1, <2>2, <2>4
<1>14. ASSUME NEW n \in Networks, kind[n] = k
       PROVE  PairOK(i, k, n, r, known[i][n], "up", OwnOf(links[i], n), Stored(n), n \in excused[i])
  <2>1. PICK o : o = known[i][n]
    OBVIOUS
  <2>2. PICK own : own = OwnOf(links[i], n)
    OBVIOUS
  <2>3. PICK f : f = (n \in excused[i])
    OBVIOUS
  <2>4. PairOK(i, k, n, q, o, "lost", own, Stored(n), f)
    BY <1>6, <1>12, <1>14, <2>1, <2>2, <2>3 DEF LInv, Pairs
  <2>5. \A e \in ToSet(t) : \E m \in Networks : ~InApi(m) /\ e = Event("tomb", m, NoObj)
    BY <1>1, <1>3 DEF OfKind
  <2>6. ~InApi(n) /\ Cached(i, n) => Event("tomb", n, NoObj) \in ToSet(t)
    BY <1>1, <1>3, <1>14 DEF OfKind
  <2>7. InApi(n) => Event("put", n, api[n]) \in ToSet(p)
    BY <1>5, <1>14
  <2>8. PairOK(i, k, n, r, o, "up", own, Stored(n), f)
    BY <1>0, <1>3, <1>5, <1>6, <1>8, <1>10, <1>14, <2>1, <2>4, <2>5, <2>6, <2>7, ListedPair
  <2> QED BY <2>1, <2>2, <2>3, <2>8
<1> QED BY <1>0, <1>11, <1>12, <1>13, <1>14, InformerKeeps

\* A watcher that is started lists the networks.
LEMMA StartedPair ==
    ASSUME TypeOK, NEW i \in Nodes, NEW k \in Kinds, NEW n \in Networks, kind[n] = k,
           NEW own, NEW f, PairOK(i, k, n, <<>>, NoKnown, "off", own, Stored(n), f),
           NEW p, p = Puts(k)
    PROVE  PairOK(i, k, n, p, NoKnown, "up", own, Stored(n), f)
<1>1. /\ p \in Seq(Events)
      /\ \A e \in ToSet(p) : \E m \in Networks : InApi(m) /\ e = Event("put", m, api[m])
      /\ InApi(n) => Event("put", n, api[n]) \in ToSet(p)
  BY ListedPuts
<1>2. PICK x : x = Stored(n)
  OBVIOUS
<1>3. \A e \in ToSet(p) : Concerns(e, n) => InApi(n) /\ Content(e) = x /\ e.type # "del"
  BY <1>1, <1>2 DEF Concerns, Content, Event, Stored
<1>4. PICK q : q = <<>>
  OBVIOUS
<1>5. q \in Seq(Events) /\ p = q \o p /\ Len(q) = 0 /\ DOMAIN q = {}
  BY <1>1, <1>4
<1>6. IsSaid(p, NoKnown, n, Len(p) + 1, x)
  <2>1. (\E e \in ToSet(p) : Concerns(e, n)) \/ IsSaid(q, NoKnown, n, Len(q) + 1, x)
    <3>1. CASE InApi(n)
      BY <1>1, <3>1 DEF Concerns, Event
    <3>2. CASE ~InApi(n)
      <4>1. Held(NoKnown) = x
        BY <1>2, <3>2 DEF Held, NoKnown, Stored
      <4> QED BY <1>5, <4>1 DEF IsSaid, Say
    <3> QED BY <3>1, <3>2
  <2>2. \A e \in ToSet(p) : Concerns(e, n) => Content(e) = x
    BY <1>3
  <2> QED BY ONLY <1>1, <1>5, <2>1, <2>2, SaidAfter
<1>7. ChainOK(p, NoKnown, "up", n, x)
  <2>1. \A m \in DOMAIN p : p[m] \in ToSet(p)
    BY DEF ToSet
  <2> QED BY <1>3, <1>6, <2>1 DEF ChainOK
<1>8. ASSUME NEW l, LeftFor(i, l, q, "off", n, x)
      PROVE  LeftFor(i, l, p, "up", n, x)
  <2>1. x # <<>> /\ Right(i, l, x[1])
    BY <1>5, <1>8 DEF LeftFor
  <2>2. InApi(n) /\ Right(i, l, api[n].spec)
    BY <1>2, <2>1 DEF Stored
  <2>3. PICK e : e = Event("put", n, api[n])
    OBVIOUS
  <2>4. e \in ToSet(p) /\ Concerns(e, n) /\ e.type = "put" /\ e.obj = api[n]
    BY <1>1, <2>2, <2>3 DEF Event, Concerns
  <2>5. \A g \in ToSet(p) : Concerns(g, n) => Content(g) = x
    BY <1>3
  <2>6. \E j \in DOMAIN p : Leads(p, n, j) /\ p[j] = e
    <3>1. p \in Seq(Events) /\ e \in ToSet(p)
      BY <1>1, <2>4
    <3>2. Concerns(e, n) /\ e.type = "put"
      BY <2>4
    <3> QED BY ONLY <2>5, <3>1, <3>2, LeadsFirst
  <2> QED BY <2>2, <2>4, <2>6 DEF LeftFor
<1>9. ~f => HostsOK(i, own, p, NoKnown, "up", n, x)
  BY <1>2, <1>4, <1>8 DEF PairOK, HostsOK, NoKnown
<1> QED BY <1>2, <1>7, <1>9 DEF PairOK

LEMMA NewWatcherKeeps ==
    ASSUME IInv, LInv, NEW i \in Nodes, NewWatcher(i)
    PROVE  LInv'
<1>0. TypeOK
  BY DEF IInv
<1>1. PICK found \in SUBSET Apis :
          /\ watch' = [watch EXCEPT ![i] = [k \in Kinds |-> IF k \in found THEN "up" ELSE "off"]]
          /\ queue' = [queue EXCEPT ![i] = [k \in Kinds |-> IF k \in found THEN Puts(k) ELSE <<>>]]
  BY DEF NewWatcher
<1>2. UNCHANGED <<kind, api, known, links, excused>> /\ \A k \in Kinds : watch[i][k] = "off"
  BY DEF NewWatcher, IsDown, history
<1>3. /\ \A k \in Kinds : /\ queue'[i][k] = IF k \in found THEN Puts(k) ELSE <<>>
                          /\ watch'[i][k] = IF k \in found THEN "up" ELSE "off"
      /\ \A j \in Nodes \ {i} : queue'[j] = queue[j] /\ watch'[j] = watch[j]
  BY <1>0, <1>1, QueueTypes
<1>4. \A n : Stored(n)' = Stored(n)
  BY <1>2 DEF Stored, InApi
<1>5. ASSUME NEW j \in Nodes, NEW n \in Networks
      PROVE  PairOK(j, kind[n], n, queue'[j][kind[n]], known'[j][n], watch'[j][kind[n]],
                    OwnOf(links'[j], n), Stored(n)', n \in excused'[j])
  <2>1. PICK k \in Kinds : k = kind[n]
    BY <1>0, QueueTypes
  <2>2. PairOK(j, k, n, queue[j][k], known[j][n], watch[j][k], OwnOf(links[j], n), Stored(n),
               n \in excused[j])
    BY <2>1 DEF LInv, Pairs
  <2>3. CASE j # i
    BY <1>2, <1>3, <1>4, <2>1, <2>2, <2>3
  <2>4. CASE j = i
    <3>1. PICK own : own = OwnOf(links[i], n)
      OBVIOUS
    <3>2. PICK f : f = (n \in excused[i])
      OBVIOUS
    <3>3. watch[i][k] = "off"
      BY <1>2
    <3>4. ChainOK(queue[i][k], known[i][n], watch[i][k], n, Stored(n))
      BY <2>2, <2>4 DEF PairOK
    <3>5. queue[i][k] = <<>> /\ known[i][n] = NoKnown
      BY <3>3, <3>4 DEF ChainOK
    <3>6. PairOK(i, k, n, <<>>, NoKnown, "off", own, Stored(n), f)
      BY <2>2, <2>4, <3>1, <3>2, <3>3, <3>5
    <3>7. PairOK(i, k, n, Puts(k), NoKnown, "up", own, Stored(n), f)
      BY <1>0, <2>1, <3>6, StartedPair
    <3>8. PairOK(i, k, n, queue'[i][k], NoKnown, watch'[i][k], own, Stored(n), f)
      BY <1>3, <3>6, <3>7
    <3> QED BY <1>2, <1>4, <2>1, <2>4, <3>1, <3>2, <3>5, <3>8
  <2> QED BY <2>3, <2>4
<1>6. /\ \A n \in Networks : api'[n] = NoObj \/ (InApi(n)' /\ IsFrom(n, api'[n].spec))
      /\ \A j \in Nodes : \A n \in Networks :
            known'[j][n].ver # 0 => IsFrom(n, known'[j][n].orig)
      /\ \A j \in Nodes : AllOnOwn(links'[j])
  BY <1>2 DEF LInv, Homes, InApi
<1>7. ASSUME NEW j \in Nodes, NEW k \in Kinds, NEW e \in ToSet(queue'[j][k]),
             e.type \in {"put", "del"}
      PROVE  IsFrom(e.net, e.obj.spec)
  <2>1. CASE j # i
    BY <1>3, <1>7, <2>1 DEF LInv, Homes
  <2>2. CASE j = i
    <3>1. ToSet(<<>>) = {}
      BY DEF ToSet
    <3>2. e \in ToSet(Puts(k))
      BY <1>3, <1>7, <2>2, <3>1
    <3>3. PICK m \in Networks : InApi(m) /\ e = Event("put", m, api[m])
      BY <1>0, <3>2, ListedPuts
    <3>4. IsFrom(m, api[m].spec)
      BY <3>3 DEF LInv, Homes, InApi, NoObj
    <3> QED BY <3>3, <3>4 DEF Event
  <2> QED BY <2>1, <2>2
<1>8. UNCHANGED kind
  BY <1>2
<1> QED BY <1>5, <1>6, <1>7, <1>8, LInvAfter

\* A watcher that goes down leaves interfaces that are right for the networks, where it was
\* not behind.
LEMMA LeftBehind ==
    ASSUME TypeOK, Homes, NEW i \in Nodes, NEW k \in Kinds, NEW n \in Networks, kind[n] = k,
           NEW w, NEW own,
           PairOK(i, k, n, queue[i][k], known[i][n], w, own, Stored(n), FALSE),
           ~IsBehind(i, n), NEW l \in own
    PROVE  InApi(n) /\ Right(i, l, api[n].spec)
<1>1. PICK q : q = queue[i][k]
  OBVIOUS
<1>2. PICK o : o = known[i][n]
  OBVIOUS
<1>3. HostsOK(i, own, q, o, w, n, Stored(n))
  BY <1>1, <1>2 DEF PairOK
<1>4. Right(i, l, api[n].spec)
  <2>1. CASE o.ver # 0
    <3>1. Right(i, l, o.orig)
      BY <1>3, <2>1 DEF HostsOK, Fits
    <3> QED BY <1>2, <2>1, <3>1 DEF IsBehind
  <2>2. CASE o.ver = 0
    <3>1. LeftFor(i, l, q, w, n, Stored(n))
      BY <1>3, <2>2 DEF HostsOK
    <3>2. CASE \E j \in DOMAIN q : Leads(q, n, j) /\ Right(i, l, q[j].obj.spec)
      <4>1. PICK j \in DOMAIN q : Leads(q, n, j) /\ Right(i, l, q[j].obj.spec)
        BY <3>2
      <4>2. q[j] \in ToSet(q) /\ q[j].net = n /\ q[j].type = "put"
        BY <4>1 DEF ToSet, Leads, Concerns
      <4>3. q[j].obj.spec = api[n].spec
        BY <1>1, <4>2 DEF IsBehind
      <4> QED BY <4>1, <4>3
    <3>3. CASE Stored(n) # <<>> /\ Right(i, l, Stored(n)[1])
      BY <3>3 DEF Stored
    <3> QED BY <3>1, <3>2, <3>3 DEF LeftFor
  <2> QED BY <2>1, <2>2
<1>5. InApi(n)
  <2>1. WantedNames(NoSpec) = {}
    BY DEF WantedNames, NoSpec
  <2>2. api[n] # NoObj
    BY <1>4, <2>1 DEF Right, NoObj
  <2> QED BY <2>2 DEF Homes
<1> QED BY <1>4, <1>5

LEMMA CrashKeeps ==
    ASSUME IInv, LInv, NEW i \in Nodes, NEW reboots \in BOOLEAN, WatchErrorHandler(i, reboots)
    PROVE  LInv'
<1>0. TypeOK /\ Homes
  BY DEF IInv, LInv
<1>1. /\ UNCHANGED <<kind, api>>
      /\ watch' = [watch EXCEPT ![i] = [k \in Kinds |-> "off"]]
      /\ queue' = [queue EXCEPT ![i] = [k \in Kinds |-> <<>>]]
      /\ known' = [known EXCEPT ![i] = [n \in Networks |-> NoKnown]]
      /\ links' = IF reboots THEN [links EXCEPT ![i] = {}] ELSE links
      /\ excused' = [excused EXCEPT ![i] =
            IF reboots THEN {} ELSE @ \cup {n \in Networks : IsBehind(i, n)}]
  BY DEF WatchErrorHandler
<1>2. /\ links \in [Nodes -> SUBSET Links] /\ excused \in [Nodes -> SUBSET Networks]
      /\ known \in [Nodes -> [Networks -> [spec : AnySpec, orig : AnySpec, ver : 0 .. rev]]]
  BY <1>0 DEF TypeOK
<1>3. /\ \A k \in Kinds : queue'[i][k] = <<>> /\ watch'[i][k] = "off"
      /\ \A n \in Networks : known'[i][n] = NoKnown
      /\ links'[i] = (IF reboots THEN {} ELSE links[i])
      /\ \A n \in Networks :
            n \in excused'[i] <=> ~reboots /\ (n \in excused[i] \/ IsBehind(i, n))
      /\ \A j \in Nodes \ {i} : /\ queue'[j] = queue[j] /\ watch'[j] = watch[j]
                                /\ known'[j] = known[j] /\ links'[j] = links[j]
                                /\ excused'[j] = excused[j]
  BY <1>0, <1>1, <1>2, QueueTypes
<1>4. \A n : Stored(n)' = Stored(n)
  BY <1>1 DEF Stored, InApi
<1>5. ASSUME NEW j \in Nodes, NEW n \in Networks
      PROVE  PairOK(j, kind[n], n, queue'[j][kind[n]], known'[j][n], watch'[j][kind[n]],
                    OwnOf(links'[j], n), Stored(n)', n \in excused'[j])
  <2>1. PICK k \in Kinds : k = kind[n]
    BY <1>0, QueueTypes
  <2>2. PairOK(j, k, n, queue[j][k], known[j][n], watch[j][k], OwnOf(links[j], n), Stored(n),
               n \in excused[j])
    BY <2>1 DEF LInv, Pairs
  <2>3. CASE j # i
    BY <1>3, <1>4, <2>1, <2>2, <2>3
  <2>4. CASE j = i
    <3>1. PICK own : own = OwnOf(links'[i], n)
      OBVIOUS
    <3>2. PICK x : x = Stored(n)
      OBVIOUS
    <3>3. ASSUME n \notin excused'[i], NEW l \in own
          PROVE  x # <<>> /\ Right(i, l, x[1])
      <4>1. ~reboots /\ l \in OwnOf(links[i], n)
        BY <1>3, <3>1, <3>3 DEF OwnOf
      <4>2. n \notin excused[i] /\ ~IsBehind(i, n)
        BY <1>3, <3>3, <4>1
      <4>3. PairOK(i, k, n, queue[i][k], known[i][n], watch[i][k], OwnOf(links[i], n), Stored(n), FALSE)
        BY <2>2, <2>4, <4>2 DEF PairOK, KnowsOK
      <4>4. InApi(n) /\ Right(i, l, api[n].spec)
        BY <1>0, <2>1, <4>1, <4>2, <4>3, LeftBehind
      <4> QED BY <3>2, <4>4 DEF Stored
    <3>4. ChainOK(<<>>, NoKnown, "off", n, x)
      BY DEF ChainOK
    <3>5. n \notin excused'[i] => HostsOK(i, own, <<>>, NoKnown, "off", n, x)
      BY <3>3 DEF HostsOK, LeftFor, NoKnown
    <3>6. PairOK(i, k, n, <<>>, NoKnown, "off", own, x, n \in excused'[i])
      BY <3>4, <3>5 DEF PairOK, KnowsOK, NoKnown
    <3>7. queue'[i][k] = <<>> /\ watch'[i][k] = "off" /\ known'[i][n] = NoKnown
      BY <1>3
    <3> QED BY <1>4, <2>1, <2>4, <3>1, <3>2, <3>6, <3>7
  <2> QED BY <2>3, <2>4
<1>6. /\ \A n \in Networks : api'[n] = NoObj \/ (InApi(n)' /\ IsFrom(n, api'[n].spec))
      /\ \A j \in Nodes : \A n \in Networks :
            known'[j][n].ver # 0 => IsFrom(n, known'[j][n].orig)
  BY <1>0, <1>1, <1>3 DEF Homes, InApi, NoKnown
<1>7. ASSUME NEW j \in Nodes
      PROVE  AllOnOwn(links'[j])
  <2>1. AllOnOwn(links[j]) /\ AllOnOwn({})
    BY <1>0 DEF Homes, AllOnOwn, OnOwn, OwnOf
  <2> QED BY <1>3, <2>1
<1>8. ASSUME NEW j \in Nodes, NEW k \in Kinds, NEW e \in ToSet(queue'[j][k]),
             e.type \in {"put", "del"}
      PROVE  IsFrom(e.net, e.obj.spec)
  <2>1. CASE j # i
    BY <1>0, <1>3, <1>8, <2>1 DEF Homes
  <2>2. CASE j = i
    BY <1>3, <1>8, <2>2 DEF ToSet
  <2> QED BY <2>1, <2>2
<1> QED BY <1>1, <1>5, <1>6, <1>7, <1>8, LInvAfter

-----------------------------------------------------------------------------
(* The invariant of the interfaces, and what follows from it                 *)

LEMMA InitLInv == Init => LInv
<1> SUFFICES ASSUME Init PROVE LInv
  OBVIOUS
<1>1. ASSUME NEW i \in Nodes, NEW n \in Networks
      PROVE  PairOK(i, kind[n], n, queue[i][kind[n]], known[i][n], watch[i][kind[n]],
                    OwnOf(links[i], n), Stored(n), n \in excused[i])
  <2>1. kind[n] \in Kinds
    BY DEF Init
  <2>2. /\ queue[i][kind[n]] = <<>> /\ known[i][n] = NoKnown /\ watch[i][kind[n]] = "off"
        /\ links[i] = {} /\ n \notin excused[i]
    BY <2>1 DEF Init
  <2>3. OwnOf(links[i], n) = {}
    BY <2>2 DEF OwnOf
  <2>4. ChainOK(<<>>, NoKnown, "off", n, Stored(n))
    BY DEF ChainOK
  <2> QED BY <2>2, <2>3, <2>4 DEF PairOK, KnowsOK, HostsOK, NoKnown
<1>2. \A i \in Nodes : AllOnOwn(links[i])
  BY DEF Init, AllOnOwn, OnOwn, OwnOf
<1>3. \A i \in Nodes : \A k \in Kinds : ToSet(queue[i][k]) = {}
  BY DEF Init, ToSet
<1> QED BY <1>1, <1>2, <1>3 DEF LInv, Homes, Pairs, Init, NoKnown

LEMMA HandlerKeeps ==
    ASSUME IInv, LInv, NEW i \in Nodes, Handlers(i)
    PROVE  LInv'
<1>1. /\ DanmNetKind \in Kinds \ {NadKind}
      /\ {TenantNetworkKind, ClusterNetworkKind} \subseteq Kinds \ {NadKind, DanmNetKind}
  BY DEF Kinds, DanmNetKind, TenantNetworkKind, ClusterNetworkKind, NadKind
<1>2. PICK fault :
          \/ AddDanmNet(i, fault) \/ UpdateDanmNet(i, fault) \/ DeleteDanmNet(i, fault)
          \/ AddTenantNetwork(i, fault) \/ UpdateTenantNetwork(i, fault)
          \/ DeleteTenantNetwork(i, fault)
          \/ AddClusterNetwork(i, fault) \/ UpdateClusterNetwork(i, fault)
          \/ DeleteClusterNetwork(i, fault)
  BY DEF Handlers
<1>3. PICK k \in Kinds \ {NadKind} :
          \/ AddNetwork(i, k, fault)
          \/ k = DanmNetKind /\ UpdateDanmNet(i, fault)
          \/ k \in {TenantNetworkKind, ClusterNetworkKind} /\ UpdateConverted(i, k, fault)
          \/ DeleteOf(i, k, fault)
  BY <1>1, <1>2, Zenon DEF AddDanmNet, DeleteDanmNet, AddTenantNetwork, UpdateTenantNetwork,
      DeleteTenantNetwork, AddClusterNetwork, UpdateClusterNetwork, DeleteClusterNetwork
<1>4. KeepsTrack(i, k) /\ Quietly(i, k)
  <2>1. CASE AddNetwork(i, k, fault)
    BY <2>1, AddNetworkTracks
  <2>2. CASE k = DanmNetKind /\ UpdateDanmNet(i, fault)
    BY <2>2, UpdateDanmNetTracks
  <2>3. CASE k \in {TenantNetworkKind, ClusterNetworkKind} /\ UpdateConverted(i, k, fault)
    BY <1>1, <2>3, UpdateConvertedTracks
  <2>4. CASE DeleteOf(i, k, fault)
    BY <2>4, DeleteOfTracks
  <2> QED BY <1>3, <2>1, <2>2, <2>3, <2>4
<1> QED BY <1>4, QuietKeeps DEF Quietly

LEMMA NadHandlerKeeps ==
    ASSUME IInv, LInv, NEW i \in Nodes, NadHandlers(i)
    PROVE  LInv'
<1>1. TypeOK /\ Versions /\ Origins /\ NadKind \in Kinds
  BY DEF IInv, Kinds
<1>2. PICK fault : AddNad(i, fault) \/ UpdateNad(i, fault) \/ DeleteNad(i, fault)
  BY DEF NadHandlers
<1>3. CASE AddNad(i, fault)
  <2>1. \E e : HandlesNad(i, e)
    BY <1>1, <1>3, AddNadStep
  <2> QED BY <1>3, <2>1, AddNadTracks, NadKeeps
<1>4. CASE UpdateNad(i, fault)
  <2>1. \E e : HandlesNad(i, e)
    BY <1>1, <1>4, UpdateNadStep
  <2> QED BY <1>4, <2>1, UpdateNadTracks, NadKeeps
<1>5. CASE DeleteNad(i, fault)
  BY <1>1, <1>5, DeleteOfTracks, QuietKeeps DEF DeleteNad, Quietly
<1> QED BY <1>2, <1>3, <1>4, <1>5

LEMMA NextLInv == IInv /\ LInv /\ [Next]_vars => LInv'
<1> SUFFICES ASSUME IInv, LInv, [Next]_vars PROVE LInv'
  OBVIOUS
<1>1. CASE Users
  BY <1>1, UserKeeps DEF Users
<1>2. ASSUME NEW i \in Nodes, Informers(i)
      PROVE  LInv'
  BY <1>2, ResyncKeeps, WatchClosedKeeps, RelistKeeps DEF Informers
<1>3. ASSUME NEW i \in Nodes, NewWatcher(i)
      PROVE  LInv'
  BY <1>3, NewWatcherKeeps
<1>4. ASSUME NEW i \in Nodes, NEW reboots \in BOOLEAN, WatchErrorHandler(i, reboots)
      PROVE  LInv'
  BY <1>4, CrashKeeps
<1>5. ASSUME NEW i \in Nodes, Handlers(i)
      PROVE  LInv'
  BY <1>5, HandlerKeeps
<1>6. ASSUME NEW i \in Nodes, NadHandlers(i)
      PROVE  LInv'
  BY <1>6, NadHandlerKeeps
<1>7. CASE UNCHANGED vars
  <2>1. UNCHANGED <<kind, api, watch, queue, known, links, excused>>
    BY <1>7 DEF vars, history
  <2>2. \A n : Stored(n)' = Stored(n)
    BY <2>1 DEF Stored, InApi
  <2>3. \A i \in Nodes : \A n \in Networks :
           PairOK(i, kind[n], n, queue'[i][kind[n]], known'[i][n], watch'[i][kind[n]],
                  OwnOf(links'[i], n), Stored(n)', n \in excused'[i])
    BY <2>1, <2>2 DEF LInv, Pairs
  <2> QED BY <2>1, <2>3, LInvAfter DEF LInv, Homes, InApi
<1> QED BY <1>1, <1>2, <1>3, <1>4, <1>5, <1>6, <1>7 DEF Next

\* A watcher that has handled its events knows the network as it is in the API server.
LEMMA KnowsAll ==
    ASSUME LInv, NEW i \in Nodes, NEW n \in Networks, IsUpToDate(i, n), n \notin excused[i],
           NEW own, own = OwnOf(links[i], n)
    PROVE  IF InApi(n) THEN Fits(i, own, api[n].spec) ELSE own = {}
<1>1. PICK o : o = known[i][n]
  OBVIOUS
<1>2. PairOK(i, kind[n], n, <<>>, o, "up", own, Stored(n), FALSE)
  <2>1. PairOK(i, kind[n], n, queue[i][kind[n]], o, watch[i][kind[n]], own, Stored(n), n \in excused[i])
    BY <1>1 DEF LInv, Pairs
  <2>2. queue[i][kind[n]] = <<>> /\ watch[i][kind[n]] = "up" /\ (n \in excused[i]) = FALSE
    BY DEF IsUpToDate
  <2> QED BY <2>1, <2>2
<1>3. IsSaid(<<>>, o, n, Len(<<>>) + 1, Stored(n)) /\ HostsOK(i, own, <<>>, o, "up", n, Stored(n))
  BY <1>2 DEF PairOK, ChainOK
<1>4. Held(o) = Stored(n)
  BY <1>3 DEF IsSaid
<1>5. CASE InApi(n)
  <2>1. o.ver # 0 /\ <<o.orig>> = <<api[n].spec>>
    BY <1>4, <1>5 DEF Held, Stored
  <2>2. o.orig = api[n].spec
    BY <2>1
  <2> QED BY <1>3, <1>5, <2>1, <2>2 DEF HostsOK
<1>6. CASE ~InApi(n)
  <2>1. o.ver = 0
    BY <1>4, <1>6 DEF Held, Stored
  <2>2. \A l \in own : LeftFor(i, l, <<>>, "up", n, Stored(n))
    BY <1>3, <2>1 DEF HostsOK
  <2> QED BY <1>6, <2>2 DEF LeftFor
<1> QED BY <1>5, <1>6

\* Both properties of the interfaces follow: those of a watcher that knows the network as it
\* is in the API server fit it.
LEMMA RightLinks ==
    ASSUME IInv, LInv
    PROVE  NetworksHaveLinks /\ NoOrphanLinks
<1>1. ASSUME NEW i \in Nodes, NEW n \in Networks, InApi(n), IsUpToDate(i, n), n \notin excused[i],
             NEW name \in WantedNames(api[n].spec)
      PROVE  \E l \in links[i] : l.name = name /\ IsFor(i, l, api[n].spec)
  <2>1. Fits(i, OwnOf(links[i], n), api[n].spec)
    BY <1>1, KnowsAll
  <2>2. PICK l \in OwnOf(links[i], n) : l.name = name
    BY <2>1 DEF Fits, LinkNames
  <2> QED BY <2>1, <2>2 DEF Fits, Right, OwnOf
<1>2. ASSUME NEW i \in Nodes, NEW n \in Networks, NEW l \in links[i], IsUpToDate(i, n),
             n \notin excused[i], NEW s \in Specs[n], l.name \in WantedNames(s)
      PROVE  InApi(n) /\ l.name \in WantedNames(api[n].spec)
  <2>1. s.id \in IdsOf(n) /\ s \in AnySpec
    BY WatcherAssumption DEF IdsOf, AnySpec, Ids, Vnis, SpecOf, Parents
  <2>2. l \in OwnOf(links[i], n)
    BY <1>2, <2>1, NamesOfNetwork DEF OwnOf
  <2>3. InApi(n) /\ Fits(i, OwnOf(links[i], n), api[n].spec)
    BY <1>2, <2>2, KnowsAll
  <2> QED BY <2>2, <2>3 DEF Fits, Right
<1> QED BY <1>1, <1>2 DEF NetworksHaveLinks, NoOrphanLinks

\* The invariant of the interfaces: in every reachable state the events under way lead each
\* watcher to the networks of the API server, and the interfaces of its node fit what it has
\* heard so far (the informers of netcontrol.go, setupHost and deleteHostInterface of net.go).
THEOREM LInvHolds == Spec => []LInv
<1>1. Init => LInv
  BY InitLInv
<1>2. IInv /\ LInv /\ [Next]_vars => LInv'
  BY NextLInv
<1> QED BY <1>1, <1>2, IInvHolds, PTL DEF Spec

\* A network that asks for a VLAN or a VxLAN has its interface on every node whose watcher is
\* up to date, on the device and with the VNI of the network (setupHost in net.go, called by
\* the handlers in netcontrol.go), unless a handler failed or met a case it cannot handle.
THEOREM NetworksHaveLinksAlways == Spec => []NetworksHaveLinks
<1>1. IInv /\ LInv => NetworksHaveLinks
  BY RightLinks
<1> QED BY <1>1, IInvHolds, LInvHolds, PTL

\* No interface outlives the network, or the VNI of the network, it was created for
\* (deleteHostInterface in net.go, called by the handlers in netcontrol.go), on every node whose
\* watcher is up to date, with the same exceptions.
THEOREM NoOrphanLinksAlways == Spec => []NoOrphanLinks
<1>1. IInv /\ LInv => NoOrphanLinks
  BY RightLinks
<1> QED BY <1>1, IInvHolds, LInvHolds, PTL
=============================================================================
