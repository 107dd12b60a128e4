----------------------------- MODULE NicProofs -----------------------------
(***************************************************************************)
(* Proofs about module Nic, for Pods with any number of connections of any   *)
(* kind, any devices, and any number of failures and of CNI DEL calls: what  *)
(* a Pod that is up has, and what is left of one that is gone.               *)
(***************************************************************************)
EXTENDS Nic, FiniteSetTheorems, TLAPS

-----------------------------------------------------------------------------
(* What is known of a connection from the Pod alone: its name, the addresses *)
(* its DanmEp is created with, the answer of a plugin, and what becomes of   *)
(* the addresses then.                                                       *)

Name(i) == calculateIfaceName(conns[i], i)
Needs(i) == isIpReservationNeeded(conns[i])
Asked(i) == IF Needs(i) THEN [f \in Families |-> Served(conns[i].req[f])] ELSE conns[i].req
Answer(i) == Given(conns[i], Asked(i))
Answered(i) == setEpIfaceAddress(Asked(i), Answer(i))
IsDelegated(i) == IsDelegationRequired(conns[i])

\* DANM is to reserve an address.
Gives(i, f) == Needs(i) /\ f \in Asks(conns[i])

-----------------------------------------------------------------------------
(* The inductive invariant                                                   *)

\* Neither a plugin nor a network namespace has anything of a connection.
Bare(i) == i \notin held \cup own \cup host /\ \A l \in links : l.of # i

\* Where a goroutine is in ADD, and what it has done until then.
Stage(i) ==
    /\ pc[i] = "off" <=> i >= next
    /\ pc[i] \in {"off", "reserve", "create"} => ep[i] = NoEp
    /\ pc[i] \in {"off", "reserve", "create", "plug"} => Bare(i)
    /\ pc[i] \in {"create", "plug", "configure", "update", "post", "fail", "ok"} =>
          /\ mem[i].name = Name(i) /\ mem[i].addr \in {Asked(i), Answered(i)}
    /\ pc[i] \in {"create", "plug", "configure", "update", "post", "fail"} =>
          \A f \in Families : Gives(i, f) => f \in conns[i].cidr /\ <<i, f>> \in reserved
    /\ pc[i] \in {"create", "plug", "configure"} => mem[i].addr = Asked(i)
    /\ pc[i] \in {"plug", "configure"} => ep[i] = mem[i]
    /\ pc[i] \in {"update", "post", "ok"} => ep[i].name = Name(i) /\ ep[i].device = mem[i].device
    /\ pc[i] \in {"update", "post", "ok"} /\ IsDelegated(i) => i \in held
    /\ pc[i] = "fail" => i \in abandoned \/ Bare(i)
    /\ pc[i] \in {"update", "post"} => \A l \in links : l.of = i => l.name = Name(i)
    /\ mem[i].device # NoDevice => conns[i].type = "sriov"

\* The interface that a goroutine configures, still under the name it has on the host.
Configured(i) ==
    pc[i] = "configure" =>
        /\ conns[i].type = "ipvlan" /\ i \notin held \cup own
        /\ \A l \in links : l.of = i => l = Link(Host(i), i, NoAddress, FALSE)

\* A connection that is set up has its interface, but for a dummy that is still to come.
Connected(i) ==
    pc[i] \in {"update", "post", "ok"} /\ WantsLink(i) /\ (pc[i] = "ok" \/ ~IsDpdk(i)) =>
        \E l \in links : l.name = Name(i) /\ l.of = i /\ l.up

\* The DanmEp tells what it has in memory, except for what was not to be told.
EpTells(i) ==
    pc[i] \in {"post", "ok"} =>
        \A f \in Families : \/ ep[i].addr[f] = mem[i].addr[f]
                            \/ ep[i].addr[f] = "none" /\ conns[i].req[f] = "none"

\* The DanmEp in memory and the interface have the same addresses.
Tells(i, a, l) ==
    \A f \in Families :
        /\ a[f] \in {"danm", "own"} => l.addr[f] = a[f]
        /\ l.addr[f] \in {"danm", "own"} =>
              l.addr[f] = a[f] \/ i \in unread \/ conns[i].req[f] = "none"
MemTells(i) ==
    pc[i] \in {"update", "post", "ok"} /\ ~SharesName(i) =>
        \A l \in links : l.of = i /\ l.name = Name(i) => Tells(i, mem[i].addr, l)

Setup(i) == Stage(i) /\ Configured(i) /\ Connected(i) /\ EpTells(i) /\ MemTells(i)

\* The DanmEp is that of the connection, and a DEL gets it as it is.
EpKept(i) ==
    /\ ep[i] # NoEp => ep[i].name = Name(i) /\ ep[i].addr \in {Asked(i), Answered(i)}
    /\ pc[i] \in {"del", "delep"} => mem[i] = ep[i] /\ ep[i] # NoEp
    /\ phase \in {"del", "returned", "gone"} /\ pc[i] = "off" /\ ep[i] # NoEp =>
          <<i, "ep">> \in missed

\* Without a failed call a DanmEp has its addresses.
Unfreed(i) ==
    faults = 0 /\ ep[i] # NoEp => \A f \in Families : Gives(i, f) => <<i, f>> \in reserved

\* A reserved address has a DanmEp, or is about to get one, or was lost.
Accounted(i) ==
    \A f \in Families : <<i, f>> \in reserved =>
        /\ Gives(i, f) /\ f \in conns[i].cidr
        /\ i \in lost \/ <<i, "ep">> \in missed \/ ep[i] # NoEp \/ pc[i] = "create"

\* A failed call explains what is left of a connection.
Excused(i) == i \in abandoned \/ <<i, "nic">> \in missed

\* The DEL that is to clean up after a connection has not begun.
Cleanable(i) ==
    /\ ep[i] # NoEp
    /\ phase \in {"setup", "up", "panicked", "list"} \/ pc[i] = "del"
Held(i) ==
    /\ i \in host => i \in abandoned
    /\ i \in held => IsDelegated(i) /\ (Excused(i) \/ Cleanable(i))
    /\ i \in own => /\ IsDelegated(i) /\ ~IsNative(conns[i]) /\ \A f \in Families : ~Gives(i, f)
                    /\ Excused(i) \/ conns[i].overlap \/ Cleanable(i)

\* An interface has the name by which DEL deletes it, or no address.
Found(i, l) ==
    \/ l.name = Host(i) /\ l.addr = NoAddress
    \/ /\ l.name = Name(i) /\ ep[i] # NoEp /\ pc[i] # "delep"
       /\ \/ conns[i].type = "ipvlan"
          \/ IsDelegated(i) /\ conns[i].kernel /\ ep[i].device \notin DpdkDevices
Links(i) ==
    \A l \in links : l.of = i =>
        /\ l.name \in {Name(i), Host(i), <<"dummy", i>>}
        /\ l.dummy \/ Excused(i) \/ Found(i, l)

\* The part of AddressesOwned that is about one connection.
Owned(i) ==
    \A l \in links : \A f \in Families : l.of = i /\ l.addr[f] = "danm" =>
        <<i, f>> \in reserved \/ Excused(i) \/ l.dummy \/ (f = 6 /\ SharesName(i))

Conn(i) ==
    /\ phase = "setup" => Setup(i)
    /\ EpKept(i) /\ Unfreed(i) /\ Accounted(i) /\ Held(i) /\ Links(i) /\ Owned(i)

\* A device serves one connection, and so does the name of an interface.
OneDevice ==
    phase = "setup" =>
        \A i, j \in held : mem[i].device = mem[j].device /\ mem[i].device # NoDevice => i = j
OneName == \A l, m \in links : l.name = m.name => l = m

\* Without a failed call, a pool is nil because Kubelet knows nothing of it and a
\* connection has asked.
Pools ==
    \A p \in DOMAIN devices : devices[p] = Nil =>
        \/ faults > 0
        \/ PodDevices[p] = Nil /\ \E j \in 1 .. next - 1 : IsDeviceNeeded(conns[j]) /\ conns[j].pool = p

IInv ==
    /\ TypeOK /\ (\A i \in Conns : Conn(i)) /\ OneDevice /\ OneName /\ Pools
    /\ UpPodsHaveLinks /\ AddressesAgree /\ FreesOwnOnly /\ PanicsHaveCause

-----------------------------------------------------------------------------
(* Facts about the Pod alone                                                 *)

\* The connections of the Pod.
LEMMA PodFacts ==
    ASSUME TypeOK
    PROVE  /\ Len(conns) \in Nat /\ Conns = 1 .. Len(conns)
           /\ \A i \in Conns : IsConnection(conns[i])
<1>1. /\ Len(conns) \in Nat /\ conns = [i \in 1 .. Len(conns) |-> conns[i]]
      /\ \A i \in 1 .. Len(conns) : IsConnection(conns[i])
  BY NicAssumption DEF TypeOK, conns
<1> QED BY <1>1 DEF Conns

\* Everything that is known from the Pod stays as it is.
LEMMA StaticKept ==
    ASSUME pod' = pod
    PROVE  /\ conns' = conns /\ Conns' = Conns /\ Names' = Names /\ LinkNames' = LinkNames
           /\ Iface' = Iface
           /\ \A i : /\ Name(i)' = Name(i) /\ Needs(i)' = Needs(i) /\ Asked(i)' = Asked(i)
                     /\ Answer(i)' = Answer(i) /\ Answered(i)' = Answered(i)
                     /\ IsDelegated(i)' = IsDelegated(i) /\ SharesName(i)' = SharesName(i)
                     /\ \A f : Gives(i, f)' = Gives(i, f)
<1>1. conns' = conns /\ Conns' = Conns
  BY DEF conns, Conns
<1>2. \A c, i : calculateIfaceName(c, i)' = calculateIfaceName(c, i)
  BY DEF calculateIfaceName
<1>3. Names' = Names /\ LinkNames' = LinkNames /\ Iface' = Iface
  BY <1>1, <1>2 DEF Names, LinkNames, Iface, Host
<1>4. \A i : Name(i)' = Name(i) /\ SharesName(i)' = SharesName(i)
  BY <1>1, <1>2 DEF Name, SharesName
<1>5. \A i : Needs(i)' = Needs(i) /\ Asked(i)' = Asked(i) /\ IsDelegated(i)' = IsDelegated(i)
  BY <1>1 DEF Needs, Asked, IsDelegated
<1>6. \A i : Answer(i)' = Answer(i) /\ Answered(i)' = Answered(i)
  BY <1>1, <1>5 DEF Answer, Answered
<1>7. \A i, f : Gives(i, f)' = Gives(i, f)
  BY <1>1, <1>5 DEF Gives
<1> QED BY <1>1, <1>3, <1>4, <1>5, <1>6, <1>7

\* What a sequence is, by its definition.
LEMMA SeqForm ==
    ASSUME NEW s, NEW S, NEW n \in Nat, s = [k \in 1 .. n |-> s[k]], \A k \in 1 .. n : s[k] \in S
    PROVE  s \in Seq(S)
<1>1. [k \in 1 .. n |-> s[k]] \in [1 .. n -> S]
  OBVIOUS
<1>2. [k \in 1 .. n |-> s[k]] \in Seq(S)
  BY <1>1, SMT
<1> QED BY <1>2

\* A name that is taken from the endpoint ID is not one the DanmEps tell.
LEMMA NameFacts ==
    ASSUME TypeOK, NEW i \in Conns, NEW j \in Conns
    PROVE  /\ Name(i) \in Names /\ Name(i) # <<>>
           /\ Name(i) # Host(j) /\ Name(i) # <<"dummy", j>> /\ Host(i) # <<"dummy", j>>
           /\ Host(i) = Host(j) => i = j
           /\ {Name(i), Host(i), <<"dummy", i>>} \subseteq LinkNames
<1> DEFINE c == conns[i]
           S == {c.prefix[k] : k \in 1 .. Len(c.prefix)}
<1>1. IsConnection(c) /\ i \in Nat /\ i >= 1
  BY PodFacts
<1>2. Host(i) # <<"dummy", j>> /\ (Host(i) = Host(j) => i = j)
  <2>1. Host(i)[1] = "host" /\ <<"dummy", j>>[1] = "dummy" /\ Host(i)[2] = i /\ Host(j)[2] = j
    BY DEF Host
  <2> QED BY <2>1
<1>3. Name(i) # <<>> /\ Name(i)[1] \notin {"host", "dummy"}
  <2>1. CASE i = 1 \/ c.prefix = <<>>
    <3>1. Name(i) = <<"eth", 0>> \/ Name(i) = <<"eth", i - 1>>
      BY <2>1, <1>1 DEF Name, calculateIfaceName
    <3> QED BY <3>1
  <2>2. CASE i > 1 /\ c.prefix # <<>>
    <3>1. /\ Len(c.prefix) \in Nat /\ c.prefix = [k \in 1 .. Len(c.prefix) |-> c.prefix[k]]
          /\ c.prefix # <<>> => c.prefix[1] \notin {"host", "dummy"}
      BY <1>1 DEF IsConnection
    <3>6. c.prefix \in Seq(S)
      BY <3>1, SeqForm
    <3>2. c.prefix[1] \notin {"host", "dummy"} /\ Len(c.prefix) \in Nat \ {0}
      <4> HIDE DEF c, S
      <4> QED BY <2>2, <3>1, <3>6
    <3>3. Name(i) = c.prefix \/ Name(i) = Append(c.prefix, i - 1)
      BY <2>2, <1>1 DEF Name, calculateIfaceName
    <3>4. CASE Name(i) = c.prefix
      BY <3>2, <3>4, <2>2
    <3>5. CASE Name(i) = Append(c.prefix, i - 1)
      <4>1. c.prefix \in Seq(S \cup {i - 1})
        <5> DEFINE T == S \cup {i - 1}
        <5>1. \A k \in 1 .. Len(c.prefix) : c.prefix[k] \in T
          OBVIOUS
        <5> HIDE DEF T
        <5>2. c.prefix \in Seq(T)
          BY <3>1, <5>1, SeqForm
        <5> QED BY <5>2 DEF T
      <4>2. Append(c.prefix, i - 1)[1] = c.prefix[1] /\ Len(Append(c.prefix, i - 1)) # 0
        BY <4>1, <3>2
      <4> QED BY <3>2, <3>5, <4>2
    <3> QED BY <3>3, <3>4, <3>5
  <2> QED BY <1>1, <2>1, <2>2
<1>4. Name(i) # Host(j) /\ Name(i) # <<"dummy", j>>
  <2>1. Host(j)[1] = "host" /\ <<"dummy", j>>[1] = "dummy"
    BY DEF Host
  <2> QED BY <2>1, <1>3
<1>5. Name(i) \in Names
  BY DEF Name, Names
<1> QED BY <1>2, <1>3, <1>4, <1>5 DEF LinkNames

\* The addresses a DanmEp is created with.
LEMMA AskedFacts ==
    ASSUME TypeOK, NEW i \in Conns
    PROVE  /\ Asked(i) \in [Families -> Addresses \ {"own"}]
           /\ \A f \in Families :
                 /\ Asked(i)[f] = "danm" <=> Gives(i, f)
                 /\ Asked(i)[f] = "dynamic" => ~Needs(i) /\ f \in Asks(conns[i])
                 /\ Asked(i)[f] = "none" => conns[i].req[f] = "none"
<1>1. conns[i].req \in [Families -> {"", "none", "dynamic"}]
  BY PodFacts DEF IsConnection
<1>2. CASE Needs(i)
  <2>1. Asked(i) = [f \in Families |-> Served(conns[i].req[f])]
    BY <1>2 DEF Asked
  <2> QED BY <1>1, <1>2, <2>1 DEF Served, Gives, Asks, Addresses
<1>3. CASE ~Needs(i)
  BY <1>1, <1>3 DEF Asked, Gives, Asks, Addresses
<1> QED BY <1>2, <1>3

\* The addresses a plugin answers with: those DANM has reserved, or those of its own IPAM.
LEMMA AnswerFacts ==
    ASSUME TypeOK, NEW i \in Conns
    PROVE  /\ Answer(i) \in [Families -> {"", "danm", "own"}]
           /\ \A f \in Families :
                 /\ Answer(i)[f] = "danm" <=> Gives(i, f)
                 /\ Answer(i)[f] = "own" => ~IsNative(conns[i]) /\ \A g \in Families : ~Gives(i, g)
<1> DEFINE c == conns[i]
           ips == IF isIpReservationNeeded(c) THEN IpamIps(Asked(i)) ELSE {}
<1>1. Answer(i) = CASE IpamOf(c, ips) = "fakeipam" -> reserveIp(ips, Asked(i))
                    [] IpamOf(c, ips) = "own" -> [f \in Families |-> IF f \in c.own THEN "own" ELSE ""]
                    [] OTHER -> NoAddress
  BY DEF Answer, Given
<1>2. CASE IpamOf(c, ips) = "fakeipam"
  <2>1. Needs(i) /\ ips = IpamIps(Asked(i))
    BY <1>2 DEF IpamOf, Needs
  <2>2. \A f \in Families : Asked(i)[f] \in {"", "none", "danm"}
    BY <2>1, AskedFacts DEF Addresses
  <2>3. Answer(i) = [f \in Families |-> IF f \in IpamIps(Asked(i)) THEN Asked(i)[f] ELSE ""]
    BY <1>1, <1>2, <2>1 DEF reserveIp
  <2>4. \A f \in Families : f \in IpamIps(Asked(i)) <=> Asked(i)[f] = "danm"
    BY <2>2 DEF IpamIps, IsAddress
  <2> QED BY <2>2, <2>3, <2>4, AskedFacts
<1>3. CASE IpamOf(c, ips) # "fakeipam"
  <2>1. \A f \in Families : ~Gives(i, f)
    <3>1. ips = {}
      BY <1>3 DEF IpamOf
    <3>2. Needs(i) => \A f \in Families : Asked(i)[f] # "danm"
      BY <3>1 DEF IpamIps, IsAddress, Needs
    <3> QED BY <3>2, AskedFacts DEF Gives
  <2>2. CASE IpamOf(c, ips) = "own"
    <3>1. ~IsNative(c)
      BY <2>2 DEF IpamOf
    <3>2. Answer(i) = [f \in Families |-> IF f \in c.own THEN "own" ELSE ""]
      BY <1>1, <2>2
    <3> QED BY <2>1, <3>1, <3>2
  <2>3. CASE IpamOf(c, ips) # "own"
    BY <1>1, <1>3, <2>1, <2>3 DEF NoAddress
  <2> QED BY <2>2, <2>3
<1> QED BY <1>2, <1>3

\* The addresses a DanmEp has once the plugin has answered.
LEMMA AnsweredFacts ==
    ASSUME TypeOK, NEW i \in Conns
    PROVE  /\ Answered(i) \in [Families -> Addresses]
           /\ \A f \in Families :
                 /\ Answered(i)[f] = "danm" <=> Gives(i, f)
                 /\ Answered(i)[f] = "dynamic" => ~Needs(i) /\ f \in Asks(conns[i])
                 /\ Answer(i)[f] # "" => Answered(i)[f] = Answer(i)[f]
                 /\ Answer(i)[f] = "" => Answered(i)[f] = Asked(i)[f]
<1>1. Answered(i) = [f \in Families |-> IF Answer(i)[f] # "" THEN Answer(i)[f] ELSE Asked(i)[f]]
  BY DEF Answered, setEpIfaceAddress
<1>2. Answered(i) \in [Families -> Addresses]
  <2>1. \A f \in Families : Asked(i)[f] \in Addresses
    BY AskedFacts
  <2>2. \A f \in Families : Answer(i)[f] \in Addresses
    BY AnswerFacts DEF Addresses
  <2> QED BY <1>1, <2>1, <2>2
<1>3. \A f \in Families :
          /\ Answer(i)[f] # "" => Answered(i)[f] = Answer(i)[f]
          /\ Answer(i)[f] = "" => Answered(i)[f] = Asked(i)[f]
  BY <1>1
<1>4. \A f \in Families : Answer(i)[f] \in {"", "danm", "own"}
  BY AnswerFacts
<1> QED BY <1>2, <1>3, <1>4, AskedFacts, AnswerFacts

\* A link carries an address of DANM's only if DANM was to reserve one.
LEMMA OnLinkFacts ==
    ASSUME NEW a \in [Families -> Addresses]
    PROVE  /\ OnLink(a) \in [Families -> Addresses]
           /\ \A f \in Families : \A x \in {"danm", "own"} : OnLink(a)[f] = x <=> a[f] = x
BY DEF OnLink, IsAddress, Addresses
-----------------------------------------------------------------------------
(* What a step of one connection leaves of the others                        *)

\* An interface is still there; its IPv6 address may be that of a connection of the name.
SameLink(l, m) ==
    /\ l.of = m.of /\ l.name = m.name /\ l.up = m.up /\ l.dummy = m.dummy
    /\ \A f \in Families :
          l.addr[f] = m.addr[f] \/ (f = 6 /\ SharesName(l.of) /\ l.name = Name(l.of))

Other(j) ==
    /\ pc'[j] = pc[j] /\ mem'[j] = mem[j] /\ ep'[j] = ep[j]
    /\ j \in held' <=> j \in held
    /\ j \in own' <=> j \in own
    /\ j \in host' <=> j \in host
    /\ j \in abandoned' <=> j \in abandoned
    /\ j \in unread' <=> j \in unread
    /\ j \in lost' <=> j \in lost
    /\ \A f \in Families : <<j, f>> \in reserved' <=> <<j, f>> \in reserved
    /\ \A x \in {"nic", "ep"} : <<j, x>> \in missed' <=> <<j, x>> \in missed
    /\ \A m \in links' : m.of = j => \E l \in links : SameLink(l, m)
    /\ phase = "setup" => \A l \in links : l.of = j => \E m \in links' : SameLink(l, m)

Others(i) ==
    /\ pod' = pod /\ phase' = phase
    /\ next' = next \/ (i = next /\ next' = next + 1)
    /\ faults' = 0 => faults = 0
    /\ \A j \in Conns \ {i} : Other(j)

\* A goroutine of ADD runs while the others are set up, one of DEL while they are deleted.
LEMMA Phases ==
    ASSUME TypeOK, NEW i \in Conns
    PROVE  /\ pc[i] \in Running => phase = "setup"
           /\ pc[i] \in {"del", "delep"} => phase = "del"
           /\ phase = "setup" => pc[i] \in Running \cup {"off", "ok", "err"}
           /\ phase = "del" => pc[i] \in {"off", "del", "delep"}
           /\ phase \notin {"setup", "del"} => pc[i] = "off"
BY DEF TypeOK, Running

\* A link is a record.
LEMMA LinkForm ==
    ASSUME TypeOK, NEW l \in links
    PROVE  /\ l = [name |-> l.name, of |-> l.of, addr |-> l.addr, up |-> l.up, dummy |-> l.dummy]
           /\ l.name \in LinkNames /\ l.of \in Conns /\ l.addr \in [Families -> Addresses]
           /\ l.up \in BOOLEAN /\ l.dummy \in BOOLEAN
BY DEF TypeOK

\* The invariant of the others is kept.
LEMMA OthersKept ==
    ASSUME TypeOK, TypeOK', NEW i \in Conns, Others(i), NEW j \in Conns \ {i}, Conn(j)
    PROVE  Conn(j)'
<1>1. pod' = pod /\ phase' = phase /\ (faults' = 0 => faults = 0)
  BY DEF Others
<1>2. Other(j)
  BY DEF Others
<1>3. /\ conns' = conns /\ Name(j)' = Name(j) /\ Needs(j)' = Needs(j) /\ Asked(j)' = Asked(j)
      /\ Answered(j)' = Answered(j) /\ IsDelegated(j)' = IsDelegated(j)
      /\ SharesName(j)' = SharesName(j) /\ \A f : Gives(j, f)' = Gives(j, f)
  BY <1>1, StaticKept
<1>4. \A m \in links' : m.of = j => \E l \in links :
         /\ l.of = j /\ l.name = m.name /\ l.up = m.up /\ l.dummy = m.dummy
         /\ \A f \in Families : l.addr[f] = m.addr[f] \/ (f = 6 /\ SharesName(j) /\ l.name = Name(j))
         /\ l.name # Name(j) \/ ~SharesName(j) => l = m
  <2> SUFFICES ASSUME NEW m \in links', m.of = j
               PROVE  \E l \in links :
                  /\ l.of = j /\ l.name = m.name /\ l.up = m.up /\ l.dummy = m.dummy
                  /\ \A f \in Families :
                        l.addr[f] = m.addr[f] \/ (f = 6 /\ SharesName(j) /\ l.name = Name(j))
                  /\ l.name # Name(j) \/ ~SharesName(j) => l = m
    OBVIOUS
  <2>1. PICK l \in links : SameLink(l, m)
    BY <1>2 DEF Other
  <2>2. /\ l = [name |-> l.name, of |-> l.of, addr |-> l.addr, up |-> l.up, dummy |-> l.dummy]
        /\ l.addr \in [Families -> Addresses]
    BY LinkForm
  <2>3. /\ m = [name |-> m.name, of |-> m.of, addr |-> m.addr, up |-> m.up, dummy |-> m.dummy]
        /\ m.addr \in [Families -> Addresses]
    BY DEF TypeOK
  <2>4. l.name # Name(j) \/ ~SharesName(j) => \A f \in Families : l.addr[f] = m.addr[f]
    BY <2>1 DEF SameLink
  <2>5. (\A f \in Families : l.addr[f] = m.addr[f]) => l.addr = m.addr
    BY <2>2, <2>3
  <2>6. l.name # Name(j) \/ ~SharesName(j) => l = m
    <3>1. l.name = m.name /\ l.of = m.of /\ l.up = m.up /\ l.dummy = m.dummy
      BY <2>1 DEF SameLink
    <3> HIDE <2>1
    <3> QED BY <2>2, <2>3, <2>4, <2>5, <3>1
  <2> WITNESS l \in links
  <2> QED BY <2>1, <2>6 DEF SameLink
<1>5. phase = "setup" => Setup(j)'
  <2> SUFFICES ASSUME phase = "setup" PROVE Setup(j)'
    OBVIOUS
  <2>0. Setup(j)
    BY DEF Conn
  <2>1. Stage(j)'
    <3>1. pc[j] = "off" <=> j >= next'
      <4>1. j # i /\ j \in Nat /\ i \in Nat /\ next \in Nat
        BY PodFacts DEF TypeOK
      <4> QED BY <2>0, <4>1 DEF Setup, Stage, Others
    <3>2. Bare(j) => Bare(j)'
      BY <1>2, <1>4 DEF Bare, Other
    <3>3. (\A l \in links : l.of = j => l.name = Name(j))
          => \A l \in links' : l.of = j => l.name = Name(j)
      BY <1>4
    <3> QED BY <1>1, <1>2, <1>3, <2>0, <3>1, <3>2, <3>3 DEF Setup, Stage, Other
  <2>2. Configured(j)'
    <3>1. Link(Host(j), j, NoAddress, FALSE)' = Link(Host(j), j, NoAddress, FALSE)
      BY DEF Link, Host, NoAddress
    <3>2. Host(j) # Name(j)
      BY NameFacts
    <3>3. ASSUME pc[j] = "configure", NEW m \in links', m.of = j
          PROVE  m = Link(Host(j), j, NoAddress, FALSE)
      <4>1. PICK l \in links : l.of = j /\ (l.name # Name(j) => l = m)
        BY <1>4, <3>3
      <4>2. l = Link(Host(j), j, NoAddress, FALSE)
        BY <2>0, <3>3, <4>1 DEF Setup, Configured
      <4>3. l.name = Host(j)
        BY <4>2 DEF Link
      <4> QED BY <3>2, <4>1, <4>2, <4>3
    <3> QED BY <1>2, <1>3, <2>0, <3>1, <3>3 DEF Setup, Configured, Other
  <2>3. Connected(j)'
    <3>1. WantsLink(j)' = WantsLink(j) /\ IsDpdk(j)' = IsDpdk(j)
      BY <1>2, <1>3 DEF WantsLink, IsDpdk, Other
    <3>2. (\E l \in links : l.name = Name(j) /\ l.of = j /\ l.up)
          => \E l \in links' : l.name = Name(j) /\ l.of = j /\ l.up
      BY <1>2 DEF Other, SameLink
    <3> QED BY <1>2, <1>3, <2>0, <3>1, <3>2 DEF Setup, Connected, Other
  <2>4. EpTells(j)'
    BY <1>2, <1>3, <2>0 DEF Setup, EpTells, Other
  <2>5. MemTells(j)'
    <3>1. ASSUME pc[j] \in {"update", "post", "ok"}, ~SharesName(j), NEW m \in links', m.of = j,
                 m.name = Name(j), NEW f \in Families
          PROVE  /\ mem[j].addr[f] \in {"danm", "own"} => m.addr[f] = mem[j].addr[f]
                 /\ m.addr[f] \in {"danm", "own"} =>
                       m.addr[f] = mem[j].addr[f] \/ j \in unread \/ conns[j].req[f] = "none"
      <4>1. m \in links
        BY <1>4, <3>1
      <4> QED BY <2>0, <3>1, <4>1 DEF Setup, MemTells, Tells
    <3> QED BY <1>2, <1>3, <3>1 DEF MemTells, Tells, Other
  <2> QED BY <2>1, <2>2, <2>3, <2>4, <2>5 DEF Setup
<1>6. EpKept(j)' /\ Unfreed(j)' /\ Accounted(j)'
  BY <1>1, <1>2, <1>3 DEF Conn, EpKept, Unfreed, Accounted, Other
<1>7. Held(j)'
  BY <1>1, <1>2, <1>3 DEF Conn, Held, Excused, Cleanable, Other
<1>8. Links(j)'
  <2>1. ASSUME NEW m \in links', m.of = j
        PROVE  /\ m.name \in {Name(j), Host(j), <<"dummy", j>>}
               /\ m.dummy \/ Excused(j) \/ Found(j, m)
    <3>1. PICK l \in links : /\ l.of = j /\ l.name = m.name /\ l.dummy = m.dummy
                             /\ l.name # Name(j) => l = m
      BY <1>4, <2>1
    <3>2. l.name \in {Name(j), Host(j), <<"dummy", j>>} /\ (l.dummy \/ Excused(j) \/ Found(j, l))
      BY <3>1 DEF Conn, Links
    <3>3. Name(j) # Host(j)
      BY NameFacts
    <3> QED BY <3>1, <3>2, <3>3 DEF Found
  <2>2. Excused(j) => Excused(j)'
    BY <1>2 DEF Excused, Other
  <2>3. \A m : Found(j, m) => Found(j, m)'
    BY <1>2, <1>3 DEF Found, Other, Host, NoAddress
  <2> QED BY <1>3, <2>1, <2>2, <2>3 DEF Links, Host
<1>9. Owned(j)'
  <2>1. ASSUME NEW m \in links', NEW f \in Families, m.of = j, m.addr[f] = "danm"
        PROVE  <<j, f>> \in reserved \/ Excused(j) \/ m.dummy \/ (f = 6 /\ SharesName(j))
    <3>1. PICK l \in links : /\ l.of = j /\ l.dummy = m.dummy
                             /\ l.addr[f] = m.addr[f] \/ (f = 6 /\ SharesName(j))
      BY <1>4, <2>1
    <3> QED BY <2>1, <3>1 DEF Conn, Owned
  <2> QED BY <1>2, <1>3, <2>1 DEF Owned, Excused, Other
<1> QED BY <1>1, <1>5, <1>6, <1>7, <1>8, <1>9 DEF Conn
\* A step of one connection keeps the invariant if it keeps its own part.
LEMMA ConnStep ==
    ASSUME IInv, NEW i \in Conns, TypeOK', Others(i), phase \in {"setup", "del"},
           Conn(i)', OneDevice', OneName', Pools', FreesOwnOnly'
    PROVE  IInv'
<1>1. \A j \in Conns \ {i} : Conn(j)'
  BY OthersKept DEF IInv
<1>2. Conns' = Conns /\ phase' = phase
  BY StaticKept DEF Others
<1>3. \A j \in Conns' : Conn(j)'
  BY <1>1, <1>2
<1>4. UpPodsHaveLinks' /\ AddressesAgree' /\ PanicsHaveCause'
  BY <1>2 DEF UpPodsHaveLinks, AddressesAgree, PanicsHaveCause
<1> QED BY <1>3, <1>4 DEF IInv

\* An interface is the same as itself.
LEMMA SameLinkRefl == \A l : SameLink(l, l)
BY DEF SameLink

\* The devices left in a pool.
LEMMA AllocatedFacts ==
    ASSUME TypeOK, NEW p \in DOMAIN PodDevices
    PROVE  /\ Allocated(p) \in {Nil} \cup Seq(Device)
           /\ Nil \notin Seq(Device) /\ <<"unread">> \notin Seq(Device) /\ Nil # <<"unread">>
<1>1. /\ devices[p] \in {<<"unread">>, Nil} \cup Seq(Device)
      /\ PodDevices[p] = Nil \/ PodDevices[p] \in Seq(Device)
  BY NicAssumption DEF TypeOK
<1>2. \A s \in Seq(Device) : s # <<>> => s[1] \notin {"unread", "nil"}
  <2>1. "unread" \notin Device /\ "nil" \notin Device
    BY DEF Device
  <2>2. \A s \in Seq(Device) : s # <<>> => s[1] \in Device
    OBVIOUS
  <2> QED BY <2>1, <2>2
<1>3. Nil[1] = "nil" /\ <<"unread">>[1] = "unread" /\ Nil # <<>> /\ <<"unread">> # <<>>
  BY DEF Nil
<1>4. Nil \notin Seq(Device) /\ <<"unread">> \notin Seq(Device) /\ Nil # <<"unread">>
  BY <1>2, <1>3
<1> QED BY <1>1, <1>4 DEF Allocated

\* The main goroutine starts the goroutine of a connection, or refuses it.
LEMMA createIfaceKeeps ==
    ASSUME IInv, createIface, NEW i \in Conns, i = next
    PROVE  IInv'
<1> DEFINE p == conns[i].pool
<1>1. /\ phase = "setup" /\ i \in Nat /\ TypeOK /\ OneDevice /\ OneName /\ Pools
      /\ FreesOwnOnly /\ \A j \in Conns : Conn(j) /\ j \in Nat
  BY PodFacts DEF createIface, IInv, TypeOK
<1>2. /\ UNCHANGED <<pod, phase, kernel, plugins, api, dels, history>>
      /\ next' = i + 1
      /\ faults' = faults \/ (faults' = faults + 1 /\ faults < MaxFaults)
      /\ pc' = [pc EXCEPT ![i] = pc'[i]] /\ pc'[i] \in {"reserve", "err"}
  BY <1>1 DEF createIface, Goto, Fault, TypeOK
<1>3. /\ conns' = conns /\ Conns' = Conns /\ Name(i)' = Name(i) /\ Iface' = Iface
      /\ LinkNames' = LinkNames
      /\ \A f : Gives(i, f)' = Gives(i, f)
      /\ Asked(i)' = Asked(i) /\ Answered(i)' = Answered(i) /\ IsDelegated(i)' = IsDelegated(i)
      /\ SharesName(i)' = SharesName(i)
  BY <1>2, StaticKept
<1>4. Setup(i)
  BY <1>1 DEF Conn
<1>5. /\ pc[i] = "off" /\ ep[i] = NoEp /\ Bare(i)
  BY <1>1, <1>4 DEF Setup, Stage
<1>6. /\ \/ mem' = mem
         \/ /\ conns[i].type = "sriov" /\ p \in DOMAIN PodDevices /\ Allocated(p) \in Seq(Device) \ {<<>>}
            /\ mem' = [mem EXCEPT ![i].device = Allocated(p)[Len(Allocated(p))]]
      /\ \/ devices' = devices
         \/ /\ p \in DOMAIN PodDevices /\ devices' = [devices EXCEPT ![p] = devices'[p]]
            /\ \/ devices'[p] \in Seq(Device)
               \/ devices'[p] = Nil /\ (faults' = faults + 1 \/ (PodDevices[p] = Nil /\ IsDeviceNeeded(conns[i])))
  <2>1. IsDeviceNeeded(conns[i]) => p \in DOMAIN PodDevices
    BY <1>1, PodFacts DEF IsConnection
  <2>2. \A s \in Seq(Device) : s # <<>> => SubSeq(s, 1, Len(s) - 1) \in Seq(Device)
    OBVIOUS
  <2>3. <<>> \in Seq(Device)
    OBVIOUS
  <2>4. DOMAIN devices = DOMAIN PodDevices
    BY <1>1 DEF TypeOK
  <2> DEFINE c == conns[i]
  <2>5. \/ mem' = mem /\ devices' = devices
        \/ IsDeviceNeeded(c) /\ Allocated(p) \notin {Nil, <<>>} /\ popDevice(p)
        \/ IsDeviceNeeded(c) /\ mem' = mem /\ devices' = [devices EXCEPT ![p] = <<>>]
        \/ /\ IsDeviceNeeded(c) /\ mem' = mem /\ devices' = [devices EXCEPT ![p] = Nil]
           /\ PodDevices[p] = Nil \/ faults' = faults + 1
    BY DEF createIface, Fault
  <2>6. CASE mem' = mem /\ devices' = devices
    BY <2>6
  <2>7. CASE IsDeviceNeeded(c) /\ Allocated(p) \notin {Nil, <<>>} /\ popDevice(p)
    <3>1. p \in DOMAIN PodDevices /\ Allocated(p) \in Seq(Device) \ {<<>>}
      BY <1>1, <2>1, <2>7, AllocatedFacts
    <3>2. devices' = [devices EXCEPT ![p] = SubSeq(Allocated(p), 1, Len(Allocated(p)) - 1)]
      BY <2>7 DEF popDevice
    <3> HIDE DEF p
    <3>3. SubSeq(Allocated(p), 1, Len(Allocated(p)) - 1) \in Seq(Device)
      BY <2>2, <3>1
    <3>4. devices'[p] \in Seq(Device) /\ devices' = [devices EXCEPT ![p] = devices'[p]]
      BY <2>4, <3>1, <3>2, <3>3
    <3> QED BY <2>7, <3>1, <3>4 DEF popDevice, IsDeviceNeeded
  <2>8. CASE /\ IsDeviceNeeded(c) /\ mem' = mem /\ devices' = [devices EXCEPT ![p] = <<>>]
    BY <2>1, <2>3, <2>4, <2>8
  <2>9. CASE /\ IsDeviceNeeded(c) /\ mem' = mem /\ devices' = [devices EXCEPT ![p] = Nil]
             /\ PodDevices[p] = Nil \/ faults' = faults + 1
    BY <2>1, <2>4, <2>9
  <2> QED BY <2>5, <2>6, <2>7, <2>8, <2>9
<1>7. /\ \A j \in Conns \ {i} : mem'[j] = mem[j]
      /\ mem'[i].name = mem[i].name /\ mem'[i].addr = mem[i].addr
      /\ mem'[i].device = mem[i].device \/ conns[i].type = "sriov"
      /\ mem' \in [Conns -> Iface]
  <2>1. \A s \in Seq(Device) \ {<<>>} : s[Len(s)] \in Device
    OBVIOUS
  <2>2. mem \in [Conns -> Iface]
    BY <1>1 DEF TypeOK
  <2>3. CASE mem' = mem
    BY <1>1, <2>2, <2>3
  <2>4. CASE mem' # mem
    <3>1. PICK d \in Device : mem' = [mem EXCEPT ![i] = [mem[i] EXCEPT !.device = d]]
      BY <1>6, <2>1, <2>4
    <3>2. mem[i] \in Iface /\ [mem[i] EXCEPT !.device = d] \in Iface
      BY <2>2 DEF Iface
    <3>3. /\ [mem[i] EXCEPT !.device = d].name = mem[i].name
          /\ [mem[i] EXCEPT !.device = d].addr = mem[i].addr
      BY <3>2 DEF Iface
    <3> QED BY <1>6, <2>2, <2>4, <3>1, <3>2, <3>3
  <2> QED BY <2>3, <2>4
<1>8. TypeOK'
  <2>1. devices' \in [DOMAIN PodDevices -> {<<"unread">>, Nil} \cup Seq(Device)]
    BY <1>1, <1>6 DEF TypeOK
  <2>2. next' \in 1 .. Len(conns) + 1
    BY <1>1, <1>2, PodFacts DEF TypeOK
  <2>3. pc' \in [Conns -> Running \cup {"off", "ok", "err"}]
    BY <1>1, <1>2 DEF TypeOK, Running
  <2>4. faults' \in 0 .. MaxFaults
    BY <1>1, <1>2, NicAssumption DEF TypeOK
  <2> QED BY <1>1, <1>2, <1>3, <1>7, <2>1, <2>2, <2>3, <2>4
          DEF TypeOK, api, kernel, plugins, history
<1>9. Others(i)
  <2>1. faults' = 0 => faults = 0
    BY <1>1, <1>2 DEF TypeOK
  <2> QED BY <1>1, <1>2, <1>7, <2>1, SameLinkRefl DEF Others, Other, TypeOK, api, kernel, plugins, history
<1>10. Conn(i)'
  <2>1. Bare(i)'
    BY <1>2, <1>5 DEF Bare, kernel, plugins
  <2>2. Stage(i)'
    BY <1>1, <1>2, <1>3, <1>4, <1>5, <1>7, <2>1 DEF Setup, Stage, TypeOK, api
  <2>3. Setup(i)'
    BY <1>1, <1>2, <2>2 DEF Setup, Configured, Connected, EpTells, MemTells, TypeOK
  <2>4. EpKept(i)' /\ Unfreed(i)' /\ Accounted(i)'
    BY <1>1, <1>2, <1>3, <1>5 DEF EpKept, Unfreed, Accounted, Conn, TypeOK, api, history
  <2>5. Held(i)' /\ Links(i)' /\ Owned(i)'
    BY <1>2, <2>1 DEF Held, Links, Owned, Bare
  <2> QED BY <2>3, <2>4, <2>5 DEF Conn
<1>11. OneDevice' /\ OneName'
  BY <1>1, <1>2, <1>5, <1>7 DEF OneDevice, OneName, kernel, plugins, Bare, TypeOK
<1>12. Pools'
  <2> SUFFICES ASSUME NEW q \in DOMAIN devices', devices'[q] = Nil
               PROVE  \/ faults' > 0
                      \/ PodDevices[q] = Nil /\ \E j \in 1 .. i : IsDeviceNeeded(conns[j]) /\ conns[j].pool = q
    BY <1>1, <1>2, <1>3 DEF Pools
  <2>1. CASE devices'[q] = devices[q] /\ q \in DOMAIN devices
    BY <1>1, <1>2, <2>1 DEF Pools, TypeOK
  <2>2. CASE q = p /\ devices'[p] = Nil /\ (faults' = faults + 1 \/ (PodDevices[p] = Nil /\ IsDeviceNeeded(conns[i])))
    BY <1>1, <2>2 DEF TypeOK
  <2>3. Nil \notin Seq(Device)
    BY <1>1, <1>6, AllocatedFacts DEF TypeOK
  <2> QED BY <1>1, <1>6, <2>1, <2>2, <2>3 DEF TypeOK
<1>13. FreesOwnOnly'
  BY <1>1, <1>2, <1>3 DEF FreesOwnOnly, history, TypeOK
<1> QED BY <1>1, <1>8, <1>9, <1>10, <1>11, <1>12, <1>13, ConnStep
\* A goroutine of a connection is at work.
LEMMA AtWork ==
    ASSUME IInv, NEW i \in Conns
    PROVE  /\ TypeOK /\ OneDevice /\ OneName /\ Pools /\ FreesOwnOnly /\ Conn(i) /\ i \in Nat
           /\ pc[i] \in Running => phase = "setup" /\ Setup(i)
           /\ pc[i] \in {"del", "delep"} => phase = "del"
BY PodFacts, Phases DEF IInv, Conn

\* What a step leaves of TypeOK when it changes faults and pc at most.
LEMMA FaultFacts ==
    ASSUME TypeOK, UNCHANGED faults \/ Fault
    PROVE  /\ faults' \in 0 .. MaxFaults
           /\ faults' = 0 => faults = 0
BY NicAssumption DEF TypeOK, Fault

\* createNic reserves the addresses.
LEMMA ReserveIpsKeeps ==
    ASSUME IInv, NEW i \in Conns, ReserveIps(i)
    PROVE  IInv'
<1>1. /\ phase = "setup" /\ i \in Nat /\ TypeOK /\ OneDevice /\ OneName /\ Pools
      /\ FreesOwnOnly /\ Conn(i) /\ Setup(i) /\ pc[i] = "reserve"
  BY AtWork DEF ReserveIps, Running
<1>2. /\ UNCHANGED <<pod, phase, next, devices, kernel, plugins, ep, dels, history>>
      /\ UNCHANGED faults \/ Fault
  BY DEF ReserveIps
<1>3. /\ conns' = conns /\ Conns' = Conns /\ Name(i)' = Name(i) /\ Iface' = Iface
      /\ LinkNames' = LinkNames
      /\ \A f : Gives(i, f)' = Gives(i, f)
      /\ Asked(i)' = Asked(i) /\ Answered(i)' = Answered(i) /\ IsDelegated(i)' = IsDelegated(i)
      /\ SharesName(i)' = SharesName(i)
  BY <1>2, StaticKept
<1>4. /\ ep[i] = NoEp /\ Bare(i)
  BY <1>1 DEF Setup, Stage
<1>5. faults' \in 0 .. MaxFaults /\ (faults' = 0 => faults = 0)
  BY <1>1, <1>2, FaultFacts
<1>6. \/ /\ pc' = [pc EXCEPT ![i] = "create"]
         /\ mem' = [mem EXCEPT ![i] = [@ EXCEPT !.name = Name(i), !.addr = Asked(i)]]
         /\ \/ ~Needs(i) /\ reserved' = reserved
            \/ Needs(i) /\ Asks(conns[i]) \subseteq conns[i].cidr
                        /\ reserved' = reserved \cup ({i} \X Asks(conns[i]))
      \/ pc' = [pc EXCEPT ![i] = "err"] /\ UNCHANGED <<mem, reserved>>
  BY DEF ReserveIps, Goto, Needs, Asked, Name
<1>7. /\ \A j \in Conns \ {i} : /\ pc'[j] = pc[j] /\ mem'[j] = mem[j]
                                /\ \A f \in Families : <<j, f>> \in reserved' <=> <<j, f>> \in reserved
      /\ mem'[i].device = mem[i].device
      /\ pc'[i] \in {"create", "err"}
      /\ pc'[i] = "create" =>
            /\ mem'[i].name = Name(i) /\ mem'[i].addr = Asked(i)
            /\ \A f \in Families : Gives(i, f) => f \in conns[i].cidr /\ <<i, f>> \in reserved'
      /\ \A f \in Families : <<i, f>> \in reserved' =>
            <<i, f>> \in reserved \/ (pc'[i] = "create" /\ Gives(i, f) /\ f \in conns[i].cidr)
  <2> DEFINE r == [mem[i] EXCEPT !.name = Name(i), !.addr = Asked(i)]
  <2>1. mem[i] \in Iface /\ mem \in [Conns -> Iface] /\ pc = [j \in Conns |-> pc[j]]
    BY <1>1 DEF TypeOK
  <2>2. r.name = Name(i) /\ r.addr = Asked(i) /\ r.device = mem[i].device
    BY <2>1 DEF Iface
  <2> HIDE DEF r
  <2>3. CASE pc' = [pc EXCEPT ![i] = "err"] /\ UNCHANGED <<mem, reserved>>
    BY <2>1, <2>3
  <2>4. CASE /\ pc' = [pc EXCEPT ![i] = "create"] /\ mem' = [mem EXCEPT ![i] = r]
             /\ \/ ~Needs(i) /\ reserved' = reserved
                \/ Needs(i) /\ Asks(conns[i]) \subseteq conns[i].cidr
                            /\ reserved' = reserved \cup ({i} \X Asks(conns[i]))
    BY <2>1, <2>2, <2>4 DEF Gives
  <2> QED BY <1>6, <2>3, <2>4 DEF r
<1>8. TypeOK'
  <2>1. mem' \in [Conns -> Iface]
    <3>1. mem[i] \in Iface
      BY <1>1 DEF TypeOK
    <3>2. Asked(i) \in [Families -> Addresses] /\ Name(i) \in Names
      BY <1>1, AskedFacts, NameFacts
    <3>3. [mem[i] EXCEPT !.name = Name(i), !.addr = Asked(i)] \in Iface
      BY <3>1, <3>2 DEF Iface
    <3> QED BY <1>1, <1>6, <3>3 DEF TypeOK
  <2>2. pc' \in [Conns -> Running \cup {"off", "ok", "err"}]
    BY <1>1, <1>6 DEF TypeOK, Running
  <2>3. reserved' \subseteq Conns \X Families
    BY <1>1, <1>6 DEF TypeOK, Asks
  <2> QED BY <1>1, <1>2, <1>3, <1>5, <2>1, <2>2, <2>3 DEF TypeOK, kernel, plugins, history
<1>9. Others(i)
  BY <1>1, <1>2, <1>5, <1>7, SameLinkRefl DEF Others, Other, kernel, plugins, history
<1>10. Conn(i)'
  <2>1. Bare(i)'
    BY <1>2, <1>4 DEF Bare, kernel, plugins
  <2>2. Stage(i)'
    BY <1>1, <1>2, <1>3, <1>4, <1>7, <2>1 DEF Setup, Stage
  <2>3. Setup(i)'
    BY <1>7, <2>2 DEF Setup, Configured, Connected, EpTells, MemTells
  <2>4. EpKept(i)' /\ Unfreed(i)' /\ Accounted(i)'
    BY <1>1, <1>2, <1>3, <1>4, <1>7 DEF EpKept, Unfreed, Accounted, Conn, history
  <2>5. Held(i)' /\ Links(i)' /\ Owned(i)'
    BY <1>2, <2>1 DEF Held, Links, Owned, Bare
  <2> QED BY <2>3, <2>4, <2>5 DEF Conn
<1>11. OneDevice' /\ OneName'
  BY <1>1, <1>2, <1>4, <1>7 DEF OneDevice, OneName, kernel, plugins, Bare, TypeOK
<1>12. Pools' /\ FreesOwnOnly'
  BY <1>1, <1>2, <1>3, <1>5 DEF Pools, FreesOwnOnly, history, TypeOK
<1> QED BY <1>1, <1>8, <1>9, <1>10, <1>11, <1>12, ConnStep

\* createNic creates the DanmEp.
LEMMA CreateDanmEpKeeps ==
    ASSUME IInv, NEW i \in Conns, CreateDanmEp(i)
    PROVE  IInv'
<1>1. /\ phase = "setup" /\ i \in Nat /\ TypeOK /\ OneDevice /\ OneName /\ Pools
      /\ FreesOwnOnly /\ Conn(i) /\ Setup(i) /\ pc[i] = "create"
  BY AtWork DEF CreateDanmEp, Running
<1>2. /\ UNCHANGED <<pod, phase, next, devices, mem, kernel, plugins, reserved, dels,
                     abandoned, unread, missed, foreign>>
      /\ UNCHANGED faults \/ Fault
  BY DEF CreateDanmEp
<1>3. /\ conns' = conns /\ Conns' = Conns /\ Name(i)' = Name(i) /\ Iface' = Iface
      /\ LinkNames' = LinkNames
      /\ \A f : Gives(i, f)' = Gives(i, f)
      /\ Asked(i)' = Asked(i) /\ Answered(i)' = Answered(i) /\ IsDelegated(i)' = IsDelegated(i)
      /\ SharesName(i)' = SharesName(i)
  BY <1>2, StaticKept
<1>4. /\ ep[i] = NoEp /\ Bare(i) /\ mem[i].name = Name(i) /\ mem[i].addr = Asked(i)
  BY <1>1 DEF Setup, Stage
<1>5. faults' \in 0 .. MaxFaults /\ (faults' = 0 => faults = 0)
  BY <1>1, <1>2, FaultFacts
<1>6. \/ pc' = [pc EXCEPT ![i] = "plug"] /\ ep' = [ep EXCEPT ![i] = mem[i]] /\ lost' = lost
      \/ /\ pc' = [pc EXCEPT ![i] = "err"] /\ ep' = ep
         /\ lost' = IF \E f \in Families : <<i, f>> \in reserved THEN lost \cup {i} ELSE lost
  BY DEF CreateDanmEp, Goto
<1>7. /\ \A j \in Conns \ {i} : /\ pc'[j] = pc[j] /\ ep'[j] = ep[j]
                                /\ j \in lost' <=> j \in lost
      /\ i \in lost => i \in lost'
      /\ \/ pc'[i] = "plug" /\ ep'[i] = mem[i]
         \/ /\ pc'[i] = "err" /\ ep'[i] = NoEp
            /\ (\E f \in Families : <<i, f>> \in reserved) => i \in lost'
  BY <1>1, <1>4, <1>6 DEF TypeOK
<1>8. TypeOK'
  <2>1. ep' \in [Conns -> Iface] /\ lost' \subseteq Conns
    BY <1>1, <1>6 DEF TypeOK
  <2>2. pc' \in [Conns -> Running \cup {"off", "ok", "err"}]
    BY <1>1, <1>6 DEF TypeOK, Running
  <2> QED BY <1>1, <1>2, <1>3, <1>5, <2>1, <2>2 DEF TypeOK, kernel, plugins
<1>9. Others(i)
  BY <1>1, <1>2, <1>5, <1>7, SameLinkRefl DEF Others, Other, kernel, plugins
<1>10. Conn(i)'
  <2>1. Bare(i)'
    BY <1>2, <1>4 DEF Bare, kernel, plugins
  <2>2. Stage(i)'
    BY <1>1, <1>2, <1>3, <1>4, <1>7, <2>1 DEF Setup, Stage
  <2>3. Setup(i)'
    BY <1>7, <2>2 DEF Setup, Configured, Connected, EpTells, MemTells
  <2>4. Name(i) # <<>>
    BY <1>1, NameFacts
  <2>5. EpKept(i)' /\ Unfreed(i)' /\ Accounted(i)'
    BY <1>1, <1>2, <1>3, <1>4, <1>7, <2>4
       DEF Setup, Stage, EpKept, Unfreed, Accounted, Conn, NoEp
  <2>6. Held(i)' /\ Links(i)' /\ Owned(i)'
    BY <1>2, <2>1 DEF Held, Links, Owned, Bare
  <2> QED BY <2>3, <2>5, <2>6 DEF Conn
<1>11. OneDevice' /\ OneName'
  BY <1>1, <1>2 DEF OneDevice, OneName, kernel, plugins
<1>12. Pools' /\ FreesOwnOnly'
  BY <1>1, <1>2, <1>3, <1>5 DEF Pools, FreesOwnOnly, TypeOK
<1> QED BY <1>1, <1>8, <1>9, <1>10, <1>11, <1>12, ConnStep
-----------------------------------------------------------------------------
(* The steps that set up an interface                                        *)

\* The name of an interface tells whose it is.
LEMMA LinkOwners ==
    ASSUME IInv
    PROVE  \A l \in links : \A i \in Conns :
              /\ l.of \in Conns
              /\ l.name = Host(i) => l.of = i
              /\ l.name = <<"dummy", i>> => l.of = i
              /\ l.name = Name(i) => l.name = Name(l.of) /\ (l.of # i => SharesName(l.of))
<1> SUFFICES ASSUME NEW l \in links, NEW i \in Conns
             PROVE  /\ l.of \in Conns
                    /\ l.name = Host(i) => l.of = i
                    /\ l.name = <<"dummy", i>> => l.of = i
                    /\ l.name = Name(i) => l.name = Name(l.of) /\ (l.of # i => SharesName(l.of))
  OBVIOUS
<1> DEFINE j == l.of
<1>1. TypeOK /\ j \in Conns /\ Conn(j)
  BY DEF IInv, TypeOK
<1>2. l.name \in {Name(j), Host(j), <<"dummy", j>>}
  BY <1>1 DEF Conn, Links
<1> HIDE DEF j
<1>3. /\ Name(i) # Host(j) /\ Name(i) # <<"dummy", j>> /\ Host(i) # <<"dummy", j>>
      /\ Name(j) # Host(i) /\ Name(j) # <<"dummy", i>> /\ Host(j) # <<"dummy", i>>
      /\ Host(i) = Host(j) => i = j
      /\ <<"dummy", i>> = <<"dummy", j>> => i = j
  BY <1>1, NameFacts
<1>4. Name(i) = Name(j) /\ i # j => SharesName(j)
  BY <1>1 DEF SharesName, Name
<1> QED BY <1>1, <1>2, <1>3, <1>4 DEF j

\* createContainerIface makes an IPVLAN interface.
LEMMA createContainerIfaceKeeps ==
    ASSUME IInv, NEW i \in Conns, createContainerIface(i)
    PROVE  IInv'
<1> DEFINE new == Link(Host(i), i, NoAddress, FALSE)
<1>1. /\ phase = "setup" /\ i \in Nat /\ TypeOK /\ OneDevice /\ OneName /\ Pools
      /\ FreesOwnOnly /\ Conn(i) /\ Setup(i) /\ pc[i] = "plug" /\ conns[i].type = "ipvlan"
  BY AtWork DEF createContainerIface, Running
<1>2. /\ UNCHANGED <<pod, phase, next, devices, mem, plugins, api, dels, lost, unread, missed, foreign>>
      /\ UNCHANGED faults \/ Fault
  BY DEF createContainerIface
<1>3. /\ conns' = conns /\ Conns' = Conns /\ Name(i)' = Name(i) /\ Iface' = Iface
      /\ LinkNames' = LinkNames
      /\ \A f : Gives(i, f)' = Gives(i, f)
      /\ Asked(i)' = Asked(i) /\ Answered(i)' = Answered(i) /\ IsDelegated(i)' = IsDelegated(i)
      /\ SharesName(i)' = SharesName(i)
  BY <1>2, StaticKept
<1>4. /\ Bare(i) /\ mem[i].name = Name(i) /\ mem[i].addr = Asked(i) /\ ep[i] = mem[i]
      /\ Name(i) # <<>> /\ Name(i) # Host(i)
  BY <1>1, NameFacts DEF Setup, Stage
<1>5. faults' \in 0 .. MaxFaults /\ (faults' = 0 => faults = 0)
  BY <1>1, <1>2, FaultFacts
<1>6. \/ /\ pc' = [pc EXCEPT ![i] = "configure"] /\ links' = links \cup {new}
         /\ UNCHANGED <<host, abandoned>>
      \/ /\ pc' = [pc EXCEPT ![i] = "fail"] /\ links' = links
         /\ UNCHANGED <<host, abandoned>> \/ (host' = host \cup {i} /\ abandoned' = abandoned \cup {i})
  BY DEF createContainerIface, Goto
<1>7. /\ \A j \in Conns \ {i} : /\ pc'[j] = pc[j]
                                /\ j \in host' <=> j \in host
                                /\ j \in abandoned' <=> j \in abandoned
      /\ i \in abandoned => i \in abandoned'
      /\ i \in host' => i \in abandoned'
      /\ \/ pc'[i] = "configure" /\ links' = links \cup {new} /\ i \notin host'
         \/ /\ pc'[i] = "fail" /\ links' = links
            /\ i \notin host' \/ i \in abandoned'
  BY <1>1, <1>4, <1>6 DEF TypeOK, Bare
<1>8. /\ new.name = Host(i) /\ new.of = i /\ new.addr = NoAddress /\ ~new.up /\ ~new.dummy
      /\ new \in [name : LinkNames, of : Conns, addr : [Families -> Addresses],
                  up : BOOLEAN, dummy : BOOLEAN]
  BY <1>1, NameFacts DEF Link, NoAddress, Addresses
<1>9. \A l \in links' : l \in links \/ l = new
  BY <1>6
<1> HIDE DEF new
<1>10. TypeOK'
  <2>1. host' \subseteq Conns /\ abandoned' \subseteq Conns
    BY <1>1, <1>6 DEF TypeOK
  <2>2. pc' \in [Conns -> Running \cup {"off", "ok", "err"}]
    BY <1>1, <1>6 DEF TypeOK, Running
  <2>3. links' \subseteq [name : LinkNames, of : Conns, addr : [Families -> Addresses],
                          up : BOOLEAN, dummy : BOOLEAN]
    BY <1>1, <1>8, <1>9 DEF TypeOK
  <2> QED BY <1>1, <1>2, <1>3, <1>5, <2>1, <2>2, <2>3 DEF TypeOK, api, plugins
<1>11. Others(i)
  BY <1>1, <1>2, <1>5, <1>7, <1>8, SameLinkRefl DEF Others, Other, api, plugins
<1>12. \A l \in links' : l.of = i => l = new /\ pc'[i] = "configure"
  BY <1>4, <1>7, <1>8 DEF Bare
<1>13. Conn(i)'
  <2>1. Stage(i)'
    BY <1>1, <1>2, <1>3, <1>4, <1>7, <1>12 DEF Setup, Stage, Bare, api, plugins
  <2>2. Configured(i)'
    BY <1>1, <1>2, <1>3, <1>4, <1>12 DEF Configured, Bare, plugins, Link, Host, NoAddress, new
  <2>3. Setup(i)'
    BY <1>7, <2>1, <2>2 DEF Setup, Connected, EpTells, MemTells
  <2>4. EpKept(i)' /\ Unfreed(i)' /\ Accounted(i)'
    BY <1>1, <1>2, <1>3, <1>5, <1>7 DEF EpKept, Unfreed, Accounted, Conn, api
  <2>5. Held(i)'
    BY <1>2, <1>4, <1>7 DEF Held, Bare, plugins
  <2>6. Links(i)' /\ Owned(i)'
    BY <1>8, <1>12 DEF Links, Owned, Found, Host, NoAddress
  <2> QED BY <2>3, <2>4, <2>5, <2>6 DEF Conn
<1>14. OneName'
  <2>1. \A l \in links : l.name # Host(i)
    BY <1>4, LinkOwners DEF Bare
  <2> QED BY <1>1, <1>8, <1>9, <2>1 DEF OneName
<1>15. OneDevice' /\ Pools' /\ FreesOwnOnly'
  BY <1>1, <1>2, <1>3, <1>5 DEF OneDevice, Pools, FreesOwnOnly, plugins, TypeOK
<1> QED BY <1>1, <1>10, <1>11, <1>13, <1>14, <1>15, ConnStep

\* AddIpvlanInterface does nothing.
LEMMA NoInterfaceKeeps ==
    ASSUME IInv, NEW i \in Conns, NoInterface(i)
    PROVE  IInv'
<1>1. /\ phase = "setup" /\ i \in Nat /\ TypeOK /\ OneDevice /\ OneName /\ Pools
      /\ FreesOwnOnly /\ Conn(i) /\ Setup(i) /\ pc[i] = "plug" /\ conns[i].type = "IPVLAN"
  BY AtWork DEF NoInterface, Running
<1>2. UNCHANGED <<pod, phase, next, devices, mem, kernel, plugins, api, faults, dels, history>>
  BY DEF NoInterface
<1>3. /\ conns' = conns /\ Conns' = Conns /\ Name(i)' = Name(i) /\ Iface' = Iface
      /\ LinkNames' = LinkNames
      /\ \A f : Gives(i, f)' = Gives(i, f)
      /\ Asked(i)' = Asked(i) /\ Answered(i)' = Answered(i) /\ IsDelegated(i)' = IsDelegated(i)
      /\ SharesName(i)' = SharesName(i)
  BY <1>2, StaticKept
<1>4. Bare(i) /\ mem[i].name = Name(i) /\ mem[i].addr = Asked(i) /\ ep[i] = mem[i]
  BY <1>1 DEF Setup, Stage
<1>5. /\ pc' = [pc EXCEPT ![i] = "post"] /\ pc'[i] = "post"
      /\ \A j \in Conns \ {i} : pc'[j] = pc[j]
  BY <1>1 DEF NoInterface, Goto, TypeOK
<1>6. ~WantsLink(i) /\ ~IsDelegated(i)
  BY <1>1 DEF WantsLink, IsDelegated, IsDelegationRequired
<1>7. TypeOK'
  <2>1. pc' \in [Conns -> Running \cup {"off", "ok", "err"}]
    BY <1>1, <1>5 DEF TypeOK, Running
  <2> QED BY <1>1, <1>2, <1>3, <2>1 DEF TypeOK, api, plugins, kernel, history
<1>8. Others(i)
  BY <1>1, <1>2, <1>5, SameLinkRefl DEF Others, Other, api, plugins, kernel, history
<1>9. Conn(i)'
  <2>1. Bare(i)'
    BY <1>2, <1>4 DEF Bare, kernel, plugins
  <2>2. Stage(i)'
    BY <1>1, <1>2, <1>3, <1>4, <1>5, <1>6, <2>1 DEF Setup, Stage, Bare, api
  <2>3. WantsLink(i)' = WantsLink(i)
    BY <1>2, <1>3 DEF WantsLink, IsDpdk
  <2>4. Setup(i)'
    BY <1>2, <1>4, <1>5, <1>6, <2>1, <2>2, <2>3
       DEF Setup, Configured, Connected, EpTells, MemTells, Bare, api
  <2>5. EpKept(i)' /\ Unfreed(i)' /\ Accounted(i)'
    BY <1>1, <1>2, <1>3, <1>5 DEF EpKept, Unfreed, Accounted, Conn, api, history
  <2>6. Held(i)' /\ Links(i)' /\ Owned(i)'
    BY <1>2, <2>1 DEF Held, Links, Owned, Bare
  <2> QED BY <2>4, <2>5, <2>6 DEF Conn
<1>10. OneDevice' /\ OneName' /\ Pools' /\ FreesOwnOnly'
  BY <1>1, <1>2, <1>3 DEF OneDevice, OneName, Pools, FreesOwnOnly, plugins, kernel, history
<1> QED BY <1>1, <1>7, <1>8, <1>9, <1>10, ConnStep
\* configureLink gives the interface its addresses and its name.
LEMMA configureLinkKeeps ==
    ASSUME IInv, NEW i \in Conns, configureLink(i)
    PROVE  IInv'
<1> DEFINE old == {l \in links : l.name = Host(i)}
           a == OnLink(mem[i].addr)
<1>1. /\ phase = "setup" /\ i \in Nat /\ TypeOK /\ OneDevice /\ OneName /\ Pools
      /\ FreesOwnOnly /\ Conn(i) /\ Setup(i) /\ pc[i] = "configure"
  BY AtWork DEF configureLink, Running
<1>2. /\ UNCHANGED <<pod, phase, next, devices, mem, host, plugins, api, dels, lost, unread, missed, foreign>>
      /\ UNCHANGED faults \/ Fault
  BY DEF configureLink
<1>3. /\ conns' = conns /\ Conns' = Conns /\ Name(i)' = Name(i) /\ Iface' = Iface
      /\ LinkNames' = LinkNames
      /\ \A f : Gives(i, f)' = Gives(i, f)
      /\ Asked(i)' = Asked(i) /\ Answered(i)' = Answered(i) /\ IsDelegated(i)' = IsDelegated(i)
      /\ SharesName(i)' = SharesName(i)
  BY <1>2, StaticKept
<1>4. /\ mem[i].name = Name(i) /\ mem[i].addr = Asked(i) /\ ep[i] = mem[i]
      /\ Name(i) # <<>> /\ Name(i) # Host(i) /\ {Name(i), Host(i)} \subseteq LinkNames
      /\ conns[i].type = "ipvlan" /\ i \notin held \cup own /\ ~IsDelegated(i)
      /\ \A f \in Families : Gives(i, f) => <<i, f>> \in reserved
      /\ \A l \in links : l.of = i => l = Link(Host(i), i, NoAddress, FALSE)
  BY <1>1, NameFacts DEF Setup, Stage, Configured, IsDelegated, IsDelegationRequired
<1>5. faults' \in 0 .. MaxFaults /\ (faults' = 0 => faults = 0)
  BY <1>1, <1>2, FaultFacts
<1>6. PICK new : /\ links' = (links \ old) \cup {new}
                 /\ \/ /\ pc' = [pc EXCEPT ![i] = "post"] /\ ~Linked(Name(i)) /\ abandoned' = abandoned
                       /\ new = Link(Name(i), i, a, TRUE)
                    \/ /\ pc' = [pc EXCEPT ![i] = "fail"] /\ abandoned' = abandoned \cup {i}
                       /\ \E b \in {NoAddress, a}, n \in {Host(i), Name(i)} :
                             /\ new = Link(n, i, b, FALSE)
                             /\ n = Host(i) \/ ~Linked(Name(i))
  BY <1>4 DEF configureLink, Goto, old, a
<1>7. /\ \A j \in Conns \ {i} : pc'[j] = pc[j] /\ (j \in abandoned' <=> j \in abandoned)
      /\ i \in abandoned => i \in abandoned'
      /\ \/ pc'[i] = "post" /\ new = Link(Name(i), i, a, TRUE)
         \/ pc'[i] = "fail" /\ i \in abandoned'
  BY <1>1, <1>6 DEF TypeOK
<1>8. /\ a \in [Families -> Addresses] /\ NoAddress \in [Families -> Addresses]
      /\ \A f \in Families : \A x \in {"danm", "own"} : a[f] = x <=> mem[i].addr[f] = x
      /\ \A f \in Families : a[f] = "danm" => <<i, f>> \in reserved
  <2>1. mem[i].addr \in [Families -> Addresses]
    BY <1>1 DEF TypeOK, Iface
  <2>2. NoAddress \in [Families -> Addresses]
    BY DEF NoAddress, Addresses
  <2> QED BY <1>1, <1>4, <2>1, <2>2, OnLinkFacts, AskedFacts
<1> HIDE DEF a
<1>9. /\ new.of = i /\ ~new.dummy /\ new.name \in {Host(i), Name(i)}
      /\ new.addr \in {NoAddress, a}
      /\ pc'[i] = "post" => new.name = Name(i) /\ new.up /\ new.addr = a
      /\ new.name = Name(i) => ~Linked(Name(i))
      /\ new \in [name : LinkNames, of : Conns, addr : [Families -> Addresses],
                  up : BOOLEAN, dummy : BOOLEAN]
  <2>1. CASE new = Link(Name(i), i, a, TRUE) /\ ~Linked(Name(i)) /\ pc'[i] = "post"
    BY <1>4, <1>8, <2>1 DEF Link
  <2>2. ASSUME NEW n \in {Host(i), Name(i)}, NEW b \in {NoAddress, a},
               new = Link(n, i, b, FALSE), n = Host(i) \/ ~Linked(Name(i)), pc'[i] = "fail"
        PROVE  /\ new.of = i /\ ~new.dummy /\ new.name \in {Host(i), Name(i)}
               /\ new.addr \in {NoAddress, a}
               /\ new.name = Name(i) => ~Linked(Name(i))
               /\ new \in [name : LinkNames, of : Conns, addr : [Families -> Addresses],
                           up : BOOLEAN, dummy : BOOLEAN]
    BY <1>4, <1>8, <2>2 DEF Link
  <2> QED BY <1>1, <1>6, <2>1, <2>2 DEF TypeOK
<1>10. \A l : l \in links' <=> (l \in links /\ l.name # Host(i)) \/ l = new
  BY <1>6
<1> HIDE DEF old
<1>11. \A l \in links : l.name = Host(i) <=> l.of = i
  BY <1>4, LinkOwners DEF Link
<1>12. TypeOK'
  <2>1. abandoned' \subseteq Conns
    BY <1>1, <1>6 DEF TypeOK
  <2>2. pc' \in [Conns -> Running \cup {"off", "ok", "err"}]
    BY <1>1, <1>6 DEF TypeOK, Running
  <2>3. links' \subseteq [name : LinkNames, of : Conns, addr : [Families -> Addresses],
                          up : BOOLEAN, dummy : BOOLEAN]
    BY <1>1, <1>9, <1>10 DEF TypeOK
  <2> QED BY <1>1, <1>2, <1>3, <1>5, <2>1, <2>2, <2>3 DEF TypeOK, api, plugins
<1>13. Others(i)
  <2>1. \A j \in Conns \ {i} : \A l : l.of = j => (l \in links' <=> l \in links)
    BY <1>9, <1>10, <1>11
  <2> QED BY <1>1, <1>2, <1>5, <1>7, <2>1, SameLinkRefl DEF Others, Other, api, plugins
<1>14. \A l \in links' : l.of = i => l = new
  BY <1>10, <1>11
<1>15. Conn(i)'
  <2>1. Stage(i)'
    BY <1>1, <1>2, <1>3, <1>4, <1>7, <1>9, <1>14 DEF Setup, Stage, api, plugins
  <2>2. Connected(i)'
    BY <1>3, <1>7, <1>9, <1>10 DEF Connected
  <2>3. Configured(i)' /\ EpTells(i)'
    BY <1>2, <1>4, <1>7 DEF Configured, EpTells, api
  <2>4. MemTells(i)'
    <3>1. pc'[i] = "post" => \A l \in links' : l.of = i => Tells(i, mem[i].addr, l)
      <4>1. \A f \in Families : /\ mem[i].addr[f] \in {"danm", "own"} => a[f] = mem[i].addr[f]
                                /\ a[f] \in {"danm", "own"} => a[f] = mem[i].addr[f]
        BY <1>8
      <4> QED BY <1>9, <1>14, <4>1 DEF Tells
    <3>2. \A l : Tells(i, mem[i].addr, l)' <=> Tells(i, mem[i].addr, l)
      BY <1>2, <1>3 DEF Tells
    <3> QED BY <1>3, <1>7, <3>1, <3>2 DEF MemTells
  <2>5. EpKept(i)' /\ Unfreed(i)' /\ Accounted(i)'
    BY <1>1, <1>2, <1>3, <1>5, <1>7 DEF EpKept, Unfreed, Accounted, Conn, api
  <2>6. Held(i)'
    BY <1>2, <1>4, <1>7, <1>1 DEF Held, Conn, plugins
  <2>7. Links(i)' /\ Owned(i)'
    <3>1. ep'[i] # NoEp /\ pc'[i] # "delep"
      <4>1. ep'[i] = mem[i] /\ NoEp.name = <<>>
        BY <1>2, <1>4 DEF NoEp, api
      <4> QED BY <1>4, <1>7, <4>1
    <3>2. \A f \in Families : NoAddress[f] # "danm"
      BY DEF NoAddress
    <3>3. pc'[i] = "fail" => Excused(i)'
      BY <1>7 DEF Excused
    <3>4. Links(i)'
      BY <1>3, <1>4, <1>7, <1>9, <1>14, <3>1, <3>3 DEF Links, Found, Host
    <3>5. Owned(i)'
      BY <1>2, <1>8, <1>9, <1>14, <3>2 DEF Owned, api
    <3> QED BY <3>4, <3>5
  <2> QED BY <2>1, <2>2, <2>3, <2>4, <2>5, <2>6, <2>7 DEF Conn, Setup
<1>16. OneName'
  BY <1>1, <1>9, <1>10 DEF OneName, Linked
<1>17. OneDevice' /\ Pools' /\ FreesOwnOnly'
  BY <1>1, <1>2, <1>3, <1>5 DEF OneDevice, Pools, FreesOwnOnly, plugins, TypeOK
<1> QED BY <1>1, <1>12, <1>13, <1>15, <1>16, <1>17, ConnStep
\* A connection's DanmEp, its interface and the plugin once the plugin has run.
LEMMA PluggedFacts ==
    ASSUME TypeOK, NEW i \in Conns, mem[i].addr = Asked(i)
    PROVE  /\ Given(conns[i], mem[i].addr) = Answer(i)
           /\ setEpIfaceAddress(mem[i].addr, Answer(i)) = Answered(i)
           /\ OnLink(Answer(i)) \in [Families -> Addresses]
           /\ \A f \in Families :
                 /\ OnLink(Answer(i))[f] = "danm" => Gives(i, f)
                 /\ \A x \in {"danm", "own"} : OnLink(Answer(i))[f] = x <=> Answered(i)[f] = x
                 /\ Asked(i)[f] \in {"danm", "own"} => OnLink(Answer(i))[f] = Asked(i)[f]
                 /\ ~IsChanged(Asked(i), Answered(i)) =>
                       Asked(i)[f] = Answered(i)[f] \/ (Asked(i)[f] = "none" /\ conns[i].req[f] = "none")
<1>1. Answer(i) \in [Families -> Addresses]
  BY AnswerFacts DEF Addresses
<1>2. \A f \in Families : \A x \in {"danm", "own"} : OnLink(Answer(i))[f] = x <=> Answer(i)[f] = x
  BY <1>1, OnLinkFacts
<1>3. \A f \in Families : /\ Asked(i)[f] # "own"
                          /\ Asked(i)[f] = "danm" <=> Gives(i, f)
                          /\ Asked(i)[f] = "none" => conns[i].req[f] = "none"
  BY AskedFacts
<1>4. \A f \in Families : Answer(i)[f] = "danm" <=> Gives(i, f)
  BY AnswerFacts
<1>5. \A f \in Families : /\ Answer(i)[f] # "" => Answered(i)[f] = Answer(i)[f]
                          /\ Answer(i)[f] = "" => Answered(i)[f] = Asked(i)[f]
  BY AnsweredFacts
<1>6. \A f \in Families : \A x \in {"danm", "own"} : Answer(i)[f] = x <=> Answered(i)[f] = x
  BY <1>3, <1>4, <1>5
<1>7. OnLink(Answer(i)) \in [Families -> Addresses]
  BY <1>1, OnLinkFacts
<1>8. \A f \in Families : ~IsChanged(Asked(i), Answered(i)) =>
         Asked(i)[f] = Answered(i)[f] \/ (Asked(i)[f] = "none" /\ conns[i].req[f] = "none")
  BY <1>3 DEF IsChanged
<1>9. /\ Given(conns[i], mem[i].addr) = Answer(i)
      /\ setEpIfaceAddress(mem[i].addr, Answer(i)) = Answered(i)
  BY DEF Answer, Answered
<1> QED BY <1>2, <1>3, <1>4, <1>6, <1>7, <1>8, <1>9

\* A plugin makes the interface.
LEMMA DelegateInterfaceSetupKeeps ==
    ASSUME IInv, NEW i \in Conns, DelegateInterfaceSetup(i)
    PROVE  IInv'
<1> DEFINE new == Link(mem[i].name, i, OnLink(Answer(i)), TRUE)
           done == /\ held' = held \cup {i}
                   /\ own' = IF \E f \in Families : Answer(i)[f] = "own" THEN own \cup {i} ELSE own
                   /\ links' = IF MakesLink(i) THEN links \cup {new} ELSE links
<1>1. /\ phase = "setup" /\ i \in Nat /\ TypeOK /\ OneDevice /\ OneName /\ Pools
      /\ FreesOwnOnly /\ Conn(i) /\ Setup(i) /\ pc[i] = "plug" /\ IsDelegated(i)
      /\ conns[i].type # "ipvlan"
  BY AtWork DEF DelegateInterfaceSetup, Running, IsDelegated, IsDelegationRequired
<1>2. /\ UNCHANGED <<pod, phase, next, devices, host, api, dels, lost, abandoned, missed, foreign>>
      /\ UNCHANGED faults \/ Fault
  BY DEF DelegateInterfaceSetup
<1>3. /\ conns' = conns /\ Conns' = Conns /\ Name(i)' = Name(i) /\ Iface' = Iface
      /\ LinkNames' = LinkNames
      /\ \A f : Gives(i, f)' = Gives(i, f)
      /\ Asked(i)' = Asked(i) /\ Answered(i)' = Answered(i) /\ IsDelegated(i)' = IsDelegated(i)
      /\ SharesName(i)' = SharesName(i)
  BY <1>2, StaticKept
<1>4. /\ Bare(i) /\ mem[i].name = Name(i) /\ mem[i].addr = Asked(i) /\ ep[i] = mem[i]
      /\ Name(i) # <<>> /\ Name(i) \in LinkNames /\ mem[i] \in Iface
      /\ \A f \in Families : Gives(i, f) => <<i, f>> \in reserved
  BY <1>1, NameFacts DEF Setup, Stage, TypeOK
<1>5. faults' \in 0 .. MaxFaults /\ (faults' = 0 => faults = 0)
  BY <1>1, <1>2, FaultFacts
<1>6. \/ /\ ~IsPluginRefused(i) /\ done /\ unread' = unread
         /\ mem' = [mem EXCEPT ![i] = [mem[i] EXCEPT !.addr = Answered(i)]]
         /\ pc' = [pc EXCEPT ![i] = IF IsChanged(Asked(i), Answered(i)) THEN "update" ELSE "post"]
      \/ /\ ~IsPluginRefused(i) /\ done /\ unread' = unread \cup {i}
         /\ mem' = mem /\ pc' = [pc EXCEPT ![i] = "post"]
      \/ pc' = [pc EXCEPT ![i] = "fail"] /\ UNCHANGED <<mem, plugins, links, unread>>
  <2>1. /\ Given(conns[i], mem[i].addr) = Answer(i)
        /\ setEpIfaceAddress(mem[i].addr, Answer(i)) = Answered(i)
    BY <1>1, <1>4, PluggedFacts
  <2>2. execCniPlugin(i, Answer(i)) <=> done
    BY DEF execCniPlugin
  <2> HIDE DEF done
  <2> QED BY <1>4, <2>1, <2>2 DEF DelegateInterfaceSetup, Goto
<1>7. /\ [mem[i] EXCEPT !.addr = Answered(i)] \in Iface
      /\ [mem[i] EXCEPT !.addr = Answered(i)].name = Name(i)
      /\ [mem[i] EXCEPT !.addr = Answered(i)].addr = Answered(i)
      /\ [mem[i] EXCEPT !.addr = Answered(i)].device = mem[i].device
  BY <1>1, <1>4, AnsweredFacts DEF Iface
<1>8. /\ \A j \in Conns \ {i} : /\ pc'[j] = pc[j] /\ mem'[j] = mem[j]
                                /\ j \in held' <=> j \in held
                                /\ j \in own' <=> j \in own
                                /\ j \in unread' <=> j \in unread
      /\ mem'[i].name = Name(i) /\ mem'[i].device = mem[i].device
      /\ mem'[i].addr \in {Asked(i), Answered(i)}
      /\ mem' \in [Conns -> Iface]
      /\ held' \subseteq held \cup {i}
      /\ i \in unread => i \in unread'
  BY <1>1, <1>4, <1>6, <1>7 DEF TypeOK, plugins
<1>9. \/ /\ pc'[i] \in {"update", "post"} /\ ~IsPluginRefused(i) /\ done /\ i \in held'
         /\ \/ /\ mem'[i].addr = Answered(i)
               /\ pc'[i] = "post" => ~IsChanged(Asked(i), Answered(i))
            \/ mem'[i] = mem[i] /\ i \in unread'
      \/ pc'[i] = "fail" /\ UNCHANGED <<mem, plugins, links, unread>>
  BY <1>1, <1>6, <1>7 DEF TypeOK
<1>10. /\ new.name = Name(i) /\ new.of = i /\ new.addr = OnLink(Answer(i)) /\ new.up /\ ~new.dummy
       /\ new \in [name : LinkNames, of : Conns, addr : [Families -> Addresses],
                   up : BOOLEAN, dummy : BOOLEAN]
  BY <1>1, <1>4, PluggedFacts DEF Link
<1> HIDE DEF new
<1>11. /\ \A l \in links' : l \in links \/ (l = new /\ MakesLink(i) /\ ~Linked(Name(i)))
       /\ \A l \in links : l \in links'
       /\ pc'[i] \in {"update", "post"} /\ MakesLink(i) => new \in links'
  BY <1>4, <1>9 DEF IsPluginRefused
<1>12. \A l \in links' : l.of = i => l = new /\ MakesLink(i) /\ pc'[i] # "fail"
  BY <1>4, <1>9, <1>11 DEF Bare
<1>13. TypeOK'
  <2>1. held' \subseteq Conns /\ own' \subseteq Conns /\ unread' \subseteq Conns
    BY <1>1, <1>6 DEF TypeOK, plugins
  <2>2. pc' \in [Conns -> Running \cup {"off", "ok", "err"}]
    BY <1>1, <1>6 DEF TypeOK, Running
  <2>3. links' \subseteq [name : LinkNames, of : Conns, addr : [Families -> Addresses],
                          up : BOOLEAN, dummy : BOOLEAN]
    BY <1>1, <1>10, <1>11 DEF TypeOK
  <2> QED BY <1>1, <1>2, <1>3, <1>5, <1>8, <2>1, <2>2, <2>3 DEF TypeOK, api
<1>14. Others(i)
  <2>1. \A j \in Conns \ {i} : \A l : l.of = j => (l \in links' <=> l \in links)
    BY <1>10, <1>11
  <2> QED BY <1>1, <1>2, <1>5, <1>8, <2>1, SameLinkRefl DEF Others, Other, api
<1>15. ep'[i] = ep[i] /\ ep'[i] # NoEp /\ ep'[i].name = Name(i) /\ ep'[i].addr = Asked(i)
       /\ reserved' = reserved /\ abandoned' = abandoned /\ missed' = missed /\ host' = host
  <2>1. NoEp.name = <<>>
    BY DEF NoEp
  <2> QED BY <1>2, <1>4, <2>1 DEF api
<1>16. Conn(i)'
  <2>1. Stage(i)'
    <3>1. CASE pc'[i] = "fail"
      <4>1. Bare(i)'
        BY <1>4, <1>9, <1>12, <1>15, <3>1 DEF Bare, plugins
      <4> QED BY <1>1, <1>2, <1>3, <1>4, <1>8, <1>15, <3>1, <4>1 DEF Setup, Stage
    <3>2. CASE pc'[i] # "fail"
      BY <1>1, <1>2, <1>3, <1>4, <1>8, <1>9, <1>10, <1>12, <1>15, <3>2 DEF Setup, Stage
    <3> QED BY <3>1, <3>2
  <2>2. Connected(i)'
    <3>1. IsDpdk(i)' = IsDpdk(i)
      BY <1>8 DEF IsDpdk
    <3> QED BY <1>1, <1>3, <1>9, <1>10, <1>11, <3>1 DEF Connected, WantsLink, MakesLink
  <2>3. Configured(i)'
    BY <1>9 DEF Configured
  <2>4. EpTells(i)'
    BY <1>1, <1>3, <1>4, <1>9, <1>15, PluggedFacts DEF EpTells
  <2>5. MemTells(i)'
    <3>1. ASSUME pc'[i] # "fail", NEW f \in Families
          PROVE  /\ mem'[i].addr[f] \in {"danm", "own"} => new.addr[f] = mem'[i].addr[f]
                 /\ new.addr[f] \in {"danm", "own"} =>
                       new.addr[f] = mem'[i].addr[f] \/ i \in unread'
      BY <1>1, <1>4, <1>9, <1>10, <3>1, PluggedFacts
    <3> QED BY <1>3, <1>9, <1>12, <3>1 DEF MemTells, Tells
  <2>6. EpKept(i)' /\ Unfreed(i)' /\ Accounted(i)'
    BY <1>1, <1>2, <1>3, <1>5, <1>9, <1>15 DEF EpKept, Unfreed, Accounted, Conn
  <2>7. Held(i)'
    <3>1. Cleanable(i)'
      BY <1>1, <1>2, <1>15 DEF Cleanable
    <3>2. i \in own' => \E f \in Families : Answer(i)[f] = "own"
      BY <1>4, <1>9 DEF Bare, plugins
    <3>3. i \in own' => ~IsNative(conns[i]) /\ \A f \in Families : ~Gives(i, f)
      BY <1>1, <3>2, AnswerFacts
    <3> QED BY <1>1, <1>3, <1>4, <1>15, <3>1, <3>3 DEF Held, Bare
  <2>8. Links(i)' /\ Owned(i)'
    <3>1. Links(i)'
      BY <1>1, <1>3, <1>4, <1>9, <1>10, <1>12, <1>15 DEF Links, Found, MakesLink, IsDpdk
    <3>2. Owned(i)'
      BY <1>1, <1>4, <1>10, <1>12, <1>15, PluggedFacts DEF Owned
    <3> QED BY <3>1, <3>2
  <2> QED BY <2>1, <2>2, <2>3, <2>4, <2>5, <2>6, <2>7, <2>8 DEF Conn, Setup
<1>17. OneName'
  BY <1>1, <1>10, <1>11 DEF OneName, Linked
<1>18. OneDevice'
  <2>1. \A j \in held : j \in Conns /\ j # i
    BY <1>1, <1>4 DEF TypeOK, Bare
  <2>2. i \in held' => mem[i].device = NoDevice \/ \A j \in held : mem[j].device # mem[i].device
    BY <1>4, <1>9 DEF IsPluginRefused, plugins, Bare
  <2>3. \A j \in held' : j \in held \/ j = i
    BY <1>8
  <2>4. \A j \in held' : j # i => mem'[j].device = mem[j].device /\ j \in held
    BY <1>8, <2>1, <2>3
  <2>5. ASSUME NEW j \in held', NEW k \in held', mem'[j].device = mem'[k].device,
               mem'[j].device # NoDevice, phase = "setup"
        PROVE  j = k
    <3>1. CASE j # i /\ k # i
      BY <1>1, <2>4, <2>5, <3>1 DEF OneDevice
    <3>2. CASE j = i \/ k = i
      BY <1>8, <2>2, <2>4, <2>5, <3>2
    <3> QED BY <3>1, <3>2
  <2> QED BY <1>1, <2>5 DEF OneDevice
<1>19. Pools' /\ FreesOwnOnly'
  BY <1>1, <1>2, <1>3, <1>5 DEF Pools, FreesOwnOnly, TypeOK
<1> QED BY <1>1, <1>13, <1>14, <1>16, <1>17, <1>18, <1>19, ConnStep

\* The answer of the plugin is told.
LEMMA UpdateDanmEpKeeps ==
    ASSUME IInv, NEW i \in Conns, UpdateDanmEp(i)
    PROVE  IInv'
<1>1. /\ phase = "setup" /\ i \in Nat /\ TypeOK /\ OneDevice /\ OneName /\ Pools
      /\ FreesOwnOnly /\ Conn(i) /\ Setup(i) /\ pc[i] = "update"
  BY AtWork DEF UpdateDanmEp, Running
<1>2. /\ UNCHANGED <<pod, phase, next, devices, mem, kernel, plugins, reserved, dels,
                     lost, unread, missed, foreign>>
      /\ UNCHANGED faults \/ Fault
  BY DEF UpdateDanmEp
<1>3. /\ conns' = conns /\ Conns' = Conns /\ Name(i)' = Name(i) /\ Iface' = Iface
      /\ LinkNames' = LinkNames
      /\ \A f : Gives(i, f)' = Gives(i, f)
      /\ Asked(i)' = Asked(i) /\ Answered(i)' = Answered(i) /\ IsDelegated(i)' = IsDelegated(i)
      /\ SharesName(i)' = SharesName(i)
  BY <1>2, StaticKept
<1>4. /\ mem[i].name = Name(i) /\ mem[i].addr \in {Asked(i), Answered(i)}
      /\ ep[i].name = Name(i) /\ ep[i].device = mem[i].device
      /\ Name(i) # <<>>
  BY <1>1, NameFacts DEF Setup, Stage
<1>5. faults' \in 0 .. MaxFaults /\ (faults' = 0 => faults = 0)
  BY <1>1, <1>2, FaultFacts
<1>6. \/ pc' = [pc EXCEPT ![i] = "post"] /\ ep' = [ep EXCEPT ![i] = mem[i]] /\ abandoned' = abandoned
      \/ pc' = [pc EXCEPT ![i] = "fail"] /\ ep' = ep /\ abandoned' = abandoned \cup {i}
  BY DEF UpdateDanmEp, Goto
<1>7. /\ \A j \in Conns \ {i} : /\ pc'[j] = pc[j] /\ ep'[j] = ep[j]
                                /\ j \in abandoned' <=> j \in abandoned
      /\ i \in abandoned => i \in abandoned'
      /\ \/ pc'[i] = "post" /\ ep'[i] = mem[i]
         \/ pc'[i] = "fail" /\ ep'[i] = ep[i] /\ i \in abandoned'
  BY <1>1, <1>6 DEF TypeOK
<1>8. TypeOK'
  <2>1. ep' \in [Conns -> Iface] /\ abandoned' \subseteq Conns
    BY <1>1, <1>6 DEF TypeOK
  <2>2. pc' \in [Conns -> Running \cup {"off", "ok", "err"}]
    BY <1>1, <1>6 DEF TypeOK, Running
  <2> QED BY <1>1, <1>2, <1>3, <1>5, <2>1, <2>2 DEF TypeOK, kernel, plugins
<1>9. Others(i)
  BY <1>1, <1>2, <1>5, <1>7, SameLinkRefl DEF Others, Other, kernel, plugins
<1>10. /\ ep'[i].name = Name(i) /\ ep'[i].device = ep[i].device /\ ep'[i] # NoEp /\ ep[i] # NoEp
       /\ ep'[i].addr = ep[i].addr \/ ep'[i].addr = mem[i].addr
  <2>1. NoEp.name = <<>>
    BY DEF NoEp
  <2> QED BY <1>4, <1>7, <2>1
<1>11. Conn(i)'
  <2>1. Stage(i)'
    BY <1>1, <1>2, <1>3, <1>4, <1>7, <1>10 DEF Setup, Stage, kernel, plugins
  <2>2. Connected(i)'
    BY <1>1, <1>2, <1>3, <1>7 DEF Setup, Connected, WantsLink, IsDpdk, kernel
  <2>3. Configured(i)' /\ EpTells(i)'
    BY <1>2, <1>7 DEF Configured, EpTells
  <2>4. MemTells(i)'
    BY <1>1, <1>2, <1>3, <1>7 DEF Setup, MemTells, Tells, kernel
  <2>5. EpKept(i)' /\ Unfreed(i)' /\ Accounted(i)'
    BY <1>1, <1>2, <1>3, <1>4, <1>5, <1>7, <1>10 DEF EpKept, Unfreed, Accounted, Conn
  <2>6. Held(i)'
    BY <1>1, <1>2, <1>3, <1>7, <1>10 DEF Held, Cleanable, Excused, Conn, kernel, plugins
  <2>7. Links(i)' /\ Owned(i)'
    BY <1>1, <1>2, <1>3, <1>7, <1>10
       DEF Links, Owned, Found, Excused, Conn, Host, NoAddress, kernel
  <2> QED BY <2>1, <2>2, <2>3, <2>4, <2>5, <2>6, <2>7 DEF Conn, Setup
<1>12. OneDevice' /\ OneName' /\ Pools' /\ FreesOwnOnly'
  BY <1>1, <1>2, <1>3, <1>5 DEF OneDevice, OneName, Pools, FreesOwnOnly, plugins, kernel, TypeOK
<1> QED BY <1>1, <1>8, <1>9, <1>11, <1>12, ConnStep
\* What post-processing makes of an interface.
LinkType == [name : LinkNames, of : Conns, addr : [Families -> Addresses], up : BOOLEAN, dummy : BOOLEAN]
Processing(i, l) == IF l.name = mem[i].name THEN [l EXCEPT !.addr[6] = V6Address(i, @)] ELSE l

LEMMA ProcessingFacts ==
    ASSUME TypeOK, NEW i \in Conns, NEW l \in LinkType
    PROVE  /\ Processing(i, l) \in LinkType
           /\ Processing(i, l).name = l.name /\ Processing(i, l).of = l.of
           /\ Processing(i, l).up = l.up /\ Processing(i, l).dummy = l.dummy
           /\ Processing(i, l).addr[4] = l.addr[4]
           /\ Processing(i, l).addr[6] = l.addr[6]
              \/ (l.name = mem[i].name /\ Processing(i, l).addr[6] = V6Address(i, l.addr[6]))
           /\ l.name = mem[i].name => Processing(i, l).addr[6] = V6Address(i, l.addr[6])
<1> DEFINE b == [l.addr EXCEPT ![6] = V6Address(i, l.addr[6])]
<1>1. l.addr \in [Families -> Addresses] /\ mem[i].addr \in [Families -> Addresses]
  BY DEF LinkType, TypeOK, Iface
<1>2. V6Address(i, l.addr[6]) \in Addresses
  BY <1>1 DEF V6Address, Addresses, Families, IsAddress
<1>3. b \in [Families -> Addresses] /\ b[4] = l.addr[4] /\ b[6] = V6Address(i, l.addr[6])
  BY <1>1, <1>2 DEF Families
<1>4. l.name = mem[i].name => Processing(i, l) = [l EXCEPT !.addr = b]
  BY DEF Processing
<1> HIDE DEF b
<1>5. /\ [l EXCEPT !.addr = b] \in LinkType /\ [l EXCEPT !.addr = b].addr = b
      /\ [l EXCEPT !.addr = b].name = l.name /\ [l EXCEPT !.addr = b].of = l.of
      /\ [l EXCEPT !.addr = b].up = l.up /\ [l EXCEPT !.addr = b].dummy = l.dummy
  BY <1>3 DEF LinkType
<1>6. CASE l.name = mem[i].name
  BY <1>3, <1>4, <1>5, <1>6
<1>7. CASE l.name # mem[i].name
  BY <1>7 DEF Processing
<1> QED BY <1>6, <1>7

\* The dummies.
LEMMA DummiesFacts ==
    ASSUME TypeOK, NEW i \in Conns, mem[i].name = Name(i)
    PROVE  /\ \A l \in Dummies(i) : /\ l \in LinkType /\ l.of = i /\ l.dummy /\ l.up
                                    /\ l.name = Name(i) \/ l.name = <<"dummy", i>>
                                    /\ l.name = Name(i) => l.addr = OnLink(mem[i].addr)
           /\ \A l, m \in Dummies(i) : l.name = m.name => l = m
           /\ \E l \in Dummies(i) : l.name = Name(i)
<1> DEFINE d == Dummy(mem[i].name, i, OnLink(mem[i].addr), TRUE)
           v == Dummy(<<"dummy", i>>, i, NoAddress, TRUE)
<1>1. mem[i].addr \in [Families -> Addresses] /\ NoAddress \in [Families -> Addresses]
  BY DEF TypeOK, Iface, NoAddress, Addresses
<1>2. OnLink(mem[i].addr) \in [Families -> Addresses]
  BY <1>1, OnLinkFacts
<1>3. /\ Name(i) \in LinkNames /\ <<"dummy", i>> \in LinkNames /\ Name(i) # <<"dummy", i>>
  BY NameFacts
<1>4. /\ d \in LinkType /\ d.of = i /\ d.dummy /\ d.up /\ d.name = Name(i) /\ d.addr = OnLink(mem[i].addr)
  BY <1>2, <1>3 DEF Dummy, Link, LinkType
<1>5. /\ v \in LinkType /\ v.of = i /\ v.dummy /\ v.up /\ v.name = <<"dummy", i>>
  BY <1>1, <1>3 DEF Dummy, Link, LinkType
<1>6. d \in Dummies(i) /\ \A l \in Dummies(i) : l = d \/ l = v
  BY DEF Dummies, LowerDummies
<1> HIDE DEF d, v
<1> QED BY <1>3, <1>4, <1>5, <1>6

\* The dummies of a set-up that fails: none has the name of another interface.
AreNew(i, D) ==
    /\ \A l \in D : /\ l \in LinkType /\ l.of = i /\ l.dummy
                    /\ l.name = <<"dummy", i>> \/ (l.name = Name(i) /\ ~DummyFails(i))
    /\ \A l, m \in D : l.name = m.name => l = m
    /\ D # {} => IsDpdk(i)

LEMMA UnfinishedFacts ==
    ASSUME TypeOK, NEW i \in Conns, mem[i].name = Name(i)
    PROVE  /\ \A D \in UnfinishedDummies(i) : AreNew(i, D)
           /\ DummyFails(i) => LowerDummies(i, TRUE) \in UnfinishedDummies(i)
<1>1. mem[i].addr \in [Families -> Addresses] /\ NoAddress \in [Families -> Addresses]
  BY DEF TypeOK, Iface, NoAddress, Addresses
<1>2. OnLink(mem[i].addr) \in [Families -> Addresses]
  BY <1>1, OnLinkFacts
<1>3. Name(i) \in LinkNames /\ <<"dummy", i>> \in LinkNames /\ Name(i) # <<"dummy", i>>
  BY NameFacts
<1>4. ASSUME NEW n \in LinkNames, NEW a \in [Families -> Addresses], NEW u \in BOOLEAN
      PROVE  /\ Dummy(n, i, a, u) \in LinkType /\ Dummy(n, i, a, u).of = i
             /\ Dummy(n, i, a, u).dummy /\ Dummy(n, i, a, u).name = n
  BY DEF Dummy, Link, LinkType
<1>5. \A u \in BOOLEAN :
         LowerDummies(i, u) = {} \/ LowerDummies(i, u) = {Dummy(<<"dummy", i>>, i, NoAddress, u)}
  BY DEF LowerDummies
<1>6. \A u \in BOOLEAN : /\ \A l \in LowerDummies(i, u) :
                                l \in LinkType /\ l.of = i /\ l.dummy /\ l.name = <<"dummy", i>>
                         /\ \A l, m \in LowerDummies(i, u) : l = m
  <2> SUFFICES ASSUME NEW u \in BOOLEAN
               PROVE  /\ \A l \in LowerDummies(i, u) :
                            l \in LinkType /\ l.of = i /\ l.dummy /\ l.name = <<"dummy", i>>
                      /\ \A l, m \in LowerDummies(i, u) : l = m
    OBVIOUS
  <2> DEFINE d == Dummy(<<"dummy", i>>, i, NoAddress, u)
  <2>1. d \in LinkType /\ d.of = i /\ d.dummy /\ d.name = <<"dummy", i>>
    BY <1>1, <1>3, <1>4
  <2>2. LowerDummies(i, u) = {} \/ LowerDummies(i, u) = {d}
    BY <1>5
  <2> HIDE DEF d
  <2> QED BY <2>1, <2>2
<1>7. IsDpdk(i) => \A u \in BOOLEAN : AreNew(i, LowerDummies(i, u))
  BY <1>6 DEF AreNew
<1>8. ASSUME NEW a \in {NoAddress, OnLink(mem[i].addr)}, IsDpdk(i), ~DummyFails(i)
      PROVE  AreNew(i, LowerDummies(i, TRUE) \cup {Dummy(mem[i].name, i, a, FALSE)})
  <2> DEFINE d == Dummy(Name(i), i, a, FALSE)
  <2>1. a \in [Families -> Addresses] /\ Name(i) \in LinkNames
    BY <1>1, <1>2, <1>3
  <2>2. d \in LinkType /\ d.of = i /\ d.dummy /\ d.name = Name(i)
    BY <1>4, <2>1
  <2> HIDE DEF d
  <2>3. AreNew(i, LowerDummies(i, TRUE) \cup {d})
    BY <1>3, <1>6, <1>8, <2>2 DEF AreNew
  <2> QED BY <2>3 DEF d
<1>9. AreNew(i, {})
  BY DEF AreNew
<1>10. ~IsDpdk(i) => UnfinishedDummies(i) = {{}} /\ ~DummyFails(i)
  BY DEF UnfinishedDummies, DummyFails
<1>11. IsDpdk(i) =>
          UnfinishedDummies(i) =
             {{}, LowerDummies(i, FALSE), LowerDummies(i, TRUE)} \cup
             {LowerDummies(i, TRUE) \cup {Dummy(mem[i].name, i, a, FALSE)} :
                 a \in IF DummyFails(i) THEN {} ELSE {NoAddress, OnLink(mem[i].addr)}}
  BY DEF UnfinishedDummies
<1> QED BY <1>7, <1>8, <1>9, <1>10, <1>11

\* The interface is post-processed.
LEMMA PostProcessInterfaceKeeps ==
    ASSUME IInv, NEW i \in Conns, PostProcessInterface(i)
    PROVE  IInv'
<1> DEFINE ls == IF IsDpdk(i) THEN links \cup Dummies(i) ELSE links
<1>1. /\ phase = "setup" /\ i \in Nat /\ TypeOK /\ OneDevice /\ OneName /\ Pools
      /\ FreesOwnOnly /\ Conn(i) /\ Setup(i) /\ pc[i] = "post"
  BY AtWork DEF PostProcessInterface, Running
<1>2. /\ UNCHANGED <<pod, phase, next, devices, mem, host, plugins, api, dels, lost, unread, missed, foreign>>
      /\ UNCHANGED faults \/ Fault
  BY DEF PostProcessInterface
<1>3. /\ conns' = conns /\ Conns' = Conns /\ Name(i)' = Name(i) /\ Iface' = Iface
      /\ LinkNames' = LinkNames
      /\ \A f : Gives(i, f)' = Gives(i, f)
      /\ Asked(i)' = Asked(i) /\ Answered(i)' = Answered(i) /\ IsDelegated(i)' = IsDelegated(i)
      /\ SharesName(i)' = SharesName(i)
  BY <1>2, StaticKept
<1>4. /\ mem[i].name = Name(i) /\ mem[i].addr \in {Asked(i), Answered(i)}
      /\ ep[i].name = Name(i) /\ ep[i].device = mem[i].device
      /\ IsDelegated(i) => i \in held
      /\ \A f \in Families : Gives(i, f) => <<i, f>> \in reserved
      /\ \A l \in links : l.of = i => l.name = Name(i)
      /\ Name(i) # <<>> /\ Name(i) # Host(i) /\ Name(i) # <<"dummy", i>>
  BY <1>1, NameFacts DEF Setup, Stage
<1>5. faults' \in 0 .. MaxFaults /\ (faults' = 0 => faults = 0)
  BY <1>1, <1>2, FaultFacts
<1>6. /\ \/ pc' = [pc EXCEPT ![i] = "ok"] /\ abandoned' = abandoned
            /\ links' = Processed(ls, i) /\ ~DummyFails(i)
         \/ /\ pc' = [pc EXCEPT ![i] = "fail"] /\ abandoned' = abandoned \cup {i}
            /\ \/ \E D : AreNew(i, D) /\ links' = links \cup D
               \/ links' = Processed(ls, i) /\ ~DummyFails(i)
  <2>1. /\ \A D \in UnfinishedDummies(i) : AreNew(i, D)
        /\ DummyFails(i) => AreNew(i, LowerDummies(i, TRUE))
    BY <1>1, <1>4, UnfinishedFacts
  <2> QED BY <2>1 DEF PostProcessInterface, Goto
<1>7. /\ \A j \in Conns \ {i} : pc'[j] = pc[j] /\ (j \in abandoned' <=> j \in abandoned)
      /\ i \in abandoned => i \in abandoned'
      /\ \/ pc'[i] = "ok" /\ links' = Processed(ls, i) /\ ~DummyFails(i)
         \/ pc'[i] = "fail" /\ i \in abandoned'
  BY <1>1, <1>6 DEF TypeOK
<1>8. ~DummyFails(i) =>
         /\ \A l \in ls : l \in LinkType
         /\ \A l \in ls : l \in links \/ (l \in Dummies(i) /\ l.of = i)
         /\ \A l, m \in ls : l.name = m.name => l = m
         /\ IsDpdk(i) => \A l \in links : l.of # i
         /\ \A l \in links : l \in ls
  <2>1. \A l \in links : l \in LinkType
    BY <1>1 DEF TypeOK, LinkType
  <2>2. IsDpdk(i) /\ ~DummyFails(i) => \A l \in links : l.name # Name(i) /\ l.of # i
    BY <1>4 DEF DummyFails, Linked
  <2>3. IsDpdk(i) /\ ~DummyFails(i) => \A l \in links : l.name # <<"dummy", i>>
    BY <2>2, LinkOwners
  <2> QED BY <1>1, <1>4, <2>1, <2>2, <2>3, DummiesFacts DEF OneName
<1>9. Processed(ls, i) = {Processing(i, l) : l \in ls}
  BY DEF Processed, Processing
<1> HIDE DEF ls
<1> DEFINE Leaves(D) == AreNew(i, D) /\ links' = links \cup D /\ pc'[i] = "fail"
<1> HIDE DEF Leaves
<1>10. \/ \E D : Leaves(D)
       \/ ~DummyFails(i) /\ links' = {Processing(i, l) : l \in ls}
  <2>1. pc' = [pc EXCEPT ![i] = "fail"] => pc'[i] = "fail"
    BY <1>1 DEF TypeOK
  <2> QED BY <1>6, <1>9, <2>1 DEF Leaves
<1>11. \A m \in links' : m \in LinkType
  <2>1. \A l \in links : l \in LinkType
    BY <1>1 DEF TypeOK, LinkType
  <2>2. ASSUME NEW D, Leaves(D) PROVE \A m \in links' : m \in LinkType
    BY <2>1, <2>2 DEF Leaves, AreNew
  <2> QED BY <1>1, <1>8, <1>10, <2>1, <2>2, ProcessingFacts
<1>12. TypeOK'
  <2>1. abandoned' \subseteq Conns
    BY <1>1, <1>6 DEF TypeOK
  <2>2. pc' \in [Conns -> Running \cup {"off", "ok", "err"}]
    BY <1>1, <1>6 DEF TypeOK, Running
  <2>3. links' \subseteq LinkType
    BY <1>11
  <2> QED BY <1>1, <1>2, <1>3, <1>5, <2>1, <2>2, <2>3 DEF TypeOK, LinkType, api, plugins
<1>13. \A l \in links : l.of # i =>
          SameLink(l, Processing(i, l)) /\ Processing(i, l).of = l.of
  <2> SUFFICES ASSUME NEW l \in links, l.of # i
               PROVE  SameLink(l, Processing(i, l)) /\ Processing(i, l).of = l.of
    OBVIOUS
  <2>1. l \in LinkType
    BY <1>1 DEF TypeOK, LinkType
  <2>2. l.name = mem[i].name => SharesName(l.of) /\ l.name = Name(l.of)
    BY <1>4, LinkOwners
  <2> QED BY <1>1, <2>1, <2>2, ProcessingFacts DEF SameLink, Families
<1>14. Others(i)
  <2>1. ASSUME NEW j \in Conns \ {i}
        PROVE  /\ \A m \in links' : m.of = j => \E l \in links : SameLink(l, m)
               /\ \A l \in links : l.of = j => \E m \in links' : SameLink(l, m)
    <3>1. ASSUME NEW D, Leaves(D)
          PROVE  /\ \A m \in links' : m.of = j => \E l \in links : SameLink(l, m)
                 /\ \A l \in links : l.of = j => \E m \in links' : SameLink(l, m)
      BY <2>1, <3>1, SameLinkRefl DEF Leaves, AreNew
    <3>2. CASE ~DummyFails(i) /\ links' = {Processing(i, l) : l \in ls}
      <4>1. ASSUME NEW m \in links', m.of = j PROVE \E l \in links : SameLink(l, m)
        <5>1. PICK l \in ls : m = Processing(i, l)
          BY <3>2
        <5>2. l.of = j
          BY <1>1, <1>8, <3>2, <4>1, <5>1, ProcessingFacts
        <5> QED BY <1>8, <1>13, <2>1, <3>2, <5>1, <5>2
      <4>2. ASSUME NEW l \in links, l.of = j PROVE \E m \in links' : SameLink(l, m)
        BY <1>8, <1>13, <2>1, <3>2, <4>2
      <4> QED BY <4>1, <4>2
    <3> QED BY <1>10, <3>1, <3>2
  <2> QED BY <1>1, <1>2, <1>5, <1>7, <2>1 DEF Others, Other, api, plugins
<1>15. /\ ep' = ep /\ reserved' = reserved /\ ep[i] # NoEp /\ mem'[i] = mem[i]
       /\ \A f \in Families : mem[i].addr[f] = "danm" => <<i, f>> \in reserved
       /\ IsDpdk(i)' = IsDpdk(i)
  <2>1. NoEp.name = <<>>
    BY DEF NoEp
  <2>2. \A f \in Families : mem[i].addr[f] = "danm" => Gives(i, f)
    BY <1>1, <1>4, AskedFacts, AnsweredFacts
  <2> QED BY <1>2, <1>4, <2>1, <2>2 DEF IsDpdk, api
<1>16. \A m \in links' : m.of = i =>
          \E l \in LinkType :
              /\ l \in links \/ (l \in Dummies(i) /\ pc'[i] = "ok") \/ i \in abandoned'
              /\ l.of = i /\ l.name = m.name /\ l.dummy = m.dummy
              /\ m.name \in {Name(i), <<"dummy", i>>}
              /\ pc'[i] = "ok" => m = Processing(i, l)
  <2> SUFFICES ASSUME NEW m \in links', m.of = i
               PROVE  \E l \in LinkType :
                 /\ l \in links \/ (l \in Dummies(i) /\ pc'[i] = "ok") \/ i \in abandoned'
                 /\ l.of = i /\ l.name = m.name /\ l.dummy = m.dummy
                 /\ m.name \in {Name(i), <<"dummy", i>>}
                 /\ pc'[i] = "ok" => m = Processing(i, l)
    OBVIOUS
  <2>1. ASSUME NEW D, Leaves(D)
        PROVE  \E l \in LinkType :
                 /\ l \in links \/ (l \in Dummies(i) /\ pc'[i] = "ok") \/ i \in abandoned'
                 /\ l.of = i /\ l.name = m.name /\ l.dummy = m.dummy
                 /\ m.name \in {Name(i), <<"dummy", i>>}
                 /\ pc'[i] = "ok" => m = Processing(i, l)
    <3>1. m.name \in {Name(i), <<"dummy", i>>}
      BY <1>4, <2>1 DEF Leaves, AreNew
    <3>2. i \in abandoned' /\ pc'[i] # "ok"
      BY <1>7, <2>1 DEF Leaves
    <3> QED BY <1>11, <3>1, <3>2
  <2>2. CASE ~DummyFails(i) /\ links' = {Processing(i, l) : l \in ls}
    <3>1. PICK l \in ls : m = Processing(i, l)
      BY <2>2
    <3>2. l \in LinkType /\ l.of = i /\ l.name = m.name /\ l.dummy = m.dummy
      BY <1>1, <1>8, <2>2, <3>1, ProcessingFacts
    <3>3. l \in links \/ l \in Dummies(i)
      BY <1>8, <2>2
    <3>4. l.name \in {Name(i), <<"dummy", i>>}
      BY <1>1, <1>4, <3>2, <3>3, DummiesFacts
    <3> QED BY <1>7, <3>1, <3>2, <3>3, <3>4
  <2> QED BY <1>10, <2>1, <2>2
<1>17. Conn(i)'
  <2>1. Stage(i)'
    BY <1>1, <1>2, <1>3, <1>4, <1>7, <1>15 DEF Setup, Stage, api, plugins
  <2>2. Connected(i)'
    <3> SUFFICES ASSUME pc'[i] = "ok", WantsLink(i)
                 PROVE  \E l \in links' : l.name = Name(i) /\ l.of = i /\ l.up
      BY <1>2, <1>3, <1>7, <1>15 DEF Connected, WantsLink
    <3>1. PICK l \in ls : l.name = Name(i) /\ l.of = i /\ l.up
      <4>1. CASE IsDpdk(i)
        BY <1>1, <1>4, <4>1, DummiesFacts DEF ls
      <4>2. CASE ~IsDpdk(i)
        BY <1>1, <4>2 DEF Setup, Connected, ls
      <4> QED BY <4>1, <4>2
    <3>2. l \in LinkType /\ Processing(i, l) \in links'
      BY <1>7, <1>8, <1>9
    <3> QED BY <1>1, <3>1, <3>2, ProcessingFacts
  <2>3. Configured(i)' /\ EpTells(i)'
    BY <1>1, <1>3, <1>7, <1>15 DEF Configured, EpTells, Setup
  <2>4. MemTells(i)'
    <3>1. ASSUME pc'[i] = "ok", ~SharesName(i), NEW m \in links', m.of = i, m.name = Name(i)
          PROVE  Tells(i, mem[i].addr, m)
      <4>1. PICK l \in LinkType : /\ l \in links \/ l \in Dummies(i)
                                  /\ l.of = i /\ l.name = Name(i) /\ m = Processing(i, l)
        <5>1. PICK l \in ls : m = Processing(i, l)
          BY <1>7, <1>9, <3>1
        <5>2. l \in LinkType
          BY <1>7, <1>8, <3>1
        <5>3. l.of = i /\ l.name = Name(i)
          BY <1>1, <3>1, <5>1, <5>2, ProcessingFacts
        <5> QED BY <5>1, <5>2, <5>3 DEF ls
      <4>2. Tells(i, mem[i].addr, l)
        <5>1. CASE l \in links
          BY <1>1, <3>1, <4>1, <5>1 DEF Setup, MemTells
        <5>2. CASE l \in Dummies(i)
          <6>1. l.addr = OnLink(mem[i].addr)
            BY <1>1, <1>4, <4>1, <5>2, DummiesFacts
          <6>2. mem[i].addr \in [Families -> Addresses]
            BY <1>1 DEF TypeOK, Iface
          <6>3. \A f \in Families : \A x \in {"danm", "own"} : l.addr[f] = x <=> mem[i].addr[f] = x
            BY <6>1, <6>2, OnLinkFacts
          <6> QED BY <6>3 DEF Tells
        <5> QED BY <4>1, <5>1, <5>2
      <4>3. m.addr[4] = l.addr[4] /\ m.addr[6] = V6Address(i, l.addr[6])
        BY <1>1, <1>4, <4>1, ProcessingFacts
      <4>4. /\ mem[i].addr[6] \in {"danm", "own"} =>
                  m.addr[6] = mem[i].addr[6] \/ m.addr[6] = l.addr[6]
            /\ m.addr[6] \in {"danm", "own"} => m.addr[6] = mem[i].addr[6] \/ m.addr[6] = l.addr[6]
        BY <4>3 DEF V6Address, IsAddress
      <4> QED BY <4>2, <4>3, <4>4 DEF Tells, Families
    <3>2. \A m : Tells(i, mem[i].addr, m)' <=> Tells(i, mem[i].addr, m)
      BY <1>2, <1>3 DEF Tells
    <3> QED BY <1>3, <1>7, <3>1, <3>2 DEF MemTells
  <2>5. EpKept(i)' /\ Unfreed(i)' /\ Accounted(i)'
    BY <1>1, <1>2, <1>3, <1>5, <1>7, <1>15 DEF EpKept, Unfreed, Accounted, Conn
  <2>6. Held(i)'
    BY <1>1, <1>2, <1>3, <1>7, <1>15 DEF Held, Cleanable, Excused, Conn, plugins
  <2>7. Links(i)'
    <3> SUFFICES ASSUME NEW m \in links', m.of = i
                 PROVE  /\ m.name \in {Name(i), <<"dummy", i>>}
                        /\ m.dummy \/ Excused(i)' \/ Found(i, m)'
      BY <1>3 DEF Links, Host
    <3>1. PICK l \in LinkType :
              /\ l \in links \/ (l \in Dummies(i) /\ pc'[i] = "ok") \/ i \in abandoned'
              /\ l.of = i /\ l.name = m.name /\ l.dummy = m.dummy
              /\ m.name \in {Name(i), <<"dummy", i>>}
      BY <1>16
    <3>2. l \in Dummies(i) => m.dummy
      BY <1>1, <1>4, <3>1, DummiesFacts
    <3>3. CASE l \in links
      <4>1. l.name = Name(i)
        BY <1>4, <3>1, <3>3
      <4>2. l.dummy \/ Excused(i) \/ Found(i, l)
        BY <1>1, <3>1, <3>3 DEF Conn, Links
      <4>3. Excused(i) => Excused(i)'
        BY <1>2, <1>7 DEF Excused
      <4>4. Found(i, l) => Found(i, m)'
        BY <1>3, <1>4, <1>7, <1>15, <3>1, <4>1 DEF Found
      <4> QED BY <3>1, <4>2, <4>3, <4>4
    <3> QED BY <3>1, <3>2, <3>3 DEF Excused
  <2>8. Owned(i)'
    <3> SUFFICES ASSUME NEW m \in links', NEW f \in Families, m.of = i, m.addr[f] = "danm",
                        pc'[i] = "ok"
                 PROVE  <<i, f>> \in reserved \/ Excused(i) \/ m.dummy \/ (f = 6 /\ SharesName(i))
      BY <1>2, <1>3, <1>7, <1>15 DEF Owned, Excused
    <3>1. PICK l \in LinkType : /\ l \in links \/ l \in Dummies(i) \/ i \in abandoned'
                                /\ l.of = i /\ l.dummy = m.dummy /\ m = Processing(i, l)
      BY <1>16
    <3>2. abandoned' = abandoned
      BY <1>1, <1>6 DEF TypeOK
    <3>3. l.addr[f] = "danm" \/ mem[i].addr[f] = "danm"
      <4>1. m.addr[4] = l.addr[4]
            /\ (m.addr[6] = l.addr[6] \/ m.addr[6] = V6Address(i, l.addr[6]))
        BY <1>1, <3>1, ProcessingFacts
      <4> QED BY <4>1 DEF V6Address, IsAddress, Families
    <3>4. l \in Dummies(i) => l.dummy
      BY <1>1, <1>4, DummiesFacts
    <3> QED BY <1>1, <1>15, <3>1, <3>2, <3>3, <3>4 DEF Conn, Owned, Excused
  <2> QED BY <2>1, <2>2, <2>3, <2>4, <2>5, <2>6, <2>7, <2>8 DEF Conn, Setup
<1>18. OneName'
  <2>1. ASSUME NEW D, Leaves(D) PROVE OneName'
    <3>1. \A d \in D : \A l \in links : d.name # l.name
      <4> SUFFICES ASSUME NEW d \in D, NEW l \in links, d.name = l.name PROVE FALSE
        OBVIOUS
      <4>1. d.of = i /\ IsDpdk(i) /\ (d.name = <<"dummy", i>> \/ (d.name = Name(i) /\ ~DummyFails(i)))
        BY <2>1 DEF Leaves, AreNew
      <4>2. l \in links /\ l.name = <<"dummy", i>> => l.of = i
        BY <1>1, LinkOwners
      <4>3. l.name # <<"dummy", i>>
        BY <1>4, <4>2
      <4>4. ~DummyFails(i) => l.name # Name(i)
        BY <1>4, <4>1 DEF DummyFails, Linked
      <4> QED BY <4>1, <4>3, <4>4
    <3>2. /\ \A l, m \in links : l.name = m.name => l = m
          /\ \A l, m \in D : l.name = m.name => l = m
          /\ links' = links \cup D
      BY <1>1, <2>1 DEF OneName, Leaves, AreNew
    <3> QED BY <3>1, <3>2 DEF OneName
  <2>2. CASE ~DummyFails(i) /\ links' = {Processing(i, l) : l \in ls}
    <3> SUFFICES ASSUME NEW m \in links', NEW n \in links', m.name = n.name PROVE m = n
      BY DEF OneName
    <3>1. PICK l \in ls, k \in ls : m = Processing(i, l) /\ n = Processing(i, k)
      BY <2>2
    <3>2. l.name = m.name /\ k.name = n.name
      BY <1>1, <1>8, <2>2, <3>1, ProcessingFacts
    <3> QED BY <1>8, <2>2, <3>1, <3>2
  <2> QED BY <1>10, <2>1, <2>2
<1>19. OneDevice' /\ Pools' /\ FreesOwnOnly'
  BY <1>1, <1>2, <1>3, <1>5 DEF OneDevice, Pools, FreesOwnOnly, plugins, TypeOK
<1> QED BY <1>1, <1>12, <1>14, <1>17, <1>18, <1>19, ConnStep
-----------------------------------------------------------------------------
(* The steps that delete a DanmEp                                            *)

\* The addresses that go with a DanmEp are those DANM has reserved, unless the plugin's own
\* IPAM hands out addresses of the network.
LEMMA FreedFacts ==
    ASSUME TypeOK, NEW i \in Conns, NEW e, e.addr \in {Asked(i), Answered(i)}
    PROVE  /\ Freed(i, e) \subseteq {i} \X Families
           /\ \A f \in Families : /\ Gives(i, f) /\ f \in conns[i].cidr => <<i, f>> \in Freed(i, e)
                                  /\ <<i, f>> \in Freed(i, e) => Gives(i, f) \/ conns[i].overlap
<1>1. \A f \in Families : e.addr[f] = "danm" <=> Gives(i, f)
  <2>1. CASE e.addr = Asked(i)
    BY <2>1, AskedFacts
  <2>2. CASE e.addr = Answered(i)
    BY <2>2, AnsweredFacts
  <2> QED BY <2>1, <2>2
<1>2. \A f \in Families : InCidr(conns[i], e.addr, f) <=>
          f \in conns[i].cidr /\ (Gives(i, f) \/ (e.addr[f] = "own" /\ conns[i].overlap))
  BY <1>1 DEF InCidr
<1>3. Freed(i, e) = IF \E f \in Families : InCidr(conns[i], e.addr, f)
                    THEN {i} \X {f \in Families : InCidr(conns[i], e.addr, f)} ELSE {}
  BY DEF Freed, WasIpAllocatedByDanm
<1> QED BY <1>2, <1>3

\* What a deletion does to the addresses and the DanmEp, whether it succeeds or not.
LEMMA DeleteFacts ==
    ASSUME TypeOK, NEW i \in Conns, mem[i].addr \in {Asked(i), Answered(i)},
           DeleteDanmEp(i, mem[i]) \/ DeleteFails(i, mem[i])
    PROVE  /\ ep' \in [Conns -> Iface] /\ reserved' \cup foreign' \subseteq Conns \X Families
           /\ \A j \in Conns \ {i} : /\ ep'[j] = ep[j]
                                     /\ \A f \in Families : <<j, f>> \in reserved' <=> <<j, f>> \in reserved
           /\ \A f \in Families : <<i, f>> \in reserved' => <<i, f>> \in reserved
           /\ \A x \in foreign' : x \in foreign
                                  \/ \E f \in Families : /\ Gives(i, f) \/ conns[i].overlap
                                                         /\ <<i, f>> \notin reserved
           /\ DeleteDanmEp(i, mem[i]) =>
                 /\ ep'[i] = NoEp
                 /\ \A f \in Families : Gives(i, f) /\ f \in conns[i].cidr => <<i, f>> \notin reserved'
           /\ DeleteFails(i, mem[i]) => ep' = ep
<1>1. /\ Freed(i, mem[i]) \subseteq {i} \X Families
      /\ \A f \in Families : /\ Gives(i, f) /\ f \in conns[i].cidr => <<i, f>> \in Freed(i, mem[i])
                             /\ <<i, f>> \in Freed(i, mem[i]) => Gives(i, f) \/ conns[i].overlap
  BY FreedFacts
<1> DEFINE F == Freed(i, mem[i])
<1>2. \E G : /\ \A x \in G : x \in F
             /\ reserved' = reserved \ G /\ foreign' = foreign \cup (G \ reserved)
  <2>1. CASE DeleteDanmEp(i, mem[i])
    BY <2>1 DEF DeleteDanmEp
  <2>2. CASE DeleteFails(i, mem[i])
    <3>1. PICK fs : LET freed == {x \in F : x[2] \in fs} IN
             reserved' = reserved \ freed /\ foreign' = foreign \cup (freed \ reserved)
      BY <2>2 DEF DeleteFails
    <3> QED BY <3>1
  <2> QED BY <2>1, <2>2
<1>3. DeleteDanmEp(i, mem[i]) => reserved' = reserved \ F
  BY DEF DeleteDanmEp
<1> HIDE DEF F
<1>4. /\ reserved \cup foreign \subseteq Conns \X Families
      /\ ep \in [Conns -> Iface] /\ NoEp \in Iface
  <2>1. NoEp \in Iface
    <3>1. NoAddress \in [Families -> Addresses]
      BY DEF NoAddress, Addresses
    <3> QED BY <3>1 DEF NoEp, Iface
  <2> QED BY <2>1 DEF TypeOK
<1>5. /\ ep' \in [Conns -> Iface] /\ \A j \in Conns \ {i} : ep'[j] = ep[j]
      /\ DeleteDanmEp(i, mem[i]) => ep'[i] = NoEp
      /\ DeleteFails(i, mem[i]) => ep' = ep
  BY <1>4 DEF DeleteDanmEp, DeleteFails
<1>6. \A x \in F : \E f \in Families : x = <<i, f>>
  BY <1>1 DEF F
<1>7. reserved' \cup foreign' \subseteq Conns \X Families
  BY <1>2, <1>4, <1>6
<1>8. \A j \in Conns \ {i} : \A f \in Families : <<j, f>> \in reserved' <=> <<j, f>> \in reserved
  BY <1>2, <1>6
<1>9. \A x \in foreign' : x \in foreign
                          \/ \E f \in Families : /\ Gives(i, f) \/ conns[i].overlap
                                                 /\ <<i, f>> \notin reserved
  BY <1>1, <1>2, <1>6 DEF F
<1>10. /\ \A f \in Families : <<i, f>> \in reserved' => <<i, f>> \in reserved
       /\ DeleteDanmEp(i, mem[i]) =>
             \A f \in Families : Gives(i, f) /\ f \in conns[i].cidr => <<i, f>> \notin reserved'
  BY <1>1, <1>2, <1>3 DEF F
<1> QED BY <1>5, <1>7, <1>8, <1>9, <1>10

\* createNic deletes the DanmEp of a connection that could not be set up.
LEMMA SetupFailsKeeps ==
    ASSUME IInv, NEW i \in Conns, SetupFails(i)
    PROVE  IInv'
<1>1. /\ phase = "setup" /\ i \in Nat /\ TypeOK /\ OneDevice /\ OneName /\ Pools
      /\ FreesOwnOnly /\ Conn(i) /\ Setup(i) /\ pc[i] = "fail"
  BY AtWork DEF SetupFails, Running
<1>2. /\ UNCHANGED <<pod, phase, next, devices, mem, kernel, plugins, dels, lost, abandoned, unread, missed>>
      /\ pc' = [pc EXCEPT ![i] = "err"]
      /\ \/ DeleteDanmEp(i, mem[i]) /\ UNCHANGED faults
         \/ Fault /\ DeleteFails(i, mem[i])
  BY DEF SetupFails, Goto
<1>3. /\ conns' = conns /\ Conns' = Conns /\ Name(i)' = Name(i) /\ Iface' = Iface
      /\ LinkNames' = LinkNames
      /\ \A f : Gives(i, f)' = Gives(i, f)
      /\ Asked(i)' = Asked(i) /\ Answered(i)' = Answered(i) /\ IsDelegated(i)' = IsDelegated(i)
      /\ SharesName(i)' = SharesName(i)
  BY <1>2, StaticKept
<1>4. /\ mem[i].addr \in {Asked(i), Answered(i)}
      /\ \A f \in Families : Gives(i, f) => f \in conns[i].cidr /\ <<i, f>> \in reserved
      /\ i \in abandoned \/ Bare(i)
  BY <1>1 DEF Setup, Stage
<1>5. faults' \in 0 .. MaxFaults /\ (faults' = 0 => faults = 0)
  BY <1>1, <1>2, FaultFacts
<1>6. /\ ep' \in [Conns -> Iface] /\ reserved' \cup foreign' \subseteq Conns \X Families
      /\ \A j \in Conns \ {i} : /\ ep'[j] = ep[j]
                                /\ \A f \in Families : <<j, f>> \in reserved' <=> <<j, f>> \in reserved
      /\ \A f \in Families : <<i, f>> \in reserved' => <<i, f>> \in reserved
      /\ \A x \in foreign' : x \in foreign
                             \/ \E f \in Families : /\ Gives(i, f) \/ conns[i].overlap
                                                    /\ <<i, f>> \notin reserved
      /\ \/ /\ ep'[i] = NoEp
            /\ \A f \in Families : Gives(i, f) /\ f \in conns[i].cidr => <<i, f>> \notin reserved'
         \/ ep' = ep /\ faults' # 0
  <2>1. Fault => faults' # 0
    BY <1>1 DEF Fault, TypeOK
  <2> QED BY <1>1, <1>2, <1>4, <2>1, DeleteFacts
<1>7. /\ \A j \in Conns \ {i} : pc'[j] = pc[j]
      /\ pc'[i] = "err"
  BY <1>1, <1>2 DEF TypeOK
<1>8. TypeOK'
  <2>1. pc' \in [Conns -> Running \cup {"off", "ok", "err"}]
    BY <1>1, <1>2 DEF TypeOK, Running
  <2> QED BY <1>1, <1>2, <1>3, <1>5, <1>6, <2>1 DEF TypeOK, kernel, plugins
<1>9. Others(i)
  BY <1>1, <1>2, <1>5, <1>6, <1>7, SameLinkRefl DEF Others, Other, kernel, plugins
<1>10. i \in abandoned' \/ Bare(i)'
  BY <1>2, <1>4 DEF Bare, kernel, plugins
<1>11. Conn(i)'
  <2>1. Stage(i)'
    BY <1>1, <1>2, <1>3, <1>7 DEF Setup, Stage
  <2>2. Setup(i)'
    BY <1>7, <2>1 DEF Setup, Configured, Connected, EpTells, MemTells
  <2>3. EpKept(i)'
    BY <1>1, <1>2, <1>3, <1>6, <1>7 DEF EpKept, Conn
  <2>4. Unfreed(i)'
    BY <1>6 DEF Unfreed
  <2>5. Accounted(i)'
    BY <1>1, <1>2, <1>3, <1>6, <1>7 DEF Accounted, Conn
  <2>6. Held(i)' /\ Links(i)' /\ Owned(i)'
    <3>1. CASE i \in abandoned'
      <4>1. Held(i)'
        BY <1>1, <1>2, <1>3, <3>1 DEF Held, Excused, Conn, plugins
      <4>2. Links(i)'
        BY <1>1, <1>2, <1>3, <3>1 DEF Links, Excused, Conn, Host, kernel
      <4>3. Owned(i)'
        BY <3>1 DEF Owned, Excused
      <4> QED BY <4>1, <4>2, <4>3
    <3>2. CASE Bare(i)'
      BY <3>2 DEF Bare, Held, Links, Owned
    <3> QED BY <1>10, <3>1, <3>2
  <2> QED BY <2>2, <2>3, <2>4, <2>5, <2>6 DEF Conn
<1>12. FreesOwnOnly'
  <2>1. CASE foreign' \subseteq foreign
    BY <1>1, <1>3, <1>5, <2>1 DEF FreesOwnOnly, TypeOK
  <2>2. CASE conns[i].overlap
    BY <1>3, <2>2 DEF FreesOwnOnly
  <2> QED BY <1>4, <1>6, <2>1, <2>2
<1>13. OneDevice' /\ OneName' /\ Pools'
  BY <1>1, <1>2, <1>3, <1>5 DEF OneDevice, OneName, Pools, plugins, kernel, TypeOK
<1> QED BY <1>1, <1>8, <1>9, <1>11, <1>12, <1>13, ConnStep

\* deleteInterface, when the network cannot be read.
LEMMA NetworkMissingKeeps ==
    ASSUME IInv, NEW i \in Conns, NetworkMissing(i)
    PROVE  IInv'
<1>1. /\ phase = "del" /\ i \in Nat /\ TypeOK /\ OneDevice /\ OneName /\ Pools
      /\ FreesOwnOnly /\ Conn(i) /\ pc[i] = "del"
  BY AtWork DEF NetworkMissing
<1>2. /\ UNCHANGED <<pod, phase, next, devices, mem, kernel, plugins, api, dels,
                     lost, abandoned, unread, foreign>>
      /\ Fault /\ pc' = [pc EXCEPT ![i] = "off"] /\ missed' = missed \cup ({i} \X {"nic", "ep"})
  BY DEF NetworkMissing, Goto
<1>3. /\ conns' = conns /\ Conns' = Conns /\ Name(i)' = Name(i) /\ Iface' = Iface
      /\ LinkNames' = LinkNames
      /\ \A f : Gives(i, f)' = Gives(i, f)
      /\ Asked(i)' = Asked(i) /\ Answered(i)' = Answered(i) /\ IsDelegated(i)' = IsDelegated(i)
      /\ SharesName(i)' = SharesName(i)
  BY <1>2, StaticKept
<1>5. faults' \in 0 .. MaxFaults /\ (faults' = 0 => faults = 0)
  BY <1>1, <1>2, FaultFacts
<1>6. /\ \A j \in Conns \ {i} : /\ pc'[j] = pc[j]
                                /\ \A x \in {"nic", "ep"} : <<j, x>> \in missed' <=> <<j, x>> \in missed
      /\ pc'[i] = "off" /\ <<i, "nic">> \in missed' /\ <<i, "ep">> \in missed'
  BY <1>1, <1>2 DEF TypeOK
<1>7. TypeOK'
  <2>1. pc' \in [Conns -> {"off", "del", "delep"}]
    BY <1>1, <1>2 DEF TypeOK
  <2>2. missed' \subseteq Conns \X {"nic", "ep"}
    BY <1>1, <1>2 DEF TypeOK
  <2> QED BY <1>1, <1>2, <1>3, <1>5, <2>1, <2>2 DEF TypeOK, kernel, plugins, api
<1>8. Others(i)
  BY <1>1, <1>2, <1>5, <1>6, SameLinkRefl DEF Others, Other, kernel, plugins, api
<1>9. Conn(i)'
  <2>1. EpKept(i)' /\ Unfreed(i)' /\ Accounted(i)'
    BY <1>1, <1>2, <1>3, <1>5, <1>6 DEF EpKept, Unfreed, Accounted, Conn, api
  <2>2. Held(i)'
    BY <1>1, <1>2, <1>3, <1>6 DEF Held, Excused, Conn, plugins, kernel
  <2>3. Links(i)' /\ Owned(i)'
    BY <1>1, <1>2, <1>3, <1>6 DEF Links, Owned, Excused, Conn, Host, kernel
  <2> QED BY <1>1, <1>2, <2>1, <2>2, <2>3 DEF Conn
<1>10. OneDevice' /\ OneName' /\ Pools' /\ FreesOwnOnly'
  BY <1>1, <1>2, <1>3, <1>5 DEF OneDevice, OneName, Pools, FreesOwnOnly, plugins, kernel, TypeOK
<1> QED BY <1>1, <1>7, <1>8, <1>9, <1>10, ConnStep
\* deleteNic deletes the interface, by the name the DanmEp tells, or calls the plugin.
LEMMA deleteNicKeeps ==
    ASSUME IInv, NEW i \in Conns, deleteNic(i)
    PROVE  IInv'
<1> DEFINE left == {l \in links : l.name # mem[i].name}
<1>1. /\ phase = "del" /\ i \in Nat /\ TypeOK /\ OneDevice /\ OneName /\ Pools
      /\ FreesOwnOnly /\ Conn(i) /\ pc[i] = "del"
  BY AtWork DEF deleteNic
<1>2. /\ UNCHANGED <<pod, phase, next, devices, mem, host, api, dels, lost, abandoned, unread, foreign>>
      /\ pc' = [pc EXCEPT ![i] = "delep"]
      /\ UNCHANGED faults \/ Fault
  BY DEF deleteNic, Goto
<1>3. /\ conns' = conns /\ Conns' = Conns /\ Name(i)' = Name(i) /\ Iface' = Iface
      /\ LinkNames' = LinkNames
      /\ \A f : Gives(i, f)' = Gives(i, f)
      /\ Asked(i)' = Asked(i) /\ Answered(i)' = Answered(i) /\ IsDelegated(i)' = IsDelegated(i)
      /\ SharesName(i)' = SharesName(i)
  BY <1>2, StaticKept
<1>4. /\ mem[i] = ep[i] /\ ep[i] # NoEp /\ ep[i].name = Name(i)
      /\ ep[i].addr \in {Asked(i), Answered(i)}
  BY <1>1 DEF Conn, EpKept
<1>5. faults' \in 0 .. MaxFaults /\ (faults' = 0 => faults = 0)
  BY <1>1, <1>2, FaultFacts
<1>6. \/ conns[i].type = "ipvlan" /\ links' = left /\ missed' = missed /\ UNCHANGED plugins
      \/ /\ IsDelegated(i) /\ missed' = missed /\ held' = held \ {i}
         /\ own' = IF IpamOf(conns[i], {f \in Families : WasIpAllocatedByDanm(conns[i], mem[i].addr, f)})
                      = "fakeipam" THEN own ELSE own \ {i}
         /\ links' = IF MakesLink(i) THEN left ELSE links
      \/ missed' = missed \cup {<<i, "nic">>} /\ UNCHANGED <<links, plugins>>
  BY DEF deleteNic, deleteContainerIface, DelegateInterfaceDelete, IsDelegated, left
<1>7. /\ \A j \in Conns \ {i} : /\ pc'[j] = pc[j]
                                /\ j \in held' <=> j \in held
                                /\ j \in own' <=> j \in own
                                /\ \A x \in {"nic", "ep"} : <<j, x>> \in missed' <=> <<j, x>> \in missed
      /\ pc'[i] = "delep"
      /\ links' \subseteq links /\ held' \subseteq held /\ own' \subseteq own
      /\ missed \subseteq missed'
      /\ missed' \subseteq Conns \X {"nic", "ep"}
  BY <1>1, <1>2, <1>6 DEF TypeOK, plugins
<1>8. TypeOK'
  <2>1. pc' \in [Conns -> {"off", "del", "delep"}]
    BY <1>1, <1>2 DEF TypeOK
  <2> QED BY <1>1, <1>2, <1>3, <1>5, <1>7, <2>1 DEF TypeOK, api
<1>9. Others(i)
  BY <1>1, <1>2, <1>5, <1>7, SameLinkRefl DEF Others, Other, api
<1>10. <<i, "nic">> \in missed' => Excused(i)'
  BY DEF Excused
<1>11. Excused(i) => Excused(i)'
  BY <1>2, <1>7 DEF Excused
<1>12. Conn(i)'
  <2>1. EpKept(i)' /\ Unfreed(i)' /\ Accounted(i)'
    BY <1>1, <1>2, <1>3, <1>4, <1>5, <1>7 DEF EpKept, Unfreed, Accounted, Conn, api
  <2>2. Held(i)'
    <3>1. Excused(i)' \/ i \notin held'
      <4>1. CASE IsDelegated(i) /\ held' = held \ {i}
        BY <4>1
      <4>2. CASE <<i, "nic">> \in missed'
        BY <1>10, <4>2
      <4>3. CASE conns[i].type = "ipvlan" /\ UNCHANGED plugins
        BY <1>1, <1>11, <4>3 DEF Held, Conn, plugins, IsDelegated, IsDelegationRequired
      <4> QED BY <1>6, <4>1, <4>2, <4>3
    <3>2. Excused(i)' \/ conns[i].overlap \/ i \notin own'
      <4> SUFFICES ASSUME i \in own', ~conns[i].overlap PROVE Excused(i)'
        OBVIOUS
      <4>1. /\ i \in own /\ IsDelegated(i) /\ conns[i].type # "ipvlan" /\ ~IsNative(conns[i])
            /\ \A f \in Families : ~Gives(i, f)
        BY <1>1, <1>7 DEF Held, Conn, IsDelegated, IsDelegationRequired
      <4>2. \A f \in Families : mem[i].addr[f] # "danm"
        <5>1. CASE ep[i].addr = Asked(i)
          BY <1>1, <1>4, <4>1, <5>1, AskedFacts
        <5>2. CASE ep[i].addr = Answered(i)
          BY <1>1, <1>4, <4>1, <5>2, AnsweredFacts
        <5> QED BY <1>4, <5>1, <5>2
      <4>3. {f \in Families : WasIpAllocatedByDanm(conns[i], mem[i].addr, f)} = {}
        BY <4>2 DEF WasIpAllocatedByDanm, InCidr
      <4>4. IpamOf(conns[i], {}) = "own"
        BY <4>1 DEF IpamOf
      <4>5. <<i, "nic">> \in missed'
        BY <1>6, <4>1, <4>3, <4>4
      <4> QED BY <1>10, <4>5
    <3> QED BY <1>1, <1>2, <1>3, <1>7, <3>1, <3>2 DEF Held, Conn
  <2>3. Links(i)'
    <3> SUFFICES ASSUME NEW l \in links', l.of = i
                 PROVE  /\ l.name \in {Name(i), Host(i), <<"dummy", i>>}
                        /\ l.dummy \/ Excused(i)' \/ (l.name = Host(i) /\ l.addr = NoAddress)
      BY <1>3 DEF Links, Found, Host, NoAddress
    <3>1. l \in links /\ l.name \in {Name(i), Host(i), <<"dummy", i>>}
          /\ (l.dummy \/ Excused(i) \/ Found(i, l))
      BY <1>1, <1>7 DEF Conn, Links
    <3>2. CASE Found(i, l) /\ l.name = Name(i)
      <4>1. CASE l \in left
        BY <1>4, <3>2, <4>1
      <4>2. CASE <<i, "nic">> \in missed'
        BY <1>10, <3>1, <4>2
      <4>3. CASE IsDelegated(i) /\ ~MakesLink(i)
        BY <1>1, <1>4, <3>1, <3>2, <4>3, NameFacts
           DEF Found, MakesLink, IsDpdk, IsDelegated, IsDelegationRequired
      <4> QED BY <1>6, <4>1, <4>2, <4>3
    <3>3. CASE Found(i, l) /\ l.name # Name(i)
      BY <3>1, <3>3 DEF Found
    <3> QED BY <1>11, <3>1, <3>2, <3>3
  <2>4. Owned(i)'
    BY <1>1, <1>2, <1>3, <1>7, <1>11 DEF Owned, Conn, api
  <2> QED BY <1>1, <1>2, <2>1, <2>2, <2>3, <2>4 DEF Conn
<1>13. OneDevice' /\ OneName' /\ Pools' /\ FreesOwnOnly'
  BY <1>1, <1>2, <1>3, <1>5, <1>7 DEF OneDevice, OneName, Pools, FreesOwnOnly, TypeOK
<1> QED BY <1>1, <1>8, <1>9, <1>12, <1>13, ConnStep

\* deleteInterface deletes the DanmEp.
LEMMA deleteInterfaceKeeps ==
    ASSUME IInv, NEW i \in Conns, deleteInterface(i)
    PROVE  IInv'
<1>1. /\ phase = "del" /\ i \in Nat /\ TypeOK /\ OneDevice /\ OneName /\ Pools
      /\ FreesOwnOnly /\ Conn(i) /\ pc[i] = "delep"
  BY AtWork DEF deleteInterface
<1>2. /\ UNCHANGED <<pod, phase, next, devices, mem, kernel, plugins, dels, lost, abandoned, unread>>
      /\ pc' = [pc EXCEPT ![i] = "off"]
      /\ \/ DeleteDanmEp(i, mem[i]) /\ UNCHANGED <<faults, missed>>
         \/ Fault /\ missed' = missed \cup {<<i, "ep">>} /\ DeleteFails(i, mem[i])
  BY DEF deleteInterface, Goto
<1>3. /\ conns' = conns /\ Conns' = Conns /\ Name(i)' = Name(i) /\ Iface' = Iface
      /\ LinkNames' = LinkNames
      /\ \A f : Gives(i, f)' = Gives(i, f)
      /\ Asked(i)' = Asked(i) /\ Answered(i)' = Answered(i) /\ IsDelegated(i)' = IsDelegated(i)
      /\ SharesName(i)' = SharesName(i)
  BY <1>2, StaticKept
<1>4. /\ mem[i] = ep[i] /\ ep[i] # NoEp /\ ep[i].addr \in {Asked(i), Answered(i)}
  BY <1>1 DEF Conn, EpKept
<1>5. faults' \in 0 .. MaxFaults /\ (faults' = 0 => faults = 0)
  BY <1>1, <1>2, FaultFacts
<1>6. /\ ep' \in [Conns -> Iface] /\ reserved' \cup foreign' \subseteq Conns \X Families
      /\ \A j \in Conns \ {i} : /\ ep'[j] = ep[j]
                                /\ \A f \in Families : <<j, f>> \in reserved' <=> <<j, f>> \in reserved
      /\ \A f \in Families : <<i, f>> \in reserved' => <<i, f>> \in reserved
      /\ \A x \in foreign' : x \in foreign
                             \/ \E f \in Families : /\ Gives(i, f) \/ conns[i].overlap
                                                    /\ <<i, f>> \notin reserved
      /\ \/ /\ ep'[i] = NoEp /\ missed' = missed
            /\ \A f \in Families : Gives(i, f) /\ f \in conns[i].cidr => <<i, f>> \notin reserved'
         \/ ep' = ep /\ faults' # 0 /\ missed' = missed \cup {<<i, "ep">>}
  <2>1. Fault => faults' # 0
    BY <1>1 DEF Fault, TypeOK
  <2> QED BY <1>1, <1>2, <1>4, <2>1, DeleteFacts
<1>7. /\ \A j \in Conns \ {i} : /\ pc'[j] = pc[j]
                                /\ \A x \in {"nic", "ep"} : <<j, x>> \in missed' <=> <<j, x>> \in missed
      /\ pc'[i] = "off" /\ missed \subseteq missed' /\ missed' \subseteq Conns \X {"nic", "ep"}
      /\ <<i, "nic">> \in missed' <=> <<i, "nic">> \in missed
  BY <1>1, <1>2 DEF TypeOK
<1>8. TypeOK'
  <2>1. pc' \in [Conns -> {"off", "del", "delep"}]
    BY <1>1, <1>2 DEF TypeOK
  <2> QED BY <1>1, <1>2, <1>3, <1>5, <1>6, <1>7, <2>1 DEF TypeOK, kernel, plugins
<1>9. Others(i)
  BY <1>1, <1>2, <1>5, <1>6, <1>7, SameLinkRefl DEF Others, Other, kernel, plugins
<1>10. Conn(i)'
  <2>1. EpKept(i)'
    BY <1>1, <1>2, <1>3, <1>6, <1>7 DEF EpKept, Conn
  <2>2. Unfreed(i)'
    BY <1>6 DEF Unfreed
  <2>3. Accounted(i)'
    BY <1>1, <1>2, <1>3, <1>6, <1>7 DEF Accounted, Conn
  <2>4. Held(i)'
    BY <1>1, <1>2, <1>3, <1>7 DEF Held, Cleanable, Excused, Conn, kernel, plugins
  <2>5. Links(i)'
    BY <1>1, <1>2, <1>3, <1>7 DEF Links, Found, Excused, Conn, kernel, Host, NoAddress
  <2>6. Owned(i)'
    <3>1. Name(i) # Host(i) /\ \A f \in Families : NoAddress[f] # "danm"
      BY <1>1, NameFacts DEF NoAddress
    <3> SUFFICES ASSUME NEW l \in links, NEW f \in Families, l.of = i, l.addr[f] = "danm"
                 PROVE  Excused(i) \/ l.dummy
      BY <1>2, <1>3, <1>7 DEF Owned, Excused, kernel
    <3> QED BY <1>1, <3>1 DEF Links, Found, Conn
  <2> QED BY <1>1, <1>2, <2>1, <2>2, <2>3, <2>4, <2>5, <2>6 DEF Conn
<1>11. FreesOwnOnly'
  <2>1. CASE foreign' \subseteq foreign
    BY <1>1, <1>3, <1>5, <2>1 DEF FreesOwnOnly, TypeOK
  <2>2. CASE conns[i].overlap
    BY <1>3, <2>2 DEF FreesOwnOnly
  <2>3. CASE \E f \in Families : Gives(i, f) /\ <<i, f>> \notin reserved
    BY <1>1, <1>4, <1>5, <2>3 DEF FreesOwnOnly, Unfreed, Conn, TypeOK
  <2> QED BY <1>6, <2>1, <2>2, <2>3
<1>12. OneDevice' /\ OneName' /\ Pools'
  BY <1>1, <1>2, <1>3, <1>5 DEF OneDevice, OneName, Pools, plugins, kernel, TypeOK
<1> QED BY <1>1, <1>8, <1>9, <1>10, <1>11, <1>12, ConnStep
-----------------------------------------------------------------------------
(* The steps of the CNI process and of Kubelet                               *)

\* What a connection keeps when no goroutine is set up any more.
LEMMA PhaseKeeps ==
    ASSUME TypeOK, NEW i \in Conns, Conn(i),
           UNCHANGED <<pod, ep, reserved, plugins, host, abandoned>>,
           lost \subseteq lost', missed \subseteq missed', links' \subseteq links,
           faults' = 0 => faults = 0,
           phase' # "setup", pc'[i] # "delep", EpKept(i)',
           pc[i] = "create" /\ (\E f \in Families : <<i, f>> \in reserved) => i \in lost',
           Cleanable(i) => Cleanable(i)' \/ Excused(i)'
    PROVE  Conn(i)'
<1>1. /\ conns' = conns /\ Name(i)' = Name(i)
      /\ \A f : Gives(i, f)' = Gives(i, f)
      /\ IsDelegated(i)' = IsDelegated(i) /\ SharesName(i)' = SharesName(i)
  BY StaticKept
<1>2. Excused(i) => Excused(i)'
  BY DEF Excused
<1>3. Unfreed(i)' /\ Accounted(i)'
  BY <1>1 DEF Unfreed, Accounted, Conn
<1>4. Held(i)'
  BY <1>1, <1>2 DEF Held, Conn, plugins
<1>5. Links(i)'
  <2> SUFFICES ASSUME NEW l \in links', l.of = i
               PROVE  /\ l.name \in {Name(i), Host(i), <<"dummy", i>>}
                      /\ l.dummy \/ Excused(i)' \/ Found(i, l)'
    BY <1>1 DEF Links, Host
  <2>1. /\ l.name \in {Name(i), Host(i), <<"dummy", i>>}
        /\ l.dummy \/ Excused(i) \/ Found(i, l)
    BY DEF Conn, Links
  <2>2. Found(i, l) => Found(i, l)'
    BY <1>1 DEF Found, Host, NoAddress
  <2> QED BY <1>2, <2>1, <2>2
<1>6. Owned(i)'
  BY <1>1, <1>2 DEF Owned, Conn
<1> QED BY <1>3, <1>4, <1>5, <1>6 DEF Conn

\* The process panics.
LEMMA PanicKeeps ==
    ASSUME IInv, Panic, UNCHANGED faults \/ Fault, phase \in {"setup", "del"}, PanicsHaveCause'
    PROVE  IInv'
<1>1. /\ UNCHANGED <<pod, next, devices, mem, kernel, plugins, api, dels, abandoned, unread, missed, foreign>>
      /\ phase' = "panicked" /\ pc' = [i \in Conns |-> "off"]
      /\ lost' = lost \cup {i \in Conns : pc[i] = "create" /\ \E f \in Families : <<i, f>> \in reserved}
  BY DEF Panic
<1>2. /\ conns' = conns /\ Conns' = Conns /\ Iface' = Iface /\ LinkNames' = LinkNames
      /\ \A i : Name(i)' = Name(i) /\ Asked(i)' = Asked(i) /\ Answered(i)' = Answered(i)
  BY <1>1, StaticKept
<1>3. TypeOK /\ faults' \in 0 .. MaxFaults /\ (faults' = 0 => faults = 0)
  BY FaultFacts DEF IInv
<1>4. TypeOK'
  <2>1. lost' \subseteq Conns
    BY <1>1, <1>3 DEF TypeOK
  <2> QED BY <1>1, <1>2, <1>3, <2>1 DEF TypeOK, api, kernel, plugins
<1>5. ASSUME NEW i \in Conns PROVE Conn(i)'
  <2>1. Conn(i)
    BY DEF IInv
  <2>2. EpKept(i)'
    BY <1>1, <1>2, <2>1 DEF EpKept, Conn, api
  <2>3. Cleanable(i) => Cleanable(i)'
    BY <1>1 DEF Cleanable, api
  <2>4. pc[i] = "create" /\ (\E f \in Families : <<i, f>> \in reserved) => i \in lost'
    BY <1>1
  <2> QED BY <1>1, <1>3, <2>1, <2>2, <2>3, <2>4, PhaseKeeps DEF api, kernel
<1>6. OneDevice' /\ OneName' /\ Pools' /\ FreesOwnOnly' /\ UpPodsHaveLinks' /\ AddressesAgree'
  BY <1>1, <1>2, <1>3 DEF IInv, OneDevice, OneName, Pools, FreesOwnOnly, UpPodsHaveLinks,
                          AddressesAgree, kernel, TypeOK
<1> QED BY <1>2, <1>4, <1>5, <1>6 DEF IInv

\* Why the process panics.
LEMMA PanicsKeep ==
    ASSUME IInv,
           \/ popDevicePanics
           \/ \E i \in Conns : \/ RefreshPanics(i) \/ AddIpToResultPanics(i) \/ ParsePanics(i)
                               \/ DeleteDanmEpPanics(i)
    PROVE  IInv'
<1>0. TypeOK
  BY DEF IInv
<1>1. Panic /\ pod' = pod /\ (UNCHANGED faults \/ Fault)
  BY DEF popDevicePanics, RefreshPanics, AddIpToResultPanics, ParsePanics, DeleteDanmEpPanics, Panic
<1>2. conns' = conns /\ Conns' = Conns
  BY <1>1, StaticKept
<1>3. phase \in {"setup", "del"}
  BY <1>0, Phases DEF popDevicePanics, RefreshPanics, AddIpToResultPanics, ParsePanics,
                      DeleteDanmEpPanics, Running
<1>4. PanicsHaveCause'
  <2>1. CASE popDevicePanics
    <3>1. /\ next \in Conns /\ next \in Nat /\ IsDeviceNeeded(conns[next])
          /\ devices[conns[next].pool] = Nil /\ faults' = faults
          /\ conns[next].pool \in DOMAIN devices
      <4>1. next \in 1 .. Len(conns) + 1 /\ DOMAIN devices = DOMAIN PodDevices
        BY <1>0 DEF TypeOK
      <4>2. next \in Conns /\ next \in Nat
        BY <1>0, <2>1, <4>1, PodFacts DEF popDevicePanics
      <4>3. IsConnection(conns[next])
        BY <1>0, <4>2, PodFacts
      <4> QED BY <2>1, <4>1, <4>2, <4>3 DEF popDevicePanics, IsConnection
    <3>2. \/ faults > 0
          \/ /\ PodDevices[conns[next].pool] = Nil
             /\ \E j \in 1 .. next - 1 : IsDeviceNeeded(conns[j]) /\ conns[j].pool = conns[next].pool
      BY <3>1 DEF IInv, Pools
    <3>3. ASSUME NEW j \in 1 .. next - 1 PROVE j \in Conns /\ j # next
      BY <1>0, <3>1, PodFacts
    <3> QED BY <1>2, <3>1, <3>2, <3>3 DEF PanicsHaveCause
  <2>2. CASE Fault
    BY <1>0, <2>2 DEF PanicsHaveCause, Fault, TypeOK
  <2>3. ASSUME NEW i \in Conns, NEW f \in Families, pc[i] \in {"plug", "post"},
               mem[i].addr[f] = "dynamic"
        PROVE  PanicsHaveCause'
    <3>1. mem[i].addr \in {Asked(i), Answered(i)}
      BY <2>3, AtWork DEF Running, Setup, Stage
    <3>2. ~Needs(i) /\ Asks(conns[i]) # {}
      <4>1. CASE mem[i].addr = Asked(i)
        BY <1>0, <2>3, <4>1, AskedFacts
      <4>2. CASE mem[i].addr = Answered(i)
        BY <1>0, <2>3, <4>2, AnsweredFacts
      <4> QED BY <3>1, <4>1, <4>2
    <3> QED BY <1>2, <3>2 DEF PanicsHaveCause, Needs
  <2>4. ASSUME NEW i \in Conns, AddIpToResultPanics(i) PROVE PanicsHaveCause'
    BY <2>3, <2>4 DEF AddIpToResultPanics
  <2>5. ASSUME NEW i \in Conns, ParsePanics(i) PROVE PanicsHaveCause'
    <3>1. conns[i].proutes \subseteq Families /\ 6 \in Families
      BY <1>0, PodFacts DEF IsConnection, Families
    <3> QED BY <2>3, <2>5, <3>1 DEF ParsePanics, IsUnparsable, IsSourceUnparsable
  <2> QED BY <2>1, <2>2, <2>4, <2>5 DEF RefreshPanics, DeleteDanmEpPanics
<1> QED BY <1>1, <1>3, <1>4, PanicKeeps

\* The ADD is over; when every connection is set up, the Pod is up.
LEMMA AddReturnsKeeps ==
    ASSUME IInv, AddReturns
    PROVE  IInv'
<1>1. /\ UNCHANGED <<pod, next, devices, mem, kernel, plugins, api, faults, dels, history>>
      /\ phase = "setup" /\ pc' = [i \in Conns |-> "off"]
      /\ phase' \in {"up", "list"}
      /\ phase' = "up" => \A i \in Conns : pc[i] = "ok"
      /\ \A i \in Conns : pc[i] \in {"ok", "err"}
  BY DEF AddReturns, AllResults
<1>2. /\ conns' = conns /\ Conns' = Conns /\ Iface' = Iface /\ LinkNames' = LinkNames
      /\ \A i : /\ Name(i)' = Name(i) /\ Asked(i)' = Asked(i) /\ Answered(i)' = Answered(i)
                /\ SharesName(i)' = SharesName(i)
  BY <1>1, StaticKept
<1>3. TypeOK
  BY DEF IInv
<1>4. TypeOK'
  BY <1>1, <1>2, <1>3 DEF TypeOK, api, kernel, plugins, history
<1>5. ASSUME NEW i \in Conns PROVE Conn(i)'
  <2>1. Conn(i)
    BY DEF IInv
  <2>2. EpKept(i)'
    BY <1>1, <1>2, <2>1 DEF EpKept, Conn, api
  <2>3. Cleanable(i) => Cleanable(i)'
    BY <1>1 DEF Cleanable, api
  <2> QED BY <1>1, <1>3, <2>1, <2>2, <2>3, PhaseKeeps DEF api, kernel, history
<1>6. OneDevice' /\ OneName' /\ Pools' /\ FreesOwnOnly' /\ PanicsHaveCause'
  BY <1>1, <1>2 DEF IInv, OneDevice, OneName, Pools, FreesOwnOnly, PanicsHaveCause, kernel, history
<1>7. ASSUME phase' = "up", NEW i \in Conns
      PROVE  /\ Setup(i) /\ pc[i] = "ok" /\ ep[i].name = Name(i) /\ ep[i].device = mem[i].device
             /\ IsDelegated(i) => i \in held
             /\ mem[i].device # NoDevice => i \in held
  <2>1. Setup(i) /\ pc[i] = "ok"
    BY <1>1, <1>7 DEF IInv, Conn
  <2> QED BY <2>1 DEF Setup, Stage, IsDelegated, IsDelegationRequired
<1>8. UpPodsHaveLinks'
  <2> SUFFICES ASSUME phase' = "up"
               PROVE  /\ \A i \in Conns : WantsLink(i) =>
                           Cardinality({l \in links : l.name = ep[i].name /\ l.of = i /\ l.up}) = 1
                      /\ \A i, j \in Conns :
                           ep[i].device = ep[j].device /\ ep[i].device # NoDevice => i = j
    BY <1>1, <1>2 DEF UpPodsHaveLinks, WantsLink, IsDpdk, api, kernel
  <2>1. ASSUME NEW i \in Conns, WantsLink(i)
        PROVE  Cardinality({l \in links : l.name = ep[i].name /\ l.of = i /\ l.up}) = 1
    <3>1. PICK l \in links : l.name = Name(i) /\ l.of = i /\ l.up
      BY <1>7, <2>1 DEF Setup, Connected
    <3>2. \A m \in links : m.name = Name(i) => m = l
      BY <3>1 DEF IInv, OneName
    <3>3. {m \in links : m.name = ep[i].name /\ m.of = i /\ m.up} = {l}
      BY <1>7, <3>1, <3>2
    <3> QED BY <3>3, FS_Singleton
  <2>2. ASSUME NEW i \in Conns, NEW j \in Conns, ep[i].device = ep[j].device, ep[i].device # NoDevice
        PROVE  i = j
    <3>1. OneDevice /\ i \in held /\ j \in held /\ mem[i].device = mem[j].device
          /\ mem[i].device # NoDevice
      BY <1>7, <2>2 DEF IInv
    <3> QED BY <1>1, <3>1 DEF OneDevice
  <2> QED BY <2>1, <2>2
<1>9. AddressesAgree'
  <2> SUFFICES ASSUME phase' = "up", NEW l \in links, NEW f \in Families,
                      l.name = ep[l.of].name, ~SharesName(l.of)
               PROVE  /\ ep[l.of].addr[f] \in {"danm", "own"} => l.addr[f] = ep[l.of].addr[f]
                      /\ l.addr[f] \in {"danm", "own"} =>
                            \/ l.addr[f] = ep[l.of].addr[f]
                            \/ l.of \in unread \/ conns[l.of].req[f] = "none"
    BY <1>1, <1>2 DEF AddressesAgree, api, kernel, history
  <2>1. l.of \in Conns
    BY <1>3 DEF TypeOK
  <2>2. Setup(l.of) /\ pc[l.of] = "ok" /\ ep[l.of].name = Name(l.of)
    BY <1>7, <2>1
  <2>3. Tells(l.of, mem[l.of].addr, l)
    BY <2>2 DEF Setup, MemTells
  <2>4. \/ ep[l.of].addr[f] = mem[l.of].addr[f]
        \/ ep[l.of].addr[f] = "none" /\ conns[l.of].req[f] = "none"
    BY <2>2 DEF Setup, EpTells
  <2> QED BY <2>3, <2>4 DEF Tells
<1> QED BY <1>2, <1>4, <1>5, <1>6, <1>8, <1>9 DEF IInv

\* DEL, until its goroutines have been started.
LEMMA DelBeginsKeeps ==
    ASSUME IInv, DeleteInterfaces \/ FindByCid
    PROVE  IInv'
<1>1. /\ UNCHANGED <<pod, next, devices, kernel, plugins, api, lost, abandoned, unread, foreign>>
      /\ pc' \in [Conns -> {"off", "del"}] /\ (phase' # "del" => pc' \in [Conns -> {"off"}])
      /\ \A i \in Conns : pc[i] = "off"
      /\ mem' = mem \/ mem' = ep
      /\ missed \subseteq missed' /\ missed' \subseteq Conns \X {"nic", "ep"}
      /\ UNCHANGED faults \/ Fault
      /\ \/ phase' = "list" /\ dels' = dels + 1 /\ dels < MaxDels
         \/ /\ phase = "list" /\ phase' = "del" /\ mem' = ep /\ dels' = dels
            /\ pc' = [i \in Conns |-> IF ep[i] # NoEp THEN "del" ELSE "off"]
         \/ phase = "list" /\ phase' = "returned" /\ dels' = dels /\ missed' = Conns \X {"nic", "ep"}
  <2>1. TypeOK
    BY DEF IInv
  <2>2. CASE DeleteInterfaces
    <3>1. pc \in [Conns -> {"off"}]
      BY <2>1, <2>2 DEF DeleteInterfaces, TypeOK
    <3> QED BY <2>1, <2>2, <3>1 DEF DeleteInterfaces, TypeOK, history
  <2>3. CASE FindByCid
    <3>1. pc \in [Conns -> {"off"}]
      BY <2>1, <2>3 DEF FindByCid, TypeOK
    <3> QED BY <2>1, <2>3, <3>1 DEF FindByCid, TypeOK
  <2> QED BY <2>2, <2>3
<1>2. /\ conns' = conns /\ Conns' = Conns /\ Iface' = Iface /\ LinkNames' = LinkNames
      /\ \A i : Name(i)' = Name(i) /\ Asked(i)' = Asked(i) /\ Answered(i)' = Answered(i)
  BY <1>1, StaticKept
<1>3. TypeOK /\ faults' \in 0 .. MaxFaults /\ (faults' = 0 => faults = 0)
  BY <1>1, FaultFacts DEF IInv
<1>4. TypeOK'
  <2>1. dels' \in 0 .. MaxDels
    BY <1>1, <1>3, NicAssumption DEF TypeOK
  <2>2. mem' \in [Conns -> Iface]
    BY <1>1, <1>3 DEF TypeOK
  <2>3. pc' \in [Conns -> CASE phase' = "setup" -> Running \cup {"off", "ok", "err"}
                            [] phase' = "del" -> {"off", "del", "delep"}
                            [] OTHER -> {"off"}]
    BY <1>1
  <2> QED BY <1>1, <1>2, <1>3, <2>1, <2>2, <2>3 DEF TypeOK, api, kernel, plugins
<1>5. ASSUME NEW i \in Conns PROVE Conn(i)'
  <2>1. Conn(i)
    BY DEF IInv
  <2>2. EpKept(i)'
    BY <1>1, <1>2, <2>1 DEF EpKept, Conn, api
  <2>3. Cleanable(i) => Cleanable(i)' \/ Excused(i)'
    BY <1>1 DEF Cleanable, Excused, api
  <2> QED BY <1>1, <1>3, <2>1, <2>2, <2>3, PhaseKeeps DEF api, kernel
<1>6. OneDevice' /\ OneName' /\ Pools' /\ FreesOwnOnly' /\ UpPodsHaveLinks' /\ AddressesAgree'
      /\ PanicsHaveCause'
  BY <1>1, <1>2, <1>3 DEF IInv, OneDevice, OneName, Pools, FreesOwnOnly, UpPodsHaveLinks,
                          AddressesAgree, PanicsHaveCause, kernel, TypeOK
<1> QED BY <1>2, <1>4, <1>5, <1>6 DEF IInv

\* The end of DEL, and of the Pod.
LEMMA DelEndsKeeps ==
    ASSUME IInv, DelReturns \/ RemoveNetns
    PROVE  IInv'
<1>1. /\ UNCHANGED <<pod, next, devices, pc, mem, host, plugins, api, faults, dels, history>>
      /\ links' \subseteq links
      /\ \A i \in Conns : pc[i] = "off"
      /\ pc \in [Conns -> {"off"}]
      /\ \/ phase = "del" /\ phase' = "returned"
         \/ phase = "returned" /\ phase' = "gone"
  <2>1. TypeOK
    BY DEF IInv
  <2>2. CASE DelReturns
    BY <2>1, <2>2 DEF DelReturns, TypeOK, kernel
  <2>3. CASE RemoveNetns
    <3>1. pc \in [Conns -> {"off"}]
      BY <2>1, <2>3 DEF RemoveNetns, TypeOK
    <3> QED BY <2>3, <3>1 DEF RemoveNetns
  <2> QED BY <2>2, <2>3
<1>2. /\ conns' = conns /\ Conns' = Conns /\ Iface' = Iface /\ LinkNames' = LinkNames
      /\ \A i : Name(i)' = Name(i) /\ Asked(i)' = Asked(i) /\ Answered(i)' = Answered(i)
  BY <1>1, StaticKept
<1>3. TypeOK
  BY DEF IInv
<1>4. TypeOK'
  BY <1>1, <1>2, <1>3 DEF TypeOK, api, plugins, history
<1>5. ASSUME NEW i \in Conns PROVE Conn(i)'
  <2>1. Conn(i)
    BY DEF IInv
  <2>2. EpKept(i)'
    BY <1>1, <1>2, <2>1 DEF EpKept, Conn, api, history
  <2>3. ~Cleanable(i)
    BY <1>1 DEF Cleanable
  <2> QED BY <1>1, <1>3, <2>1, <2>2, <2>3, PhaseKeeps DEF api, history
<1>6. OneDevice' /\ OneName' /\ Pools' /\ FreesOwnOnly' /\ UpPodsHaveLinks' /\ AddressesAgree'
      /\ PanicsHaveCause'
  BY <1>1, <1>2, <1>3 DEF IInv, OneDevice, OneName, Pools, FreesOwnOnly, UpPodsHaveLinks,
                          AddressesAgree, PanicsHaveCause, history, TypeOK
<1> QED BY <1>2, <1>4, <1>5, <1>6 DEF IInv
-----------------------------------------------------------------------------
(* The theorems                                                              *)

\* Initially there is nothing.
LEMMA InitHolds ==
    ASSUME Init
    PROVE  IInv
<1>1. /\ Len(conns) \in Nat /\ Conns = 1 .. Len(conns)
  <2>1. Len(conns) \in Nat /\ conns = [i \in 1 .. Len(conns) |-> conns[i]]
    BY NicAssumption DEF Init, conns
  <2> QED BY <2>1 DEF Conns
<1>2. NoEp \in Iface /\ NoEp.device = NoDevice
  <2>1. NoAddress \in [Families -> Addresses]
    BY DEF NoAddress, Addresses
  <2> QED BY <2>1 DEF NoEp, Iface
<1>3. TypeOK
  <2>1. devices \in [DOMAIN PodDevices -> {<<"unread">>, Nil} \cup Seq(Device)]
    BY DEF Init
  <2>2. next \in 1 .. Len(conns) + 1
    BY <1>1 DEF Init
  <2>3. /\ faults \in 0 .. MaxFaults /\ dels \in 0 .. MaxDels
    BY NicAssumption DEF Init
  <2>4. {mem, ep} \subseteq [Conns -> Iface]
    BY <1>2 DEF Init
  <2>5. pc \in [Conns -> Running \cup {"off", "ok", "err"}]
    BY DEF Init, Running
  <2> QED BY <2>1, <2>2, <2>3, <2>4, <2>5 DEF Init, TypeOK
<1>4. ASSUME NEW i \in Conns PROVE Conn(i)
  <2>1. i >= 1
    BY <1>1
  <2>2. Bare(i)
    BY DEF Init, Bare
  <2>3. Setup(i)
    BY <1>2, <2>1, <2>2 DEF Init, Setup, Stage, Configured, Connected, EpTells, MemTells
  <2>4. EpKept(i) /\ Unfreed(i) /\ Accounted(i) /\ Held(i) /\ Links(i) /\ Owned(i)
    BY DEF Init, EpKept, Unfreed, Accounted, Held, Links, Owned
  <2> QED BY <2>3, <2>4 DEF Conn
<1>5. Pools
  <2>1. <<"unread">>[1] = "unread" /\ Nil[1] = "nil"
    BY DEF Nil
  <2> QED BY <2>1 DEF Init, Pools
<1>6. OneDevice /\ OneName /\ UpPodsHaveLinks /\ AddressesAgree /\ FreesOwnOnly /\ PanicsHaveCause
  BY DEF Init, OneDevice, OneName, UpPodsHaveLinks, AddressesAgree, FreesOwnOnly, PanicsHaveCause
<1> QED BY <1>3, <1>4, <1>5, <1>6 DEF IInv

\* A step that changes nothing.
LEMMA StutterKeeps ==
    ASSUME IInv, UNCHANGED vars
    PROVE  IInv'
<1>1. pod' = pod
  BY DEF vars
<1>2. /\ conns' = conns /\ Conns' = Conns /\ Iface' = Iface /\ LinkNames' = LinkNames
      /\ \A i : /\ Name(i)' = Name(i) /\ Asked(i)' = Asked(i) /\ Answered(i)' = Answered(i)
                /\ IsDelegated(i)' = IsDelegated(i) /\ SharesName(i)' = SharesName(i)
                /\ \A f : Gives(i, f)' = Gives(i, f)
  BY <1>1, StaticKept
<1>3. TypeOK'
  BY <1>2 DEF IInv, TypeOK, vars, process, kernel, plugins, api, history
<1>4. ASSUME NEW i \in Conns PROVE Conn(i)'
  <2>1. Conn(i)
    BY DEF IInv
  <2>2. Setup(i) => Setup(i)'
    <3>1. WantsLink(i)' = WantsLink(i) /\ IsDpdk(i)' = IsDpdk(i)
      BY <1>2 DEF WantsLink, IsDpdk, vars, process
    <3>2. \A a, l : Tells(i, a, l)' <=> Tells(i, a, l)
      BY <1>2 DEF Tells, vars, history
    <3>3. Stage(i) => Stage(i)'
      BY <1>2, <3>1 DEF Stage, Bare, NoAddress, vars, process, kernel, plugins, api, history
    <3>4. Configured(i) => Configured(i)'
      BY <1>2, <3>1, <3>2 DEF Configured, Link, Host, vars, process, kernel, plugins, api, history
    <3>5. Connected(i) => Connected(i)'
      BY <1>2, <3>1 DEF Connected, vars, process, kernel
    <3>6. EpTells(i) => EpTells(i)'
      BY <1>2 DEF EpTells, vars, process, api
    <3>7. MemTells(i) => MemTells(i)'
      BY <1>2, <3>2 DEF MemTells, vars, process, kernel
    <3> QED BY <3>3, <3>4, <3>5, <3>6, <3>7 DEF Setup
  <2>3. EpKept(i)' /\ Unfreed(i)' /\ Accounted(i)'
    BY <1>2, <2>1 DEF Conn, EpKept, Unfreed, Accounted, vars, process, api, history
  <2>4. Held(i)' /\ Links(i)' /\ Owned(i)'
    BY <1>2, <2>1 DEF Conn, Held, Links, Owned, Found, Excused, Cleanable, Host, NoAddress,
                      vars, process, kernel, plugins, api, history
  <2> QED BY <2>1, <2>2, <2>3, <2>4 DEF Conn, vars, process
<1>5. OneDevice' /\ OneName' /\ Pools' /\ FreesOwnOnly' /\ PanicsHaveCause'
  BY <1>2 DEF IInv, OneDevice, OneName, Pools, FreesOwnOnly, PanicsHaveCause,
              vars, process, kernel, plugins, history
<1>6. UpPodsHaveLinks' /\ AddressesAgree'
  BY <1>2 DEF IInv, UpPodsHaveLinks, AddressesAgree, WantsLink, IsDpdk,
              vars, process, kernel, api, history
<1> QED BY <1>2, <1>3, <1>4, <1>5, <1>6 DEF IInv

\* Every step keeps the invariant.
LEMMA NextKeeps ==
    ASSUME IInv, [Next]_vars
    PROVE  IInv'
<1>1. CASE createIface
  <2>1. next \in Conns
    BY <1>1, PodFacts DEF createIface, IInv, TypeOK
  <2> QED BY <1>1, <2>1, createIfaceKeeps
<1>2. CASE popDevicePanics
  BY <1>2, PanicsKeep
<1>3. CASE AddReturns
  BY <1>3, AddReturnsKeeps
<1>4. ASSUME NEW i \in Conns, createNic(i)
      PROVE  IInv'
  BY <1>4, ReserveIpsKeeps, CreateDanmEpKeeps, createContainerIfaceKeeps, configureLinkKeeps,
     NoInterfaceKeeps, DelegateInterfaceSetupKeeps, UpdateDanmEpKeeps, PostProcessInterfaceKeeps,
     SetupFailsKeeps, PanicsKeep DEF createNic
<1>5. ASSUME NEW i \in Conns, DelNic(i)
      PROVE  IInv'
  BY <1>5, NetworkMissingKeeps, deleteNicKeeps, deleteInterfaceKeeps, PanicsKeep DEF DelNic
<1>6. CASE DeleteInterfaces \/ FindByCid
  BY <1>6, DelBeginsKeeps
<1>7. CASE DelReturns \/ RemoveNetns
  BY <1>7, DelEndsKeeps
<1>8. CASE UNCHANGED vars
  BY <1>8, StutterKeeps
<1> QED BY <1>1, <1>2, <1>3, <1>4, <1>5, <1>6, <1>7, <1>8 DEF Next

\* The inductive invariant, of every behaviour of the goroutines of one Pod.
THEOREM IInvHolds == Spec => []IInv
<1>1. Init => IInv
  BY InitHolds
<1>2. IInv /\ [Next]_vars => IInv'
  BY NextKeeps
<1> QED BY <1>1, <1>2, PTL DEF Spec

\* The types, and no goroutine outlives the CNI process it was started in.
THEOREM TypeCorrect == Spec => []TypeOK
<1>1. IInv => TypeOK
  BY DEF IInv
<1> QED BY <1>1, IInvHolds, PTL

\* When CreateInterfaces reports success, every connection has exactly one interface of its
\* own under the name its DanmEp tells, and no device serves two connections.
THEOREM UpPodsHaveLinksAlways == Spec => []UpPodsHaveLinks
<1>1. IInv => UpPodsHaveLinks
  BY DEF IInv
<1> QED BY <1>1, IInvHolds, PTL

\* The DanmEps of a Pod that is up tell the addresses of its interfaces, whether DANM or a
\* plugin has assigned them.
THEOREM AddressesAgreeAlways == Spec => []AddressesAgree
<1>1. IInv => AddressesAgree
  BY DEF IInv
<1> QED BY <1>1, IInvHolds, PTL

\* An address DANM has freed is on no interface that leads to the network, with the exceptions
\* the property names.
THEOREM AddressesOwnedAlways == Spec => []AddressesOwned
<1>1. ASSUME IInv PROVE AddressesOwned
  <2>1. \A l \in links : l.of \in Conns
    BY <1>1 DEF IInv, TypeOK
  <2> QED BY <1>1, <2>1 DEF IInv, Conn, Owned, AddressesOwned, Excused
<1> QED BY <1>1, IInvHolds, PTL

\* A Pod that is gone leaves nothing behind but what a failed call explains.
THEOREM NothingLeftAlways == Spec => []NothingLeft
<1>1. ASSUME IInv PROVE NothingLeft
  <2> SUFFICES ASSUME phase = "gone", NEW i \in Conns
               PROVE  /\ ep[i] # NoEp => <<i, "ep">> \in missed
                      /\ (\E f \in Families : <<i, f>> \in reserved) => i \in lost \/ <<i, "ep">> \in missed
                      /\ i \in held \cup host => i \in abandoned \/ <<i, "nic">> \in missed
                      /\ i \in own => i \in abandoned \/ <<i, "nic">> \in missed \/ conns[i].overlap
    BY DEF NothingLeft
  <2>1. Conn(i) /\ pc[i] = "off"
    BY <1>1, Phases DEF IInv
  <2>2. ep[i] # NoEp => <<i, "ep">> \in missed
    BY <2>1 DEF Conn, EpKept
  <2>3. (\E f \in Families : <<i, f>> \in reserved) => i \in lost \/ <<i, "ep">> \in missed
    BY <2>1, <2>2 DEF Conn, Accounted
  <2>4. ~Cleanable(i)
    BY <2>1 DEF Cleanable
  <2> QED BY <2>1, <2>2, <2>3, <2>4 DEF Conn, Held, Excused
<1> QED BY <1>1, IInvHolds, PTL

\* Without a failed call DeleteDanmEp frees only addresses DANM has reserved, unless a
\* plugin's own IPAM hands out addresses of the network's CIDR.
THEOREM FreesOwnOnlyAlways == Spec => []FreesOwnOnly
<1>1. IInv => FreesOwnOnly
  BY DEF IInv
<1> QED BY <1>1, IInvHolds, PTL

\* Without a failed call the process panics only for the two reasons the property names.
THEOREM PanicsHaveCauseAlways == Spec => []PanicsHaveCause
<1>1. IInv => PanicsHaveCause
  BY DEF IInv
<1> QED BY <1>1, IInvHolds, PTL

=============================================================================
