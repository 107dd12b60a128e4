----------------------------- MODULE CniProofs -----------------------------
(***************************************************************************)
(* Proofs about module Cni, for any number of CNI processes, containers,     *)
(* interfaces, addresses, failures and crashes: the address of every DanmEp  *)
(* is reserved, no address leaks without a failure, and a Pod that is up     *)
(* keeps its DanmEps and their addresses.                                    *)
(***************************************************************************)
EXTENDS Cni, TLAPS

-----------------------------------------------------------------------------
\* The inductive invariant.

\* Goroutines run only while their process is at a place where it waits for them, and
\* an ADD has nothing to delete before cleanOutdatedAllocations has started.
Stages ==
    \A p \in Procs :
        /\ proc[p].pc # "idle" => proc[p].cid \in Cids
        /\ proc[p].pc \in {"list", "clean", "cleaning", "wait"} => proc[p].op = "ADD"
        /\ proc[p].pc \in {"idle", "list", "clean"} => del[p] = {}
        /\ \A i \in Nics :
              /\ proc[p].pc \in {"idle", "list", "clean", "cleaning"} => nic[p][i].pc = "off"
              /\ nic[p][i].pc \in {"create", "refresh", "plug"} => nic[p][i].ip \in Ips

\* A DanmEp has an id of its own, and ids are not used again.
Identities ==
    /\ nextId # 0
    /\ \A e \in eps : e.id \in 1 .. nextId - 1
    /\ \A d, e \in eps : d.id = e.id => d = e
    /\ \A x \in freed : x < nextId

\* A DanmEp a goroutine refers to is stored, or its address has been freed: a DanmEp is
\* only deleted after that.
Known(e) == e \in eps \/ e.id \in freed
References ==
    \A p \in Procs :
        /\ \A d \in del[p] : Known(d.ep) /\ (d.pc = "delete" => d.ep.id \in freed)
        /\ \A e \in proc[p].list : Known(e)
        /\ \A i \in Nics : nic[p][i].pc \in {"refresh", "plug", "ok"} => Known(EpOf(p, i))

\* As long as no address was freed twice, the DanmEps and the goroutines that are about
\* to create one hold reserved addresses, each one of its own.
Addresses ==
    ~refreed =>
        /\ \A e \in LiveEps : e.ip \in alloc
        /\ DistinctIps
        /\ \A p \in Procs, i \in Nics : NicAt(p, i, "create") =>
              /\ nic[p][i].ip \in alloc
              /\ \A e \in LiveEps : e.ip # nic[p][i].ip
        /\ \A p, q \in Procs, i, j \in Nics :
              NicAt(p, i, "create") /\ NicAt(q, j, "create") /\ nic[p][i].ip = nic[q][j].ip
                 => p = q /\ i = j

\* Without failures, and as long as no process ends before its goroutines, every reserved
\* address has a DanmEp, or a goroutine that is about to create one.
Accounted ==
    fails = 0 /\ ~cut => \A x \in alloc :
        \/ \E e \in LiveEps : e.ip = x
        \/ \E p \in Procs, i \in Nics : NicAt(p, i, "create") /\ nic[p][i].ip = x

\* At most one ADD runs for a Pod, and none for a Pod with a container that is up.
OneAdd ==
    \A p \in Procs : proc[p].op = "ADD" =>
        /\ proc[p].pc # "idle" /\ proc[p].cid \in added
        /\ \A c \in up : PodUid[c] # PodUid[proc[p].cid]
        /\ \A q \in Procs : proc[q].op = "ADD" /\ PodUid[proc[q].cid] = PodUid[proc[p].cid]
                               => p = q

\* A DEL runs for a container after its ADD is over.
DelsLate ==
    \A p \in Procs : proc[p].op = "DEL" /\ proc[p].pc # "idle" =>
        /\ proc[p].cid \in added /\ proc[p].cid \notin up
        /\ \A q \in Procs : proc[q].op = "ADD" => proc[q].cid # proc[p].cid

\* A process deletes DanmEps of the Pod it is called for only, a DEL those of its container
\* only.
OwnEps ==
    \A p \in Procs :
        /\ \A e \in proc[p].list : PodUid[e.cid] = PodUid[proc[p].cid]
        /\ \A d \in del[p] : /\ PodUid[d.ep.cid] = PodUid[proc[p].cid]
                             /\ proc[p].op = "DEL" => d.ep.cid = proc[p].cid

\* While an ADD waits, its only deletions are those of interfaces that could not be set up,
\* and the others have a DanmEp whose address is not freed.
Waiting ==
    \A p \in Procs : At(p, "wait") =>
        /\ \A d \in del[p] : nic[p][d.ep.nic].pc \in {"deleting", "err"}
        /\ \A i \in Nics : nic[p][i].pc \in {"refresh", "plug", "ok"} => EpOf(p, i) \in LiveEps

IInv ==
    /\ TypeOK /\ Stages /\ Identities /\ References /\ Addresses /\ Accounted
    /\ OneAdd /\ DelsLate /\ OwnEps /\ Waiting /\ UpPodsConnected

-----------------------------------------------------------------------------
\* What the helpers of the actions change, point by point.

\* The main goroutine of p goes on.
LEMMA GotoFacts ==
    ASSUME TypeOK, NEW p \in Procs, NEW l \in {"clean", "wait", "dellist", "delwait"}, Goto(p, l)
    PROVE  /\ proc' \in [Procs -> Main]
           /\ \A q \in Procs : q # p => proc'[q] = proc[q]
           /\ proc'[p].pc = l
           /\ proc'[p].op = proc[p].op /\ proc'[p].cid = proc[p].cid
           /\ proc'[p].list = proc[p].list
<1>1. proc' = [proc EXCEPT ![p] = [proc[p] EXCEPT !.pc = l]] /\ proc[p] \in Main
  BY DEF Goto, TypeOK
<1>2. [proc[p] EXCEPT !.pc = l] \in Main
  BY <1>1 DEF Main
<1> QED BY <1>1, <1>2 DEF TypeOK, Main

\* The process of p ends.
LEMMA ExitFacts ==
    ASSUME TypeOK, NEW p \in Procs, Exit(p)
    PROVE  /\ proc' \in [Procs -> Main]
           /\ nic' \in [Procs -> [Nics -> Nic]]
           /\ del' \in [Procs -> SUBSET Call]
           /\ \A q \in Procs : q # p => /\ proc'[q] = proc[q]
                                        /\ nic'[q] = nic[q]
                                        /\ del'[q] = del[q]
           /\ proc'[p].pc = "idle" /\ proc'[p].op = "DEL" /\ proc'[p].list = {}
           /\ \A i \in Nics : nic'[p][i].pc = "off"
           /\ del'[p] = {}
<1>1. IdleMain \in Main
  BY DEF IdleMain, Main
<1>2. [i \in Nics |-> NoNic] \in [Nics -> Nic]
  BY DEF NoNic, Nic
<1> QED BY <1>1, <1>2 DEF TypeOK, Exit, IdleMain, NoNic

\* The end of a process leaves the parts of the invariant alone that are not about
\* leaks or success.
LEMMA ExitKeeps ==
    ASSUME IInv, NEW p \in Procs, Exit(p),
           UNCHANGED <<objects, added, nextId, freed, refreed>>
    PROVE  /\ Stages' /\ Identities' /\ References' /\ Addresses' /\ OwnEps' /\ Waiting'
           /\ up' = up => OneAdd' /\ DelsLate' /\ UpPodsConnected'
<1>1. /\ \A q \in Procs : q # p => /\ proc'[q] = proc[q]
                                   /\ nic'[q] = nic[q]
                                   /\ del'[q] = del[q]
      /\ proc'[p].pc = "idle" /\ proc'[p].op = "DEL" /\ proc'[p].list = {}
      /\ \A i \in Nics : nic'[p][i].pc = "off"
      /\ del'[p] = {}
  BY ExitFacts DEF IInv
<1>2. Stages'
  BY <1>1 DEF IInv, Stages
<1>3. Identities'
  BY DEF IInv, Identities, objects
<1>4. References'
  BY <1>1 DEF IInv, References, Known, EpOf, objects
<1>5. Addresses'
  <2>1. \A q \in Procs, i \in Nics : NicAt(q, i, "create")' => q # p /\ NicAt(q, i, "create")
                                                                /\ nic'[q][i].ip = nic[q][i].ip
    BY <1>1 DEF NicAt
  <2>2. LiveEps' = LiveEps /\ DistinctIps' = DistinctIps /\ alloc' = alloc
    BY DEF LiveEps, DistinctIps, objects
  <2> QED BY <2>1, <2>2 DEF IInv, Addresses
<1>6. OwnEps'
  BY <1>1 DEF IInv, OwnEps
<1>7. Waiting'
  BY <1>1 DEF IInv, Waiting, LiveEps, EpOf, At, objects
<1>8. ASSUME up' = up PROVE OneAdd'
  <2>1. \A q \in Procs : proc'[q].op = "ADD" => proc'[q] = proc[q]
    BY <1>1
  <2> QED BY <1>8, <2>1 DEF IInv, OneAdd
<1>9. ASSUME up' = up PROVE DelsLate'
  <2>1. \A q \in Procs : proc'[q].op = "ADD" \/ proc'[q].pc # "idle" => proc'[q] = proc[q]
    BY <1>1
  <2> QED BY <1>9, <2>1 DEF IInv, DelsLate
<1>10. ASSUME up' = up PROVE UpPodsConnected'
  BY <1>10 DEF IInv, UpPodsConnected, LiveEps, objects
<1> QED BY <1>2, <1>3, <1>4, <1>5, <1>6, <1>7, <1>8, <1>9, <1>10

\* A createNic goroutine goes on.
NicAfter(p, i, n) ==
    /\ nic' \in [Procs -> [Nics -> Nic]]
    /\ nic'[p][i] = n
    /\ \A q \in Procs, j \in Nics : q # p \/ j # i => nic'[q][j] = nic[q][j]

LEMMA NicFacts ==
    ASSUME TypeOK, NEW p \in Procs, NEW i \in Nics, NEW n \in Nic,
           nic' = [nic EXCEPT ![p][i] = n]
    PROVE  NicAfter(p, i, n)
<1>1. nic' = [nic EXCEPT ![p] = [nic[p] EXCEPT ![i] = n]] /\ nic[p] \in [Nics -> Nic]
  BY DEF TypeOK
<1>2. [nic[p] EXCEPT ![i] = n] \in [Nics -> Nic]
  BY <1>1
<1> QED BY <1>1, <1>2 DEF NicAfter, TypeOK

LEMMA NicGotoFacts ==
    ASSUME TypeOK, NEW p \in Procs, NEW i \in Nics, NEW l \in {"plug", "ok", "deleting", "err"},
           NicGoto(p, i, l)
    PROVE  \E n \in Nic : /\ NicAfter(p, i, n)
                          /\ n.pc = l /\ n.ip = nic[p][i].ip /\ n.ep = nic[p][i].ep
<1> DEFINE n == [nic[p][i] EXCEPT !.pc = l]
<1>1. nic[p][i] \in Nic
  BY DEF TypeOK
<1>2. n \in Nic /\ n.pc = l /\ n.ip = nic[p][i].ip /\ n.ep = nic[p][i].ep
  BY <1>1 DEF Nic
<1>3. nic' = [nic EXCEPT ![p][i] = n]
  BY DEF NicGoto
<1>4. NicAfter(p, i, n)
  BY <1>2, <1>3, NicFacts
<1> QED BY <1>2, <1>4

\* A DeleteDanmEp call goes on.
LEMMA DelFacts ==
    ASSUME TypeOK, NEW p \in Procs, NEW d \in del[p],
           DelGoto(p, d, "free") \/ DelGoto(p, d, "delete") \/ DelGoto(p, d, "done")
    PROVE  /\ d \in Call
           /\ del' \in [Procs -> SUBSET Call]
           /\ \A q \in Procs : q # p => del'[q] = del[q]
           /\ \A c \in del'[p] : c \in del[p] \/ c.ep = d.ep
           /\ DelGoto(p, d, "free") => \A c \in del'[p] : c \in del[p] \/ c.pc = "free"
           /\ DelGoto(p, d, "done") => \A c \in del'[p] : c \in del[p] \/ c.pc = "done"
<1>1. PICK l \in {"free", "delete", "done"} : DelGoto(p, d, l)
  OBVIOUS
<1>2. d \in Call
  BY DEF TypeOK
<1>3. [d EXCEPT !.pc = l] \in Call /\ [d EXCEPT !.pc = l].ep = d.ep /\ [d EXCEPT !.pc = l].pc = l
  BY <1>2 DEF Call
<1>4. ASSUME NEW m \in {"free", "delete", "done"}, DelGoto(p, d, m)
      PROVE  \A c \in del'[p] : c \in del[p] \/ c.pc = m
  BY <1>2, <1>4 DEF DelGoto, TypeOK, Call
<1> QED BY <1>1, <1>2, <1>3, <1>4 DEF DelGoto, TypeOK

-----------------------------------------------------------------------------
\* Every action keeps the invariant.

\* An ADD starts: the container is new, and no ADD runs for its Pod.
LEMMA CreateInterfacesIInv ==
    ASSUME IInv, NEW p \in Procs, NEW c \in Cids, CreateInterfaces(p, c)
    PROVE  IInv'
<1>1. [pc |-> "list", op |-> "ADD", cid |-> c, list |-> {}] \in Main
  BY DEF Main
<1>2. /\ proc' \in [Procs -> Main]
      /\ \A q \in Procs : q # p => proc'[q] = proc[q]
      /\ proc'[p] = [pc |-> "list", op |-> "ADD", cid |-> c, list |-> {}]
  BY <1>1 DEF IInv, TypeOK, CreateInterfaces
<1>3. TypeOK'
  BY <1>2 DEF IInv, TypeOK, objects, history, CreateInterfaces
<1>4. Stages'
  BY <1>1, <1>2 DEF IInv, Stages, CreateInterfaces, At, AddRuns
<1>5. Identities'
  BY DEF IInv, Identities, objects, history, CreateInterfaces
<1>6. References'
  BY <1>1, <1>2 DEF IInv, References, Known, EpOf, Stages, objects, history, CreateInterfaces, At,
     AddRuns
<1>7. Addresses'
  BY <1>1, <1>2 DEF IInv, Addresses, LiveEps, DistinctIps, NicAt, Stages, objects, history,
     CreateInterfaces, At, AddRuns
<1>8. Accounted'
  BY <1>1, <1>2 DEF IInv, Accounted, LiveEps, NicAt, objects, history, CreateInterfaces, AddRuns
<1>9. OneAdd'
  BY DEF IInv, OneAdd, CreateInterfaces, AddRuns
<1>10. DelsLate'
  BY <1>2 DEF IInv, DelsLate, CreateInterfaces
<1>11. OwnEps'
  BY <1>1, <1>2 DEF IInv, OwnEps, Stages, CreateInterfaces, At, AddRuns
<1>12. Waiting'
  BY <1>1, <1>2 DEF IInv, Waiting, LiveEps, EpOf, At, Stages, objects, history, CreateInterfaces,
     AddRuns
<1>13. UpPodsConnected'
  BY <1>1, <1>2 DEF IInv, UpPodsConnected, LiveEps, objects, history, CreateInterfaces
<1> QED BY <1>3, <1>4, <1>5, <1>6, <1>7, <1>8, <1>9, <1>10, <1>11, <1>12, <1>13 DEF IInv

\* A DEL starts: the ADD of the container is over.
LEMMA DeleteInterfacesIInv ==
    ASSUME IInv, NEW p \in Procs, NEW c \in Cids, DeleteInterfaces(p, c)
    PROVE  IInv'
<1>1. [pc |-> "dellist", op |-> "DEL", cid |-> c, list |-> {}] \in Main
  BY DEF Main
<1>2. /\ proc' \in [Procs -> Main]
      /\ \A q \in Procs : q # p => proc'[q] = proc[q]
      /\ proc'[p] = [pc |-> "dellist", op |-> "DEL", cid |-> c, list |-> {}]
  BY <1>1 DEF IInv, TypeOK, DeleteInterfaces
<1>3. TypeOK'
  BY <1>2 DEF IInv, TypeOK, objects, history, DeleteInterfaces
<1>4. Stages'
  BY <1>1, <1>2 DEF IInv, Stages, DeleteInterfaces, At, AddRuns
<1>5. Identities'
  BY DEF IInv, Identities, objects, history, DeleteInterfaces
<1>6. References'
  BY <1>1, <1>2 DEF IInv, References, Known, EpOf, Stages, objects, history, DeleteInterfaces, At,
     AddRuns
<1>7. Addresses'
  BY <1>1, <1>2 DEF IInv, Addresses, LiveEps, DistinctIps, NicAt, Stages, objects, history,
     DeleteInterfaces, At, AddRuns
<1>8. Accounted'
  BY <1>1, <1>2 DEF IInv, Accounted, LiveEps, NicAt, objects, history, DeleteInterfaces, AddRuns
<1>9. OneAdd'
  BY DEF IInv, OneAdd, DeleteInterfaces
<1>10. DelsLate'
  BY <1>2 DEF IInv, DelsLate, DeleteInterfaces, AddRuns
<1>11. OwnEps'
  BY <1>1, <1>2 DEF IInv, OwnEps, Stages, DeleteInterfaces, At, AddRuns
<1>12. Waiting'
  BY <1>1, <1>2 DEF IInv, Waiting, LiveEps, EpOf, At, Stages, objects, history, DeleteInterfaces,
     AddRuns
<1>13. UpPodsConnected'
  BY <1>1, <1>2 DEF IInv, UpPodsConnected, LiveEps, objects, history, DeleteInterfaces
<1> QED BY <1>3, <1>4, <1>5, <1>6, <1>7, <1>8, <1>9, <1>10, <1>11, <1>12, <1>13 DEF IInv

\* An ADD ends before it has done anything.
LEMMA AddRefusedIInv ==
    ASSUME IInv, NEW p \in Procs, AddRefused(p)
    PROVE  IInv'
<1>1. TypeOK /\ Exit(p)
  BY DEF IInv, AddRefused
<1>2. /\ proc' \in [Procs -> Main]
      /\ nic' \in [Procs -> [Nics -> Nic]]
      /\ del' \in [Procs -> SUBSET Call]
      /\ \A q \in Procs : q # p => nic'[q] = nic[q]
  BY <1>1, ExitFacts
<1>3. /\ Stages' /\ Identities' /\ References' /\ Addresses' /\ OwnEps' /\ Waiting'
      /\ up' = up => OneAdd' /\ DelsLate' /\ UpPodsConnected'
  BY <1>1, ExitKeeps DEF AddRefused, objects, kubelet, history
<1>4. TypeOK'
  BY <1>1, <1>2, <1>3 DEF IInv, TypeOK, objects, kubelet, history, AddRefused, At
<1>5. Stages'
  BY <1>3 DEF AddRefused, kubelet
<1>6. Identities'
  BY <1>3 DEF AddRefused, kubelet
<1>7. References'
  BY <1>3 DEF AddRefused, kubelet
<1>8. Addresses'
  BY <1>3 DEF AddRefused, kubelet
<1>9. Accounted'
  <2>1. ASSUME fails' = 0, ~cut' PROVE \A i \in Nics : ~NicAt(p, i, "create")
    BY <2>1 DEF IInv, Stages, At, NicAt, AddRefused, history
  <2>2. \A q \in Procs, i \in Nics : NicAt(q, i, "create") /\ q # p =>
            NicAt(q, i, "create")' /\ nic'[q][i].ip = nic[q][i].ip
    BY <1>2 DEF NicAt
  <2> QED BY <2>1, <2>2 DEF IInv, Accounted, LiveEps, objects, history, AddRefused
<1>10. OneAdd'
  BY <1>3 DEF AddRefused, kubelet
<1>11. DelsLate'
  BY <1>3 DEF AddRefused, kubelet
<1>12. OwnEps'
  BY <1>3 DEF AddRefused, kubelet
<1>13. Waiting'
  BY <1>3 DEF AddRefused, kubelet
<1>14. UpPodsConnected'
  BY <1>3 DEF AddRefused, kubelet
<1> QED BY <1>4, <1>5, <1>6, <1>7, <1>8, <1>9, <1>10, <1>11, <1>12, <1>13, <1>14 DEF IInv

\* An ADD goes on as a DEL.
LEMMA preparePodForIpv6IInv ==
    ASSUME IInv, NEW p \in Procs, preparePodForIpv6(p)
    PROVE  IInv'
<1>1. TypeOK /\ Goto(p, "dellist")
  BY DEF IInv, preparePodForIpv6
<1>2. /\ proc' \in [Procs -> Main]
      /\ \A q \in Procs : q # p => proc'[q] = proc[q]
      /\ proc'[p].pc = "dellist"
      /\ proc'[p].op = proc[p].op /\ proc'[p].cid = proc[p].cid /\ proc'[p].list = proc[p].list
  BY <1>1, GotoFacts
<1>3. TypeOK'
  BY <1>1, <1>2 DEF IInv, TypeOK, objects, kubelet, history, preparePodForIpv6, At
<1>4. Stages'
  BY <1>1, <1>2 DEF IInv, Stages, preparePodForIpv6, At
<1>5. Identities'
  BY <1>1, <1>2 DEF IInv, Identities, objects, history, preparePodForIpv6, At
<1>6. References'
  BY <1>1, <1>2 DEF IInv, References, Known, EpOf, objects, history, preparePodForIpv6
<1>7. Addresses'
  BY <1>1, <1>2 DEF IInv, Addresses, LiveEps, DistinctIps, NicAt, Stages, objects, history,
     preparePodForIpv6, At
<1>8. Accounted'
  BY <1>1, <1>2 DEF IInv, Accounted, LiveEps, NicAt, objects, history, preparePodForIpv6
<1>9. OneAdd'
  BY <1>1, <1>2 DEF IInv, OneAdd, Stages, kubelet, preparePodForIpv6, At
<1>10. DelsLate'
  BY <1>1, <1>2 DEF IInv, DelsLate, OneAdd, Stages, kubelet, preparePodForIpv6, At
<1>11. OwnEps'
  BY <1>1, <1>2 DEF IInv, OwnEps, Stages, preparePodForIpv6, At
<1>12. Waiting'
  BY <1>1, <1>2 DEF IInv, Waiting, LiveEps, EpOf, At, Stages, objects, history, preparePodForIpv6
<1>13. UpPodsConnected'
  BY <1>2 DEF IInv, UpPodsConnected, LiveEps, objects, kubelet, history, preparePodForIpv6
<1> QED BY <1>3, <1>4, <1>5, <1>6, <1>7, <1>8, <1>9, <1>10, <1>11, <1>12, <1>13 DEF IInv

\* The DanmEps that are listed are stored, and those of the Pod.
LEMMA cleanOutdatedAllocationsIInv ==
    ASSUME IInv, NEW p \in Procs, cleanOutdatedAllocations(p)
    PROVE  IInv'
<1> DEFINE old == {e \in eps : PodUid[e.cid] = PodUid[proc[p].cid]}
<1>1. PICK l \in {old, proc[p].list} :
         proc' = [proc EXCEPT ![p].pc = "clean", ![p].list = l] /\ fails' \in {fails, fails + 1}
  <2>1. CASE ApiFails /\ Goto(p, "clean")
    <3>1. proc' = [proc EXCEPT ![p].pc = "clean", ![p].list = proc[p].list]
      BY <2>1 DEF Goto, IInv, TypeOK, Main
    <3> QED BY <2>1, <3>1 DEF ApiFails
  <2> QED BY <2>1 DEF cleanOutdatedAllocations
<1>2. /\ proc' \in [Procs -> Main]
      /\ \A q \in Procs : q # p => proc'[q] = proc[q]
      /\ proc'[p].pc = "clean" /\ proc'[p].op = proc[p].op /\ proc'[p].cid = proc[p].cid
      /\ proc'[p].list = l
  BY <1>1 DEF IInv, TypeOK, Main
<1>3. \A e \in l : Known(e) /\ PodUid[e.cid] = PodUid[proc[p].cid]
  BY DEF IInv, References, OwnEps, Known
<1>4. (fails' = 0 => fails = 0) /\ fails' \in Nat
  BY <1>1 DEF IInv, TypeOK
<1>5. TypeOK'
  BY <1>1, <1>2, <1>3, <1>4 DEF IInv, TypeOK, objects, kubelet, history, cleanOutdatedAllocations,
     At
<1>6. Stages'
  BY <1>1, <1>2, <1>3, <1>4 DEF IInv, Stages, cleanOutdatedAllocations, At
<1>7. Identities'
  BY <1>1, <1>2, <1>3, <1>4 DEF IInv, Identities, objects, history, cleanOutdatedAllocations, At
<1>8. References'
  BY <1>1, <1>2, <1>3, <1>4 DEF IInv, References, Known, EpOf, objects, history,
     cleanOutdatedAllocations
<1>9. Addresses'
  BY <1>1, <1>2, <1>3, <1>4 DEF IInv, Addresses, LiveEps, DistinctIps, NicAt, Stages, objects,
     history, cleanOutdatedAllocations, At
<1>10. Accounted'
  BY <1>1, <1>2, <1>3, <1>4 DEF IInv, Accounted, LiveEps, NicAt, objects, history,
     cleanOutdatedAllocations
<1>11. OneAdd'
  BY <1>1, <1>2, <1>3, <1>4 DEF IInv, OneAdd, Stages, kubelet, cleanOutdatedAllocations, At
<1>12. DelsLate'
  BY <1>1, <1>2, <1>3, <1>4 DEF IInv, DelsLate, OneAdd, Stages, kubelet, cleanOutdatedAllocations,
     At
<1>13. OwnEps'
  BY <1>1, <1>2, <1>3, <1>4 DEF IInv, OwnEps, Stages, cleanOutdatedAllocations, At
<1>14. Waiting'
  BY <1>1, <1>2, <1>3, <1>4 DEF IInv, Waiting, LiveEps, EpOf, At, Stages, objects, history,
     cleanOutdatedAllocations
<1>15. UpPodsConnected'
  BY <1>2, <1>3, <1>4 DEF IInv, UpPodsConnected, LiveEps, objects, kubelet, history,
     cleanOutdatedAllocations
<1> QED BY <1>5, <1>6, <1>7, <1>8, <1>9, <1>10, <1>11, <1>12, <1>13, <1>14, <1>15 DEF IInv

\* The DanmEp that is deleted is one of the Pod, which is not up.
LEMMA CleanNextIInv ==
    ASSUME IInv, NEW p \in Procs, CleanNext(p)
    PROVE  IInv'
<1>1. PICK e \in proc[p].list :
         /\ proc' = [proc EXCEPT ![p].pc = "cleaning", ![p].list = @ \ {e}]
         /\ del' = [del EXCEPT ![p] = {[who |-> "main", ep |-> e, pc |-> "getnet"]}]
  BY DEF CleanNext
<1>2. /\ proc' \in [Procs -> Main]
      /\ \A q \in Procs : q # p => proc'[q] = proc[q]
      /\ proc'[p].pc = "cleaning" /\ proc'[p].op = proc[p].op /\ proc'[p].cid = proc[p].cid
      /\ proc'[p].list \subseteq proc[p].list
  BY <1>1 DEF IInv, TypeOK, Main
<1>3. /\ del' \in [Procs -> SUBSET Call]
      /\ \A q \in Procs : q # p => del'[q] = del[q]
      /\ \A d \in del'[p] : d.ep = e /\ d.pc = "getnet"
  <2>1. e \in Eps
    BY DEF IInv, TypeOK, Main
  <2>2. [who |-> "main", ep |-> e, pc |-> "getnet"] \in Call
    BY <2>1 DEF Call
  <2> QED BY <1>1, <2>2 DEF IInv, TypeOK
<1>4. proc[p].op = "ADD" /\ PodUid[e.cid] = PodUid[proc[p].cid] /\ Known(e)
  BY DEF IInv, Stages, OwnEps, References, CleanNext, At
<1>5. TypeOK'
  BY <1>1, <1>2, <1>3, <1>4 DEF IInv, TypeOK, objects, kubelet, history, CleanNext, At
<1>6. Stages'
  BY <1>1, <1>2, <1>3, <1>4 DEF IInv, Stages, CleanNext, At
<1>7. Identities'
  BY <1>1, <1>2, <1>3, <1>4 DEF IInv, Identities, objects, history, CleanNext, At
<1>8. References'
  BY <1>1, <1>2, <1>3, <1>4 DEF IInv, References, Known, EpOf, objects, history, CleanNext
<1>9. Addresses'
  BY <1>1, <1>2, <1>3, <1>4 DEF IInv, Addresses, LiveEps, DistinctIps, NicAt, Stages, objects,
     history, CleanNext, At
<1>10. Accounted'
  BY <1>1, <1>2, <1>3, <1>4 DEF IInv, Accounted, LiveEps, NicAt, objects, history, CleanNext
<1>11. OneAdd'
  BY <1>1, <1>2, <1>3, <1>4 DEF IInv, OneAdd, Stages, kubelet, CleanNext, At
<1>12. DelsLate'
  BY <1>1, <1>2, <1>3, <1>4 DEF IInv, DelsLate, OneAdd, Stages, kubelet, CleanNext, At
<1>13. OwnEps'
  BY <1>1, <1>2, <1>3, <1>4 DEF IInv, OwnEps, Stages, CleanNext, At
<1>14. Waiting'
  BY <1>1, <1>2, <1>3, <1>4 DEF IInv, Waiting, LiveEps, EpOf, At, Stages, objects, history,
     CleanNext
<1>15. UpPodsConnected'
  BY <1>2, <1>3, <1>4 DEF IInv, UpPodsConnected, LiveEps, objects, kubelet, history, CleanNext
<1> QED BY <1>5, <1>6, <1>7, <1>8, <1>9, <1>10, <1>11, <1>12, <1>13, <1>14, <1>15 DEF IInv

\* A deletion is over.
LEMMA CleanDoneIInv ==
    ASSUME IInv, NEW p \in Procs, CleanDone(p)
    PROVE  IInv'
<1>1. TypeOK /\ Goto(p, "clean")
  BY DEF IInv, CleanDone
<1>2. /\ proc' \in [Procs -> Main]
      /\ \A q \in Procs : q # p => proc'[q] = proc[q]
      /\ proc'[p].pc = "clean"
      /\ proc'[p].op = proc[p].op /\ proc'[p].cid = proc[p].cid /\ proc'[p].list = proc[p].list
  BY <1>1, GotoFacts
<1>3. /\ del' \in [Procs -> SUBSET Call]
      /\ \A q \in Procs : q # p => del'[q] = del[q]
      /\ del'[p] = {}
  BY DEF IInv, TypeOK, CleanDone
<1>4. TypeOK'
  BY <1>1, <1>2, <1>3 DEF IInv, TypeOK, objects, kubelet, history, CleanDone, At
<1>5. Stages'
  BY <1>1, <1>2, <1>3 DEF IInv, Stages, CleanDone, At
<1>6. Identities'
  BY <1>1, <1>2, <1>3 DEF IInv, Identities, objects, history, CleanDone, At
<1>7. References'
  BY <1>1, <1>2, <1>3 DEF IInv, References, Known, EpOf, objects, history, CleanDone
<1>8. Addresses'
  BY <1>1, <1>2, <1>3 DEF IInv, Addresses, LiveEps, DistinctIps, NicAt, Stages, objects, history,
     CleanDone, At
<1>9. Accounted'
  BY <1>1, <1>2, <1>3 DEF IInv, Accounted, LiveEps, NicAt, objects, history, CleanDone
<1>10. OneAdd'
  BY <1>1, <1>2, <1>3 DEF IInv, OneAdd, Stages, kubelet, CleanDone, At
<1>11. DelsLate'
  BY <1>1, <1>2, <1>3 DEF IInv, DelsLate, OneAdd, Stages, kubelet, CleanDone, At
<1>12. OwnEps'
  BY <1>1, <1>2, <1>3 DEF IInv, OwnEps, Stages, CleanDone, At
<1>13. Waiting'
  BY <1>1, <1>2, <1>3 DEF IInv, Waiting, LiveEps, EpOf, At, Stages, objects, history, CleanDone
<1>14. UpPodsConnected'
  BY <1>2, <1>3 DEF IInv, UpPodsConnected, LiveEps, objects, kubelet, history, CleanDone
<1> QED BY <1>4, <1>5, <1>6, <1>7, <1>8, <1>9, <1>10, <1>11, <1>12, <1>13, <1>14 DEF IInv

\* The goroutines start with nothing.
LEMMA setupNetworkingIInv ==
    ASSUME IInv, NEW p \in Procs, setupNetworking(p)
    PROVE  IInv'
<1>1. TypeOK /\ Goto(p, "wait")
  BY DEF IInv, setupNetworking
<1>2. /\ proc' \in [Procs -> Main]
      /\ \A q \in Procs : q # p => proc'[q] = proc[q]
      /\ proc'[p].pc = "wait"
      /\ proc'[p].op = proc[p].op /\ proc'[p].cid = proc[p].cid /\ proc'[p].list = proc[p].list
  BY <1>1, GotoFacts
<1>3. PICK bad \in SUBSET Nics :
         nic' = [nic EXCEPT ![p] = [i \in Nics |->
                    [NoNic EXCEPT !.pc = IF i \in bad THEN "err" ELSE "reserve"]]]
  BY DEF setupNetworking
<1>4. /\ nic' \in [Procs -> [Nics -> Nic]]
      /\ \A q \in Procs : q # p => nic'[q] = nic[q]
      /\ \A i \in Nics : nic'[p][i].pc \in {"err", "reserve"}
  <2>1. \A i \in Nics : /\ [NoNic EXCEPT !.pc = IF i \in bad THEN "err" ELSE "reserve"] \in Nic
                        /\ [NoNic EXCEPT !.pc = IF i \in bad THEN "err" ELSE "reserve"].pc
                              \in {"err", "reserve"}
    BY DEF NoNic, Nic
  <2> QED BY <1>3, <2>1 DEF IInv, TypeOK
<1>5. del[p] = {} /\ \A i \in Nics : nic[p][i].pc = "off"
  BY DEF IInv, Stages, setupNetworking, At
<1>6. TypeOK'
  BY <1>1, <1>2, <1>3, <1>4, <1>5 DEF IInv, TypeOK, objects, kubelet, history, setupNetworking, At
<1>7. Stages'
  BY <1>1, <1>2, <1>3, <1>4, <1>5 DEF IInv, Stages, setupNetworking, At
<1>8. Identities'
  BY <1>1, <1>2, <1>3, <1>4, <1>5 DEF IInv, Identities, objects, history, setupNetworking, At
<1>9. References'
  BY <1>1, <1>2, <1>3, <1>4, <1>5 DEF IInv, References, Known, EpOf, objects, history,
     setupNetworking
<1>10. Addresses'
  BY <1>1, <1>2, <1>3, <1>4, <1>5 DEF IInv, Addresses, LiveEps, DistinctIps, NicAt, Stages,
     objects, history, setupNetworking, At
<1>11. Accounted'
  BY <1>1, <1>2, <1>3, <1>4, <1>5 DEF IInv, Accounted, LiveEps, NicAt, objects, history,
     setupNetworking
<1>12. OneAdd'
  BY <1>1, <1>2, <1>3, <1>4, <1>5 DEF IInv, OneAdd, Stages, kubelet, setupNetworking, At
<1>13. DelsLate'
  BY <1>2 DEF IInv, DelsLate, Stages, At, setupNetworking, kubelet
<1>14. OwnEps'
  BY <1>1, <1>2, <1>3, <1>4, <1>5 DEF IInv, OwnEps, Stages, setupNetworking, At
<1>15. Waiting'
  BY <1>1, <1>2, <1>3, <1>4, <1>5 DEF IInv, Waiting, LiveEps, EpOf, At, Stages, objects, history,
     setupNetworking
<1>16. UpPodsConnected'
  BY <1>2, <1>3, <1>4, <1>5 DEF IInv, UpPodsConnected, LiveEps, objects, kubelet, history,
     setupNetworking
<1> QED BY <1>6, <1>7, <1>8, <1>9, <1>10, <1>11, <1>12, <1>13, <1>14, <1>15, <1>16 DEF IInv

\* The address was free, so nobody holds it.
LEMMA ReserveIpIInv ==
    ASSUME IInv, NEW p \in Procs, NEW i \in Nics, ReserveIp(p, i)
    PROVE  IInv'
<1> DEFINE Reserved(n) ==
        /\ NicAfter(p, i, n)
        /\ \/ /\ n.pc = "create" /\ n.ip \in Ips \ alloc
              /\ alloc' = alloc \cup {n.ip} /\ fails' = fails
           \/ n.pc = "err" /\ alloc' = alloc /\ fails' = fails
           \/ n.pc = "err" /\ alloc \subseteq alloc' /\ alloc' \subseteq Ips /\ fails' = fails + 1
<1>1. TypeOK /\ nic[p][i] \in Nic /\ nic[p][i].pc = "reserve"
  BY DEF IInv, TypeOK, ReserveIp, NicAt
<1>2. \E n \in Nic : Reserved(n)
  <2>1. ASSUME NEW x \in FreeIps, StoreIp(x), UNCHANGED fails,
               nic' = [nic EXCEPT ![p][i].pc = "create", ![p][i].ip = x]
        PROVE  \E n \in Nic : Reserved(n)
    <3> DEFINE n == [nic[p][i] EXCEPT !.pc = "create", !.ip = x]
    <3>1. n \in Nic /\ n.pc = "create" /\ n.ip = x
      BY <1>1, <2>1 DEF Nic, FreeIps
    <3>2. nic' = [nic EXCEPT ![p][i] = n]
      BY <1>1, <2>1 DEF TypeOK
    <3>3. NicAfter(p, i, n)
      BY <1>1, <3>1, <3>2, NicFacts
    <3>4. Reserved(n)
      BY <2>1, <3>1, <3>3 DEF FreeIps, StoreIp
    <3> QED BY <3>1, <3>4
  <2>2. ASSUME NicGoto(p, i, "err"), UNCHANGED alloc, UNCHANGED fails
        PROVE  \E n \in Nic : Reserved(n)
    BY <1>1, <2>2, NicGotoFacts
  <2>3. ASSUME NicGoto(p, i, "err"), ApiFails,
               alloc' = alloc \/ \E x \in FreeIps : StoreIp(x)
        PROVE  \E n \in Nic : Reserved(n)
    <3>1. alloc \subseteq alloc' /\ alloc' \subseteq Ips /\ fails' = fails + 1
      BY <1>1, <2>3 DEF TypeOK, FreeIps, StoreIp, ApiFails
    <3> QED BY <1>1, <2>3, <3>1, NicGotoFacts
  <2> QED BY <2>1, <2>2, <2>3 DEF ReserveIp
<1>3. PICK n \in Nic : Reserved(n)
  BY <1>2
<1>4. TypeOK'
  BY <1>1, <1>3 DEF TypeOK, kubelet, history, ReserveIp, NicAfter
<1>5. Stages'
  BY <1>1, <1>3 DEF IInv, Stages, NicAfter, ReserveIp
<1>6. Identities'
  BY <1>1, <1>2, <1>3 DEF IInv, Identities, objects, history, ReserveIp, NicAfter
<1>7. References'
  BY <1>1, <1>2, <1>3 DEF IInv, References, Known, EpOf, Stages, objects, history, ReserveIp,
     NicAfter
<1>8. Addresses'
  <2>1. /\ LiveEps' = LiveEps /\ DistinctIps' = DistinctIps
        /\ alloc \subseteq alloc' /\ refreed' = refreed
    BY <1>3 DEF ReserveIp, LiveEps, DistinctIps, history
  <2>2. \A q \in Procs, j \in Nics : NicAt(q, j, "create")' =>
           \/ NicAt(q, j, "create") /\ nic'[q][j].ip = nic[q][j].ip
           \/ q = p /\ j = i /\ nic'[q][j].ip \notin alloc /\ nic'[q][j].ip \in alloc'
    BY <1>3 DEF NicAt, NicAfter
  <2> QED BY <2>1, <2>2 DEF IInv, Addresses
<1>9. Accounted'
  <2>1. LiveEps' = LiveEps /\ cut' = cut
    BY DEF ReserveIp, LiveEps, history
  <2>2. \A q \in Procs, j \in Nics : NicAt(q, j, "create") =>
           NicAt(q, j, "create")' /\ nic'[q][j].ip = nic[q][j].ip
    BY <1>1, <1>3 DEF NicAt, NicAfter
  <2>3. fails' = fails => \A x \in alloc' : \/ x \in alloc
                                            \/ NicAt(p, i, "create")' /\ nic'[p][i].ip = x
    <3>1. nic'[p][i] = n
      BY <1>3 DEF NicAfter
    <3>2. fails # fails + 1
      BY <1>1 DEF TypeOK
    <3>3. CASE n.pc = "create" /\ alloc' = alloc \cup {n.ip}
      BY <3>1, <3>3 DEF NicAt
    <3>4. CASE n.pc = "err" /\ alloc' = alloc
      BY <3>4
    <3> QED BY <1>3, <3>2, <3>3, <3>4
  <2>4. fails' = 0 => fails' = fails
    BY <1>1, <1>3 DEF TypeOK
  <2> QED BY <2>1, <2>2, <2>3, <2>4 DEF IInv, Accounted
<1>10. OneAdd'
  BY <1>1, <1>2, <1>3 DEF IInv, OneAdd, Stages, kubelet, ReserveIp, NicAfter
<1>11. DelsLate'
  BY <1>3 DEF IInv, DelsLate, kubelet, ReserveIp
<1>12. OwnEps'
  BY <1>1, <1>2, <1>3 DEF IInv, OwnEps, Stages, ReserveIp, NicAfter
<1>13. Waiting'
  <2>1. \A q \in Procs, j \in Nics :
           /\ nic'[q][j].pc \in {"refresh", "plug", "ok"} => nic'[q][j] = nic[q][j]
           /\ nic[q][j].pc \in {"deleting", "err"} => nic'[q][j] = nic[q][j]
    BY <1>1, <1>3 DEF NicAfter
  <2>2. \A q \in Procs : \A d \in del[q] : d.ep.nic \in Nics
    BY <1>1 DEF TypeOK, Call, Eps
  <2> QED BY <2>1, <2>2 DEF IInv, Waiting, ReserveIp, At, EpOf, LiveEps, history
<1>14. UpPodsConnected'
  BY <1>2, <1>3 DEF IInv, UpPodsConnected, LiveEps, kubelet, history, ReserveIp
<1> QED BY <1>4, <1>5, <1>6, <1>7, <1>8, <1>9, <1>10, <1>11, <1>12, <1>13, <1>14 DEF IInv

\* The address passes from the goroutine to the DanmEp, which gets a new id.
LEMMA CreateDanmEpIInv ==
    ASSUME IInv, NEW p \in Procs, NEW i \in Nics, CreateDanmEp(p, i)
    PROVE  IInv'
<1> DEFINE new == [id |-> nextId, cid |-> proc[p].cid, nic |-> i, ip |-> nic[p][i].ip]
<1>1. TypeOK /\ nic[p][i] \in Nic /\ nic[p][i].pc = "create" /\ nic[p][i].ip \in Ips
      /\ proc[p].cid \in Cids /\ nextId \in Nat /\ nextId' = nextId + 1 /\ fails \in Nat
  BY DEF IInv, TypeOK, CreateDanmEp, NicAt, Stages
<1>2. /\ new \in Eps /\ new.id = nextId /\ new.cid = proc[p].cid /\ new.nic = i
      /\ new.ip = nic[p][i].ip
  BY <1>1 DEF Eps
<1> DEFINE Created(n) ==
        /\ NicAfter(p, i, n) /\ n.ip = nic[p][i].ip
        /\ \/ n.pc = "refresh" /\ n.ep = nextId /\ eps' = eps \cup {new} /\ fails' = fails
           \/ n.pc = "err" /\ eps' \in {eps, eps \cup {new}} /\ fails' = fails + 1
<1>3. PICK n \in Nic : Created(n)
  <2>1. ASSUME eps' = eps \cup {new}, UNCHANGED fails,
               nic' = [nic EXCEPT ![p][i].pc = "refresh", ![p][i].ep = nextId]
        PROVE  \E n \in Nic : Created(n)
    <3> DEFINE n == [nic[p][i] EXCEPT !.pc = "refresh", !.ep = nextId]
    <3>1. n \in Nic /\ n.pc = "refresh" /\ n.ip = nic[p][i].ip /\ n.ep = nextId
      BY <1>1 DEF Nic
    <3>2. nic' = [nic EXCEPT ![p][i] = n]
      BY <1>1, <2>1 DEF TypeOK
    <3>3. NicAfter(p, i, n)
      BY <1>1, <3>1, <3>2, NicFacts
    <3> QED BY <2>1, <3>1, <3>3
  <2>2. ASSUME NicGoto(p, i, "err"), ApiFails, eps' \in {eps, eps \cup {new}}
        PROVE  \E n \in Nic : Created(n)
    BY <1>1, <2>2, NicGotoFacts DEF ApiFails
  <2> QED BY <2>1, <2>2 DEF CreateDanmEp
<1> HIDE DEF new
<1>4. /\ nextId \notin freed /\ \A e \in eps : e.id # nextId
      /\ LiveEps \subseteq LiveEps' /\ LiveEps' \subseteq LiveEps \cup {new}
      /\ n.pc = "refresh" => new \in LiveEps'
  BY <1>1, <1>2, <1>3 DEF IInv, Identities, LiveEps, CreateDanmEp, history
<1>5. TypeOK'
  BY <1>1, <1>2, <1>3, <1>4 DEF IInv, TypeOK, objects, kubelet, history, CreateDanmEp, NicAfter
<1>6. Stages'
  BY <1>1, <1>3 DEF IInv, Stages, NicAfter, CreateDanmEp
<1>7. Identities'
  <2>1. nextId + 1 # 0 /\ \A k \in Nat : k < nextId => k < nextId + 1
    BY <1>1
  <2>2. freed' = freed /\ freed \subseteq Nat /\ \A e \in eps : e.id \in Nat
    BY <1>1 DEF CreateDanmEp, history, TypeOK, Eps
  <2> QED BY <1>1, <1>2, <1>3, <1>4, <2>1, <2>2 DEF IInv, Identities
<1>8. References'
  <2>1. \A e : Known(e) => Known(e)'
    BY <1>3 DEF Known, CreateDanmEp, history
  <2>2. \A q \in Procs, j \in Nics : nic'[q][j].pc \in {"refresh", "plug", "ok"} =>
            nic'[q][j] = nic[q][j] \/ (q = p /\ j = i /\ n.pc = "refresh")
    BY <1>3 DEF NicAfter
  <2>3. n.pc = "refresh" => EpOf(p, i)' = new /\ new \in eps'
    BY <1>3 DEF EpOf, NicAfter, CreateDanmEp, new
  <2> QED BY <2>1, <2>2, <2>3 DEF IInv, References, Known, EpOf, CreateDanmEp, history
<1>9. Addresses'
  <2>1. alloc' = alloc /\ refreed' = refreed
    BY DEF CreateDanmEp, history
  <2>2. \A q \in Procs, j \in Nics : NicAt(q, j, "create")' =>
           NicAt(q, j, "create") /\ nic'[q][j].ip = nic[q][j].ip /\ (q # p \/ j # i)
    BY <1>3 DEF NicAt, NicAfter
  <2>3. NicAt(p, i, "create") /\ new.ip = nic[p][i].ip
    BY <1>1, <1>2 DEF NicAt
  <2> QED BY <1>4, <2>1, <2>2, <2>3 DEF IInv, Addresses, DistinctIps
<1>10. Accounted'
  <2>1. alloc' = alloc /\ cut' = cut /\ (fails' = 0 => fails = 0 /\ n.pc = "refresh")
    BY <1>1, <1>3 DEF CreateDanmEp, history
  <2>2. \A q \in Procs, j \in Nics : NicAt(q, j, "create") =>
           \/ NicAt(q, j, "create")' /\ nic'[q][j].ip = nic[q][j].ip
           \/ q = p /\ j = i
    BY <1>3 DEF NicAt, NicAfter
  <2> QED BY <1>2, <1>4, <2>1, <2>2 DEF IInv, Accounted
<1>11. OneAdd'
  BY <1>1, <1>2, <1>3, <1>4 DEF IInv, OneAdd, Stages, kubelet, CreateDanmEp, NicAfter
<1>12. DelsLate'
  BY <1>3, <1>4 DEF IInv, DelsLate, kubelet, CreateDanmEp
<1>13. OwnEps'
  BY <1>1, <1>2, <1>3, <1>4 DEF IInv, OwnEps, Stages, CreateDanmEp, NicAfter
<1>14. Waiting'
  <2>1. \A q \in Procs, j \in Nics :
           /\ nic'[q][j].pc \in {"refresh", "plug", "ok"} =>
                 nic'[q][j] = nic[q][j] \/ (q = p /\ j = i /\ n.pc = "refresh")
           /\ nic[q][j].pc \in {"deleting", "err"} => nic'[q][j] = nic[q][j]
    BY <1>1, <1>3 DEF NicAfter
  <2>2. \A q \in Procs : \A d \in del[q] : d.ep.nic \in Nics
    BY <1>1 DEF TypeOK, Call, Eps
  <2>3. n.pc = "refresh" => EpOf(p, i)' = new
    BY <1>3 DEF EpOf, NicAfter, CreateDanmEp, new
  <2> QED BY <1>4, <2>1, <2>2, <2>3 DEF IInv, Waiting, CreateDanmEp, At, EpOf
<1>15. UpPodsConnected'
  BY <1>4 DEF IInv, UpPodsConnected, CreateDanmEp, kubelet
<1> QED BY <1>5, <1>6, <1>7, <1>8, <1>9, <1>10, <1>11, <1>12, <1>13, <1>14, <1>15 DEF IInv

\* A process ends because a call of the API server has failed.
LEMMA ExitFailsIInv ==
    ASSUME IInv, NEW p \in Procs, Exit(p), ApiFails, cut' \in BOOLEAN,
           UNCHANGED <<objects, kubelet, crashes, nextId, freed, refreed>>
    PROVE  IInv'
<1>1. TypeOK /\ Exit(p)
  BY DEF IInv
<1>2. /\ proc' \in [Procs -> Main]
      /\ nic' \in [Procs -> [Nics -> Nic]]
      /\ del' \in [Procs -> SUBSET Call]
      /\ \A q \in Procs : q # p => nic'[q] = nic[q]
  BY <1>1, ExitFacts
<1>3. /\ Stages' /\ Identities' /\ References' /\ Addresses' /\ OwnEps' /\ Waiting'
      /\ up' = up => OneAdd' /\ DelsLate' /\ UpPodsConnected'
  BY <1>1, ExitKeeps DEF objects, kubelet, history
<1>4. fails' \in Nat /\ fails' # 0
  BY DEF IInv, TypeOK, ApiFails
<1>5. TypeOK'
  BY <1>1, <1>2, <1>4 DEF TypeOK, objects, kubelet
<1>6. Stages'
  BY <1>3 DEF kubelet
<1>7. Identities'
  BY <1>3 DEF kubelet
<1>8. References'
  BY <1>3 DEF kubelet
<1>9. Addresses'
  BY <1>3 DEF kubelet
<1>10. Accounted'
  BY <1>4 DEF Accounted
<1>11. OneAdd'
  BY <1>3 DEF kubelet
<1>12. DelsLate'
  BY <1>3 DEF kubelet
<1>13. OwnEps'
  BY <1>3 DEF kubelet
<1>14. Waiting'
  BY <1>3 DEF kubelet
<1>15. UpPodsConnected'
  BY <1>3 DEF kubelet
<1> QED BY <1>5, <1>6, <1>7, <1>8, <1>9, <1>10, <1>11, <1>12, <1>13, <1>14, <1>15 DEF IInv

\* The network is read again.
LEMMA RefreshNetOkIInv ==
    ASSUME IInv, NEW p \in Procs, NEW i \in Nics, NicAt(p, i, "refresh"), NicGoto(p, i, "plug"),
           UNCHANGED <<objects, proc, del, kubelet, fails, crashes, nextId, history>>
    PROVE  IInv'
<1>1. TypeOK /\ nic[p][i] \in Nic /\ nic[p][i].pc = "refresh"
  BY DEF IInv, TypeOK, NicAt
<1>2. PICK n \in Nic : /\ NicAfter(p, i, n)
                       /\ n.pc = "plug" /\ n.ip = nic[p][i].ip /\ n.ep = nic[p][i].ep
  BY <1>1, NicGotoFacts
<1>3. TypeOK'
  BY <1>1, <1>2 DEF IInv, TypeOK, objects, kubelet, history, NicAfter
<1>4. Stages'
  BY <1>1, <1>2 DEF IInv, Stages, NicAfter
<1>5. Identities'
  BY <1>1, <1>2 DEF IInv, Identities, objects, history, NicAfter
<1>6. References'
  <2>1. \A q \in Procs, j \in Nics : nic'[q][j].pc \in {"refresh", "plug", "ok"} =>
           EpOf(q, j)' = EpOf(q, j) /\ nic[q][j].pc \in {"refresh", "plug", "ok"}
    BY <1>1, <1>2 DEF NicAfter, EpOf
  <2>2. \A e : Known(e)' = Known(e)
    BY DEF Known, objects, history
  <2> QED BY <2>1, <2>2 DEF IInv, References, history
<1>7. Addresses'
  <2>1. LiveEps' = LiveEps /\ DistinctIps' = DistinctIps /\ alloc' = alloc /\ refreed' = refreed
    BY DEF LiveEps, DistinctIps, objects, history
  <2>2. \A q \in Procs, j \in Nics : NicAt(q, j, "create")' =>
           NicAt(q, j, "create") /\ nic'[q][j].ip = nic[q][j].ip
    BY <1>2 DEF NicAt, NicAfter
  <2> QED BY <2>1, <2>2 DEF IInv, Addresses
<1>8. Accounted'
  <2>1. LiveEps' = LiveEps /\ alloc' = alloc /\ cut' = cut /\ fails' = fails
    BY DEF LiveEps, objects, history
  <2>2. \A q \in Procs, j \in Nics : NicAt(q, j, "create") =>
           NicAt(q, j, "create")' /\ nic'[q][j].ip = nic[q][j].ip
    BY <1>1, <1>2 DEF NicAt, NicAfter
  <2> QED BY <2>1, <2>2 DEF IInv, Accounted
<1>9. OneAdd'
  BY <1>1, <1>2 DEF IInv, OneAdd, Stages, kubelet, NicAfter
<1>10. DelsLate'
  BY <1>1, <1>2 DEF IInv, DelsLate, OneAdd, Stages, kubelet, NicAfter
<1>11. OwnEps'
  BY <1>1, <1>2 DEF IInv, OwnEps, Stages, NicAfter
<1>12. Waiting'
  <2>1. LiveEps' = LiveEps
    BY DEF LiveEps, objects, history
  <2>2. \A q \in Procs, j \in Nics : nic'[q][j].pc \in {"refresh", "plug", "ok"} =>
           EpOf(q, j)' = EpOf(q, j) /\ nic[q][j].pc \in {"refresh", "plug", "ok"}
    BY <1>1, <1>2 DEF NicAfter, EpOf
  <2>3. \A q \in Procs, j \in Nics : nic[q][j].pc \in {"deleting", "err"} =>
           nic'[q][j].pc \in {"deleting", "err"}
    BY <1>1, <1>2 DEF NicAfter
  <2>4. \A q \in Procs : \A d \in del[q] : d.ep.nic \in Nics
    BY <1>1 DEF TypeOK, Call, Eps
  <2> QED BY <2>1, <2>2, <2>3, <2>4 DEF IInv, Waiting, At
<1>13. UpPodsConnected'
  BY DEF IInv, UpPodsConnected, LiveEps, objects, kubelet, history
<1> QED BY <1>3, <1>4, <1>5, <1>6, <1>7, <1>8, <1>9, <1>10, <1>11, <1>12, <1>13 DEF IInv

\* An interface is set up, or its own DanmEp is about to be deleted.
LEMMA PlugNicIInv ==
    ASSUME IInv, NEW p \in Procs, NEW i \in Nics, PlugNic(p, i)
    PROVE  IInv'
<1>1. TypeOK /\ nic[p][i] \in Nic /\ nic[p][i].pc = "plug" /\ nic[p][i].ip \in Ips
      /\ proc[p].cid \in Cids /\ proc[p].pc \notin {"idle", "list", "clean", "cleaning"}
  BY DEF IInv, TypeOK, PlugNic, NicAt, Stages
<1>2. PICK n \in Nic : /\ NicAfter(p, i, n)
                       /\ n.pc \in {"ok", "deleting"} /\ n.ip = nic[p][i].ip /\ n.ep = nic[p][i].ep
                       /\ n.pc = "ok" => del' = del
  BY <1>1, NicGotoFacts DEF PlugNic
<1>3. /\ del' \in [Procs -> SUBSET Call]
      /\ \A q \in Procs : q # p => del'[q] = del[q]
      /\ \A d \in del'[p] : \/ d \in del[p]
                            \/ d.ep = EpOf(p, i) /\ d.pc = "free" /\ n.pc = "deleting"
  <2>1. EpOf(p, i) \in Eps
    BY <1>1 DEF EpOf, Eps, Nic
  <2>2. [who |-> i, ep |-> EpOf(p, i), pc |-> "free"] \in Call
    BY <2>1 DEF Call
  <2> QED BY <1>1, <1>2, <2>2 DEF PlugNic, TypeOK
<1>4. /\ Known(EpOf(p, i)) /\ EpOf(p, i).cid = proc[p].cid /\ EpOf(p, i).nic = i
  BY <1>1 DEF IInv, References, EpOf
<1>5. TypeOK'
  BY <1>1, <1>2, <1>3, <1>4 DEF IInv, TypeOK, objects, kubelet, history, PlugNic, NicAfter
<1>6. Stages'
  BY <1>1, <1>2, <1>3 DEF IInv, Stages, NicAfter, PlugNic
<1>7. Identities'
  BY <1>1, <1>2, <1>3, <1>4 DEF IInv, Identities, objects, history, PlugNic, NicAfter
<1>8. References'
  <2>1. \A q \in Procs, j \in Nics : nic'[q][j].pc \in {"refresh", "plug", "ok"} =>
           EpOf(q, j)' = EpOf(q, j) /\ nic[q][j].pc \in {"refresh", "plug", "ok"}
    BY <1>1, <1>2 DEF NicAfter, EpOf, PlugNic
  <2>2. \A e : Known(e)' = Known(e)
    BY DEF Known, PlugNic, objects, history
  <2> QED BY <1>3, <1>4, <2>1, <2>2 DEF IInv, References, PlugNic, history
<1>9. Addresses'
  <2>1. LiveEps' = LiveEps /\ DistinctIps' = DistinctIps /\ alloc' = alloc /\ refreed' = refreed
    BY DEF LiveEps, DistinctIps, objects, history, PlugNic
  <2>2. \A q \in Procs, j \in Nics : NicAt(q, j, "create")' =>
           NicAt(q, j, "create") /\ nic'[q][j].ip = nic[q][j].ip
    BY <1>2 DEF NicAt, NicAfter
  <2> QED BY <2>1, <2>2 DEF IInv, Addresses
<1>10. Accounted'
  <2>1. LiveEps' = LiveEps /\ alloc' = alloc /\ cut' = cut /\ fails' = fails
    BY DEF LiveEps, objects, history, PlugNic
  <2>2. \A q \in Procs, j \in Nics : NicAt(q, j, "create") =>
           NicAt(q, j, "create")' /\ nic'[q][j].ip = nic[q][j].ip
    BY <1>1, <1>2 DEF NicAt, NicAfter
  <2> QED BY <2>1, <2>2 DEF IInv, Accounted
<1>11. OneAdd'
  BY <1>1, <1>2, <1>3, <1>4 DEF IInv, OneAdd, Stages, kubelet, PlugNic, NicAfter
<1>12. DelsLate'
  BY <1>3, <1>4 DEF IInv, DelsLate, kubelet, PlugNic
<1>13. OwnEps'
  BY <1>3, <1>4 DEF IInv, OwnEps, PlugNic
<1>14. Waiting'
  <2>1. LiveEps' = LiveEps
    BY DEF LiveEps, objects, history, PlugNic
  <2>2. \A q \in Procs, j \in Nics : nic'[q][j].pc \in {"refresh", "plug", "ok"} =>
           EpOf(q, j)' = EpOf(q, j) /\ nic[q][j].pc \in {"refresh", "plug", "ok"}
    BY <1>1, <1>2 DEF NicAfter, EpOf, PlugNic
  <2>3. \A q \in Procs, j \in Nics : nic[q][j].pc \in {"deleting", "err"} =>
           nic'[q][j].pc \in {"deleting", "err"}
    BY <1>1, <1>2 DEF NicAfter
  <2>4. \A q \in Procs : \A d \in del[q] : d.ep.nic \in Nics
    BY <1>1 DEF TypeOK, Call, Eps
  <2>5. n.pc = "deleting" => nic'[p][i].pc = "deleting"
    BY <1>2 DEF NicAfter
  <2> QED BY <1>3, <1>4, <2>1, <2>2, <2>3, <2>4, <2>5 DEF IInv, Waiting, At, PlugNic
<1>15. UpPodsConnected'
  BY <1>2, <1>3, <1>4 DEF IInv, UpPodsConnected, LiveEps, objects, kubelet, history, PlugNic
<1> QED BY <1>5, <1>6, <1>7, <1>8, <1>9, <1>10, <1>11, <1>12, <1>13, <1>14, <1>15 DEF IInv

\* The deletion of the DanmEp of an interface is over.
LEMMA PushErrorIInv ==
    ASSUME IInv, NEW p \in Procs, NEW i \in Nics, PushError(p, i)
    PROVE  IInv'
<1>1. TypeOK /\ nic[p][i] \in Nic /\ nic[p][i].pc = "deleting" /\ NicGoto(p, i, "err")
  BY DEF IInv, TypeOK, PushError, NicAt
<1>2. PICK n \in Nic : /\ NicAfter(p, i, n)
                       /\ n.pc = "err" /\ n.ip = nic[p][i].ip /\ n.ep = nic[p][i].ep
  BY <1>1, NicGotoFacts
<1>3. /\ del' \in [Procs -> SUBSET Call]
      /\ \A q \in Procs : del'[q] \subseteq del[q]
  BY <1>1 DEF PushError, TypeOK
<1>4. TypeOK'
  BY <1>1, <1>2, <1>3 DEF IInv, TypeOK, objects, kubelet, history, PushError, NicAfter
<1>5. Stages'
  BY <1>1, <1>2, <1>3 DEF IInv, Stages, NicAfter, PushError
<1>6. Identities'
  BY <1>1, <1>2, <1>3 DEF IInv, Identities, objects, history, PushError, NicAfter
<1>7. References'
  <2>1. \A q \in Procs, j \in Nics : nic'[q][j].pc \in {"refresh", "plug", "ok"} =>
           EpOf(q, j)' = EpOf(q, j) /\ nic[q][j].pc \in {"refresh", "plug", "ok"}
    BY <1>1, <1>2 DEF NicAfter, EpOf, PushError
  <2>2. \A e : Known(e)' = Known(e)
    BY DEF Known, PushError, objects, history
  <2> QED BY <1>3, <2>1, <2>2 DEF IInv, References, PushError, history
<1>8. Addresses'
  <2>1. LiveEps' = LiveEps /\ DistinctIps' = DistinctIps /\ alloc' = alloc /\ refreed' = refreed
    BY DEF LiveEps, DistinctIps, objects, history, PushError
  <2>2. \A q \in Procs, j \in Nics : NicAt(q, j, "create")' =>
           NicAt(q, j, "create") /\ nic'[q][j].ip = nic[q][j].ip
    BY <1>2 DEF NicAt, NicAfter
  <2> QED BY <2>1, <2>2 DEF IInv, Addresses
<1>9. Accounted'
  <2>1. LiveEps' = LiveEps /\ alloc' = alloc /\ cut' = cut /\ fails' = fails
    BY DEF LiveEps, objects, history, PushError
  <2>2. \A q \in Procs, j \in Nics : NicAt(q, j, "create") =>
           NicAt(q, j, "create")' /\ nic'[q][j].ip = nic[q][j].ip
    BY <1>1, <1>2 DEF NicAt, NicAfter
  <2> QED BY <2>1, <2>2 DEF IInv, Accounted
<1>10. OneAdd'
  BY <1>1, <1>2, <1>3 DEF IInv, OneAdd, Stages, kubelet, PushError, NicAfter
<1>11. DelsLate'
  BY <1>3 DEF IInv, DelsLate, kubelet, PushError
<1>12. OwnEps'
  BY <1>1, <1>2, <1>3 DEF IInv, OwnEps, Stages, PushError, NicAfter
<1>13. Waiting'
  <2>1. LiveEps' = LiveEps
    BY DEF LiveEps, objects, history, PushError
  <2>2. \A q \in Procs, j \in Nics : nic'[q][j].pc \in {"refresh", "plug", "ok"} =>
           EpOf(q, j)' = EpOf(q, j) /\ nic[q][j].pc \in {"refresh", "plug", "ok"}
    BY <1>1, <1>2 DEF NicAfter, EpOf, PushError
  <2>3. \A q \in Procs, j \in Nics : nic[q][j].pc \in {"deleting", "err"} =>
           nic'[q][j].pc \in {"deleting", "err"}
    BY <1>1, <1>2 DEF NicAfter
  <2>4. \A q \in Procs : \A d \in del[q] : d.ep.nic \in Nics
    BY <1>1 DEF TypeOK, Call, Eps
  <2> QED BY <1>3, <2>1, <2>2, <2>3, <2>4 DEF IInv, Waiting, At, PushError
<1>14. UpPodsConnected'
  BY <1>2, <1>3 DEF IInv, UpPodsConnected, LiveEps, objects, kubelet, history, PushError
<1> QED BY <1>4, <1>5, <1>6, <1>7, <1>8, <1>9, <1>10, <1>11, <1>12, <1>13, <1>14 DEF IInv

\* The network of a DanmEp is read, or the deletion is given up.
LEMMA GetNetworkFromEpIInv ==
    ASSUME IInv, NEW p \in Procs, NEW d \in del[p], GetNetworkFromEp(p, d)
    PROVE  IInv'
<1>1. TypeOK
  BY DEF IInv
<1>2. /\ d \in Call /\ del' \in [Procs -> SUBSET Call]
      /\ \A q \in Procs : q # p => del'[q] = del[q]
      /\ \A c \in del'[p] : c \in del[p] \/ (c.ep = d.ep /\ c.pc \in {"free", "done"})
  BY <1>1, DelFacts DEF GetNetworkFromEp
<1>3. fails' \in Nat /\ (fails' = 0 => fails = 0)
  BY <1>1 DEF GetNetworkFromEp, ApiFails, TypeOK
<1>4. TypeOK'
  BY <1>1, <1>2, <1>3 DEF IInv, TypeOK, objects, kubelet, history, GetNetworkFromEp
<1>5. Stages'
  BY <1>2 DEF IInv, Stages, GetNetworkFromEp
<1>6. Identities'
  BY <1>1, <1>2, <1>3 DEF IInv, Identities, objects, history, GetNetworkFromEp
<1>7. References'
  BY <1>2, <1>3 DEF IInv, References, Known, EpOf, objects, history, GetNetworkFromEp
<1>8. Addresses'
  BY <1>1, <1>2, <1>3 DEF IInv, Addresses, LiveEps, DistinctIps, NicAt, Stages, objects, history,
     GetNetworkFromEp
<1>9. Accounted'
  BY <1>2, <1>3 DEF IInv, Accounted, LiveEps, NicAt, objects, history, GetNetworkFromEp
<1>10. OneAdd'
  BY <1>1, <1>2, <1>3 DEF IInv, OneAdd, Stages, kubelet, GetNetworkFromEp
<1>11. DelsLate'
  BY <1>1, <1>2, <1>3 DEF IInv, DelsLate, OneAdd, Stages, kubelet, GetNetworkFromEp
<1>12. OwnEps'
  BY <1>1, <1>2, <1>3 DEF IInv, OwnEps, Stages, GetNetworkFromEp
<1>13. Waiting'
  BY <1>1, <1>2, <1>3 DEF IInv, Waiting, LiveEps, EpOf, At, Stages, objects, history,
     GetNetworkFromEp
<1>14. UpPodsConnected'
  BY <1>3 DEF IInv, UpPodsConnected, LiveEps, objects, kubelet, history, GetNetworkFromEp
<1> QED BY <1>4, <1>5, <1>6, <1>7, <1>8, <1>9, <1>10, <1>11, <1>12, <1>13, <1>14 DEF IInv

\* The address that is freed is that of the one DanmEp with the id; the DanmEp belongs neither
\* to a Pod that is up nor to an interface an ADD waits for.
LEMMA FreeIpIInv ==
    ASSUME IInv, NEW p \in Procs, NEW d \in del[p], FreeIp(p, d)
    PROVE  IInv'
<1>1. TypeOK /\ Known(d.ep) /\ d \in Call /\ d.ep \in Eps
  BY DEF IInv, References, TypeOK, Call
<1>2. /\ del' \in [Procs -> SUBSET Call]
      /\ \A q \in Procs : q # p => del'[q] = del[q]
      /\ \A c \in del'[p] : c \in del[p] \/ c.ep = d.ep
  BY <1>1, DelFacts DEF FreeIp
<1>3. \/ /\ alloc' = alloc \ {d.ep.ip} /\ freed' = freed \cup {d.ep.id}
         /\ refreed' = (refreed \/ d.ep.id \in freed)
      \/ /\ UNCHANGED <<alloc, freed, refreed>> /\ fails' = fails + 1
         /\ \A c \in del'[p] : c \in del[p] \/ c.pc = "done"
  BY <1>1, DelFacts DEF FreeIp, ApiFails
<1>4. fails' \in Nat /\ (fails' = 0 => fails = 0)
  BY <1>1 DEF FreeIp, ApiFails, TypeOK
<1>5. /\ d.ep.id \notin freed => d.ep \in LiveEps
      /\ \A e \in LiveEps : e.id = d.ep.id => e = d.ep
  BY <1>1 DEF IInv, Known, LiveEps, Identities
<1>6. /\ \A e \in LiveEps : e = d.ep \/ e \in LiveEps'
      /\ LiveEps' \subseteq LiveEps
      /\ d.ep \in LiveEps' => UNCHANGED <<alloc, freed, refreed>>
      /\ freed' = freed => LiveEps' = LiveEps
  BY <1>3, <1>5 DEF LiveEps, FreeIp
<1>7. \A e : Known(e) => Known(e)'
  BY <1>3 DEF Known, FreeIp
<1>8. d.ep.cid \notin up
  <2>1. CASE proc[p].op = "ADD"
    BY <2>1 DEF IInv, OneAdd, OwnEps
  <2>2. CASE proc[p].op = "DEL"
    <3>1. proc[p].pc # "idle" /\ d.ep.cid = proc[p].cid
      BY <2>2 DEF IInv, Stages, OwnEps
    <3> QED BY <2>2, <3>1 DEF IInv, DelsLate
  <2> QED BY <1>1, <2>1, <2>2 DEF TypeOK, Main
<1>9. ASSUME NEW q \in Procs, At(q, "wait"), NEW i \in Nics,
             nic[q][i].pc \in {"refresh", "plug", "ok"}
      PROVE  EpOf(q, i) # d.ep
  <2>1. SUFFICES ASSUME EpOf(q, i) = d.ep PROVE FALSE
    OBVIOUS
  <2>2. d.ep.cid = proc[q].cid /\ d.ep.nic = i /\ proc[q].op = "ADD"
    BY <1>9, <2>1 DEF EpOf, IInv, Stages, At
  <2>3. proc[p].op = "ADD" => p = q
    BY <2>2 DEF IInv, OneAdd, OwnEps
  <2>4. proc[p].op # "DEL"
    <3>1. proc[p].pc # "idle" /\ (proc[p].op = "DEL" => d.ep.cid = proc[p].cid)
      BY DEF IInv, Stages, OwnEps
    <3> QED BY <2>2, <3>1 DEF IInv, DelsLate
  <2>5. p = q
    BY <1>1, <2>3, <2>4 DEF TypeOK, Main
  <2> QED BY <1>9, <2>2, <2>5 DEF IInv, Waiting
<1>10. TypeOK'
  <2>1. d.ep.id \in 1 .. nextId
    BY <1>1 DEF IInv, Identities, Known, TypeOK, Eps
  <2> QED BY <1>1, <1>2, <1>3, <1>4, <2>1 DEF TypeOK, FreeIp, kubelet
<1>11. Stages'
  BY <1>2 DEF IInv, Stages, FreeIp
<1>12. Identities'
  <2>1. d.ep.id < nextId
    <3>1. nextId \in Nat /\ \A k \in 1 .. nextId - 1 : k < nextId
      BY <1>1 DEF TypeOK
    <3> QED BY <1>1, <3>1 DEF IInv, Identities, Known
  <2> QED BY <1>3, <2>1 DEF IInv, Identities, FreeIp
<1>13. References'
  <2>1. \A c \in del'[p] : c.pc = "delete" => c.ep.id \in freed'
    BY <1>2, <1>3 DEF IInv, References
  <2>2. freed \subseteq freed'
    BY <1>3
  <2> QED BY <1>1, <1>2, <1>7, <2>1, <2>2 DEF IInv, References, EpOf, FreeIp
<1>14. Addresses'
  <2>1. SUFFICES ASSUME ~refreed' PROVE Addresses'
    BY DEF Addresses
  <2>2. ~refreed /\ \A x \in alloc : \/ x \in alloc'
                                     \/ x = d.ep.ip /\ d.ep \in LiveEps /\ d.ep \notin LiveEps'
    <3>1. CASE UNCHANGED <<alloc, freed, refreed>>
      BY <2>1, <3>1
    <3>2. CASE alloc' = alloc \ {d.ep.ip} /\ freed' = freed \cup {d.ep.id}
               /\ refreed' = (refreed \/ d.ep.id \in freed)
      <4>1. ~refreed /\ d.ep.id \notin freed
        BY <2>1, <3>2
      <4>2. d.ep \notin LiveEps'
        BY <3>2 DEF LiveEps
      <4> QED BY <1>5, <3>2, <4>1, <4>2
    <3> QED BY <1>3, <3>1, <3>2
  <2> QED BY <1>6, <2>2 DEF IInv, Addresses, DistinctIps, NicAt, FreeIp
<1>15. Accounted'
  <2>1. \A x \in alloc' : x \in alloc /\ (x # d.ep.ip \/ d.ep \notin LiveEps \/ d.ep \in LiveEps')
    BY <1>3, <1>6
  <2> QED BY <1>4, <1>6, <2>1 DEF IInv, Accounted, NicAt, FreeIp
<1>16. OneAdd'
  BY <1>1, <1>2, <1>3, <1>4, <1>5, <1>6, <1>7, <1>8, <1>9 DEF IInv, OneAdd, Stages, kubelet,
     FreeIp
<1>17. DelsLate'
  BY <1>1, <1>2, <1>3, <1>4, <1>5, <1>6, <1>7, <1>8, <1>9 DEF IInv, DelsLate, OneAdd, Stages,
     kubelet, FreeIp
<1>18. OwnEps'
  BY <1>2 DEF IInv, OwnEps, FreeIp
<1>19. Waiting'
  BY <1>2, <1>6, <1>9 DEF IInv, Waiting, At, EpOf, FreeIp
<1>20. UpPodsConnected'
  BY <1>6, <1>8 DEF IInv, UpPodsConnected, FreeIp, kubelet
<1> QED BY <1>10, <1>11, <1>12, <1>13, <1>14, <1>15, <1>16, <1>17, <1>18, <1>19, <1>20 DEF IInv

\* The address of a DanmEp that is deleted has been freed.
LEMMA DeleteDanmEpIInv ==
    ASSUME IInv, NEW p \in Procs, NEW d \in del[p], DeleteDanmEp(p, d)
    PROVE  IInv'
<1>1. TypeOK /\ d.ep.id \in freed
  BY DEF IInv, References, DeleteDanmEp
<1>2. /\ d \in Call /\ del' \in [Procs -> SUBSET Call]
      /\ \A q \in Procs : q # p => del'[q] = del[q]
      /\ \A c \in del'[p] : c \in del[p] \/ (c.ep = d.ep /\ c.pc = "done")
  BY <1>1, DelFacts DEF DeleteDanmEp
<1>3. fails' \in Nat /\ (fails' = 0 => fails = 0)
  BY <1>1 DEF DeleteDanmEp, ApiFails, TypeOK
<1>4. eps' \subseteq eps /\ LiveEps' = LiveEps /\ \A e : Known(e) => Known(e)'
  BY <1>1 DEF DeleteDanmEp, LiveEps, Known, history
<1>5. TypeOK'
  BY <1>1, <1>2, <1>3, <1>4 DEF IInv, TypeOK, objects, kubelet, history, DeleteDanmEp
<1>6. Stages'
  BY <1>2 DEF IInv, Stages, DeleteDanmEp
<1>7. Identities'
  BY <1>4 DEF IInv, Identities, DeleteDanmEp, history
<1>8. References'
  BY <1>1, <1>2, <1>4 DEF IInv, References, EpOf, DeleteDanmEp, history
<1>9. Addresses'
  BY <1>4 DEF IInv, Addresses, DistinctIps, NicAt, DeleteDanmEp, history
<1>10. Accounted'
  BY <1>3, <1>4 DEF IInv, Accounted, NicAt, DeleteDanmEp, history
<1>11. OneAdd'
  BY <1>1, <1>2, <1>3, <1>4 DEF IInv, OneAdd, Stages, kubelet, DeleteDanmEp
<1>12. DelsLate'
  BY <1>1, <1>2, <1>3, <1>4 DEF IInv, DelsLate, OneAdd, Stages, kubelet, DeleteDanmEp
<1>13. OwnEps'
  BY <1>2 DEF IInv, OwnEps, DeleteDanmEp
<1>14. Waiting'
  BY <1>2, <1>4 DEF IInv, Waiting, At, EpOf, DeleteDanmEp
<1>15. UpPodsConnected'
  BY <1>4 DEF IInv, UpPodsConnected, DeleteDanmEp, kubelet
<1> QED BY <1>5, <1>6, <1>7, <1>8, <1>9, <1>10, <1>11, <1>12, <1>13, <1>14, <1>15 DEF IInv

\* All goroutines are done and have their DanmEps, and no other ADD runs for the Pod.
LEMMA AddSucceedsIInv ==
    ASSUME IInv, NEW p \in Procs, AddSucceeds(p)
    PROVE  IInv'
<1>1. TypeOK /\ Exit(p)
  BY DEF IInv, AddSucceeds
<1>2. /\ proc' \in [Procs -> Main]
      /\ nic' \in [Procs -> [Nics -> Nic]]
      /\ del' \in [Procs -> SUBSET Call]
      /\ \A q \in Procs : q # p => nic'[q] = nic[q]
  BY <1>1, ExitFacts
<1>3. /\ Stages' /\ Identities' /\ References' /\ Addresses' /\ OwnEps' /\ Waiting'
      /\ up' = up => OneAdd' /\ DelsLate' /\ UpPodsConnected'
  BY <1>1, ExitKeeps DEF AddSucceeds, objects, kubelet, history
<1>4. /\ \A q \in Procs : q # p => proc'[q] = proc[q]
      /\ proc'[p].pc = "idle" /\ proc'[p].op = "DEL"
      /\ proc[p].op = "ADD" /\ proc[p].cid \in added
      /\ \A i \in Nics : NicAt(p, i, "ok")
  BY ExitFacts DEF IInv, AddSucceeds, AllResults, AnyError, NicAt, Stages, At, OneAdd
<1>5. TypeOK'
  BY <1>1, <1>2, <1>4 DEF TypeOK, AddSucceeds, objects, history
<1>6. Stages'
  BY <1>3 DEF AddSucceeds, kubelet
<1>7. Identities'
  BY <1>3 DEF AddSucceeds, kubelet
<1>8. References'
  BY <1>3 DEF AddSucceeds, kubelet
<1>9. Addresses'
  BY <1>3 DEF AddSucceeds, kubelet
<1>10. Accounted'
  <2>1. ASSUME fails' = 0, ~cut' PROVE \A i \in Nics : ~NicAt(p, i, "create")
    BY <2>1 DEF IInv, Stages, At, NicAt, AddSucceeds, AllResults
  <2>2. \A q \in Procs, i \in Nics : NicAt(q, i, "create") /\ q # p =>
            NicAt(q, i, "create")' /\ nic'[q][i].ip = nic[q][i].ip
    BY <1>2 DEF NicAt
  <2> QED BY <2>1, <2>2 DEF IInv, Accounted, LiveEps, objects, history, AddSucceeds
<1>11. OneAdd'
  <2>1. \A q \in Procs : proc'[q].op = "ADD" => proc'[q] = proc[q] /\ q # p
    BY <1>4
  <2> QED BY <1>4, <2>1 DEF IInv, OneAdd, AddSucceeds
<1>12. DelsLate'
  <2>1. \A q \in Procs : proc'[q].op = "ADD" \/ proc'[q].pc # "idle" => proc'[q] = proc[q] /\ q # p
    BY <1>4
  <2> QED BY <1>4, <2>1 DEF IInv, DelsLate, AddSucceeds
<1>13. OwnEps'
  BY <1>3 DEF AddSucceeds, kubelet
<1>14. Waiting'
  BY <1>3 DEF AddSucceeds, kubelet
<1>15. UpPodsConnected'
  <2>1. \A i \in Nics : EpOf(p, i) \in LiveEps /\ EpOf(p, i).cid = proc[p].cid /\ EpOf(p, i).nic = i
    BY <1>4 DEF IInv, Waiting, AddSucceeds, NicAt, EpOf
  <2> QED BY <2>1 DEF IInv, UpPodsConnected, AddSucceeds, LiveEps, objects, history
<1> QED BY <1>5, <1>6, <1>7, <1>8, <1>9, <1>10, <1>11, <1>12, <1>13, <1>14, <1>15 DEF IInv

\* An ADD that failed goes on as a DEL.
LEMMA AddFailsIInv ==
    ASSUME IInv, NEW p \in Procs, AddFails(p)
    PROVE  IInv'
<1>1. TypeOK /\ Goto(p, "dellist")
  BY DEF IInv, AddFails
<1>2. /\ proc' \in [Procs -> Main]
      /\ \A q \in Procs : q # p => proc'[q] = proc[q]
      /\ proc'[p].pc = "dellist"
      /\ proc'[p].op = proc[p].op /\ proc'[p].cid = proc[p].cid /\ proc'[p].list = proc[p].list
  BY <1>1, GotoFacts
<1>3. TypeOK'
  BY <1>1, <1>2 DEF IInv, TypeOK, objects, kubelet, history, AddFails, At
<1>4. Stages'
  BY <1>1, <1>2 DEF IInv, Stages, AddFails, At
<1>5. Identities'
  BY <1>1, <1>2 DEF IInv, Identities, objects, history, AddFails, At
<1>6. References'
  BY <1>1, <1>2 DEF IInv, References, Known, EpOf, objects, history, AddFails
<1>7. Addresses'
  BY <1>1, <1>2 DEF IInv, Addresses, LiveEps, DistinctIps, NicAt, Stages, objects, history,
     AddFails, At
<1>8. Accounted'
  BY <1>1, <1>2 DEF IInv, Accounted, LiveEps, NicAt, objects, history, AddFails
<1>9. OneAdd'
  BY <1>1, <1>2 DEF IInv, OneAdd, Stages, kubelet, AddFails, At
<1>10. DelsLate'
  BY <1>1, <1>2 DEF IInv, DelsLate, OneAdd, Stages, kubelet, AddFails, At
<1>11. OwnEps'
  BY <1>1, <1>2 DEF IInv, OwnEps, Stages, AddFails, At
<1>12. Waiting'
  BY <1>1, <1>2 DEF IInv, Waiting, LiveEps, EpOf, At, Stages, objects, history, AddFails
<1>13. UpPodsConnected'
  BY <1>2 DEF IInv, UpPodsConnected, LiveEps, objects, kubelet, history, AddFails
<1> QED BY <1>3, <1>4, <1>5, <1>6, <1>7, <1>8, <1>9, <1>10, <1>11, <1>12, <1>13 DEF IInv

\* The DanmEps a DEL has found are stored, and those of its container.
LEMMA FindByCidListsIInv ==
    ASSUME IInv, NEW p \in Procs, At(p, "dellist"),
           del' = [del EXCEPT ![p] =
                      @ \cup {[who |-> "goroutine", ep |-> e, pc |-> "getnet"] :
                                e \in EpsOf(proc[p].cid)}],
           Goto(p, "delwait"),
           UNCHANGED <<nic, fails, cut, objects, kubelet, crashes, nextId, freed, refreed>>
    PROVE  IInv'
<1>1. TypeOK /\ At(p, "dellist") /\ proc[p].cid \in Cids
  BY DEF IInv, At, Stages
<1>2. /\ proc' \in [Procs -> Main]
      /\ \A q \in Procs : q # p => proc'[q] = proc[q]
      /\ proc'[p].pc = "delwait"
      /\ proc'[p].op = proc[p].op /\ proc'[p].cid = proc[p].cid /\ proc'[p].list = proc[p].list
  BY <1>1, GotoFacts
<1>3. /\ del' \in [Procs -> SUBSET Call]
      /\ \A q \in Procs : q # p => del'[q] = del[q]
      /\ \A d \in del'[p] : \/ d \in del[p]
                            \/ d.pc = "getnet" /\ d.ep \in eps /\ d.ep.cid = proc[p].cid
  <2>1. \A e \in EpsOf(proc[p].cid) : /\ [who |-> "goroutine", ep |-> e, pc |-> "getnet"] \in Call
                                      /\ e \in eps /\ e.cid = proc[p].cid
    BY <1>1 DEF EpsOf, TypeOK, Call
  <2> QED BY <1>1, <2>1 DEF TypeOK
<1>4. TypeOK'
  BY <1>1, <1>2, <1>3 DEF IInv, TypeOK, objects, kubelet, history
<1>5. Stages'
  BY <1>1, <1>2, <1>3 DEF IInv, Stages
<1>6. Identities'
  BY <1>1, <1>2, <1>3 DEF IInv, Identities, objects, history
<1>7. References'
  BY <1>1, <1>2, <1>3 DEF IInv, References, Known, EpOf, Stages, objects, history
<1>8. Addresses'
  BY <1>2, <1>3 DEF IInv, Addresses, LiveEps, DistinctIps, NicAt, objects
<1>9. Accounted'
  BY <1>3 DEF IInv, Accounted, LiveEps, NicAt, objects
<1>10. OneAdd'
  BY <1>1, <1>2, <1>3 DEF IInv, OneAdd, Stages, kubelet
<1>11. DelsLate'
  BY <1>2 DEF IInv, DelsLate, Stages, At, kubelet
<1>12. OwnEps'
  BY <1>1, <1>2, <1>3 DEF IInv, OwnEps, Stages
<1>13. Waiting'
  BY <1>2, <1>3 DEF IInv, Waiting, LiveEps, EpOf, At, objects
<1>14. UpPodsConnected'
  BY <1>1, <1>2, <1>3 DEF IInv, UpPodsConnected, LiveEps, objects, kubelet, history
<1> QED BY <1>4, <1>5, <1>6, <1>7, <1>8, <1>9, <1>10, <1>11, <1>12, <1>13, <1>14 DEF IInv

\* A DEL ends, with or without its goroutines.
LEMMA DelReturnsIInv ==
    ASSUME IInv, NEW p \in Procs, DelReturns(p)
    PROVE  IInv'
<1>1. TypeOK /\ Exit(p)
  BY DEF IInv, DelReturns
<1>2. /\ proc' \in [Procs -> Main]
      /\ nic' \in [Procs -> [Nics -> Nic]]
      /\ del' \in [Procs -> SUBSET Call]
      /\ \A q \in Procs : q # p => nic'[q] = nic[q]
  BY <1>1, ExitFacts
<1>3. /\ Stages' /\ Identities' /\ References' /\ Addresses' /\ OwnEps' /\ Waiting'
      /\ up' = up => OneAdd' /\ DelsLate' /\ UpPodsConnected'
  BY <1>1, ExitKeeps DEF DelReturns, objects, kubelet, history
<1>4. TypeOK'
  BY <1>1, <1>2, <1>3 DEF IInv, TypeOK, objects, kubelet, history, DelReturns, At
<1>5. Stages'
  BY <1>3 DEF DelReturns, kubelet
<1>6. Identities'
  BY <1>3 DEF DelReturns, kubelet
<1>7. References'
  BY <1>3 DEF DelReturns, kubelet
<1>8. Addresses'
  BY <1>3 DEF DelReturns, kubelet
<1>9. Accounted'
  <2>1. ASSUME fails' = 0, ~cut' PROVE \A i \in Nics : ~NicAt(p, i, "create")
    BY <2>1 DEF IInv, Stages, At, NicAt, DelReturns, Running
  <2>2. \A q \in Procs, i \in Nics : NicAt(q, i, "create") /\ q # p =>
            NicAt(q, i, "create")' /\ nic'[q][i].ip = nic[q][i].ip
    BY <1>2 DEF NicAt
  <2>3. fails' = fails /\ (~cut' => ~cut)
    BY DEF DelReturns
  <2> QED BY <2>1, <2>2, <2>3 DEF IInv, Accounted, LiveEps, objects, DelReturns
<1>10. OneAdd'
  BY <1>3 DEF DelReturns, kubelet
<1>11. DelsLate'
  BY <1>3 DEF DelReturns, kubelet
<1>12. OwnEps'
  BY <1>3 DEF DelReturns, kubelet
<1>13. Waiting'
  BY <1>3 DEF DelReturns, kubelet
<1>14. UpPodsConnected'
  BY <1>3 DEF DelReturns, kubelet
<1> QED BY <1>4, <1>5, <1>6, <1>7, <1>8, <1>9, <1>10, <1>11, <1>12, <1>13, <1>14 DEF IInv

\* A process is killed.
LEMMA CrashIInv ==
    ASSUME IInv, NEW p \in Procs, Crash(p)
    PROVE  IInv'
<1>1. TypeOK /\ Exit(p)
  BY DEF IInv, Crash
<1>2. /\ proc' \in [Procs -> Main]
      /\ nic' \in [Procs -> [Nics -> Nic]]
      /\ del' \in [Procs -> SUBSET Call]
      /\ \A q \in Procs : q # p => nic'[q] = nic[q]
  BY <1>1, ExitFacts
<1>3. /\ Stages' /\ Identities' /\ References' /\ Addresses' /\ OwnEps' /\ Waiting'
      /\ up' = up => OneAdd' /\ DelsLate' /\ UpPodsConnected'
  BY <1>1, ExitKeeps DEF Crash, objects, kubelet, history
<1>4. TypeOK'
  BY <1>1, <1>2, <1>3 DEF IInv, TypeOK, objects, kubelet, history, Crash, At
<1>5. Stages'
  BY <1>3 DEF Crash, kubelet
<1>6. Identities'
  BY <1>3 DEF Crash, kubelet
<1>7. References'
  BY <1>3 DEF Crash, kubelet
<1>8. Addresses'
  BY <1>3 DEF Crash, kubelet
<1>9. Accounted'
  BY <1>1, <1>2, <1>3 DEF Accounted, Crash
<1>10. OneAdd'
  BY <1>3 DEF Crash, kubelet
<1>11. DelsLate'
  BY <1>3 DEF Crash, kubelet
<1>12. OwnEps'
  BY <1>3 DEF Crash, kubelet
<1>13. Waiting'
  BY <1>3 DEF Crash, kubelet
<1>14. UpPodsConnected'
  BY <1>3 DEF Crash, kubelet
<1> QED BY <1>4, <1>5, <1>6, <1>7, <1>8, <1>9, <1>10, <1>11, <1>12, <1>13, <1>14 DEF IInv

-----------------------------------------------------------------------------
LEMMA InitIInv == Init => IInv
<1> SUFFICES ASSUME Init PROVE IInv
  OBVIOUS
<1>1. IdleMain \in Main /\ NoNic \in Nic
  BY DEF IdleMain, Main, NoNic, Nic
<1>2. TypeOK
  BY <1>1 DEF Init, TypeOK
<1>3. /\ \A p \in Procs : /\ proc[p].pc = "idle" /\ proc[p].op = "DEL" /\ proc[p].list = {}
                          /\ del[p] = {}
                          /\ \A i \in Nics : nic[p][i].pc = "off"
      /\ alloc = {} /\ eps = {} /\ LiveEps = {} /\ up = {} /\ nextId = 1 /\ freed = {}
  BY DEF Init, IdleMain, NoNic, LiveEps
<1>4. Stages /\ Identities /\ References /\ Addresses /\ Accounted
  BY <1>3 DEF Stages, Identities, References, Addresses, Accounted, NicAt, DistinctIps
<1>5. OneAdd /\ DelsLate /\ OwnEps /\ Waiting /\ UpPodsConnected
  BY <1>3 DEF OneAdd, DelsLate, OwnEps, Waiting, UpPodsConnected, At
<1> QED BY <1>2, <1>4, <1>5 DEF IInv

LEMMA StutterIInv == IInv /\ UNCHANGED vars => IInv'
<1> SUFFICES ASSUME IInv, UNCHANGED vars PROVE IInv'
  OBVIOUS
<1> USE DEF IInv, vars, objects, kubelet, history, LiveEps, EpOf, NicAt, At
<1>1. TypeOK' /\ Stages' /\ Identities'
  BY DEF TypeOK, Stages, Identities
<1>2. References' /\ Addresses' /\ Accounted'
  BY DEF References, Known, Addresses, DistinctIps, Accounted
<1>3. OneAdd' /\ DelsLate' /\ OwnEps' /\ Waiting' /\ UpPodsConnected'
  BY DEF OneAdd, DelsLate, OwnEps, Waiting, UpPodsConnected
<1> QED BY <1>1, <1>2, <1>3

LEMMA NextIInv == IInv /\ [Next]_vars => IInv'
<1> SUFFICES ASSUME IInv, Next PROVE IInv'
  BY StutterIInv
<1>1. PICK p \in Procs :
         \/ \E c \in Cids : CreateInterfaces(p, c) \/ DeleteInterfaces(p, c)
         \/ MainStep(p)
         \/ \E i \in Nics : NicStep(p, i)
         \/ \E d \in del[p] : DelStep(p, d)
         \/ Crash(p)
  BY DEF Next
<1>2. CASE \E c \in Cids : CreateInterfaces(p, c) \/ DeleteInterfaces(p, c)
  BY <1>2, CreateInterfacesIInv, DeleteInterfacesIInv
<1>3. CASE MainStep(p)
  <2>1. CASE FindByCid(p)
    <3>1. CASE ApiFails /\ Exit(p) /\ cut' = (cut \/ Running(p))
      BY <2>1, <3>1, ExitFailsIInv DEF FindByCid
    <3> QED BY <2>1, <3>1, FindByCidListsIInv DEF FindByCid
  <2> QED BY <1>3, <2>1, AddRefusedIInv, preparePodForIpv6IInv, cleanOutdatedAllocationsIInv,
             CleanNextIInv, CleanDoneIInv, setupNetworkingIInv, AddSucceedsIInv, AddFailsIInv,
             DelReturnsIInv DEF MainStep
<1>4. CASE \E i \in Nics : NicStep(p, i)
  <2>1. PICK i \in Nics : NicStep(p, i)
    BY <1>4
  <2>2. CASE RefreshNet(p, i)
    <3>1. CASE ApiFails /\ Exit(p) /\ cut' = TRUE
      BY <2>2, <3>1, ExitFailsIInv DEF RefreshNet
    <3> QED BY <2>2, <3>1, RefreshNetOkIInv DEF RefreshNet, history
  <2> QED BY <2>1, <2>2, ReserveIpIInv, CreateDanmEpIInv, PlugNicIInv, PushErrorIInv DEF NicStep
<1>5. CASE \E d \in del[p] : DelStep(p, d)
  BY <1>5, GetNetworkFromEpIInv, FreeIpIInv, DeleteDanmEpIInv DEF DelStep
<1> QED BY <1>1, <1>2, <1>3, <1>4, <1>5, CrashIInv

\* The invariant holds for every interleaving of ADD and DEL processes and their goroutines.
THEOREM IInvHolds == Spec => []IInv
  BY InitIInv, NextIInv, PTL DEF Spec

-----------------------------------------------------------------------------
\* The objects and the goroutines have their types.
THEOREM TypeCorrect == Spec => []TypeOK
<1>1. IInv => TypeOK
  BY DEF IInv
<1> QED BY <1>1, IInvHolds, PTL

\* DeleteDanmEp and createNic (danmep.go, metacni.go): as long as no address has been
\* freed twice for one DanmEp, the address of every DanmEp that was not freed is reserved,
\* however ADD and DEL processes crash, time out, fail and interleave.
THEOREM EpsReservedAlways == Spec => []EpsReserved
<1>1. IInv => EpsReserved
  BY DEF IInv, Addresses, EpsReserved
<1> QED BY <1>1, IInvHolds, PTL

\* The same for two DanmEps: they have the same address only after one was freed twice
\* (danmep.go:375-390), which is what the run CniShared shows to be possible.
THEOREM DistinctIpsAlways == Spec => [](~refreed => DistinctIps)
<1>1. IInv => (~refreed => DistinctIps)
  BY DEF IInv, Addresses
<1> QED BY <1>1, IInvHolds, PTL

\* createNic and DeleteDanmEp: without API failures, and as long as no process ends before its
\* goroutines, every reserved address has a DanmEp, or a goroutine that will create it.
THEOREM NoIpLeakAlways == Spec => []NoIpLeak
<1>1. ASSUME IInv PROVE NoIpLeak
  <2>1. SUFFICES ASSUME fails = 0 /\ ~cut, NEW x \in alloc, x \notin {e.ip : e \in LiveEps}
                 PROVE  x \in IpsOnTheWay
    BY DEF NoIpLeak
  <2>2. PICK p \in Procs, i \in Nics : NicAt(p, i, "create") /\ nic[p][i].ip = x
    BY <1>1, <2>1 DEF IInv, Accounted
  <2>3. <<p, i>> \in {g \in Procs \X Nics : NicAt(g[1], g[2], "create")}
    BY <2>2
  <2>4. nic[<<p, i>>[1]][<<p, i>>[2]].ip = x
    BY <2>2
  <2> QED BY <2>3, <2>4 DEF IpsOnTheWay
<1> QED BY <1>1, IInvHolds, PTL

\* CmdAdd, CmdDel and cleanOutdatedAllocations (metacni.go): a Pod whose ADD has
\* succeeded keeps a DanmEp with an address nobody has freed for each of its interfaces,
\* whatever the processes of other containers and late goroutines do, until kubelet tears the
\* Pod down or sets it up anew.
THEOREM UpPodsConnectedAlways == Spec => []UpPodsConnected
<1>1. IInv => UpPodsConnected
  BY DEF IInv
<1> QED BY <1>1, IInvHolds, PTL

=============================================================================
