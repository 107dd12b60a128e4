-------------------------------- MODULE Cni --------------------------------
(***************************************************************************)
(* CNI ADD and DEL (pkg/metacni), and the life of the DanmEps and of their   *)
(* addresses (pkg/danmep).  Each invocation is a process.  ADD runs one      *)
(* createNic goroutine per interface and waits for their results, but for    *)
(* no longer than 30 seconds (pkg/syncher); DEL runs one deleteInterface     *)
(* goroutine per DanmEp.  When the process ends its goroutines end with it.  *)
(*                                                                           *)
(* ipam.Reserve and ipam.Free are single steps here: module Ipam is about    *)
(* what happens inside of them.                                              *)
(***************************************************************************)
EXTENDS Integers, FiniteSets

CONSTANTS
    Procs,       \* CNI processes that may run at the same time, on all nodes
    Cids,        \* infra containers
    PodUid,      \* the Pod of each infra container; a restarted Pod keeps its UID
    Nics,        \* the interfaces of a Pod
    Ips,         \* the addresses of the network
    MaxCalls,    \* bound: CNI invocations
    MaxFails,    \* bound: API calls that fail
    MaxCrashes   \* bound: CNI processes that are killed

ASSUME CniAssumption ==
    /\ IsFiniteSet(Nics) /\ Nics # {}
    /\ MaxCalls \in Nat /\ MaxFails \in Nat /\ MaxCrashes \in Nat

VARIABLES
    alloc,     \* the addresses reserved in the network object
    eps,       \* the DanmEps in the API server
    proc,      \* the main goroutine of each process
    nic,       \* its createNic goroutines
    del,       \* its DeleteDanmEp calls in progress, each with the caller and the DanmEp
    added,     \* the containers ADD was called for
    up,        \* the containers whose ADD succeeded and for which nothing was called since
    calls, fails, crashes, nextId,
    freed,     \* DanmEps whose address has been freed (history)
    refreed,   \* an address has been freed twice for one DanmEp (history)
    cut        \* a process has ended before its goroutines (history)

objects == <<alloc, eps>>
kubelet == <<added, up, calls>>
history == <<freed, refreed, cut>>
vars == <<objects, proc, nic, del, kubelet, fails, crashes, nextId, history>>

-----------------------------------------------------------------------------
Eps == [id : Nat, cid : Cids, nic : Nics, ip : Ips]
NoCid == "no container"
NoIp == "no address"

\* A main goroutine: where it is, the container it is called for, and the DanmEps
\* cleanOutdatedAllocations has yet to delete.
Main == [pc : {"idle", "list", "clean", "cleaning", "wait", "dellist", "delwait"},
         op : {"ADD", "DEL"}, cid : Cids \cup {NoCid}, list : SUBSET Eps]
IdleMain == [pc |-> "idle", op |-> "DEL", cid |-> NoCid, list |-> {}]

\* A createNic goroutine; "ok" and "err" are the results it pushes.
Nic == [pc : {"off", "reserve", "create", "refresh", "plug", "deleting", "ok", "err"},
        ip : Ips \cup {NoIp}, ep : Nat]
NoNic == [pc |-> "off", ip |-> NoIp, ep |-> 0]

\* A call of DeleteDanmEp, with the DanmEp as the caller knows it.
Call == [who : {"main", "goroutine"} \cup Nics, ep : Eps, pc : {"getnet", "free", "delete", "done"}]

Init ==
    /\ alloc = {} /\ eps = {}
    /\ proc = [p \in Procs |-> IdleMain]
    /\ nic = [p \in Procs |-> [i \in Nics |-> NoNic]]
    /\ del = [p \in Procs |-> {}]
    /\ added = {} /\ up = {}
    /\ calls = 0 /\ fails = 0 /\ crashes = 0 /\ nextId = 1
    /\ freed = {} /\ refreed = FALSE /\ cut = FALSE

At(p, l) == proc[p].pc = l
Goto(p, l) == proc' = [proc EXCEPT ![p].pc = l]
NicAt(p, i, l) == nic[p][i].pc = l
NicGoto(p, i, l) == nic' = [nic EXCEPT ![p][i].pc = l]

ApiFails == fails < MaxFails /\ fails' = fails + 1

\* The process ends, and with it the goroutines that are still running.
Running(p) == (\E i \in Nics : nic[p][i].pc \notin {"off", "ok", "err"})
              \/ (\E d \in del[p] : d.pc # "done")
Exit(p) ==
    /\ proc' = [proc EXCEPT ![p] = IdleMain]
    /\ nic' = [nic EXCEPT ![p] = [i \in Nics |-> NoNic]]
    /\ del' = [del EXCEPT ![p] = {}]

-----------------------------------------------------------------------------
\* Kubelet sets up a container once, and tears it down as often as it likes to, once
\* the ADD is over.
AddRuns(c) == \E p \in Procs : proc[p].op = "ADD" /\ proc[p].cid = c

CreateInterfaces(p, c) ==
    /\ At(p, "idle") /\ calls < MaxCalls
    /\ c \notin added /\ ~\E b \in added : PodUid[b] = PodUid[c] /\ AddRuns(b)
    /\ proc' = [proc EXCEPT ![p] = [pc |-> "list", op |-> "ADD", cid |-> c, list |-> {}]]
    /\ added' = added \cup {c}
    /\ up' = {b \in up : PodUid[b] # PodUid[c]}
    /\ calls' = calls + 1
    /\ UNCHANGED <<objects, nic, del, fails, crashes, nextId, history>>

DeleteInterfaces(p, c) ==
    /\ At(p, "idle") /\ calls < MaxCalls
    /\ c \in added /\ ~AddRuns(c)
    /\ proc' = [proc EXCEPT ![p] = [pc |-> "dellist", op |-> "DEL", cid |-> c, list |-> {}]]
    /\ up' = up \ {c}
    /\ calls' = calls + 1
    /\ UNCHANGED <<objects, nic, del, added, fails, crashes, nextId, history>>

\* The arguments, the configuration, the Pod, its annotation or the default network
\* cannot be read or are malformed, and the ADD is over.
AddRefused(p) ==
    /\ At(p, "list")
    /\ Exit(p)
    /\ UNCHANGED <<objects, kubelet, fails, crashes, nextId, history>>

\* The Pod's network namespace cannot be entered or prepared, and the process goes on as
\* a DEL.
preparePodForIpv6(p) ==
    /\ At(p, "list")
    /\ Goto(p, "dellist")
    /\ UNCHANGED <<objects, nic, del, kubelet, fails, crashes, nextId, history>>

\* cleanOutdatedAllocations: the DanmEps of an earlier container of the same Pod are
\* listed, or cannot be listed, and deleted one after the other.
cleanOutdatedAllocations(p) ==
    /\ At(p, "list")
    /\ \/ /\ proc' = [proc EXCEPT ![p].pc = "clean",
                                  ![p].list = {e \in eps : PodUid[e.cid] = PodUid[proc[p].cid]}]
          /\ UNCHANGED fails
       \/ ApiFails /\ Goto(p, "clean")
    /\ UNCHANGED <<objects, nic, del, kubelet, crashes, nextId, history>>

CleanNext(p) ==
    /\ At(p, "clean")
    /\ \E e \in proc[p].list :
          /\ proc' = [proc EXCEPT ![p].pc = "cleaning", ![p].list = @ \ {e}]
          /\ del' = [del EXCEPT ![p] = {[who |-> "main", ep |-> e, pc |-> "getnet"]}]
    /\ UNCHANGED <<objects, nic, kubelet, fails, crashes, nextId, history>>

CleanDone(p) ==
    /\ At(p, "cleaning") /\ \A d \in del[p] : d.pc = "done"
    /\ Goto(p, "clean")
    /\ del' = [del EXCEPT ![p] = {}]
    /\ UNCHANGED <<objects, nic, kubelet, fails, crashes, nextId, history>>

\* setupNetworking starts a goroutine for each interface, unless its network cannot be
\* read or used, or no device is left for it.
setupNetworking(p) ==
    /\ At(p, "clean") /\ proc[p].list = {}
    /\ Goto(p, "wait")
    /\ \E bad \in SUBSET Nics :
          nic' = [nic EXCEPT ![p] = [i \in Nics |->
                        [NoNic EXCEPT !.pc = IF i \in bad THEN "err" ELSE "reserve"]]]
    /\ UNCHANGED <<objects, del, kubelet, fails, crashes, nextId, history>>

-----------------------------------------------------------------------------
\* Mutant: the address is not stored.
StoreNothing(x) == UNCHANGED alloc

\* ipam.Reserve: the addresses it chooses from, and what it stores.
FreeIps == Ips \ alloc
StoreIp(x) == alloc' = alloc \cup {x}

\* createNic: an address is reserved.  An error may come before or after the
\* reservation has been stored.
ReserveIp(p, i) ==
    /\ NicAt(p, i, "reserve")
    /\ \/ /\ \E x \in FreeIps :
                /\ StoreIp(x)
                /\ nic' = [nic EXCEPT ![p][i].pc = "create", ![p][i].ip = x]
          /\ UNCHANGED fails
       \/ /\ FreeIps = {}
          /\ NicGoto(p, i, "err")
          /\ UNCHANGED <<alloc, fails>>
       \/ /\ ApiFails
          /\ NicGoto(p, i, "err")
          /\ UNCHANGED alloc \/ \E x \in FreeIps : StoreIp(x)
    /\ UNCHANGED <<eps, proc, del, kubelet, crashes, nextId, history>>

\* The DanmEp is created; the address of one that cannot be created is not freed.
CreateDanmEp(p, i) ==
    LET new == [id |-> nextId, cid |-> proc[p].cid, nic |-> i, ip |-> nic[p][i].ip] IN
    /\ NicAt(p, i, "create")
    /\ nextId' = nextId + 1
    /\ \/ /\ eps' = eps \cup {new}
          /\ nic' = [nic EXCEPT ![p][i].pc = "refresh", ![p][i].ep = nextId]
          /\ UNCHANGED fails
       \/ /\ ApiFails
          /\ eps' \in {eps, eps \cup {new}}
          /\ NicGoto(p, i, "err")
    /\ UNCHANGED <<alloc, proc, del, kubelet, crashes, history>>

EpOf(p, i) == [id |-> nic[p][i].ep, cid |-> proc[p].cid, nic |-> i, ip |-> nic[p][i].ip]

\* The network is read again.  When that fails, createNic goes on to use the network
\* it does not have, and the process panics.
RefreshNet(p, i) ==
    /\ NicAt(p, i, "refresh")
    /\ \/ NicGoto(p, i, "plug") /\ UNCHANGED <<proc, del, fails, cut>>
       \/ ApiFails /\ Exit(p) /\ cut' = TRUE
    /\ UNCHANGED <<objects, kubelet, crashes, nextId, freed, refreed>>

\* The interface is made and configured, by DANM or a delegate; when that fails the
\* DanmEp is deleted again.
PlugNic(p, i) ==
    /\ NicAt(p, i, "plug")
    /\ \/ NicGoto(p, i, "ok") /\ UNCHANGED del
       \/ /\ NicGoto(p, i, "deleting")
          /\ del' = [del EXCEPT ![p] = @ \cup {[who |-> i, ep |-> EpOf(p, i), pc |-> "free"]}]
    /\ UNCHANGED <<objects, proc, kubelet, fails, crashes, nextId, history>>

PushError(p, i) ==
    /\ NicAt(p, i, "deleting")
    /\ \E d \in del[p] : /\ d.who = i /\ d.pc = "done"
                         /\ del' = [del EXCEPT ![p] = @ \ {d}]
    /\ NicGoto(p, i, "err")
    /\ UNCHANGED <<objects, proc, kubelet, fails, crashes, nextId, history>>

NicStep(p, i) ==
    ReserveIp(p, i) \/ CreateDanmEp(p, i) \/ RefreshNet(p, i) \/ PlugNic(p, i) \/ PushError(p, i)

-----------------------------------------------------------------------------
DelGoto(p, d, l) == del' = [del EXCEPT ![p] = (@ \ {d}) \cup {[d EXCEPT !.pc = l]}]

\* Mutant: the address is not freed.
GetNetworkOnly(p, d) ==
    /\ d.pc = "getnet"
    /\ DelGoto(p, d, "delete")
    /\ UNCHANGED <<objects, proc, nic, kubelet, fails, crashes, nextId, history>>

\* The network of a DanmEp is read; a DanmEp whose network is not available is kept.
GetNetworkFromEp(p, d) ==
    /\ d.pc = "getnet"
    /\ \/ DelGoto(p, d, "free") /\ UNCHANGED fails
       \/ DelGoto(p, d, "done") /\ ApiFails
    /\ UNCHANGED <<objects, proc, nic, kubelet, crashes, nextId, history>>

\* DeleteDanmEp frees the address first ...
FreeIp(p, d) ==
    /\ d.pc = "free"
    /\ \/ /\ alloc' = alloc \ {d.ep.ip}
          /\ freed' = freed \cup {d.ep.id}
          /\ refreed' = (refreed \/ d.ep.id \in freed)
          /\ \/ DelGoto(p, d, "delete") /\ UNCHANGED fails
             \/ DelGoto(p, d, "done") /\ ApiFails
       \/ DelGoto(p, d, "done") /\ ApiFails /\ UNCHANGED <<alloc, freed, refreed>>
    /\ UNCHANGED <<eps, proc, nic, kubelet, crashes, nextId, cut>>

\* ... and deletes the DanmEp after that; one that is gone already is an error
\* nobody looks at.
DeleteDanmEp(p, d) ==
    /\ d.pc = "delete"
    /\ DelGoto(p, d, "done")
    /\ \/ eps' = eps \ {d.ep} /\ UNCHANGED fails
       \/ ApiFails /\ UNCHANGED eps
    /\ UNCHANGED <<alloc, proc, nic, kubelet, crashes, nextId, history>>

DelStep(p, d) == GetNetworkFromEp(p, d) \/ FreeIp(p, d) \/ DeleteDanmEp(p, d)

-----------------------------------------------------------------------------
AllResults(p) == \A i \in Nics : nic[p][i].pc \in {"ok", "err"}
AnyError(p) == \E i \in Nics : NicAt(p, i, "err")

\* GetAggregatedResult of an ADD: all results are in, or the time is up.  Without
\* an error the ADD has succeeded, otherwise the process goes on as a DEL.
AddSucceeds(p) ==
    /\ At(p, "wait") /\ AllResults(p) /\ ~AnyError(p)
    /\ Exit(p)
    /\ up' = up \cup {proc[p].cid}
    /\ UNCHANGED <<objects, added, calls, fails, crashes, nextId, history>>

AddFails(p) ==
    /\ At(p, "wait") /\ (AllResults(p) => AnyError(p))
    /\ Goto(p, "dellist")
    /\ UNCHANGED <<objects, nic, del, kubelet, fails, crashes, nextId, history>>

\* Mutant: the DanmEps of all containers.
EpsOfAll(c) == eps

EpsOf(c) == {e \in eps : e.cid = c}

\* The DanmEps of the container are listed, and a goroutine is started for each; when
\* they cannot be listed the DEL is over.
FindByCid(p) ==
    /\ At(p, "dellist")
    /\ \/ /\ del' = [del EXCEPT ![p] =
                        @ \cup {[who |-> "goroutine", ep |-> e, pc |-> "getnet"] :
                                  e \in EpsOf(proc[p].cid)}]
          /\ Goto(p, "delwait")
          /\ UNCHANGED <<nic, fails, cut>>
       \/ ApiFails /\ Exit(p) /\ cut' = (cut \/ Running(p))
    /\ UNCHANGED <<objects, kubelet, crashes, nextId, freed, refreed>>

\* GetAggregatedResult of a DEL: its goroutines are done, or the time is up.
DelReturns(p) ==
    /\ At(p, "delwait")
    /\ Exit(p)
    /\ cut' = (cut \/ Running(p))
    /\ UNCHANGED <<objects, kubelet, fails, crashes, nextId, freed, refreed>>

\* The process is killed.
Crash(p) ==
    /\ ~At(p, "idle") /\ crashes < MaxCrashes
    /\ crashes' = crashes + 1
    /\ Exit(p)
    /\ cut' = TRUE
    /\ UNCHANGED <<objects, kubelet, fails, nextId, freed, refreed>>

MainStep(p) ==
    \/ AddRefused(p) \/ preparePodForIpv6(p)
    \/ cleanOutdatedAllocations(p) \/ CleanNext(p) \/ CleanDone(p) \/ setupNetworking(p)
    \/ AddSucceeds(p) \/ AddFails(p) \/ FindByCid(p) \/ DelReturns(p)

Next ==
    \E p \in Procs :
        \/ \E c \in Cids : CreateInterfaces(p, c) \/ DeleteInterfaces(p, c)
        \/ MainStep(p)
        \/ \E i \in Nics : NicStep(p, i)
        \/ \E d \in del[p] : DelStep(p, d)
        \/ Crash(p)

Spec == Init /\ [][Next]_vars

-----------------------------------------------------------------------------
\* The types of the objects and of the goroutines.
TypeOK ==
    /\ alloc \subseteq Ips
    /\ eps \subseteq Eps
    /\ proc \in [Procs -> Main]
    /\ nic \in [Procs -> [Nics -> Nic]]
    /\ del \in [Procs -> SUBSET Call]
    /\ added \subseteq Cids /\ up \subseteq added
    /\ calls \in Nat /\ fails \in Nat /\ crashes \in Nat /\ nextId \in Nat
    /\ freed \subseteq 1 .. nextId
    /\ refreed \in BOOLEAN /\ cut \in BOOLEAN

LiveEps == {e \in eps : e.id \notin freed}

\* As long as no address has been freed twice for one DanmEp, the address of every
\* DanmEp that was not freed is reserved, in spite of crashes, timeouts and failures.
EpsReserved == ~refreed => \A e \in LiveEps : e.ip \in alloc

\* No two DanmEps have the same address.
DistinctIps == \A d, e \in LiveEps : d # e => d.ip # e.ip

\* A Pod whose ADD succeeded has a DanmEp for each of its interfaces, with an address
\* nobody has freed, until it is torn down or set up anew.
UpPodsConnected ==
    \A c \in up : \A i \in Nics : \E e \in LiveEps : e.cid = c /\ e.nic = i

\* Addresses reserved for a DanmEp that is about to be created.
IpsOnTheWay ==
    {nic[g[1]][g[2]].ip : g \in {g \in Procs \X Nics : NicAt(g[1], g[2], "create")}}

\* Without failures, and as long as no process ends before its goroutines, every
\* reserved address has a DanmEp, or will have.
NoIpLeak == fails = 0 /\ ~cut => alloc \subseteq {e.ip : e \in LiveEps} \cup IpsOnTheWay

\* What the comment over DeleteDanmEp says ("IPs are always and only freed when a
\* DanmEp is indeed deleted"): without API failures no two Pods share an address.
FreedWithTheirEp == fails = 0 => DistinctIps

=============================================================================
