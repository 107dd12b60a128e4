----------------------------- MODULE SvcWatcher -----------------------------
(***************************************************************************)
(* The service watcher (pkg/svccontrol) keeps the Endpoints of Services in   *)
(* step with DanmEps and Pods.  Three informers call its handlers, each on a *)
(* goroutine of its own and in the order of the changes.  A handler reads    *)
(* Endpoints from a cache that lags behind the API server, and writes them   *)
(* either with the version it has read (a conflict makes it try again) or,   *)
(* where it builds them anew, without one.                                   *)
(*                                                                           *)
(* One namespace, DanmEps with at most one address.  The caches of Pods,     *)
(* Services and DanmEps are up to date; it is the handlers that lag.  The    *)
(* 400 attempts of the retry loops are unlimited here.                       *)
(***************************************************************************)
EXTENDS Integers, Sequences, FiniteSets, SequencesExt

CONSTANTS
    Pods,         \* Pods, each with its own name and UID
    Services,     \* names of Services
    DanmEps,      \* [pod, net : [kind, name], ip], by the name of the DanmEp
    Labels,       \* sets of labels Pods have
    Annotations,  \* annotations of Services: [valid, selector, nets, early]
    MaxChanges    \* bound: changes of Pods, Services and DanmEps by others

NoIp == ""
Kinds == {"DanmNet", "TenantNetwork", "ClusterNetwork"}

ASSUME SvcAssumption ==
    /\ \A e \in DOMAIN DanmEps :
          /\ DanmEps[e] \in [pod : Pods, net : [kind : Kinds \cup {""}, name : STRING], ip : STRING]
          /\ \A f \in DOMAIN DanmEps : DanmEps[e].ip = DanmEps[f].ip => e = f \/ DanmEps[e].ip = NoIp
    /\ \A a \in Annotations :
          /\ a.valid \in BOOLEAN /\ a.early \in BOOLEAN
          /\ IsFiniteSet(a.selector) /\ a.nets \subseteq [kind : Kinds, name : STRING]
    /\ IsFiniteSet(DOMAIN DanmEps) /\ IsFiniteSet(Services)
    /\ \E l \in Labels : l # {}
    /\ MaxChanges \in Nat

VARIABLES
    pods,       \* Pods in the API server
    svcs,       \* annotations of the Services in the API server
    danmEps,    \* labels of the DanmEps in the API server
    endpoints,  \* Endpoints in the API server, by Service
    cached,     \* Endpoints in the informer's cache
    queue,      \* changes each goroutine has still to handle
    task,       \* what each goroutine is doing
    panicked,   \* the process has panicked
    changes,    \* changes so far
    missed      \* a handler has worked from outdated input, or failed (history)

objects == <<pods, svcs, danmEps>>
vars == <<objects, endpoints, cached, queue, task, panicked, changes, missed>>

Handlers == {"pod", "svc", "danmep"}

-----------------------------------------------------------------------------
\* Endpoints: the annotations copied from the Service, and the addresses of Pods that
\* are ready and that are not.  Subsets is nil exactly if there are no addresses.
NoAnnotation == [valid |-> TRUE, selector |-> {}, nets |-> {}, early |-> FALSE]
NoEndpoints == [exists |-> FALSE, anno |-> NoAnnotation, ready |-> <<>>, notReady |-> <<>>, rv |-> 0]

HasSubsets(x) == x.exists /\ x.ready \o x.notReady # <<>>

Ips(list) == {list[i].ip : i \in DOMAIN list}

IsContain(ep, svc) == svc \subseteq ep

isDepSelectedBySvc(e, nets) ==
    LET net == DanmEps[e].net
    IN [net EXCEPT !.kind = IF @ = "" THEN "DanmNet" ELSE @] \in nets

\* The annotations select a DanmEp with these labels.
Selects(a, e, labels) ==
    /\ a.valid /\ a.selector # {}
    /\ isDepSelectedBySvc(e, a.nets)
    /\ IsContain(labels, a.selector)

\* The annotations concern the watcher.
Watched(a) == a.valid /\ a.selector # {} /\ a.nets # {}

SelectDesMatchLabels(a) == {e \in DOMAIN danmEps : Selects(a, e, danmEps[e])}

\* MatchExistingSvc stops at a Service whose selector is not JSON: it returns those
\* that come before it, in an order that is not determined.
MatchExistingSvc(e, labels) ==
    LET all == {s \in DOMAIN svcs : Selects(svcs[s], e, labels)}
    IN IF \A s \in DOMAIN svcs : svcs[s].valid THEN {all} ELSE SUBSET all

\* Mutant: only the selectors are compared.
SelectorChanged(old, new) == ~old.valid \/ ~new.valid \/ old.selector # new.selector

SvcChanged(old, new) == ~old.valid \/ ~new.valid \/ old # new

\* The address of a DanmEp, with the Pod and its version as targetRef.
Address(e, pod) == [ip |-> DanmEps[e].ip, pod |-> DanmEps[e].pod, rv |-> pod.rv]

isIpInEp(ip, x) == ip \in Ips(x.ready)

\* EpCheckUpdate: the address is added to the list the Pod's state asks for, unless it is
\* among the addresses that are ready.
EpCheckUpdate(e, pod, x, early) ==
    IF DanmEps[e].ip = NoIp \/ isIpInEp(DanmEps[e].ip, x) THEN x
    ELSE IF pod.ready \/ early THEN [x EXCEPT !.ready = Append(@, Address(e, pod))]
    ELSE [x EXCEPT !.notReady = Append(@, Address(e, pod))]

\* MakeNewEps: Endpoints built from DanmEps, in the order the lister returns them, and the
\* present state of their Pods.
HasAddress(e) == DanmEps[e].pod \in DOMAIN pods /\ DanmEps[e].ip # NoIp
MakeNewEps(a, des) ==
    LET has   == {e \in des : HasAddress(e)}
        up    == {e \in has : pods[DanmEps[e].pod].ready \/ a.early}
        lists(es) == SetToSeqs({Address(e, pods[DanmEps[e].pod]) : e \in es})
    IN {[exists |-> TRUE, anno |-> a, ready |-> l[1], notReady |-> l[2], rv |-> 0] :
           l \in lists(up) \X lists(has \ up)}

\* Mutant: the last address of a list cannot be removed.
DeleteNotLast(ip, list) ==
    LET n == {i \in DOMAIN list : list[i].ip = ip}
    IN [ok |-> Len(list) \notin n, list |-> SelectSeq(list, LAMBDA a : a.ip # ip)]

\* Removing an address from a list by the indices it has in the original list: the second
\* removal is off by one, and panics at the end of the list.
deleteFromEpAddressList(ip, list) ==
    LET after[i \in 0 .. Len(list)] ==
            IF i = 0 THEN [ok |-> TRUE, list |-> list]
            ELSE IF list[i].ip # ip \/ ~after[i - 1].ok THEN after[i - 1]
            ELSE IF i > Len(after[i - 1].list) THEN [after[i - 1] EXCEPT !.ok = FALSE]
            ELSE [after[i - 1] EXCEPT !.list = RemoveAt(@, i)]
    IN after[Len(list)]

\* UpdatePodRvInEps on one Endpoints: the targetRefs of the Pod get its version.
UpdatePodRvInEps(x, p, pod) ==
    LET renew(list) == [i \in DOMAIN list |->
                           IF list[i].pod = p THEN [list[i] EXCEPT !.rv = pod.rv] ELSE list[i]]
    IN [x EXCEPT !.ready = renew(@), !.notReady = renew(@)]

\* The places the Pod has in the lists.
PodAddresses(x, p) ==
    {i \in 1 .. Len(x.ready) + Len(x.notReady) : (x.ready \o x.notReady)[i].pod = p}

\* Mutant: addresses are moved to the ready ones only.
OnlyToReady(x, p, oldReady, newReady, early) ==
    LET last(list) == {list[i] : i \in {j \in DOMAIN list :
                           \A k \in DOMAIN list : list[k].ip = list[j].ip => k <= j}}
        up   == {a \in last(x.notReady) : newReady /\ a.pod = p}
        kept == {a \in last(x.ready) : \A b \in up : a.ip # b.ip}
    IN {[x EXCEPT !.ready = l[1], !.notReady = l[2]] :
           l \in SetToSeqs(kept \cup up) \X SetToSeqs(last(x.notReady) \ up)}

\* UpdatePodStatusInEps on one Endpoints: the Pod's addresses change lists.  The lists are
\* rebuilt from maps by address, in an order that is not determined.
UpdatePodStatusInEps(x, p, oldReady, newReady, early) ==
    LET last(list) == {list[i] : i \in {j \in DOMAIN list :
                           \A k \in DOMAIN list : list[k].ip = list[j].ip => k <= j}}
        ready    == last(x.ready)
        notReady == last(x.notReady)
        down     == {a \in ready : oldReady /\ ~early /\ a.pod = p}
        up       == {a \in notReady : newReady /\ a.pod = p}
        without(set, moved) == {a \in set : \A b \in moved : a.ip # b.ip}
    IN {[x EXCEPT !.ready = l[1], !.notReady = l[2]] :
           l \in SetToSeqs(without(ready \ down, up) \cup up)
                 \X SetToSeqs(without(notReady \ up, down) \cup down)}
-----------------------------------------------------------------------------
\* What a goroutine is doing: the change it handles, the Services or DanmEps it has still
\* to deal with, the Service, its annotations and the Pod as it read them, and the
\* Endpoints it is about to write.  op is the loop a conflict leads back to.
NoEvent == [obj |-> "", old |-> {}, new |-> {}]
NoPod == [ready |-> FALSE, labels |-> {}, deleting |-> FALSE, rv |-> 0]
InitPod == [NoPod EXCEPT !.labels = CHOOSE l \in Labels : l # {}]
Idle == [pc |-> "idle", op |-> "idle", ev |-> NoEvent, todo |-> {}, cur |-> "",
         anno |-> NoAnnotation, pod |-> NoPod, writes |-> <<>>]

\* A write carries the version of the copy it was made from ("versioned"), none ("update",
\* "create"), or is refused by validation because Subsets has no address ("invalid").
\* basis, pods, des and early (what a Service tolerated) are its input, for the history.
Write(kind, s, x, basis, ps, des) ==
    [kind |-> kind, svc |-> s, eps |-> x, basis |-> basis,
     pods |-> {[pod |-> p, ready |-> pods[p].ready] : p \in ps}, des |-> des, early |-> {}]

\* The watcher is up to date with the Services and DanmEps there are; no Pod is ready yet.
Init ==
    /\ pods = [p \in Pods |-> InitPod]
    /\ \E S \in SUBSET Services, a \in Annotations, D \in SUBSET DOMAIN DanmEps :
          /\ S # {} => Watched(a)
          /\ svcs = [s \in S |-> a]
          /\ danmEps = [e \in D |-> InitPod.labels]
          /\ endpoints = [s \in Services |->
                IF s \in S THEN CHOOSE x \in MakeNewEps(a, SelectDesMatchLabels(a)) : TRUE
                ELSE NoEndpoints]
    /\ cached = endpoints
    /\ queue = [h \in Handlers |-> <<>>]
    /\ task = [h \in Handlers |-> Idle]
    /\ panicked = FALSE /\ changes = 0 /\ missed = FALSE

At(h, l) == task[h].pc = l
Become(h, t) == task' = [task EXCEPT ![h] = t]
Old(t) == CHOOSE v \in t.ev.old : TRUE
New(t) == CHOOSE v \in t.ev.new : TRUE

\* Where a goroutine goes when a loop is over.
After(t) ==
    IF t.op = "del" /\ t.ev.new # {} THEN [t EXCEPT !.pc = "match", !.writes = <<>>]
    ELSE IF t.op = "add" /\ t.todo # {} THEN [t EXCEPT !.pc = "next", !.writes = <<>>]
    ELSE IF t.op = "status" /\ Old(t).labels # New(t).labels THEN [t EXCEPT !.pc = "label", !.writes = <<>>]
    ELSE Idle

\* It writes what it has computed, if anything.
Writing(t, op, writes) ==
    IF writes = <<>> THEN After([t EXCEPT !.op = op])
    ELSE [t EXCEPT !.pc = "put", !.op = op, !.writes = writes]

\* An Endpoints that is passed over on the strength of an outdated copy.
PassesOver(hit) == \E s \in Services \ hit : cached[s] # endpoints[s]

\* The next change is taken from the queue.  Changes of a Pod that is being deleted, and
\* of a Service that do not concern the watcher, are ignored.
Take(h) ==
    LET t == [Idle EXCEPT !.ev = Head(queue[h])] IN
    /\ At(h, "idle") /\ queue[h] # <<>>
    /\ queue' = [queue EXCEPT ![h] = Tail(@)]
    /\ Become(h, IF h = "danmep" THEN [t EXCEPT !.pc = IF t.ev.old # {} THEN "del" ELSE "match"]
                 ELSE IF h = "pod" THEN
                    IF New(t).deleting THEN Idle
                    ELSE [t EXCEPT !.pc = IF Old(t).ready # New(t).ready THEN "status"
                                          ELSE IF Old(t).labels # New(t).labels THEN "label"
                                          ELSE "touch"]
                 ELSE IF /\ t.ev.old = {} \/ SvcChanged(Old(t), New(t))
                         /\ Watched(New(t))
                      THEN [t EXCEPT !.pc = "svc"] ELSE Idle)
    /\ UNCHANGED <<objects, endpoints, cached, panicked, changes, missed>>

\* addSvc, and updateSvc: the Endpoints are built anew from all DanmEps of the Service.
addSvc ==
    LET t   == task["svc"]
        s   == t.ev.obj
        a   == New(t)
        des == SelectDesMatchLabels(a)
    IN
    /\ At("svc", "svc")
    /\ \E x \in MakeNewEps(a, des) :
          LET kind == IF des # {} /\ ~HasSubsets(x) THEN "invalid"
                      ELSE IF cached[s].exists THEN "update" ELSE "create"
          IN Become("svc", Writing(t, "svc",
                <<Write(kind, s, x, endpoints[s].rv,
                        {DanmEps[e].pod : e \in {d \in des : HasAddress(d)}}, des)>>))
    /\ UNCHANGED <<objects, endpoints, cached, queue, panicked, changes, missed>>

\* delDanmep, also the first half of updateDanmep: the address is removed from all
\* Endpoints whose annotations select the DanmEp.
delDanmep ==
    LET t   == task["danmep"]
        e   == t.ev.obj
        hit == {s \in Services : HasSubsets(cached[s]) /\ Selects(cached[s].anno, e, Old(t))}
        left(list)  == deleteFromEpAddressList(DanmEps[e].ip, list)
        write(s)    == Write("versioned", s, [cached[s] EXCEPT !.ready = left(@).list,
                                                               !.notReady = left(@).list],
                             cached[s].rv, {}, {})
    IN
    /\ At("danmep", "del")
    /\ \/ /\ \E s \in hit : ~left(cached[s].ready).ok \/ ~left(cached[s].notReady).ok
          /\ panicked' = TRUE
          /\ UNCHANGED <<task, missed>>
       \/ /\ \A s \in hit : left(cached[s].ready).ok /\ left(cached[s].notReady).ok
          /\ \E l \in SetToSeqs(hit) :
                Become("danmep", Writing(t, "del", [i \in DOMAIN l |-> write(l[i])]))
          /\ missed' = (missed \/ PassesOver(hit))
          /\ UNCHANGED panicked
    /\ UNCHANGED <<objects, endpoints, cached, queue, changes>>

\* addDanmep, also the second half of updateDanmep: the Services that select it ...
addDanmep ==
    LET t == task["danmep"] IN
    /\ At("danmep", "match")
    /\ \E m \in MatchExistingSvc(t.ev.obj, New(t)) :
          /\ Become("danmep", IF m = {} THEN Idle
                              ELSE [t EXCEPT !.pc = "next", !.todo = {[svc |-> s, anno |-> svcs[s]] : s \in m}])
          /\ missed' = (missed \/ m # {s \in DOMAIN svcs : Selects(svcs[s], t.ev.obj, New(t))})
    /\ UNCHANGED <<objects, endpoints, cached, queue, panicked, changes>>

\* ... one after the other, each with the Pod as it is then ...
NextService ==
    LET t == task["danmep"]
        p == DanmEps[t.ev.obj].pod
    IN
    /\ At("danmep", "next")
    /\ \E n \in t.todo :
          LET rest == [t EXCEPT !.op = "add", !.todo = @ \ {n}]
          IN Become("danmep", IF p \notin DOMAIN pods THEN After(rest)
                              ELSE [rest EXCEPT !.pc = "add", !.cur = n.svc, !.anno = n.anno, !.pod = pods[p]])
    /\ UNCHANGED <<objects, endpoints, cached, queue, panicked, changes, missed>>

\* ... get the address: in the Endpoints they have, or in new ones when these are empty.
AddToService ==
    LET t == task["danmep"]
        e == t.ev.obj
        c == cached[t.cur]
    IN
    /\ At("danmep", "add")
    /\ \/ /\ HasSubsets(c)
          /\ Become("danmep", Writing(t, "add",
                <<[Write("versioned", t.cur, EpCheckUpdate(e, t.pod, c, t.anno.early), c.rv, {}, {})
                     EXCEPT !.pods = {[pod |-> DanmEps[e].pod, ready |-> t.pod.ready]}]>>))
          /\ missed' = (missed \/ DanmEps[e].ip \in Ips(c.notReady))
       \/ /\ ~HasSubsets(c)
          /\ \E x \in MakeNewEps(t.anno, {e}) :
                Become("danmep", Writing(t, "add",
                   <<Write(IF HasSubsets(x) THEN "update" ELSE "invalid", t.cur, x, c.rv,
                           {DanmEps[e].pod} \cap DOMAIN pods, {})>>))
          /\ UNCHANGED missed
    /\ UNCHANGED <<objects, endpoints, cached, queue, panicked, changes>>

\* updatePod when only the version has changed: each address of the Pod adds the
\* Endpoints to the list of those to be written, once more.
UpdatePodRv ==
    LET t == task["pod"]
        p == t.ev.obj
        hit == {s \in Services : HasSubsets(cached[s])}
        copies   == UNION {{[svc |-> s, at |-> i] : i \in PodAddresses(cached[s], p)} : s \in hit}
        write(s) == Write("versioned", s, UpdatePodRvInEps(cached[s], p, New(t)), cached[s].rv, {}, {})
    IN
    /\ At("pod", "touch")
    /\ \E l \in SetToSeqs(copies) :
          /\ \A i, k \in DOMAIN l : l[i].svc = l[k].svc => \A j \in i .. k : l[j].svc = l[i].svc
          /\ Become("pod", Writing(t, "touch", [i \in DOMAIN l |-> write(l[i].svc)]))
    /\ UNCHANGED <<objects, endpoints, cached, queue, panicked, changes, missed>>

\* updatePod when the Pod has become ready, or is no longer ready.
UpdatePodStatus ==
    LET t   == task["pod"]
        hit == {s \in DOMAIN svcs : HasSubsets(cached[s])}
        new(s) == UpdatePodStatusInEps(cached[s], t.ev.obj, Old(t).ready, New(t).ready, svcs[s].early)
    IN
    /\ At("pod", "status")
    /\ \E l \in SetToSeqs(hit) : \E x \in [hit -> UNION {new(s) : s \in hit}] :
          /\ \A s \in hit : x[s] \in new(s)
          /\ Become("pod", Writing(t, "status",
                [i \in DOMAIN l |-> [Write("versioned", l[i], x[l[i]], cached[l[i]].rv, {}, {})
                                        EXCEPT !.early = {svcs[l[i]].early}]]))
    /\ missed' = (missed \/ PassesOver(hit))
    /\ UNCHANGED <<objects, endpoints, cached, queue, panicked, changes>>

\* updatePod when the labels have changed: the DanmEps of the Pod get them, one by one.
UpdateLabels ==
    LET t == task["pod"] IN
    /\ At("pod", "label")
    /\ LET des == {[ep |-> e, labels |-> danmEps[e]] : e \in {d \in DOMAIN danmEps : DanmEps[d].pod = t.ev.obj}}
       IN Become("pod", IF des = {} THEN Idle ELSE [t EXCEPT !.pc = "relabel", !.todo = des])
    /\ UNCHANGED <<objects, endpoints, cached, queue, panicked, changes, missed>>

Announce(h, obj, old, new) ==
    queue' = [queue EXCEPT ![h] = Append(@, [obj |-> obj, old |-> old, new |-> new])]

\* A DanmEp that has changed since it was read is not updated, and not tried again.
RelabelDanmEp ==
    LET t == task["pod"]
        l == New(t).labels
    IN
    /\ At("pod", "relabel")
    /\ \E d \in t.todo :
          /\ Become("pod", IF t.todo = {d} THEN Idle ELSE [t EXCEPT !.todo = @ \ {d}])
          /\ IF d.ep \in DOMAIN danmEps /\ danmEps[d.ep] = d.labels /\ d.labels # l
             THEN /\ danmEps' = [danmEps EXCEPT ![d.ep] = l]
                  /\ Announce("danmep", d.ep, {d.labels}, {l})
             ELSE UNCHANGED <<danmEps, queue>>
    /\ UNCHANGED <<pods, svcs, endpoints, cached, panicked, changes, missed>>

-----------------------------------------------------------------------------
\* The first of the writes, and the three answers the API server may give.  An update
\* without a version also creates Endpoints that do not exist.
Current(h) == Head(task[h].writes)
Accepted(w) ==
    \/ w.kind = "versioned" /\ endpoints[w.svc].exists /\ w.basis = endpoints[w.svc].rv
    \/ w.kind = "update"
    \/ w.kind = "create" /\ ~endpoints[w.svc].exists
Conflicting(w) == w.kind = "versioned" /\ endpoints[w.svc].exists /\ w.basis # endpoints[w.svc].rv

\* History: the Endpoints, the Services, DanmEps or Pods are no longer what the write was
\* computed from, and the change of the Pod has already been taken from the queue.
Announced(p) ==
    \E i \in DOMAIN queue["pod"] :
        LET ev == queue["pod"][i]
        IN ev.obj = p /\ \E o \in ev.old, n \in ev.new : o.ready # n.ready /\ ~n.deleting
Outdated(h, w) ==
    \/ w.kind = "update" /\ w.basis # endpoints[w.svc].rv
    \/ h = "svc" /\ SelectDesMatchLabels(w.eps.anno) # w.des
    \/ h = "danmep" /\ task[h].op = "add" /\ (w.svc \notin DOMAIN svcs \/ svcs[w.svc] # task[h].anno)
    \/ w.svc \in DOMAIN svcs /\ \E early \in w.early : svcs[w.svc].early # early
    \/ \E u \in w.pods :
          /\ u.pod \in DOMAIN pods /\ ~pods[u.pod].deleting
          /\ pods[u.pod].ready # u.ready /\ ~Announced(u.pod)

\* A write is stored; one that changes nothing makes no new version.
Stored(x, w) == IF [w.eps EXCEPT !.rv = x.rv] = x THEN x ELSE [w.eps EXCEPT !.rv = x.rv + 1]

\* Mutant: the version is not sent.
UpdateUnversioned(h) ==
    LET t == task[h]
        w == Current(h)
    IN
    /\ At(h, "put") /\ (Accepted(w) \/ Conflicting(w))
    /\ endpoints' = [endpoints EXCEPT ![w.svc] = Stored(@, w)]
    /\ Become(h, IF Len(t.writes) = 1 THEN After(t) ELSE [t EXCEPT !.writes = Tail(@)])
    /\ missed' = (missed \/ Outdated(h, w))
    /\ UNCHANGED <<objects, cached, queue, panicked, changes>>

UpdateEndpoints(h) ==
    LET t == task[h]
        w == Current(h)
    IN
    /\ At(h, "put") /\ Accepted(w)
    /\ endpoints' = [endpoints EXCEPT ![w.svc] = Stored(@, w)]
    /\ Become(h, IF Len(t.writes) = 1 THEN After(t) ELSE [t EXCEPT !.writes = Tail(@)])
    /\ missed' = (missed \/ Outdated(h, w))
    /\ UNCHANGED <<objects, cached, queue, panicked, changes>>

\* Mutant: the copy that was refused is sent again.
ConflictRepeats(h) ==
    /\ At(h, "put") /\ Conflicting(Current(h))
    /\ UNCHANGED vars

\* After a conflict the loop starts again with the cache.  That of delDanmep does not empty
\* its list, in which the refused copy comes first for the rest of the attempts: the
\* address stays.
UpdateConflicts(h) ==
    LET t == task[h] IN
    /\ At(h, "put") /\ Conflicting(Current(h))
    /\ Become(h, IF t.op = "del" THEN After(t) ELSE [t EXCEPT !.pc = t.op, !.writes = <<>>])
    /\ missed' = (missed \/ t.op = "del")
    /\ UNCHANGED <<objects, endpoints, cached, queue, panicked, changes>>

\* Any other error is logged, and the rest of the list is not written.
UpdateFails(h) ==
    LET t == task[h] IN
    /\ At(h, "put") /\ ~Accepted(Current(h)) /\ ~Conflicting(Current(h))
    /\ Become(h, After(t))
    /\ missed' = (missed \/ Len(t.writes) > 1 \/ h = "svc")
    /\ UNCHANGED <<objects, endpoints, cached, queue, panicked, changes>>

\* The informer brings the cache up to date.
CacheSync(s) ==
    /\ cached[s] # endpoints[s]
    /\ cached' = [cached EXCEPT ![s] = endpoints[s]]
    /\ UNCHANGED <<objects, endpoints, queue, task, panicked, changes, missed>>

-----------------------------------------------------------------------------
\* What users, Kubelet and the CNI plugin do.
Change == changes < MaxChanges /\ changes' = changes + 1
Others == <<endpoints, cached, task, panicked, missed>>
With(f, x, v) == [y \in DOMAIN f \cup {x} |-> IF y = x THEN v ELSE f[y]]
Without(f, x) == [y \in DOMAIN f \ {x} |-> f[y]]

WriteSvc(s) ==
    /\ Change
    /\ \E a \in Annotations :
          /\ svcs' = With(svcs, s, a)
          /\ Announce("svc", s, IF s \in DOMAIN svcs THEN {svcs[s]} ELSE {}, {a})
    /\ UNCHANGED <<pods, danmEps, Others>>

\* Kubernetes deletes the Endpoints of a Service that is deleted.
DeleteSvc(s) ==
    /\ Change /\ s \in DOMAIN svcs
    /\ svcs' = Without(svcs, s)
    /\ endpoints' = [endpoints EXCEPT ![s] = [NoEndpoints EXCEPT !.rv = endpoints[s].rv + 1]]
    /\ UNCHANGED <<pods, danmEps, cached, queue, task, panicked, missed>>

\* CNI ADD gives the DanmEp the labels of the Pod.
CreateDanmEp(e) ==
    /\ Change /\ e \notin DOMAIN danmEps
    /\ DanmEps[e].pod \in DOMAIN pods
    /\ LET l == pods[DanmEps[e].pod].labels
       IN danmEps' = With(danmEps, e, l) /\ Announce("danmep", e, {}, {l})
    /\ UNCHANGED <<pods, svcs, Others>>

DeleteDanmEp(e) ==
    /\ Change /\ e \in DOMAIN danmEps
    /\ danmEps' = Without(danmEps, e)
    /\ Announce("danmep", e, {danmEps[e]}, {})
    /\ UNCHANGED <<pods, svcs, Others>>

\* The Pod's state, its labels or only its version changes, or its deletion begins.
ChangePod(p) ==
    /\ Change /\ p \in DOMAIN pods
    /\ \E r, d \in BOOLEAN, l \in Labels :
          /\ pods[p].deleting => d
          /\ pods' = [pods EXCEPT ![p] = [ready |-> r, labels |-> l, deleting |-> d, rv |-> @.rv + 1]]
    /\ Announce("pod", p, {pods[p]}, {pods'[p]})
    /\ UNCHANGED <<svcs, danmEps, Others>>

\* The Pod goes after CNI DEL.
RemovePod(p) ==
    /\ Change /\ p \in DOMAIN pods
    /\ pods[p].deleting /\ \A e \in DOMAIN danmEps : DanmEps[e].pod # p
    /\ pods' = Without(pods, p)
    /\ UNCHANGED <<svcs, danmEps, queue, Others>>

HandlerStep(h) ==
    \/ Take(h) \/ UpdateEndpoints(h) \/ UpdateConflicts(h) \/ UpdateFails(h)
    \/ h = "svc" /\ addSvc
    \/ h = "danmep" /\ (delDanmep \/ addDanmep \/ NextService \/ AddToService)
    \/ h = "pod" /\ (UpdatePodRv \/ UpdatePodStatus \/ UpdateLabels \/ RelabelDanmEp)

Environment ==
    \/ \E s \in Services : WriteSvc(s) \/ DeleteSvc(s)
    \/ \E e \in DOMAIN DanmEps : CreateDanmEp(e) \/ DeleteDanmEp(e)
    \/ \E p \in Pods : ChangePod(p) \/ RemovePod(p)

Next ==
    /\ ~panicked
    /\ \/ \E h \in Handlers : HandlerStep(h)
       \/ \E s \in Services : CacheSync(s)
       \/ Environment

Fairness ==
    /\ \A h \in Handlers : WF_vars(~panicked /\ HandlerStep(h))
    /\ \A s \in Services : WF_vars(~panicked /\ CacheSync(s))

Spec == Init /\ [][Next]_vars /\ Fairness

-----------------------------------------------------------------------------
Entry == {a \in [ip : {DanmEps[e].ip : e \in DOMAIN DanmEps} \ {NoIp}, pod : Pods, rv : Nat] :
             \E e \in DOMAIN DanmEps : a.ip = DanmEps[e].ip /\ a.pod = DanmEps[e].pod}
EndpointsType == [exists : BOOLEAN, anno : Annotations \cup {NoAnnotation},
                  ready : Seq(Entry), notReady : Seq(Entry), rv : Nat]
PodState == [ready : BOOLEAN, labels : Labels \cup {{}}, deleting : BOOLEAN, rv : Nat]
Objects == [svc |-> Services, danmep |-> DOMAIN DanmEps, pod |-> Pods]
Values == [svc |-> Annotations, danmep |-> Labels, pod |-> {p \in PodState : p.labels \in Labels}]
Event(h) == [obj : Objects[h], old : SUBSET Values[h], new : SUBSET Values[h]]
WriteType == [kind : {"versioned", "update", "create", "invalid"}, svc : Services,
              eps : EndpointsType, basis : Nat, pods : SUBSET [pod : Pods, ready : BOOLEAN],
              des : SUBSET DOMAIN DanmEps, early : SUBSET BOOLEAN]
Pcs == {"idle", "del", "match", "next", "add", "svc", "touch", "status", "label", "relabel", "put"}
Todo == [svc |-> {}, danmep |-> [svc : Services, anno : Annotations],
         pod |-> [ep : DOMAIN DanmEps, labels : Labels]]
Task(h) == [pc : Pcs, op : Pcs, ev : Event(h) \cup {NoEvent}, todo : SUBSET Todo[h],
            cur : Services \cup {""}, anno : Annotations \cup {NoAnnotation}, pod : PodState,
            writes : Seq(WriteType)]

\* Endpoints list addresses of DanmEps only, each with its Pod, whichever handler wrote
\* them and however often an address was added or removed.
TypeOK ==
    /\ DOMAIN pods \subseteq Pods /\ pods \in [DOMAIN pods -> PodState]
    /\ \A p \in DOMAIN pods : pods[p].labels \in Labels
    /\ DOMAIN svcs \subseteq Services /\ svcs \in [DOMAIN svcs -> Annotations]
    /\ DOMAIN danmEps \subseteq DOMAIN DanmEps /\ danmEps \in [DOMAIN danmEps -> Labels]
    /\ endpoints \in [Services -> EndpointsType]
    /\ cached \in [Services -> EndpointsType]
    /\ DOMAIN queue = Handlers /\ \A h \in Handlers : queue[h] \in Seq(Event(h))
    /\ DOMAIN task = Handlers /\ \A h \in Handlers : task[h] \in Task(h)
    /\ panicked \in BOOLEAN /\ missed \in BOOLEAN /\ changes \in Nat
    /\ \A s \in Services : cached[s].rv <= endpoints[s].rv

\* Nothing is left to be handled.
Quiet == \A h \in Handlers : queue[h] = <<>> /\ At(h, "idle")

\* The addresses the Endpoints of a Service should list: those of the DanmEps it selects,
\* as ready if the Pod is ready or the Service tolerates that it is not.  A Pod that is
\* being deleted stays where it is.
Expected(a) == {e \in SelectDesMatchLabels(a) : DanmEps[e].ip # NoIp}
ListsExactly(x, a) ==
    /\ x.exists /\ x.anno = a
    /\ Ips(x.ready) \cup Ips(x.notReady) = {DanmEps[e].ip : e \in Expected(a)}
    /\ \A e \in Expected(a) :
          LET p == pods[DanmEps[e].pod]
          IN p.deleting \/ DanmEps[e].ip \in Ips(IF p.ready \/ a.early THEN x.ready ELSE x.notReady)

\* Once everything has been handled the Endpoints of every Service with a selector and a
\* network list exactly the addresses they should, however the three goroutines, their
\* conflicts and the cache have interleaved: as long as no handler wrote something that was
\* computed from outdated input, nor failed.
EndpointsExact ==
    Quiet /\ ~panicked /\ ~missed =>
        \A s \in DOMAIN svcs :
            Watched(svcs[s]) => ListsExactly(endpoints[s], svcs[s])

\* The removal by index panics only after a handler has worked from outdated input or
\* failed: that is how an address can come to be listed twice, without which it is safe.
PanicsAfterMiss == panicked => missed

\* A write with a version leaves the addresses of the other Pods as they are, ready or not,
\* as long as no handler has worked from outdated input or failed.
KeepsOthers ==
    \A h \in Handlers :
        UpdateEndpoints(h) /\ Current(h).kind = "versioned" /\ ~missed =>
           LET s == Current(h).svc
               p == IF h = "pod" THEN task[h].ev.obj ELSE DanmEps[task[h].ev.obj].pod
               rest(list) == {a \in ToSet(list) : a.pod # p}
           IN /\ rest(endpoints'[s].ready) = rest(endpoints[s].ready)
              /\ rest(endpoints'[s].notReady) = rest(endpoints[s].notReady)
OthersKept == [][KeepsOthers]_vars

\* Every change is handled in the end: no retry goes on for ever.
ChangesHandled == <>[](Quiet \/ panicked)
=============================================================================
