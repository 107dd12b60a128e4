-------------------------- MODULE SvcWatcherProofs --------------------------
(***************************************************************************)
(* Proofs about module SvcWatcher, for any Pods, Services, DanmEps, labels   *)
(* and annotations, and any number of changes.                               *)
(***************************************************************************)
EXTENDS SvcWatcher, FiniteSetTheorems, WellFoundedInduction, TLAPS

-----------------------------------------------------------------------------
\* The changes a goroutine has not finished: the one it handles, then those in its queue.
Pending(t, q) == (IF t.pc = "idle" THEN <<>> ELSE <<t.ev>>) \o q
Events(h) == Pending(task[h], queue[h])

One(set) == \E v \in set : set = {v}

\* What the informers announce: an object, before, after or both.
EventOf(h, ev) ==
    /\ ev \in Event(h)
    /\ ev.new = {} \/ One(ev.new)
    /\ ev.old = {} \/ One(ev.old)
    /\ h = "svc" => ev.new # {}
    /\ h = "danmep" => ~(ev.old = {} /\ ev.new = {})
    /\ h = "pod" => ev.old # {} /\ ev.new # {}

EventsTyped == \A h \in Handlers : \A j \in DOMAIN Events(h) : EventOf(h, Events(h)[j])

-----------------------------------------------------------------------------
\* The changes of an object tell its present state: the last of them has it, and before that
\* each is followed by one that starts where it ends.
DanmEpState(e) == IF e \in DOMAIN danmEps THEN {danmEps[e]} ELSE {}
DanmEpTold(q, e, v) ==
    \A j \in DOMAIN q : q[j].obj = e =>
        \/ q[j].new = v
        \/ \E k \in DOMAIN q : j < k /\ q[k].obj = e /\ q[k].old = q[j].new

\* A change of a Service its handler acts on.
Due(ev) == \E n \in ev.new : ev.old = {} \/ \E o \in ev.old : SvcChanged(o, n)
SvcTold(q, s, v) ==
    \A j \in DOMAIN q : q[j].obj = s /\ Due(q[j]) =>
        \/ q[j].new = v
        \/ \E k \in DOMAIN q : j < k /\ q[k].obj = s /\ Due(q[k])

\* A Pod becomes ready, or is no longer ready.
Turns(ev) == \E o \in ev.old, n \in ev.new : o.ready # n.ready /\ ~n.deleting
PodTold(q, p, r) ==
    \A j \in DOMAIN q : q[j].obj = p /\ Turns(q[j]) =>
        \/ \A n \in q[j].new : n.ready = r
        \/ \E k \in DOMAIN q : j < k /\ q[k].obj = p /\ Turns(q[k])

Told ==
    /\ \A e \in DOMAIN DanmEps : DanmEpTold(Events("danmep"), e, DanmEpState(e))
    /\ \A s \in DOMAIN svcs : SvcTold(Events("svc"), s, {svcs[s]})
    /\ \A p \in DOMAIN pods : ~pods[p].deleting => PodTold(Events("pod"), p, pods[p].ready)

-----------------------------------------------------------------------------
OneEach(list) == \A i, j \in DOMAIN list : list[i].ip = list[j].ip => i = j
Unique(x) == OneEach(x.ready) /\ OneEach(x.notReady)
Listed(x) == Ips(x.ready) \cup Ips(x.notReady)
IpOf(e) == DanmEps[e].ip
PodOf(e) == DanmEps[e].pod
Right(x, ready) == Ips(IF ready \/ x.anno.early THEN x.ready ELSE x.notReady)

\* A write made from a copy that is still the present one does to the present Endpoints what
\* the operation does.
Derived(t, w) ==
    LET x == endpoints[w.svc] IN
    /\ w.kind = "versioned"
    /\ w.basis <= x.rv
    /\ t.op = "add" => w.pods = {[pod |-> PodOf(t.ev.obj), ready |-> t.pod.ready]}
    /\ w.basis = x.rv =>
          CASE t.op = "del" ->
                  w.eps = [x EXCEPT !.ready = deleteFromEpAddressList(IpOf(t.ev.obj), @).list,
                                    !.notReady = deleteFromEpAddressList(IpOf(t.ev.obj), @).list]
            [] t.op = "add" ->
                  /\ w.eps = EpCheckUpdate(t.ev.obj, t.pod, x, t.anno.early)
                  /\ ~missed => IpOf(t.ev.obj) \notin Ips(x.notReady)
            [] t.op = "touch" -> w.eps = UpdatePodRvInEps(x, t.ev.obj, New(t))
            [] t.op = "status" ->
                  \E b \in BOOLEAN :
                     /\ w.early = {b}
                     /\ w.eps \in UpdatePodStatusInEps(x, t.ev.obj, Old(t).ready, New(t).ready, b)
            [] OTHER -> FALSE

\* A write built anew lists the DanmEps D, as their Pods were.
Built(w, a, D) ==
    /\ w.kind # "versioned"
    /\ w.kind = "invalid" => ~HasSubsets(w.eps)
    /\ w.eps.exists /\ w.eps.anno = a /\ Unique(w.eps)
    /\ a.early => w.eps.notReady = <<>>
    /\ Listed(w.eps) \subseteq {IpOf(e) : e \in D}
    /\ \A e \in D : HasAddress(e) =>
          \E u \in w.pods : u.pod = PodOf(e) /\ IpOf(e) \in Right(w.eps, u.ready)

SvcTask(t) ==
    /\ t.pc \in {"idle", "svc", "put"}
    /\ t.pc # "idle" => Due(t.ev)
    /\ t.pc = "put" =>
          /\ t.op = "svc" /\ Len(t.writes) = 1
          /\ t.writes[1].svc = t.ev.obj /\ Built(t.writes[1], New(t), t.writes[1].des)

\* addDanmep has found the Services.
Adding(t) == t.pc \in {"next", "add"} \/ (t.pc = "put" /\ t.op = "add")
Chosen(t) == t.pc = "add" \/ (t.pc = "put" /\ t.op = "add")
DanmEpTask(t) ==
    /\ t.pc \in {"idle", "del", "match", "next", "add", "put"}
    /\ t.pc = "del" \/ (t.pc = "put" /\ t.op = "del") => t.ev.old # {}
    /\ t.pc = "match" \/ Adding(t) => t.ev.new # {}
    /\ Adding(t) => \A n \in t.todo : Selects(n.anno, t.ev.obj, New(t))
    /\ Chosen(t) => /\ t.cur \in Services /\ t.anno \in Annotations
                    /\ Selects(t.anno, t.ev.obj, New(t))
    /\ t.pc = "put" =>
          \/ /\ t.op = "del"
             /\ \A i \in DOMAIN t.writes : Derived(t, t.writes[i])
          \/ /\ t.op = "add" /\ Len(t.writes) = 1
             /\ LET w == t.writes[1] IN
                /\ w.svc = t.cur
                /\ \/ Derived(t, w)
                   \/ /\ w.kind \in {"update", "invalid"} /\ Built(w, t.anno, {t.ev.obj})
                      /\ w.basis <= endpoints[w.svc].rv
                      /\ w.basis = endpoints[w.svc].rv => ~HasSubsets(endpoints[w.svc])

PodTask(t) ==
    /\ t.pc \in {"idle", "touch", "status", "label", "relabel", "put"}
    /\ t.pc # "idle" => ~New(t).deleting
    /\ t.pc = "status" \/ (t.pc = "put" /\ t.op = "status") => Old(t).ready # New(t).ready
    /\ t.pc = "put" => /\ t.op \in {"touch", "status"}
                       /\ \A i \in DOMAIN t.writes : Derived(t, t.writes[i])

Tasks ==
    /\ SvcTask(task["svc"]) /\ DanmEpTask(task["danmep"]) /\ PodTask(task["pod"])
    /\ \A h \in Handlers : task[h].pc = "put" <=> task[h].writes # <<>>

-----------------------------------------------------------------------------
\* The copies in the cache: one with the present version is the present one.
Copies ==
    \A s \in Services :
        /\ cached[s].rv <= endpoints[s].rv
        /\ cached[s].rv = endpoints[s].rv => cached[s] = endpoints[s]

Uniques == ~missed => \A s \in Services : Unique(endpoints[s]) /\ Unique(cached[s])

PodsStay == \A e \in DOMAIN danmEps : PodOf(e) \in DOMAIN pods

-----------------------------------------------------------------------------
\* What is still to be done about a DanmEp, or the Pod, in the Endpoints of a Service.
Writes(t, s) == \E i \in DOMAIN t.writes : t.writes[i].svc = s

AddTask(t, e, s) ==
    /\ t.ev.obj = e
    /\ \/ t.pc \in {"del", "match"} \/ (t.pc = "put" /\ t.op = "del")
       \/ Adding(t) /\ \E n \in t.todo : n.svc = s
       \/ Chosen(t) /\ t.cur = s

AddDue(e, s) ==
    \/ \E j \in DOMAIN queue["danmep"] : queue["danmep"][j].obj = e
    \/ AddTask(task["danmep"], e, s)

DelTask(t, e, s, a) ==
    /\ t.ev.obj = e /\ \E l \in t.ev.old : Selects(a, e, l)
    /\ t.pc = "del" \/ (t.pc = "put" /\ t.op = "del" /\ Writes(t, s))

DelDue(e, s) ==
    \/ \E j \in DOMAIN queue["danmep"] :
          /\ queue["danmep"][j].obj = e
          /\ \E l \in queue["danmep"][j].old : Selects(svcs[s], e, l)
    \/ DelTask(task["danmep"], e, s, svcs[s])

StatusTask(t, p, s) ==
    /\ t.ev.obj = p
    /\ t.pc = "status" \/ (t.pc = "put" /\ t.op = "status" /\ Writes(t, s))

StatusDue(p, s) == Announced(p) \/ StatusTask(task["pod"], p, s)

SvcDue(s) == \E j \in DOMAIN Events("svc") : Events("svc")[j].obj = s /\ Due(Events("svc")[j])

Settled(s) == s \in DOMAIN svcs /\ Watched(svcs[s]) /\ ~SvcDue(s)

FitsDanmEp(s, e) ==
    LET x == endpoints[s]
        p == PodOf(e)
    IN IpOf(e) # NoIp =>
       /\ e \in SelectDesMatchLabels(svcs[s]) => IpOf(e) \in Listed(x) \/ AddDue(e, s)
       /\ IpOf(e) \in Listed(x) =>
             /\ e \in SelectDesMatchLabels(svcs[s]) \/ DelDue(e, s)
             /\ p \in DOMAIN pods /\ ~pods[p].deleting =>
                   StatusDue(p, s) \/ IpOf(e) \in Right(x, pods[p].ready)

Fits(s) ==
    LET x == endpoints[s] IN
    /\ x.exists /\ x.anno = svcs[s]
    /\ x.anno.early => x.notReady = <<>>
    /\ \A e \in DOMAIN DanmEps : FitsDanmEp(s, e)

Fitting == ~missed => \A s \in DOMAIN svcs : Settled(s) => Fits(s)

IInv ==
    /\ TypeOK /\ EventsTyped /\ Told /\ Tasks
    /\ Copies /\ Uniques /\ PodsStay /\ Fitting /\ PanicsAfterMiss

-----------------------------------------------------------------------------
\* Induction over the natural numbers, for a set instead of an operator.
LEMMA SetInduction ==
    ASSUME NEW S \in SUBSET Nat, 0 \in S, \A n \in S : n + 1 \in S
    PROVE  \A n \in Nat : n \in S
<1> DEFINE R == {ss \in Nat \X Nat : ss[1] < ss[2]}
           T == Nat \ S
<1>1. SUFFICES ASSUME T # {} PROVE FALSE
  OBVIOUS
<1>2. IsWellFoundedOn(R, Nat)
  BY NatLessThanWellFounded DEF OpToRel
<1>3. PICK x \in T : \A y \in T : ~ (<<y, x>> \in R)
  <2>1. T \subseteq Nat
    OBVIOUS
  <2> HIDE DEF R, T
  <2> QED BY <1>1, <1>2, <2>1, WFMin, Zenon
<1>4. x - 1 \in Nat /\ x = (x - 1) + 1
  OBVIOUS
<1>5. <<x - 1, x>> \in R
  BY <1>4
<1> QED BY <1>3, <1>4, <1>5

\* A function on 1 .. n is a sequence.
LEMMA SeqForm ==
    ASSUME NEW S, NEW n \in Nat, NEW f \in [1 .. n -> S]
    PROVE  f \in Seq(S) /\ Len(f) = n /\ DOMAIN f = 1 .. n
<1>1. f \in Seq(S)
  BY SMT
<1>2. DOMAIN f = 1 .. n
  OBVIOUS
<1>3. Len(f) = n
  BY <1>1, <1>2, SMT
<1> QED BY <1>1, <1>2, <1>3

\* SetToSeqs: the sequences that have each element of a finite set once.
LEMMA Orders ==
    ASSUME NEW S, IsFiniteSet(S), NEW l \in SetToSeqs(S)
    PROVE  /\ l \in Seq(S) /\ Len(l) = Cardinality(S)
           /\ \A i, j \in 1 .. Len(l) : l[i] = l[j] => i = j
           /\ {l[i] : i \in 1 .. Len(l)} = S
<1>1. PICK n \in Nat : n = Cardinality(S)
  BY FS_CardinalityType
<1>2. l \in [1 .. n -> S] /\ \A i, j \in 1 .. n : i # j => l[i] # l[j]
  BY <1>1 DEF SetToSeqs
<1>3. l \in Seq(S) /\ Len(l) = n /\ DOMAIN l = 1 .. n
  BY <1>2, SeqForm
<1>4. l \in Injection(1 .. n, S)
  BY <1>2 DEF Injection, IsInjective
<1>5. IsFiniteSet(1 .. n) /\ Cardinality(1 .. n) = n
  BY FS_Interval
<1>6. l \in Surjection(1 .. n, S)
  BY <1>1, <1>4, <1>5, FS_Injection
<1>7. \A x \in S : \E i \in 1 .. n : l[i] = x
  BY <1>6 DEF Surjection
<1> QED BY <1>1, <1>2, <1>3, <1>7

\* The elements of a sequence are finitely many.
LEMMA ElementsFinite ==
    ASSUME NEW S, NEW s \in Seq(S), NEW J, J \subseteq 1 .. Len(s)
    PROVE  IsFiniteSet({s[i] : i \in J})
<1>1. IsFiniteSet(1 .. Len(s))
  BY FS_Interval
<1>2. IsFiniteSet(J)
  BY <1>1, FS_Subset
<1> DEFINE T == {s[i] : i \in J}
           f == [i \in J |-> s[i]]
<1>3. f \in Surjection(J, T)
  BY DEF Surjection
<1> QED BY <1>2, <1>3, FS_Surjection

-----------------------------------------------------------------------------
(* Removing an address                                                       *)

LEMMA Joined ==
    ASSUME NEW S, NEW a \in Seq(S), NEW b \in Seq(S)
    PROVE  /\ a \o b \in Seq(S) /\ Len(a \o b) = Len(a) + Len(b)
           /\ \A j \in 1 .. Len(a) + Len(b) :
                 (a \o b)[j] = IF j <= Len(a) THEN a[j] ELSE b[j - Len(a)]
OBVIOUS

LEMMA Removed ==
    ASSUME NEW S, NEW s \in Seq(S), NEW i \in 1 .. Len(s)
    PROVE  /\ RemoveAt(s, i) \in Seq(S) /\ Len(RemoveAt(s, i)) = Len(s) - 1
           /\ \A j \in 1 .. Len(s) - 1 :
                 RemoveAt(s, i)[j] = IF j < i THEN s[j] ELSE s[j + 1]
<1> DEFINE a == SubSeq(s, 1, i - 1)
           b == SubSeq(s, i + 1, Len(s))
<1>1. a \in Seq(S) /\ Len(a) = i - 1 /\ \A j \in 1 .. i - 1 : a[j] = s[j]
  OBVIOUS
<1>2. b \in Seq(S) /\ Len(b) = Len(s) - i /\ \A j \in 1 .. Len(s) - i : b[j] = s[j + i]
  OBVIOUS
<1>3. RemoveAt(s, i) = a \o b
  BY DEF RemoveAt
<1> HIDE DEF a, b
<1>4. a \o b \in Seq(S) /\ Len(a \o b) = Len(s) - 1
  <2>1. Len(a \o b) = Len(a) + Len(b) /\ a \o b \in Seq(S)
    BY <1>1, <1>2, Joined
  <2>2. Len(s) \in Nat /\ i \in Nat
    OBVIOUS
  <2> QED BY <1>1, <1>2, <2>1, <2>2
<1>5. \A j \in 1 .. Len(s) - 1 : (a \o b)[j] = IF j < i THEN s[j] ELSE s[j + 1]
  <2> SUFFICES ASSUME NEW j \in 1 .. Len(s) - 1
               PROVE  (a \o b)[j] = IF j < i THEN s[j] ELSE s[j + 1]
    OBVIOUS
  <2>1. CASE j < i
    <3>1. (a \o b)[j] = a[j]
      BY <1>1, <1>2, <2>1
    <3> QED BY <1>1, <2>1, <3>1
  <2>2. CASE ~(j < i)
    <3>1. (a \o b)[j] = b[j - (i - 1)] /\ j - (i - 1) \in 1 .. Len(s) - i
      BY <1>1, <1>2, <2>2
    <3>2. b[j - (i - 1)] = s[j + 1]
      BY <1>2, <3>1
    <3> QED BY <2>2, <3>1, <3>2
  <2> QED BY <2>1, <2>2
<1> QED BY <1>3, <1>4, <1>5

\* The loop of deleteFromEpAddressList, as an equation for the results it has after each step.
Step(before, ip, list, i) ==
    IF list[i].ip # ip \/ ~before.ok THEN before
    ELSE IF i > Len(before.list) THEN [before EXCEPT !.ok = FALSE]
    ELSE [before EXCEPT !.list = RemoveAt(@, i)]
Deleting(f, ip, list, n) ==
    \A i \in 0 .. n : f[i] = IF i = 0 THEN [ok |-> TRUE, list |-> list]
                             ELSE Step(f[i - 1], ip, list, i)

LEMMA StepType ==
    ASSUME NEW S, NEW list \in Seq(S), NEW ip, NEW i \in 1 .. Len(list),
           NEW before \in [ok : BOOLEAN, list : Seq(S)]
    PROVE  Step(before, ip, list, i) \in [ok : BOOLEAN, list : Seq(S)]
<1>1. CASE list[i].ip # ip \/ ~before.ok
  BY <1>1 DEF Step
<1>2. CASE ~(list[i].ip # ip \/ ~before.ok) /\ i > Len(before.list)
  BY <1>2 DEF Step
<1>3. CASE ~(list[i].ip # ip \/ ~before.ok) /\ ~(i > Len(before.list))
  <2>1. i \in 1 .. Len(before.list)
    BY <1>3
  <2>2. RemoveAt(before.list, i) \in Seq(S)
    BY <2>1, Removed
  <2> QED BY <1>3, <2>2 DEF Step
<1> QED BY <1>1, <1>2, <1>3

LEMMA DeletingExists ==
    ASSUME NEW S, NEW list \in Seq(S), NEW ip, NEW m \in Nat, m <= Len(list)
    PROVE  \E f \in [0 .. m -> [ok : BOOLEAN, list : Seq(S)]] : Deleting(f, ip, list, m)
<1> DEFINE R == [ok : BOOLEAN, list : Seq(S)]
           I == {n \in Nat : n <= m => \E f \in [0 .. n -> R] : Deleting(f, ip, list, n)}
<1>1. 0 \in I
  <2> DEFINE f == [k \in 0 .. 0 |-> [ok |-> TRUE, list |-> list]]
  <2>1. f \in [0 .. 0 -> R]
    OBVIOUS
  <2>2. Deleting(f, ip, list, 0)
    BY DEF Deleting
  <2> QED BY <2>1, <2>2
<1>2. ASSUME NEW n \in I PROVE n + 1 \in I
  <2>1. SUFFICES ASSUME n + 1 <= m PROVE \E f \in [0 .. n + 1 -> R] : Deleting(f, ip, list, n + 1)
    <3>1. n + 1 \in Nat
      OBVIOUS
    <3> QED BY <3>1
  <2>2. n \in Nat /\ n <= m /\ n + 1 \in 1 .. Len(list)
    BY <2>1
  <2>3. PICK f \in [0 .. n -> R] : Deleting(f, ip, list, n)
    BY <2>2, Zenon
  <2> DEFINE last == Step(f[n], ip, list, n + 1)
             g == [k \in 0 .. n + 1 |-> IF k = n + 1 THEN last ELSE f[k]]
  <2>4. n \in 0 .. n /\ f[n] \in R
    BY <2>2
  <2>5. last \in R
    BY <2>2, <2>4, StepType
  <2> HIDE DEF last
  <2>6. g \in [0 .. n + 1 -> R] /\ g[n + 1] = last /\ \A k \in 0 .. n : g[k] = f[k]
    BY <2>2, <2>5
  <2>7. Deleting(g, ip, list, n + 1)
    <3> SUFFICES ASSUME NEW k \in 0 .. n + 1
                 PROVE  g[k] = IF k = 0 THEN [ok |-> TRUE, list |-> list]
                               ELSE Step(g[k - 1], ip, list, k)
      BY DEF Deleting
    <3> HIDE DEF g
    <3>1. CASE k = n + 1
      <4>1. g[k - 1] = f[n] /\ k # 0
        BY <2>2, <2>6, <3>1
      <4> QED BY <2>6, <3>1, <4>1 DEF last
    <3>2. CASE k # n + 1
      <4>1. k \in 0 .. n /\ (k # 0 => k - 1 \in 0 .. n)
        BY <2>2, <3>2
      <4> QED BY <2>3, <2>6, <4>1 DEF Deleting
    <3> QED BY <3>1, <3>2
  <2> QED BY <2>6, <2>7
<1>3. m \in I
  <2>1. I \subseteq Nat
    OBVIOUS
  <2> HIDE DEF I
  <2> QED BY <1>1, <1>2, <2>1, SetInduction
<1> QED BY <1>3

LEMMA DeletingResult ==
    ASSUME NEW S, NEW list \in Seq(S), NEW ip
    PROVE  \E f \in [0 .. Len(list) -> [ok : BOOLEAN, list : Seq(S)]] :
              /\ Deleting(f, ip, list, Len(list))
              /\ deleteFromEpAddressList(ip, list) = f[Len(list)]
<1>0. PICK m \in Nat : m = Len(list)
  OBVIOUS
<1> DEFINE B(f) == [i \in 0 .. Len(list) |->
                       IF i = 0 THEN [ok |-> TRUE, list |-> list]
                       ELSE IF list[i].ip # ip \/ ~f[i - 1].ok THEN f[i - 1]
                       ELSE IF i > Len(f[i - 1].list) THEN [f[i - 1] EXCEPT !.ok = FALSE]
                       ELSE [f[i - 1] EXCEPT !.list = RemoveAt(@, i)]]
           C(f) == [i \in 0 .. m |-> IF i = 0 THEN [ok |-> TRUE, list |-> list]
                                     ELSE Step(f[i - 1], ip, list, i)]
           g == CHOOSE f : f = B(f)
<1>1. PICK f \in [0 .. m -> [ok : BOOLEAN, list : Seq(S)]] : Deleting(f, ip, list, m)
  <2>1. m <= Len(list)
    BY <1>0
  <2> QED BY <2>1, DeletingExists
<1>2. \A h : B(h) = C(h)
  BY <1>0 DEF Step
<1>3. f = C(f)
  BY <1>1 DEF Deleting
<1>4. f = B(f)
  BY <1>2, <1>3
<1>5. g = B(g)
  <2> HIDE DEF B
  <2> QED BY <1>4, Zenon
<1>6. deleteFromEpAddressList(ip, list) = g[m]
  BY <1>0 DEF deleteFromEpAddressList
<1>7. g = C(g)
  <2> HIDE DEF B, C, g
  <2> QED BY <1>2, <1>5
<1>8. DOMAIN g = 0 .. m /\ \A i \in 0 .. m : g[i] = IF i = 0 THEN [ok |-> TRUE, list |-> list]
                                                   ELSE Step(g[i - 1], ip, list, i)
  <2> HIDE DEF g
  <2> QED BY <1>7
<1>9. Deleting(g, ip, list, m)
  <2> HIDE DEF g, B, C
  <2> QED BY <1>8 DEF Deleting
<1> DEFINE I == {n \in Nat : n <= m => g[n] \in [ok : BOOLEAN, list : Seq(S)]}
<1>10. 0 \in I
  <2>1. g[0] = [ok |-> TRUE, list |-> list]
    <3> HIDE DEF g, B, C
    <3> QED BY <1>8
  <2>2. g[0] \in [ok : BOOLEAN, list : Seq(S)]
    <3> HIDE DEF g
    <3> QED BY <2>1
  <2> HIDE DEF g
  <2> QED BY <2>2
<1>11. ASSUME NEW n \in I PROVE n + 1 \in I
  <2> HIDE DEF g, B, C
  <2>1. SUFFICES ASSUME n + 1 <= m PROVE g[n + 1] \in [ok : BOOLEAN, list : Seq(S)]
    OBVIOUS
  <2>2. n \in Nat /\ n + 1 \in 1 .. Len(list) /\ n + 1 \in 0 .. m /\ n <= m
    BY <1>0, <2>1
  <2>3. g[n + 1] = Step(g[(n + 1) - 1], ip, list, n + 1) /\ (n + 1) - 1 = n
    <3>1. n + 1 # 0 /\ (n + 1) - 1 = n
      BY <2>2
    <3> QED BY <1>8, <2>2, <3>1
  <2>4. g[n] \in [ok : BOOLEAN, list : Seq(S)]
    BY <2>2
  <2> QED BY <2>2, <2>3, <2>4, StepType
<1>12. \A n \in Nat : n \in I
  <2>1. I \subseteq Nat
    OBVIOUS
  <2> HIDE DEF I
  <2> QED BY <1>10, <1>11, <2>1, SetInduction
<1>13. g \in [0 .. m -> [ok : BOOLEAN, list : Seq(S)]]
  <2>1. \A n \in 0 .. m : g[n] \in [ok : BOOLEAN, list : Seq(S)]
    <3> HIDE DEF g
    <3> QED BY <1>12
  <2> HIDE DEF g, B
  <2> DEFINE r == [i \in 0 .. m |-> g[i]]
  <2>2. g = r
    BY <1>7, <1>8
  <2>3. r \in [0 .. m -> [ok : BOOLEAN, list : Seq(S)]]
    BY <2>1
  <2> QED BY <2>2, <2>3
<1> QED
  <2> HIDE DEF g
  <2> QED BY <1>0, <1>6, <1>9, <1>13

LEMMA DeletedType ==
    ASSUME NEW S, NEW list \in Seq(S), NEW ip
    PROVE  deleteFromEpAddressList(ip, list) \in [ok : BOOLEAN, list : Seq(S)]
<1>1. Len(list) \in 0 .. Len(list)
  OBVIOUS
<1> QED BY <1>1, DeletingResult

\* An address that is listed once, or not at all, is removed, and nothing else.
LEMMA DeletedInLoop ==
    ASSUME NEW S, NEW list \in Seq(S), OneEach(list), NEW ip,
           NEW f \in [0 .. Len(list) -> [ok : BOOLEAN, list : Seq(S)]],
           Deleting(f, ip, list, Len(list))
    PROVE  LET r == f[Len(list)]
           IN /\ r.ok
              /\ r.list \in Seq(S) /\ OneEach(r.list)
              /\ {r.list[i] : i \in 1 .. Len(r.list)}
                    = {list[i] : i \in {j \in 1 .. Len(list) : list[j].ip # ip}}
<1>1. PICK m \in Nat : m = Len(list)
  OBVIOUS
<1> DEFINE r == f[m]
<1>2. Deleting(f, ip, list, m)
  BY <1>1
<1>0. SUFFICES /\ r.ok
               /\ r.list \in Seq(S) /\ OneEach(r.list)
               /\ {r.list[i] : i \in 1 .. Len(r.list)}
                     = {list[i] : i \in {j \in 1 .. m : list[j].ip # ip}}
  BY <1>1
<1>3. DOMAIN list = 1 .. m
  BY <1>1
<1>4. CASE \A k \in 1 .. m : list[k].ip # ip
  <2> DEFINE I == {n \in Nat : n <= m => f[n] = [ok |-> TRUE, list |-> list]}
  <2>1. 0 \in I
    <3>1. 0 \in 0 .. m
      OBVIOUS
    <3> QED BY <1>2, <3>1 DEF Deleting
  <2>2. ASSUME NEW n \in I PROVE n + 1 \in I
    <3>1. SUFFICES ASSUME n + 1 <= m PROVE f[n + 1] = [ok |-> TRUE, list |-> list]
      OBVIOUS
    <3>2. n + 1 \in 0 .. m /\ n + 1 \in 1 .. m /\ n + 1 # 0 /\ (n + 1) - 1 = n /\ n <= m
      BY <3>1
    <3>3. f[n + 1] = Step(f[n], ip, list, n + 1)
      BY <1>2, <3>2 DEF Deleting
    <3>4. f[n] = [ok |-> TRUE, list |-> list]
      BY <3>2
    <3> QED BY <1>4, <3>2, <3>3, <3>4 DEF Step
  <2>3. \A n \in Nat : n \in I
    <3>1. I \subseteq Nat
      OBVIOUS
    <3> HIDE DEF I
    <3> QED BY <2>1, <2>2, <3>1, SetInduction
  <2>4. r = [ok |-> TRUE, list |-> list]
    BY <2>3
  <2>5. {j \in 1 .. m : list[j].ip # ip} = 1 .. m
    BY <1>4
  <2>6. r.ok /\ r.list = list
    BY <2>4
  <2> HIDE DEF r
  <2> QED BY <1>1, <2>5, <2>6
<1>5. ASSUME NEW k \in 1 .. m, list[k].ip = ip
      PROVE  /\ r.ok
             /\ r.list \in Seq(S) /\ OneEach(r.list)
             /\ {r.list[i] : i \in 1 .. Len(r.list)}
                   = {list[i] : i \in {j \in 1 .. m : list[j].ip # ip}}
  <2>1. \A j \in 1 .. m : j # k => list[j].ip # ip
    BY <1>3, <1>5 DEF OneEach
  <2>2. PICK short : short = RemoveAt(list, k)
    OBVIOUS
  <2>3. /\ short \in Seq(S) /\ Len(short) = m - 1
        /\ \A j \in 1 .. m - 1 : short[j] = IF j < k THEN list[j] ELSE list[j + 1]
    BY <1>1, <2>2, Removed
  <2> DEFINE I == {n \in Nat : n <= m => f[n] = [ok |-> TRUE, list |-> IF n < k THEN list ELSE short]}
  <2>4. 0 \in I
    <3>1. 0 \in 0 .. m /\ 0 < k
      OBVIOUS
    <3> QED BY <1>2, <3>1 DEF Deleting
  <2>5. ASSUME NEW n \in I PROVE n + 1 \in I
    <3>1. SUFFICES ASSUME n + 1 <= m
                   PROVE  f[n + 1] = [ok |-> TRUE, list |-> IF n + 1 < k THEN list ELSE short]
      OBVIOUS
    <3>0. n \in Nat
      OBVIOUS
    <3>2. n + 1 \in 0 .. m /\ n + 1 \in 1 .. m /\ n + 1 # 0 /\ (n + 1) - 1 = n /\ n <= m
      <4> HIDE DEF I
      <4> QED BY <3>0, <3>1
    <3>3. f[n + 1] = Step(f[n], ip, list, n + 1)
      BY <1>2, <3>2 DEF Deleting
    <3>4. f[n] = [ok |-> TRUE, list |-> IF n < k THEN list ELSE short]
      BY <3>2
    <3>5. CASE n + 1 = k
      <4>1. f[n] = [ok |-> TRUE, list |-> list]
        <5>1. n < k
          BY <3>0, <3>5
        <5> HIDE DEF I
        <5> QED BY <3>4, <5>1
      <4>2. ~(n + 1 > Len(list)) /\ list[n + 1].ip = ip
        BY <1>1, <1>5, <3>2, <3>5
      <4>3. f[n + 1] = [f[n] EXCEPT !.list = RemoveAt(@, n + 1)]
        BY <3>3, <4>1, <4>2 DEF Step
      <4>4. f[n + 1] = [ok |-> TRUE, list |-> short]
        <5> HIDE DEF I
        <5>1. RemoveAt(f[n].list, n + 1) = short
          BY <2>2, <3>5, <4>1
        <5>2. f[n + 1] = [f[n] EXCEPT !.list = short]
          BY <4>3, <5>1
        <5>3. f[n + 1] = [ok |-> f[n].ok, list |-> short]
          BY <4>1, <5>2, Zenon
        <5> QED BY <4>1, <5>3
      <4>5. ~(n + 1 < k)
        BY <3>5
      <4> HIDE DEF I
      <4> QED BY <4>4, <4>5
    <3>6. CASE n + 1 # k
      <4>1. f[n + 1] = f[n]
        BY <2>1, <3>2, <3>3, <3>6 DEF Step
      <4>2. n < k <=> n + 1 < k
        BY <3>6
      <4> QED BY <3>4, <4>1, <4>2
    <3> QED BY <3>5, <3>6
  <2>6. \A n \in Nat : n \in I
    <3>1. I \subseteq Nat
      OBVIOUS
    <3> HIDE DEF I
    <3> QED BY <2>4, <2>5, <3>1, SetInduction
  <2>7. r = [ok |-> TRUE, list |-> short]
    <3>1. m \in I /\ ~(m < k) /\ m <= m
      <4>1. m \in I
        <5> HIDE DEF I
        <5> QED BY <2>6
      <4> HIDE DEF I
      <4> QED BY <4>1
    <3> QED BY <1>2, <3>1
  <2>8. DOMAIN short = 1 .. m - 1
    BY <2>3
  <2>9. OneEach(short)
    <3> SUFFICES ASSUME NEW i \in 1 .. m - 1, NEW j \in 1 .. m - 1, short[i].ip = short[j].ip
                 PROVE  i = j
      BY <2>8 DEF OneEach
    <3> DEFINE at(h) == IF h < k THEN h ELSE h + 1
    <3>1. at(i) \in 1 .. m /\ at(j) \in 1 .. m /\ short[i] = list[at(i)] /\ short[j] = list[at(j)]
      BY <2>3
    <3>2. at(i) = at(j)
      <4> HIDE DEF at
      <4> QED BY <1>3, <3>1 DEF OneEach
    <3> QED BY <3>2
  <2>10. {short[i] : i \in 1 .. m - 1} = {list[i] : i \in {j \in 1 .. m : list[j].ip # ip}}
    <3>1. ASSUME NEW i \in 1 .. m - 1
          PROVE  \E j \in 1 .. m : list[j].ip # ip /\ short[i] = list[j]
      <4> DEFINE j == IF i < k THEN i ELSE i + 1
      <4>1. j \in 1 .. m /\ j # k /\ short[i] = list[j]
        BY <2>3
      <4> HIDE DEF j
      <4> QED BY <2>1, <4>1
    <3>2. ASSUME NEW j \in 1 .. m, list[j].ip # ip
          PROVE  \E i \in 1 .. m - 1 : short[i] = list[j]
      <4> DEFINE i == IF j < k THEN j ELSE j - 1
      <4>1. j # k
        BY <1>5, <3>2
      <4>2. i \in 1 .. m - 1 /\ (j < k => i < k /\ i = j) /\ (~(j < k) => ~(i < k) /\ i + 1 = j)
        BY <4>1
      <4>3. short[i] = IF i < k THEN list[i] ELSE list[i + 1]
        <5> HIDE DEF i
        <5> QED BY <2>3, <4>2
      <4>4. short[i] = list[j]
        <5> HIDE DEF i
        <5> QED BY <4>2, <4>3
      <4> HIDE DEF i
      <4> QED BY <4>2, <4>4
    <3>3. {short[i] : i \in 1 .. m - 1} \subseteq {list[i] : i \in {j \in 1 .. m : list[j].ip # ip}}
      <4> SUFFICES ASSUME NEW i \in 1 .. m - 1
                   PROVE  short[i] \in {list[h] : h \in {j \in 1 .. m : list[j].ip # ip}}
        OBVIOUS
      <4>1. PICK j \in 1 .. m : list[j].ip # ip /\ short[i] = list[j]
        BY <3>1
      <4> QED BY <4>1
    <3>4. {list[i] : i \in {j \in 1 .. m : list[j].ip # ip}} \subseteq {short[i] : i \in 1 .. m - 1}
      BY <3>2
    <3> QED BY <3>3, <3>4
  <2>11. r.ok /\ r.list = short
    BY <2>7
  <2>12. Len(short) = m - 1
    BY <2>3
  <2> HIDE DEF r
  <2> QED BY <2>3, <2>9, <2>10, <2>11, <2>12
<1> QED BY <1>4, <1>5

LEMMA DeletedOnce ==
    ASSUME NEW S, NEW list \in Seq(S), OneEach(list), NEW ip,
           NEW l, l = deleteFromEpAddressList(ip, list).list
    PROVE  /\ deleteFromEpAddressList(ip, list).ok
           /\ l \in Seq(S) /\ OneEach(l)
           /\ \A i \in 1 .. Len(l) : \E j \in 1 .. Len(list) : l[i] = list[j] /\ list[j].ip # ip
           /\ \A j \in 1 .. Len(list) : list[j].ip # ip => \E i \in 1 .. Len(l) : l[i] = list[j]
<1>1. PICK f \in [0 .. Len(list) -> [ok : BOOLEAN, list : Seq(S)]] :
         /\ Deleting(f, ip, list, Len(list))
         /\ deleteFromEpAddressList(ip, list) = f[Len(list)]
  BY DeletingResult
<1> DEFINE r == f[Len(list)]
           kept == {list[i] : i \in {j \in 1 .. Len(list) : list[j].ip # ip}}
<1>2. /\ r.ok
      /\ r.list \in Seq(S) /\ OneEach(r.list)
      /\ {r.list[i] : i \in 1 .. Len(r.list)} = kept
  BY <1>1, DeletedInLoop
<1> HIDE DEF r
<1>3. deleteFromEpAddressList(ip, list) = r /\ l = r.list
  BY <1>1 DEF r
<1>4. {l[i] : i \in 1 .. Len(l)} = kept
  BY <1>2, <1>3
<1>5. \A i \in 1 .. Len(l) : l[i] \in kept
  <2> HIDE DEF kept
  <2> QED BY <1>4
<1>6. ASSUME NEW j \in 1 .. Len(list), list[j].ip # ip PROVE \E i \in 1 .. Len(l) : l[i] = list[j]
  <2>1. list[j] \in kept
    BY <1>6
  <2> HIDE DEF kept
  <2> QED BY <1>4, <2>1
<1> QED BY <1>2, <1>3, <1>5, <1>6

-----------------------------------------------------------------------------
(* The operations on one Endpoints                                           *)

\* An address and its Pod are those of one DanmEp.
LEMMA IpFacts ==
    /\ \A e \in DOMAIN DanmEps : PodOf(e) \in Pods
    /\ \A e, f \in DOMAIN DanmEps : IpOf(e) = IpOf(f) => e = f \/ IpOf(e) = NoIp
    /\ \A a \in Entry : /\ a.ip # NoIp /\ a.pod \in Pods /\ a.rv \in Nat
                        /\ \E e \in DOMAIN DanmEps : a.ip = IpOf(e) /\ a.pod = PodOf(e)
    /\ \A a \in Entry : \A e \in DOMAIN DanmEps : a.ip = IpOf(e) => a.pod = PodOf(e)
    /\ \A a, b \in Entry : a.ip = b.ip => a.pod = b.pod
<1>1. \A e \in DOMAIN DanmEps : PodOf(e) \in Pods
  BY SvcAssumption DEF PodOf
<1>2. \A e, f \in DOMAIN DanmEps : IpOf(e) = IpOf(f) => e = f \/ IpOf(e) = NoIp
  BY SvcAssumption DEF IpOf
<1>3. \A a \in Entry : /\ a.ip # NoIp /\ a.pod \in Pods /\ a.rv \in Nat
                       /\ \E e \in DOMAIN DanmEps : a.ip = IpOf(e) /\ a.pod = PodOf(e)
  BY DEF Entry, IpOf, PodOf
<1>4. \A a \in Entry : \A e \in DOMAIN DanmEps : a.ip = IpOf(e) => a.pod = PodOf(e)
  <2> TAKE a \in Entry
  <2> TAKE e \in DOMAIN DanmEps
  <2>1. PICK f \in DOMAIN DanmEps : a.ip = IpOf(f) /\ a.pod = PodOf(f) /\ a.ip # NoIp
    BY <1>3
  <2> QED BY <1>2, <2>1
<1>5. \A a, b \in Entry : a.ip = b.ip => a.pod = b.pod
  <2> TAKE a, b \in Entry
  <2>1. PICK f \in DOMAIN DanmEps : a.ip = IpOf(f) /\ a.pod = PodOf(f)
    BY <1>3
  <2> QED BY <1>4, <2>1
<1> QED BY <1>1, <1>2, <1>3, <1>4, <1>5

LEMMA AddressFacts ==
    ASSUME NEW e \in DOMAIN DanmEps, IpOf(e) # NoIp, NEW pod \in PodState
    PROVE  Address(e, pod) \in Entry /\ Address(e, pod).ip = IpOf(e) /\ Address(e, pod).pod = PodOf(e)
<1>1. Address(e, pod) = [ip |-> IpOf(e), pod |-> PodOf(e), rv |-> pod.rv]
  BY DEF Address, IpOf, PodOf
<1>2. pod.rv \in Nat /\ PodOf(e) \in Pods
  BY IpFacts DEF PodState
<1>3. IpOf(e) \in {DanmEps[f].ip : f \in DOMAIN DanmEps} \ {NoIp}
  BY DEF IpOf
<1>4. PICK a : a = Address(e, pod)
  OBVIOUS
<1>5. a \in [ip : {DanmEps[f].ip : f \in DOMAIN DanmEps} \ {NoIp}, pod : Pods, rv : Nat]
  BY <1>1, <1>2, <1>3, <1>4
<1>6. a.ip = DanmEps[e].ip /\ a.pod = DanmEps[e].pod
  BY <1>1, <1>4 DEF IpOf, PodOf
<1>7. a \in Entry
  BY <1>5, <1>6 DEF Entry
<1> QED BY <1>1, <1>4, <1>7

LEMMA IpsFacts ==
    ASSUME NEW list \in Seq(Entry)
    PROVE  /\ Ips(list) = {list[i].ip : i \in 1 .. Len(list)}
           /\ DOMAIN list = 1 .. Len(list)
           /\ NoIp \notin Ips(list)
           /\ Ips(list) \subseteq {IpOf(e) : e \in DOMAIN DanmEps}
<1>1. DOMAIN list = 1 .. Len(list)
  OBVIOUS
<1>2. Ips(list) = {list[i].ip : i \in 1 .. Len(list)}
  BY <1>1 DEF Ips
<1>3. \A i \in 1 .. Len(list) : list[i].ip # NoIp /\ \E e \in DOMAIN DanmEps : list[i].ip = IpOf(e)
  BY IpFacts
<1> QED BY <1>1, <1>2, <1>3

LEMMA AppendFacts ==
    ASSUME NEW list \in Seq(Entry), NEW a \in Entry
    PROVE  /\ Append(list, a) \in Seq(Entry)
           /\ Ips(Append(list, a)) = Ips(list) \cup {a.ip}
           /\ OneEach(list) /\ a.ip \notin Ips(list) => OneEach(Append(list, a))
           /\ ToSet(Append(list, a)) = ToSet(list) \cup {a}
<1> DEFINE n == Len(list)
           l == Append(list, a)
<1>1. /\ l \in Seq(Entry) /\ Len(l) = n + 1 /\ l[n + 1] = a
      /\ \A i \in 1 .. n : l[i] = list[i]
      /\ n \in Nat
  OBVIOUS
<1>2. DOMAIN l = 1 .. n + 1 /\ DOMAIN list = 1 .. n
  BY <1>1
<1> HIDE DEF l, n
<1>3. 1 .. n + 1 = 1 .. n \cup {n + 1}
  BY <1>1
<1>4. Ips(l) = Ips(list) \cup {a.ip}
  <2>1. Ips(l) \subseteq Ips(list) \cup {a.ip}
    BY <1>1, <1>2, <1>3 DEF Ips
  <2>2. Ips(list) \cup {a.ip} \subseteq Ips(l)
    BY <1>1, <1>2, <1>3 DEF Ips
  <2> QED BY <2>1, <2>2
<1>5. ASSUME OneEach(list), a.ip \notin Ips(list) PROVE OneEach(l)
  <2> SUFFICES ASSUME NEW i \in 1 .. n + 1, NEW j \in 1 .. n + 1, l[i].ip = l[j].ip
               PROVE  i = j
    BY <1>2 DEF OneEach
  <2>1. \A h \in 1 .. n : list[h].ip # a.ip
    BY <1>2, <1>5 DEF Ips
  <2> QED BY <1>1, <1>2, <1>3, <1>5, <2>1 DEF OneEach
<1>6. ToSet(l) = ToSet(list) \cup {a}
  <2>1. ToSet(l) \subseteq ToSet(list) \cup {a}
    BY <1>1, <1>2, <1>3 DEF ToSet
  <2>2. ToSet(list) \cup {a} \subseteq ToSet(l)
    BY <1>1, <1>2, <1>3 DEF ToSet
  <2> QED BY <2>1, <2>2
<1> QED BY <1>1, <1>4, <1>5, <1>6 DEF l

\* The addresses in a list that are not of a Pod.
Rest(list, p) == {a \in ToSet(list) : a.pod # p}

LEMMA EndpointsFacts ==
    ASSUME NEW x \in EndpointsType
    PROVE  /\ x.exists \in BOOLEAN /\ x.anno \in Annotations \cup {NoAnnotation}
           /\ x.anno.early \in BOOLEAN
           /\ x.ready \in Seq(Entry) /\ x.notReady \in Seq(Entry) /\ x.rv \in Nat
<1>1. x.anno \in Annotations \cup {NoAnnotation}
  BY DEF EndpointsType
<1>2. x.anno.early \in BOOLEAN
  <2>1. CASE x.anno \in Annotations
    BY <2>1, SvcAssumption
  <2>2. CASE x.anno = NoAnnotation
    BY <2>2 DEF NoAnnotation
  <2> QED BY <1>1, <2>1, <2>2
<1> QED BY <1>1, <1>2 DEF EndpointsType


LEMMA WithoutFacts ==
    ASSUME NEW list \in Seq(Entry), NEW e \in DOMAIN DanmEps,
           NEW r, r = deleteFromEpAddressList(IpOf(e), list)
    PROVE  /\ r.list \in Seq(Entry) /\ r.ok \in BOOLEAN
           /\ OneEach(list) =>
                 /\ r.ok /\ OneEach(r.list)
                 /\ Ips(r.list) = Ips(list) \ {IpOf(e)}
                 /\ Rest(r.list, PodOf(e)) = Rest(list, PodOf(e))
                 /\ list = <<>> => r.list = <<>>
<1>1. r.list \in Seq(Entry) /\ r.ok \in BOOLEAN
  BY DeletedType
<1>2. SUFFICES ASSUME OneEach(list)
               PROVE  /\ r.ok /\ OneEach(r.list)
                      /\ Ips(r.list) = Ips(list) \ {IpOf(e)}
                      /\ Rest(r.list, PodOf(e)) = Rest(list, PodOf(e))
                      /\ list = <<>> => r.list = <<>>
  BY <1>1
<1>3. PICK l \in Seq(Entry) : l = r.list
  BY <1>1
<1>5. /\ r.ok /\ OneEach(l)
      /\ \A i \in 1 .. Len(l) : \E j \in 1 .. Len(list) : l[i] = list[j] /\ list[j].ip # IpOf(e)
      /\ \A j \in 1 .. Len(list) : list[j].ip # IpOf(e) => \E i \in 1 .. Len(l) : l[i] = list[j]
  <2>0. PICK ip : ip = IpOf(e)
    OBVIOUS
  <2>1. r = deleteFromEpAddressList(ip, list)
    BY <2>0
  <2>2. l = deleteFromEpAddressList(ip, list).list
    BY <1>3, <2>1
  <2>3. /\ deleteFromEpAddressList(ip, list).ok /\ OneEach(l)
        /\ \A i \in 1 .. Len(l) : \E j \in 1 .. Len(list) : l[i] = list[j] /\ list[j].ip # ip
        /\ \A j \in 1 .. Len(list) : list[j].ip # ip => \E i \in 1 .. Len(l) : l[i] = list[j]
    <3>1. deleteFromEpAddressList(ip, list).ok
      BY <1>2, <2>2, DeletedOnce
    <3>2. OneEach(l)
      BY <1>2, <2>2, DeletedOnce
    <3>3. \A i \in 1 .. Len(l) : \E j \in 1 .. Len(list) : l[i] = list[j] /\ list[j].ip # ip
      BY <1>2, <2>2, DeletedOnce
    <3>4. \A j \in 1 .. Len(list) : list[j].ip # ip => \E i \in 1 .. Len(l) : l[i] = list[j]
      BY <1>2, <2>2, DeletedOnce
    <3> QED BY <3>1, <3>2, <3>3, <3>4
  <2> QED BY <2>0, <2>1, <2>3
<1>6. DOMAIN l = 1 .. Len(l) /\ DOMAIN list = 1 .. Len(list)
  OBVIOUS
<1>7. Ips(l) = Ips(list) \ {IpOf(e)}
  <2>1. ASSUME NEW i \in 1 .. Len(l) PROVE l[i].ip \in Ips(list) \ {IpOf(e)}
    <3>1. PICK j \in 1 .. Len(list) : l[i] = list[j] /\ list[j].ip # IpOf(e)
      BY <1>5
    <3> QED BY <1>6, <3>1 DEF Ips
  <2>2. ASSUME NEW j \in 1 .. Len(list), list[j].ip # IpOf(e) PROVE list[j].ip \in Ips(l)
    <3>1. PICK i \in 1 .. Len(l) : l[i] = list[j]
      BY <1>5, <2>2
    <3> QED BY <1>6, <3>1 DEF Ips
  <2>3. Ips(l) = {l[i].ip : i \in 1 .. Len(l)} /\ Ips(list) = {list[i].ip : i \in 1 .. Len(list)}
    BY <1>6 DEF Ips
  <2>4. Ips(l) \subseteq Ips(list) \ {IpOf(e)}
    BY <2>1, <2>3
  <2>5. Ips(list) \ {IpOf(e)} \subseteq Ips(l)
    BY <2>2, <2>3
  <2> QED BY <2>4, <2>5
<1>8. \A j \in 1 .. Len(list) : list[j].ip = IpOf(e) => list[j].pod = PodOf(e)
  BY IpFacts
<1>9. Rest(l, PodOf(e)) = Rest(list, PodOf(e))
  <2>1. Rest(l, PodOf(e)) \subseteq Rest(list, PodOf(e))
    BY <1>5, <1>6 DEF Rest, ToSet
  <2>2. ASSUME NEW j \in 1 .. Len(list), list[j].pod # PodOf(e) PROVE list[j] \in Rest(l, PodOf(e))
    <3>1. PICK i \in 1 .. Len(l) : l[i] = list[j]
      BY <1>5, <1>8, <2>2
    <3> QED BY <1>6, <2>2, <3>1 DEF Rest, ToSet
  <2>3. Rest(list, PodOf(e)) \subseteq Rest(l, PodOf(e))
    BY <1>6, <2>2 DEF Rest, ToSet
  <2> QED BY <2>1, <2>3
<1>10. list = <<>> => l = <<>>
  <2>1. ASSUME list = <<>> PROVE l = <<>>
    <3>1. Len(list) = 0
      BY <2>1
    <3>2. Len(l) = 0
      BY <1>5, <3>1
    <3> QED BY <3>2
  <2> QED BY <2>1
<1> QED BY <1>3, <1>5, <1>7, <1>9, <1>10

\* delDanmep takes the address out.
LEMMA DelFacts ==
    ASSUME NEW x \in EndpointsType, NEW e \in DOMAIN DanmEps, NEW y,
           y = [x EXCEPT !.ready = deleteFromEpAddressList(IpOf(e), @).list,
                         !.notReady = deleteFromEpAddressList(IpOf(e), @).list]
    PROVE  /\ y \in EndpointsType /\ y.exists = x.exists /\ y.anno = x.anno
           /\ y.ready = deleteFromEpAddressList(IpOf(e), x.ready).list
           /\ y.notReady = deleteFromEpAddressList(IpOf(e), x.notReady).list
<1>1. PICK a : a = deleteFromEpAddressList(IpOf(e), x.ready)
  OBVIOUS
<1>2. PICK b : b = deleteFromEpAddressList(IpOf(e), x.notReady)
  OBVIOUS
<1>3. x.ready \in Seq(Entry) /\ x.notReady \in Seq(Entry)
  BY EndpointsFacts
<1>4. y = [x EXCEPT !.ready = a.list, !.notReady = b.list]
  BY <1>1, <1>2
<1>5. a.list \in Seq(Entry) /\ b.list \in Seq(Entry)
  BY <1>1, <1>2, <1>3, WithoutFacts
<1>6. /\ y \in EndpointsType /\ y.exists = x.exists /\ y.anno = x.anno
      /\ y.ready = a.list /\ y.notReady = b.list
  <2>1. PICK r \in Seq(Entry) : r = a.list
    BY <1>5
  <2>2. PICK n \in Seq(Entry) : n = b.list
    BY <1>5
  <2>3. y = [x EXCEPT !.ready = r, !.notReady = n]
    BY <1>4, <2>1, <2>2
  <2>4. /\ y \in EndpointsType /\ y.exists = x.exists /\ y.anno = x.anno
        /\ y.ready = r /\ y.notReady = n
    BY <2>3 DEF EndpointsType
  <2> QED BY <2>1, <2>2, <2>4
<1> QED BY <1>1, <1>2, <1>6

LEMMA DelOnce ==
    ASSUME NEW x \in EndpointsType, NEW e \in DOMAIN DanmEps, NEW y, Unique(x),
           y.ready = deleteFromEpAddressList(IpOf(e), x.ready).list,
           y.notReady = deleteFromEpAddressList(IpOf(e), x.notReady).list
    PROVE  /\ Unique(y)
           /\ Ips(y.ready) = Ips(x.ready) \ {IpOf(e)}
           /\ Ips(y.notReady) = Ips(x.notReady) \ {IpOf(e)}
           /\ x.notReady = <<>> => y.notReady = <<>>
<1>1. PICK a : a = deleteFromEpAddressList(IpOf(e), x.ready)
  OBVIOUS
<1>2. PICK b : b = deleteFromEpAddressList(IpOf(e), x.notReady)
  OBVIOUS
<1>3. x.ready \in Seq(Entry) /\ x.notReady \in Seq(Entry) /\ OneEach(x.ready) /\ OneEach(x.notReady)
  BY EndpointsFacts DEF Unique
<1>5. y.ready = a.list /\ y.notReady = b.list
  BY <1>1, <1>2
<1>6. OneEach(a.list) /\ Ips(a.list) = Ips(x.ready) \ {IpOf(e)}
  BY <1>1, <1>3, WithoutFacts
<1>8. OneEach(b.list) /\ Ips(b.list) = Ips(x.notReady) \ {IpOf(e)}
  BY <1>2, <1>3, WithoutFacts
<1>9. x.notReady = <<>> => b.list = <<>>
  BY <1>2, <1>3, WithoutFacts
<1> QED BY <1>5, <1>6, <1>8, <1>9 DEF Unique

LEMMA DelRest ==
    ASSUME NEW x \in EndpointsType, NEW e \in DOMAIN DanmEps, NEW y, Unique(x),
           y.ready = deleteFromEpAddressList(IpOf(e), x.ready).list
    PROVE  Rest(y.ready, PodOf(e)) = Rest(x.ready, PodOf(e))
<1>1. x.ready \in Seq(Entry) /\ OneEach(x.ready)
  BY EndpointsFacts DEF Unique
<1> QED BY <1>1, WithoutFacts

LEMMA DelRestNotReady ==
    ASSUME NEW x \in EndpointsType, NEW e \in DOMAIN DanmEps, NEW y, Unique(x),
           y.notReady = deleteFromEpAddressList(IpOf(e), x.notReady).list
    PROVE  Rest(y.notReady, PodOf(e)) = Rest(x.notReady, PodOf(e))
<1>1. x.notReady \in Seq(Entry) /\ OneEach(x.notReady)
  BY EndpointsFacts DEF Unique
<1> QED BY <1>1, WithoutFacts

\* addDanmep adds the address, to the list the state of the Pod asks for.
LEMMA AddFacts ==
    ASSUME NEW x \in EndpointsType, NEW e \in DOMAIN DanmEps, NEW pod \in PodState,
           NEW early \in BOOLEAN, NEW y, y = EpCheckUpdate(e, pod, x, early)
    PROVE  /\ y \in EndpointsType /\ y.exists = x.exists /\ y.anno = x.anno
           /\ Ips(x.ready) \subseteq Ips(y.ready) /\ Ips(y.ready) \subseteq Ips(x.ready) \cup {IpOf(e)}
           /\ Ips(x.notReady) \subseteq Ips(y.notReady)
           /\ Ips(y.notReady) \subseteq Ips(x.notReady) \cup {IpOf(e)}
           /\ IpOf(e) \in Ips(x.ready) => y = x
           /\ IpOf(e) # NoIp /\ IpOf(e) \notin Ips(x.ready) =>
                 IpOf(e) \in Ips(IF pod.ready \/ early THEN y.ready ELSE y.notReady)
           /\ early => y.notReady = x.notReady
           /\ Unique(x) /\ IpOf(e) \notin Ips(x.notReady) => Unique(y)
           /\ Rest(y.ready, PodOf(e)) = Rest(x.ready, PodOf(e))
           /\ Rest(y.notReady, PodOf(e)) = Rest(x.notReady, PodOf(e))
<1>1. CASE IpOf(e) = NoIp \/ IpOf(e) \in Ips(x.ready)
  <2>1. y = x
    BY <1>1 DEF EpCheckUpdate, isIpInEp, IpOf
  <2> QED BY <1>1, <2>1
<1>2. CASE ~(IpOf(e) = NoIp \/ IpOf(e) \in Ips(x.ready))
  <2>0. PICK a : a = Address(e, pod)
    OBVIOUS
  <2>1. a \in Entry /\ a.ip = IpOf(e) /\ a.pod = PodOf(e)
    BY <1>2, <2>0, AddressFacts
  <2>2. x.ready \in Seq(Entry) /\ x.notReady \in Seq(Entry)
    BY EndpointsFacts
  <2>3. CASE pod.ready \/ early
    <3>1. PICK r : r = Append(x.ready, a)
      OBVIOUS
    <3>2. /\ r \in Seq(Entry) /\ Ips(r) = Ips(x.ready) \cup {a.ip} /\ ToSet(r) = ToSet(x.ready) \cup {a}
          /\ OneEach(x.ready) /\ a.ip \notin Ips(x.ready) => OneEach(r)
      BY <2>1, <2>2, <3>1, AppendFacts
    <3>3. y = [x EXCEPT !.ready = r]
      BY <1>2, <2>0, <2>3, <3>1 DEF EpCheckUpdate, isIpInEp, IpOf
    <3>4. /\ y \in EndpointsType /\ y.exists = x.exists /\ y.anno = x.anno
          /\ y.ready = r /\ y.notReady = x.notReady
      BY <3>2, <3>3 DEF EndpointsType
    <3>5. Rest(r, PodOf(e)) = Rest(x.ready, PodOf(e))
      BY <2>1, <3>2 DEF Rest
    <3> QED BY <1>2, <2>1, <2>3, <3>2, <3>4, <3>5 DEF Unique
  <2>4. CASE ~(pod.ready \/ early)
    <3>1. PICK r : r = Append(x.notReady, a)
      OBVIOUS
    <3>2. /\ r \in Seq(Entry) /\ Ips(r) = Ips(x.notReady) \cup {a.ip} /\ ToSet(r) = ToSet(x.notReady) \cup {a}
          /\ OneEach(x.notReady) /\ a.ip \notin Ips(x.notReady) => OneEach(r)
      BY <2>1, <2>2, <3>1, AppendFacts
    <3>3. y = [x EXCEPT !.notReady = r]
      BY <1>2, <2>0, <2>4, <3>1 DEF EpCheckUpdate, isIpInEp, IpOf
    <3>4. /\ y \in EndpointsType /\ y.exists = x.exists /\ y.anno = x.anno
          /\ y.notReady = r /\ y.ready = x.ready
      BY <3>2, <3>3 DEF EndpointsType
    <3>5. Rest(r, PodOf(e)) = Rest(x.notReady, PodOf(e))
      BY <2>1, <3>2 DEF Rest
    <3> QED BY <1>2, <2>1, <2>4, <3>2, <3>4, <3>5 DEF Unique
  <2> QED BY <2>3, <2>4
<1> QED BY <1>1, <1>2

\* A list in which the targetRefs of a Pod get a version.
Renewed(list, p, rv) == [i \in DOMAIN list |-> IF list[i].pod = p THEN [list[i] EXCEPT !.rv = rv] ELSE list[i]]

LEMMA RenewedFacts ==
    ASSUME NEW list \in Seq(Entry), NEW p, NEW rv \in Nat, NEW l, l = Renewed(list, p, rv)
    PROVE  /\ l \in Seq(Entry) /\ Ips(l) = Ips(list)
           /\ OneEach(list) => OneEach(l)
           /\ list = <<>> => l = <<>>
           /\ Rest(l, p) = Rest(list, p)
<1>1. PICK n \in Nat : n = Len(list) /\ DOMAIN list = 1 .. n
  OBVIOUS
<1>2. ASSUME NEW a \in Entry
      PROVE  /\ [a EXCEPT !.rv = rv] \in Entry
             /\ [a EXCEPT !.rv = rv].ip = a.ip /\ [a EXCEPT !.rv = rv].pod = a.pod
  <2>1. PICK b : b = [a EXCEPT !.rv = rv]
    OBVIOUS
  <2>2. b \in [ip : {DanmEps[e].ip : e \in DOMAIN DanmEps} \ {NoIp}, pod : Pods, rv : Nat]
    BY <2>1 DEF Entry
  <2>3. b.ip = a.ip /\ b.pod = a.pod
    BY <2>1 DEF Entry
  <2> QED BY <2>1, <2>2, <2>3 DEF Entry
<1>3. \A i \in 1 .. n : list[i] \in Entry
  BY <1>1
<1>4. l = [i \in 1 .. n |-> IF list[i].pod = p THEN [list[i] EXCEPT !.rv = rv] ELSE list[i]]
  BY <1>1 DEF Renewed
<1>5. \A i \in 1 .. n : /\ l[i] \in Entry /\ l[i].ip = list[i].ip /\ l[i].pod = list[i].pod
                        /\ list[i].pod # p => l[i] = list[i]
  BY <1>2, <1>3, <1>4
<1>6. l \in [1 .. n -> Entry]
  BY <1>4, <1>5
<1>7. l \in Seq(Entry) /\ Len(l) = n /\ DOMAIN l = 1 .. n
  BY <1>6, SeqForm
<1>8. Ips(l) = Ips(list)
  BY <1>1, <1>5, <1>7 DEF Ips
<1>9. OneEach(list) => OneEach(l)
  BY <1>1, <1>5, <1>7 DEF OneEach
<1>10. list = <<>> => l = <<>>
  BY <1>1, <1>7
<1>11. Rest(l, p) = Rest(list, p)
  <2>1. Rest(l, p) \subseteq Rest(list, p)
    BY <1>1, <1>5, <1>7 DEF Rest, ToSet
  <2>2. Rest(list, p) \subseteq Rest(l, p)
    BY <1>1, <1>5, <1>7 DEF Rest, ToSet
  <2> QED BY <2>1, <2>2
<1> QED BY <1>7, <1>8, <1>9, <1>10, <1>11

LEMMA TouchFacts ==
    ASSUME NEW x \in EndpointsType, NEW p, NEW pod \in PodState, NEW y, y = UpdatePodRvInEps(x, p, pod)
    PROVE  /\ y \in EndpointsType /\ y.exists = x.exists /\ y.anno = x.anno
           /\ Ips(y.ready) = Ips(x.ready) /\ Ips(y.notReady) = Ips(x.notReady)
           /\ Unique(x) => Unique(y)
           /\ x.notReady = <<>> => y.notReady = <<>>
           /\ Rest(y.ready, p) = Rest(x.ready, p) /\ Rest(y.notReady, p) = Rest(x.notReady, p)
<1>1. x.ready \in Seq(Entry) /\ x.notReady \in Seq(Entry)
  BY EndpointsFacts
<1>2. pod.rv \in Nat
  BY DEF PodState
<1>3. PICK r : r = Renewed(x.ready, p, pod.rv)
  OBVIOUS
<1>4. PICK n : n = Renewed(x.notReady, p, pod.rv)
  OBVIOUS
<1>5. /\ r \in Seq(Entry) /\ Ips(r) = Ips(x.ready) /\ (OneEach(x.ready) => OneEach(r))
      /\ Rest(r, p) = Rest(x.ready, p)
  BY <1>1, <1>2, <1>3, RenewedFacts
<1>6. /\ n \in Seq(Entry) /\ Ips(n) = Ips(x.notReady) /\ (OneEach(x.notReady) => OneEach(n))
      /\ Rest(n, p) = Rest(x.notReady, p) /\ (x.notReady = <<>> => n = <<>>)
  BY <1>1, <1>2, <1>4, RenewedFacts
<1>7. y = [x EXCEPT !.ready = r, !.notReady = n]
  BY <1>3, <1>4 DEF UpdatePodRvInEps, Renewed
<1>8. /\ y \in EndpointsType /\ y.exists = x.exists /\ y.anno = x.anno
      /\ y.ready = r /\ y.notReady = n
  BY <1>5, <1>6, <1>7 DEF EndpointsType
<1> QED BY <1>5, <1>6, <1>8 DEF Unique

\* The addresses of a list in an order that is not determined, where no two have the same IP.
LEMMA OrderedAddresses ==
    ASSUME NEW S \in SUBSET Entry, IsFiniteSet(S), NEW l \in SetToSeqs(S)
    PROVE  /\ l \in Seq(Entry) /\ ToSet(l) = S /\ Ips(l) = {a.ip : a \in S}
           /\ (\A a, b \in S : a.ip = b.ip => a = b) => OneEach(l)
           /\ S = {} <=> l = <<>>
<1>1. /\ l \in Seq(S) /\ \A i, j \in 1 .. Len(l) : l[i] = l[j] => i = j
      /\ {l[i] : i \in 1 .. Len(l)} = S
  BY Orders
<1>2. l \in Seq(Entry) /\ DOMAIN l = 1 .. Len(l) /\ Len(l) \in Nat
  BY <1>1
<1>3. ToSet(l) = S
  BY <1>1, <1>2 DEF ToSet
<1>4. \A i \in 1 .. Len(l) : l[i] \in S
  BY <1>1
<1>5. Ips(l) = {a.ip : a \in S}
  <2>1. Ips(l) \subseteq {a.ip : a \in S}
    BY <1>2, <1>4 DEF Ips
  <2>2. \A a \in S : \E i \in 1 .. Len(l) : l[i] = a
    BY <1>1
  <2>3. {a.ip : a \in S} \subseteq Ips(l)
    BY <1>2, <2>2 DEF Ips
  <2> QED BY <2>1, <2>3
<1>6. (\A a, b \in S : a.ip = b.ip => a = b) => OneEach(l)
  BY <1>1, <1>2, <1>4 DEF OneEach
<1>7. S = {} <=> l = <<>>
  <2>1. ASSUME S = {} PROVE l = <<>>
    <3>1. Len(l) = 0
      BY <1>2, <1>4, <2>1
    <3> QED BY <1>2, <3>1
  <2>2. ASSUME l = <<>> PROVE S = {}
    <3>1. Len(l) = 0
      BY <2>2
    <3> QED BY <1>1, <3>1
  <2> QED BY <2>1, <2>2
<1> QED BY <1>2, <1>3, <1>5, <1>6, <1>7

\* Of the addresses with the same IP the last one.
Latest(list) == {list[i] : i \in {j \in DOMAIN list : \A k \in DOMAIN list : list[k].ip = list[j].ip => k <= j}}

LEMMA LatestFacts ==
    ASSUME NEW list \in Seq(Entry)
    PROVE  /\ Latest(list) \subseteq Entry /\ IsFiniteSet(Latest(list))
           /\ \A a, b \in Latest(list) : a.ip = b.ip => a = b
           /\ OneEach(list) => Latest(list) = ToSet(list)
<1>1. DOMAIN list = 1 .. Len(list) /\ Len(list) \in Nat
  OBVIOUS
<1>2. Latest(list) \subseteq Entry
  BY <1>1 DEF Latest
<1>3. IsFiniteSet(Latest(list))
  <2> DEFINE J == {j \in DOMAIN list : \A k \in DOMAIN list : list[k].ip = list[j].ip => k <= j}
  <2>1. J \subseteq 1 .. Len(list)
    BY <1>1
  <2>2. Latest(list) = {list[i] : i \in J}
    BY DEF Latest
  <2> HIDE DEF J
  <2>3. IsFiniteSet({list[i] : i \in J})
    BY <2>1, ElementsFinite
  <2> QED BY <2>2, <2>3
<1>4. ASSUME NEW a \in Latest(list), NEW b \in Latest(list), a.ip = b.ip PROVE a = b
  <2>1. PICK i \in DOMAIN list : a = list[i] /\ \A k \in DOMAIN list : list[k].ip = list[i].ip => k <= i
    BY DEF Latest
  <2>2. PICK j \in DOMAIN list : b = list[j] /\ \A k \in DOMAIN list : list[k].ip = list[j].ip => k <= j
    BY DEF Latest
  <2>3. i <= j /\ j <= i /\ i \in Nat /\ j \in Nat
    BY <1>1, <1>4, <2>1, <2>2
  <2>4. i = j
    BY <2>3
  <2> QED BY <2>1, <2>2, <2>4
<1>5. ASSUME OneEach(list) PROVE Latest(list) = ToSet(list)
  <2>1. \A j \in DOMAIN list : \A k \in DOMAIN list : list[k].ip = list[j].ip => k <= j
    BY <1>1, <1>5 DEF OneEach
  <2>2. {j \in DOMAIN list : \A k \in DOMAIN list : list[k].ip = list[j].ip => k <= j} = DOMAIN list
    BY <2>1
  <2> QED BY <2>2 DEF Latest, ToSet
<1> QED BY <1>2, <1>3, <1>4, <1>5

\* updatePod moves the addresses of the Pod.
LEMMA StatusFacts ==
    ASSUME NEW x \in EndpointsType, NEW p, NEW old \in BOOLEAN, NEW new \in BOOLEAN,
           NEW early \in BOOLEAN, NEW y \in UpdatePodStatusInEps(x, p, old, new, early)
    PROVE  /\ y \in EndpointsType /\ y.exists = x.exists /\ y.anno = x.anno
           /\ Unique(x) =>
                 /\ Unique(y)
                 /\ Listed(y) = Listed(x)
                 /\ early => (x.notReady = <<>> => y.notReady = <<>>)
                 /\ Rest(y.ready, p) = Rest(x.ready, p) /\ Rest(y.notReady, p) = Rest(x.notReady, p)
                 /\ old # new => \A a \in ToSet(x.ready) \cup ToSet(x.notReady) : a.pod = p =>
                       /\ new => a.ip \in Ips(y.ready)
                       /\ ~new /\ ~early => a.ip \in Ips(y.notReady)
<1> DEFINE R == Latest(x.ready)
           N == Latest(x.notReady)
           down == {a \in R : old /\ ~early /\ a.pod = p}
           up == {a \in N : new /\ a.pod = p}
           ready == {a \in R \ down : \A b \in up : a.ip # b.ip} \cup up
           notReady == {a \in N \ up : \A b \in down : a.ip # b.ip} \cup down
<1>1. x.ready \in Seq(Entry) /\ x.notReady \in Seq(Entry)
  BY EndpointsFacts
<1>2. PICK r \in SetToSeqs(ready), n \in SetToSeqs(notReady) : y = [x EXCEPT !.ready = r, !.notReady = n]
  <2>1. PICK l \in SetToSeqs(ready) \X SetToSeqs(notReady) : y = [x EXCEPT !.ready = l[1], !.notReady = l[2]]
    BY DEF UpdatePodStatusInEps, Latest
  <2> HIDE DEF ready, notReady
  <2> QED BY <2>1
<1>3. /\ R \subseteq Entry /\ IsFiniteSet(R) /\ \A a, b \in R : a.ip = b.ip => a = b
      /\ N \subseteq Entry /\ IsFiniteSet(N) /\ \A a, b \in N : a.ip = b.ip => a = b
  BY <1>1, LatestFacts
<1>4. OneEach(x.ready) => R = ToSet(x.ready)
  BY <1>1, LatestFacts
<1>5. OneEach(x.notReady) => N = ToSet(x.notReady)
  BY <1>1, LatestFacts
<1> HIDE DEF R, N
<1>6. ready \in SUBSET Entry /\ notReady \in SUBSET Entry /\ IsFiniteSet(ready) /\ IsFiniteSet(notReady)
  <2>1. ready \subseteq R \cup N /\ notReady \subseteq R \cup N /\ IsFiniteSet(R \cup N)
    BY <1>3, FS_Union
  <2> QED BY <1>3, <2>1, FS_Subset
<1>7. /\ \A a, b \in ready : a.ip = b.ip => a = b
      /\ \A a, b \in notReady : a.ip = b.ip => a = b
  BY <1>3
<1>8. \A a, b \in R \cup N : a.ip = b.ip => a.pod = b.pod
  BY <1>3, IpFacts
<1>9. /\ \A a \in R \cup N : a.pod # p => (a \in ready <=> a \in R) /\ (a \in notReady <=> a \in N)
      /\ ready \subseteq R \cup N /\ notReady \subseteq R \cup N
  BY <1>8
<1>10. \A a \in R \cup N : \E b \in ready \cup notReady : a.ip = b.ip
  <2> TAKE a \in R \cup N
  <2>1. CASE a \in up \cup down
    BY <2>1
  <2>2. CASE a \notin up \cup down
    <3>1. CASE a \in R
      BY <2>2, <3>1
    <3>2. CASE a \in N
      BY <2>2, <3>2
    <3> QED BY <3>1, <3>2
  <2> QED BY <2>1, <2>2
<1>11. early /\ N = {} => notReady = {}
  OBVIOUS
<1>12. ASSUME old # new, NEW a \in R \cup N, a.pod = p
       PROVE  /\ new => \E b \in ready : b.ip = a.ip
              /\ ~new /\ ~early => \E b \in notReady : b.ip = a.ip
  <2>1. ASSUME new PROVE \E b \in ready : b.ip = a.ip
    <3>1. down = {}
      BY <1>12, <2>1
    <3>2. CASE a \in N
      BY <1>12, <2>1, <3>2
    <3>3. CASE a \in R
      BY <3>1, <3>3
    <3> QED BY <3>2, <3>3
  <2>2. ASSUME ~new, ~early PROVE \E b \in notReady : b.ip = a.ip
    <3>1. up = {} /\ old
      BY <1>12, <2>2
    <3>2. CASE a \in R
      BY <1>12, <2>2, <3>1, <3>2
    <3>3. CASE a \in N
      BY <3>1, <3>3
    <3> QED BY <3>2, <3>3
  <2> QED BY <2>1, <2>2
<1> HIDE DEF down, up, ready, notReady
<1>13. r \in Seq(Entry) /\ ToSet(r) = ready /\ Ips(r) = {a.ip : a \in ready} /\ OneEach(r)
  BY <1>6, <1>7, OrderedAddresses
<1>14. /\ n \in Seq(Entry) /\ ToSet(n) = notReady /\ Ips(n) = {a.ip : a \in notReady} /\ OneEach(n)
       /\ notReady = {} => n = <<>>
  BY <1>6, <1>7, OrderedAddresses
<1>15. /\ y \in EndpointsType /\ y.exists = x.exists /\ y.anno = x.anno
       /\ y.ready = r /\ y.notReady = n
  BY <1>2, <1>13, <1>14 DEF EndpointsType
<1>16. ASSUME Unique(x)
       PROVE  /\ Listed(y) = Listed(x)
              /\ early => (x.notReady = <<>> => y.notReady = <<>>)
              /\ Rest(y.ready, p) = Rest(x.ready, p) /\ Rest(y.notReady, p) = Rest(x.notReady, p)
              /\ old # new => \A a \in ToSet(x.ready) \cup ToSet(x.notReady) : a.pod = p =>
                    /\ new => a.ip \in Ips(y.ready)
                    /\ ~new /\ ~early => a.ip \in Ips(y.notReady)
  <2>1. R = ToSet(x.ready) /\ N = ToSet(x.notReady)
    BY <1>4, <1>5, <1>16 DEF Unique
  <2>2. Ips(x.ready) = {a.ip : a \in R} /\ Ips(x.notReady) = {a.ip : a \in N}
    BY <2>1 DEF Ips, ToSet
  <2>3. Listed(y) = Listed(x)
    <3>1. Listed(y) = {a.ip : a \in ready \cup notReady}
      BY <1>13, <1>14, <1>15 DEF Listed
    <3>2. Listed(x) = {a.ip : a \in R \cup N}
      BY <2>2 DEF Listed
    <3>3. {a.ip : a \in ready \cup notReady} \subseteq {a.ip : a \in R \cup N}
      BY <1>9
    <3>4. {a.ip : a \in R \cup N} \subseteq {a.ip : a \in ready \cup notReady}
      BY <1>10
    <3> QED BY <3>1, <3>2, <3>3, <3>4
  <2>4. ASSUME early, x.notReady = <<>> PROVE y.notReady = <<>>
    <3>1. N = {}
      BY <2>1, <2>4 DEF ToSet
    <3> QED BY <1>11, <1>14, <1>15, <2>4, <3>1
  <2>5. Rest(y.ready, p) = Rest(x.ready, p)
    BY <1>9, <1>13, <1>15, <2>1 DEF Rest
  <2>6. Rest(y.notReady, p) = Rest(x.notReady, p)
    BY <1>9, <1>14, <1>15, <2>1 DEF Rest
  <2>7. ASSUME old # new, NEW a \in ToSet(x.ready) \cup ToSet(x.notReady), a.pod = p
        PROVE  /\ new => a.ip \in Ips(y.ready)
               /\ ~new /\ ~early => a.ip \in Ips(y.notReady)
    BY <1>12, <1>13, <1>14, <1>15, <2>1, <2>7
  <2> QED BY <2>3, <2>4, <2>5, <2>6, <2>7
<1> QED BY <1>13, <1>14, <1>15, <1>16 DEF Unique

\* A Service that tolerates Pods that are not ready gets no such addresses.
LEMMA StatusEarly ==
    ASSUME NEW x \in EndpointsType, NEW p, NEW old, NEW new, NEW early, early = TRUE,
           NEW y \in UpdatePodStatusInEps(x, p, old, new, early), x.notReady = <<>>
    PROVE  y.notReady = <<>>
<1> DEFINE R == Latest(x.ready)
           N == Latest(x.notReady)
           down == {a \in R : old /\ ~early /\ a.pod = p}
           up == {a \in N : new /\ a.pod = p}
           ready == {a \in R \ down : \A b \in up : a.ip # b.ip} \cup up
           notReady == {a \in N \ up : \A b \in down : a.ip # b.ip} \cup down
<1>1. N = {}
  BY DEF Latest
<1>2. notReady = {}
  BY <1>1
<1>3. PICK r \in SetToSeqs(ready), n \in SetToSeqs(notReady) : y = [x EXCEPT !.ready = r, !.notReady = n]
  <2>1. PICK l \in SetToSeqs(ready) \X SetToSeqs(notReady) : y = [x EXCEPT !.ready = l[1], !.notReady = l[2]]
    BY DEF UpdatePodStatusInEps, Latest
  <2> HIDE DEF ready, notReady
  <2> QED BY <2>1
<1> HIDE DEF R, N, down, up, ready, notReady
<1>4. n = <<>>
  <2>1. {} \in SUBSET Entry /\ IsFiniteSet({}) /\ n \in SetToSeqs({})
    BY <1>2, FS_EmptySet
  <2> QED BY <2>1, OrderedAddresses
<1>5. y.notReady = n
  BY <1>3 DEF EndpointsType
<1> QED BY <1>4, <1>5

\* Endpoints built anew list the DanmEps whose Pods there are.
LEMMA NewFacts ==
    ASSUME DOMAIN pods \subseteq Pods, pods \in [DOMAIN pods -> PodState],
           NEW a \in Annotations, NEW des \in SUBSET DOMAIN DanmEps, NEW x \in MakeNewEps(a, des)
    PROVE  /\ x \in EndpointsType /\ x.exists /\ x.anno = a /\ x.rv = 0 /\ Unique(x)
           /\ a.early => x.notReady = <<>>
           /\ Listed(x) \subseteq {IpOf(e) : e \in des}
           /\ \A e \in des : HasAddress(e) => IpOf(e) \in Right(x, pods[PodOf(e)].ready)
<1> DEFINE has == {e \in des : HasAddress(e)}
           up == {e \in has : pods[DanmEps[e].pod].ready \/ a.early}
           addresses(es) == {Address(e, pods[DanmEps[e].pod]) : e \in es}
<1>1. PICK l \in SetToSeqs(addresses(up)) \X SetToSeqs(addresses(has \ up)) :
         x = [exists |-> TRUE, anno |-> a, ready |-> l[1], notReady |-> l[2], rv |-> 0]
  BY DEF MakeNewEps
<1>2. PICK r \in SetToSeqs(addresses(up)), n \in SetToSeqs(addresses(has \ up)) :
         x = [exists |-> TRUE, anno |-> a, ready |-> r, notReady |-> n, rv |-> 0]
  <2> HIDE DEF addresses, up, has
  <2> QED BY <1>1
<1>3. \A e \in has : /\ e \in DOMAIN DanmEps /\ IpOf(e) # NoIp /\ PodOf(e) \in DOMAIN pods
                     /\ pods[PodOf(e)] \in PodState
  BY DEF HasAddress, IpOf, PodOf
<1>4. \A e \in has : LET z == Address(e, pods[DanmEps[e].pod]) IN z \in Entry /\ z.ip = IpOf(e)
  <2> TAKE e \in has
  <2>1. Address(e, pods[PodOf(e)]) \in Entry /\ Address(e, pods[PodOf(e)]).ip = IpOf(e)
    BY <1>3, AddressFacts
  <2> QED BY <2>1 DEF PodOf
<1>5. \A e, f \in has : IpOf(e) = IpOf(f) => e = f
  BY <1>3, IpFacts
<1>6. ASSUME NEW es \in SUBSET has
      PROVE  /\ addresses(es) \in SUBSET Entry /\ IsFiniteSet(addresses(es))
             /\ \A y, z \in addresses(es) : y.ip = z.ip => y = z
             /\ {z.ip : z \in addresses(es)} = {IpOf(e) : e \in es}
  <2>1. addresses(es) \in SUBSET Entry
    BY <1>4
  <2>2. IsFiniteSet(addresses(es))
    <3> DEFINE f == [e \in es |-> Address(e, pods[DanmEps[e].pod])]
    <3>1. f \in Surjection(es, addresses(es))
      BY DEF Surjection
    <3>2. IsFiniteSet(es)
      BY <1>3, SvcAssumption, FS_Subset
    <3> HIDE DEF addresses, f
    <3> QED BY <3>1, <3>2, FS_Surjection
  <2>3. ASSUME NEW y \in addresses(es), NEW z \in addresses(es), y.ip = z.ip PROVE y = z
    <3>1. PICK e \in es : y = Address(e, pods[DanmEps[e].pod]) /\ y.ip = IpOf(e)
      BY <1>4
    <3>2. PICK f \in es : z = Address(f, pods[DanmEps[f].pod]) /\ z.ip = IpOf(f)
      BY <1>4
    <3>3. e = f
      BY <1>5, <2>3, <3>1, <3>2
    <3> QED BY <3>1, <3>2, <3>3
  <2>4. {z.ip : z \in addresses(es)} = {IpOf(e) : e \in es}
    <3>1. {z.ip : z \in addresses(es)} \subseteq {IpOf(e) : e \in es}
      BY <1>4
    <3>2. ASSUME NEW e \in es PROVE IpOf(e) \in {z.ip : z \in addresses(es)}
      <4>1. PICK z \in addresses(es) : z.ip = IpOf(e)
        BY <1>4
      <4> HIDE DEF addresses
      <4> QED BY <4>1
    <3> HIDE DEF addresses
    <3> QED BY <3>1, <3>2
  <2> QED BY <2>1, <2>2, <2>3, <2>4
<1>7. up \in SUBSET has /\ has \ up \in SUBSET has
  OBVIOUS
<1> HIDE DEF addresses
<1>8. r \in Seq(Entry) /\ Ips(r) = {IpOf(e) : e \in up} /\ OneEach(r)
  <2>1. PICK S \in SUBSET Entry : S = addresses(up)
    BY <1>6, <1>7
  <2>2. IsFiniteSet(S) /\ (\A y, z \in S : y.ip = z.ip => y = z) /\ r \in SetToSeqs(S)
    BY <1>6, <1>7, <2>1
  <2>3. r \in Seq(Entry) /\ Ips(r) = {z.ip : z \in S} /\ OneEach(r)
    BY <2>2, OrderedAddresses
  <2> QED BY <1>6, <1>7, <2>1, <2>3
<1>9. n \in Seq(Entry) /\ Ips(n) = {IpOf(e) : e \in has \ up} /\ OneEach(n) /\ (has \ up = {} => n = <<>>)
  <2>1. PICK S \in SUBSET Entry : S = addresses(has \ up)
    BY <1>6, <1>7
  <2>2. IsFiniteSet(S) /\ (\A y, z \in S : y.ip = z.ip => y = z) /\ n \in SetToSeqs(S)
    BY <1>6, <1>7, <2>1
  <2>3. n \in Seq(Entry) /\ Ips(n) = {z.ip : z \in S} /\ OneEach(n) /\ (S = {} => n = <<>>)
    BY <2>2, OrderedAddresses
  <2>4. has \ up = {} => S = {}
    BY <2>1 DEF addresses
  <2> QED BY <1>6, <1>7, <2>1, <2>3, <2>4
<1>10. /\ x \in EndpointsType /\ x.exists /\ x.anno = a /\ x.rv = 0
       /\ x.ready = r /\ x.notReady = n
  BY <1>2, <1>8, <1>9 DEF EndpointsType
<1>11. a.early => x.notReady = <<>>
  BY <1>9, <1>10
<1>12. Listed(x) \subseteq {IpOf(e) : e \in des}
  BY <1>8, <1>9, <1>10 DEF Listed
<1>13. ASSUME NEW e \in des, HasAddress(e) PROVE IpOf(e) \in Right(x, pods[PodOf(e)].ready)
  <2>1. e \in up <=> pods[PodOf(e)].ready \/ a.early
    BY <1>13 DEF PodOf
  <2>2. e \in has
    BY <1>13
  <2> HIDE DEF up, has
  <2>3. CASE e \in up
    BY <1>8, <1>10, <2>1, <2>3 DEF Right
  <2>4. CASE e \notin up
    BY <1>9, <1>10, <2>1, <2>2, <2>4 DEF Right
  <2> QED BY <2>3, <2>4
<1> QED BY <1>8, <1>9, <1>10, <1>11, <1>12, <1>13 DEF Unique

\* There is an order for every finite set.
LEMMA OrderExists ==
    ASSUME NEW S, IsFiniteSet(S)
    PROVE  SetToSeqs(S) # {}
<1>1. PICK n \in Nat : ExistsBijection(1 .. n, S) /\ Cardinality(S) = n
  <2>1. PICK n \in Nat : ExistsBijection(1 .. n, S)
    BY FS_NatBijection
  <2> QED BY <2>1, FS_CountingElements
<1>2. PICK f : f \in Bijection(1 .. n, S)
  BY <1>1 DEF ExistsBijection
<1>3. f \in [1 .. n -> S] /\ \A i, j \in 1 .. n : i # j => f[i] # f[j]
  BY <1>2 DEF Bijection, Injection, IsInjective
<1>4. f \in SetToSeqs(S)
  BY <1>1, <1>3 DEF SetToSeqs
<1> QED BY <1>4

LEMMA NewExists ==
    ASSUME NEW a, NEW des \in SUBSET DOMAIN DanmEps
    PROVE  MakeNewEps(a, des) # {}
<1> DEFINE has == {e \in des : HasAddress(e)}
           up == {e \in has : pods[DanmEps[e].pod].ready \/ a.early}
           addresses(es) == {Address(e, pods[DanmEps[e].pod]) : e \in es}
<1>1. ASSUME NEW es \in SUBSET des PROVE IsFiniteSet(addresses(es))
  <2> DEFINE f == [e \in es |-> Address(e, pods[DanmEps[e].pod])]
  <2>1. f \in Surjection(es, addresses(es))
    BY DEF Surjection
  <2>2. IsFiniteSet(es)
    BY SvcAssumption, FS_Subset
  <2> HIDE DEF addresses, f
  <2> QED BY <2>1, <2>2, FS_Surjection
<1>2. up \in SUBSET des /\ has \ up \in SUBSET des
  OBVIOUS
<1>3. PICK r : r \in SetToSeqs(addresses(up))
  <2> HIDE DEF addresses, up
  <2> QED BY <1>1, <1>2, OrderExists
<1>4. PICK n : n \in SetToSeqs(addresses(has \ up))
  <2> HIDE DEF addresses, up, has
  <2> QED BY <1>1, <1>2, OrderExists
<1>5. <<r, n>> \in SetToSeqs(addresses(up)) \X SetToSeqs(addresses(has \ up))
  <2> HIDE DEF addresses, up, has
  <2> QED BY <1>3, <1>4
<1>6. [exists |-> TRUE, anno |-> a, ready |-> <<r, n>>[1], notReady |-> <<r, n>>[2], rv |-> 0]
         \in MakeNewEps(a, des)
  BY <1>5 DEF MakeNewEps
<1> QED BY <1>6

-----------------------------------------------------------------------------
(* Tasks and events                                                          *)

\* A goroutine goes on with its change.
Goes(t, l) == [t EXCEPT !.pc = l, !.writes = <<>>]

LEMMA IdleFacts ==
    ASSUME NEW h \in Handlers
    PROVE  /\ Idle \in Task(h) /\ Idle.pc = "idle" /\ Idle.writes = <<>>
           /\ Idle.ev = NoEvent /\ Idle.op = "idle" /\ Idle.todo = {}
<1>1. NoPod \in PodState
  BY DEF NoPod, PodState
<1>2. <<>> \in Seq(WriteType)
  OBVIOUS
<1> HIDE DEF NoPod
<1> QED BY <1>1, <1>2 DEF Idle, Task, Pcs

LEMMA GoesFacts ==
    ASSUME NEW h \in Handlers, NEW t \in Task(h), NEW l \in Pcs
    PROVE  /\ Goes(t, l) \in Task(h) /\ Goes(t, l).pc = l /\ Goes(t, l).writes = <<>>
           /\ Goes(t, l).op = t.op /\ Goes(t, l).ev = t.ev /\ Goes(t, l).todo = t.todo
           /\ Goes(t, l).cur = t.cur /\ Goes(t, l).anno = t.anno /\ Goes(t, l).pod = t.pod
<1>1. <<>> \in Seq(WriteType)
  OBVIOUS
<1> QED BY <1>1 DEF Goes, Task

LEMMA AfterFacts ==
    ASSUME NEW h \in Handlers, NEW t \in Task(h)
    PROVE  /\ \/ t.op = "del" /\ t.ev.new # {} /\ After(t) = Goes(t, "match")
              \/ t.op = "add" /\ t.todo # {} /\ After(t) = Goes(t, "next")
              \/ t.op = "status" /\ After(t) = Goes(t, "label")
              \/ /\ After(t) = Idle
                 /\ t.op = "del" => t.ev.new = {}
                 /\ t.op = "add" => t.todo = {}
           /\ After(t) \in Task(h) /\ After(t).writes = <<>> /\ After(t).pc # "put"
           /\ After(t).pc = "idle" \/ After(t).ev = t.ev
<1>1. \/ t.op = "del" /\ t.ev.new # {} /\ After(t) = Goes(t, "match")
      \/ t.op = "add" /\ t.todo # {} /\ After(t) = Goes(t, "next")
      \/ t.op = "status" /\ After(t) = Goes(t, "label")
      \/ /\ After(t) = Idle
         /\ t.op = "del" => t.ev.new = {}
         /\ t.op = "add" => t.todo = {}
  BY DEF After, Goes
<1>2. \A l \in {"match", "next", "label"} :
         /\ Goes(t, l) \in Task(h) /\ Goes(t, l).pc = l /\ Goes(t, l).writes = <<>>
         /\ Goes(t, l).ev = t.ev
  <2> TAKE l \in {"match", "next", "label"}
  <2>1. l \in Pcs
    BY DEF Pcs
  <2> QED BY <2>1, GoesFacts
<1> QED BY <1>1, <1>2, IdleFacts

\* Putting, with what is written.
Puts(t, op, writes) == [t EXCEPT !.pc = "put", !.op = op, !.writes = writes]

LEMMA PutsFacts ==
    ASSUME NEW h \in Handlers, NEW t \in Task(h), NEW op \in Pcs, NEW ws \in Seq(WriteType)
    PROVE  /\ Puts(t, op, ws) \in Task(h) /\ Puts(t, op, ws).pc = "put"
           /\ Puts(t, op, ws).op = op /\ Puts(t, op, ws).writes = ws
           /\ Puts(t, op, ws).ev = t.ev /\ Puts(t, op, ws).todo = t.todo
           /\ Puts(t, op, ws).cur = t.cur /\ Puts(t, op, ws).anno = t.anno
           /\ Puts(t, op, ws).pod = t.pod
BY DEF Puts, Task, Pcs

Doing(t, op) == [t EXCEPT !.op = op]

LEMMA DoingFacts ==
    ASSUME NEW h \in Handlers, NEW t \in Task(h), NEW op \in Pcs
    PROVE  /\ Doing(t, op) \in Task(h) /\ Doing(t, op).pc = t.pc /\ Doing(t, op).op = op
           /\ Doing(t, op).ev = t.ev /\ Doing(t, op).todo = t.todo /\ Doing(t, op).writes = t.writes
BY DEF Doing, Task

LEMMA WritingFacts ==
    ASSUME NEW h \in Handlers, NEW t \in Task(h), NEW op \in Pcs, NEW ws \in Seq(WriteType)
    PROVE  /\ \/ ws # <<>> /\ Writing(t, op, ws) = Puts(t, op, ws)
              \/ ws = <<>> /\ Writing(t, op, ws) = After(Doing(t, op))
           /\ Writing(t, op, ws) \in Task(h)
           /\ Writing(t, op, ws).pc = "put" <=> Writing(t, op, ws).writes # <<>>
           /\ Writing(t, op, ws).pc = "idle" \/ Writing(t, op, ws).ev = t.ev
<1>1. CASE ws # <<>>
  <2>1. Writing(t, op, ws) = Puts(t, op, ws)
    BY <1>1 DEF Writing, Puts
  <2> QED BY <1>1, <2>1, PutsFacts
<1>2. CASE ws = <<>>
  <2>1. Writing(t, op, ws) = After(Doing(t, op))
    BY <1>2 DEF Writing, Doing
  <2>2. PICK d \in Task(h) : d = Doing(t, op) /\ d.ev = t.ev
    BY DoingFacts
  <2>3. After(d) \in Task(h) /\ After(d).writes = <<>> /\ After(d).pc # "put"
    BY AfterFacts
  <2>4. After(d).pc = "idle" \/ After(d).ev = t.ev
    BY <2>2, AfterFacts
  <2> QED BY <1>2, <2>1, <2>2, <2>3, <2>4
<1> QED BY <1>1, <1>2

-----------------------------------------------------------------------------
LEMMA Widened ==
    ASSUME NEW T, NEW S, T \subseteq S, NEW q \in Seq(T)
    PROVE  q \in Seq(S)
OBVIOUS

LEMMA PendingFacts ==
    ASSUME NEW h \in Handlers, NEW t \in Task(h), NEW q \in Seq(Event(h))
    PROVE  /\ Len(q) \in Nat /\ DOMAIN q = 1 .. Len(q)
           /\ Pending(t, q) \in Seq(Event(h) \cup {NoEvent})
           /\ t.pc = "idle" => Pending(t, q) = q
           /\ t.pc # "idle" =>
                 /\ DOMAIN Pending(t, q) = 1 .. Len(q) + 1 /\ Len(Pending(t, q)) = Len(q) + 1
                 /\ Pending(t, q)[1] = t.ev
                 /\ \A j \in 1 .. Len(q) : Pending(t, q)[j + 1] = q[j]
<1>1. Len(q) \in Nat /\ DOMAIN q = 1 .. Len(q)
  OBVIOUS
<1>2. PICK S : S = Event(h) \cup {NoEvent}
  OBVIOUS
<1>3. q \in Seq(S) /\ t.ev \in S
  <2>1. t.ev \in Event(h) \cup {NoEvent}
    BY DEF Task
  <2> QED BY <1>2, <2>1, Widened
<1>4. CASE t.pc = "idle"
  <2>1. Pending(t, q) = <<>> \o q
    BY <1>4 DEF Pending
  <2>2. Pending(t, q) = q
    BY <2>1
  <2> QED BY <1>1, <1>2, <1>3, <1>4, <2>2
<1>5. CASE t.pc # "idle"
  <2>1. Pending(t, q) = <<t.ev>> \o q
    BY <1>5 DEF Pending
  <2>2. <<t.ev>> \in Seq(S) /\ Len(<<t.ev>>) = 1 /\ <<t.ev>>[1] = t.ev
    BY <1>3
  <2>3. PICK l \in Seq(S) : l = <<t.ev>> \o q
    BY <1>3, <2>2, Joined
  <2>4. Len(l) = Len(q) + 1 /\ l[1] = t.ev /\ \A j \in 1 .. Len(q) : l[j + 1] = q[j]
    BY <1>3, <2>2, <2>3
  <2>5. DOMAIN l = 1 .. Len(q) + 1
    BY <2>4
  <2> QED BY <1>1, <1>2, <1>5, <2>1, <2>3, <2>4, <2>5
<1> QED BY <1>4, <1>5

LEMMA EventsFacts ==
    ASSUME TypeOK, NEW h \in Handlers
    PROVE  /\ task[h] \in Task(h) /\ queue[h] \in Seq(Event(h)) /\ Len(queue[h]) \in Nat
           /\ DOMAIN queue[h] = 1 .. Len(queue[h])
           /\ At(h, "idle") => Events(h) = queue[h]
           /\ ~At(h, "idle") =>
                 /\ DOMAIN Events(h) = 1 .. Len(queue[h]) + 1
                 /\ Events(h)[1] = task[h].ev
                 /\ \A j \in 1 .. Len(queue[h]) : Events(h)[j + 1] = queue[h][j]
           /\ Events(h) \in Seq(Event(h) \cup {NoEvent})
<1>1. PICK t \in Task(h), q \in Seq(Event(h)) : t = task[h] /\ q = queue[h]
  BY DEF TypeOK
<1>2. Pending(t, q) \in Seq(Event(h) \cup {NoEvent}) /\ (t.pc = "idle" => Pending(t, q) = q)
  BY PendingFacts
<1>3. t.pc # "idle" => /\ DOMAIN Pending(t, q) = 1 .. Len(q) + 1
                       /\ Pending(t, q)[1] = t.ev
                       /\ \A j \in 1 .. Len(q) : Pending(t, q)[j + 1] = q[j]
  BY PendingFacts
<1>4. Events(h) = Pending(t, q) /\ (At(h, "idle") <=> t.pc = "idle")
  BY <1>1 DEF Events, At
<1>5. Len(q) \in Nat /\ DOMAIN q = 1 .. Len(q)
  OBVIOUS
<1> QED BY <1>1, <1>2, <1>3, <1>4, <1>5

LEMMA TaskEvent ==
    ASSUME TypeOK, EventsTyped, NEW h \in Handlers
    PROVE  /\ task[h] \in Task(h)
           /\ ~At(h, "idle") => EventOf(h, task[h].ev)
           /\ \A j \in DOMAIN queue[h] : EventOf(h, queue[h][j])
<1>1. CASE At(h, "idle")
  BY <1>1, EventsFacts DEF EventsTyped
<1>2. CASE ~At(h, "idle")
  <2>1. /\ DOMAIN Events(h) = 1 .. Len(queue[h]) + 1 /\ Events(h)[1] = task[h].ev
        /\ \A j \in 1 .. Len(queue[h]) : Events(h)[j + 1] = queue[h][j]
        /\ Len(queue[h]) \in Nat /\ DOMAIN queue[h] = 1 .. Len(queue[h])
    <3>1. DOMAIN Events(h) = 1 .. Len(queue[h]) + 1 /\ Events(h)[1] = task[h].ev
      BY <1>2, EventsFacts
    <3>2. \A j \in 1 .. Len(queue[h]) : Events(h)[j + 1] = queue[h][j]
      BY <1>2, EventsFacts
    <3>3. Len(queue[h]) \in Nat /\ queue[h] \in Seq(Event(h))
      BY EventsFacts
    <3>4. DOMAIN queue[h] = 1 .. Len(queue[h])
      BY <3>3
    <3> QED BY <3>1, <3>2, <3>3, <3>4
  <2>2. \A j \in 1 .. Len(queue[h]) + 1 : EventOf(h, Events(h)[j])
    BY <2>1 DEF EventsTyped
  <2>3. EventOf(h, task[h].ev)
    BY <2>1, <2>2
  <2>4. ASSUME NEW j \in 1 .. Len(queue[h]) PROVE EventOf(h, queue[h][j])
    <3>1. j + 1 \in 1 .. Len(queue[h]) + 1
      BY <2>1
    <3> QED BY <2>1, <2>2, <3>1
  <2> QED BY <2>1, <2>3, <2>4, EventsFacts
<1> QED BY <1>1, <1>2

\* The values before and after a change.
LEMMA EventValues ==
    ASSUME NEW h \in Handlers, NEW t \in Task(h), EventOf(h, t.ev)
    PROVE  /\ t.ev \in Event(h) /\ t.ev.obj \in Objects[h]
           /\ t.ev.new # {} => t.ev.new = {New(t)} /\ New(t) \in Values[h]
           /\ t.ev.old # {} => t.ev.old = {Old(t)} /\ Old(t) \in Values[h]
<1>1. t.ev \in Event(h) /\ t.ev.obj \in Objects[h]
  BY DEF EventOf, Event
<1>2. ASSUME t.ev.new # {} PROVE t.ev.new = {New(t)} /\ New(t) \in Values[h]
  <2>1. PICK v : t.ev.new = {v}
    BY <1>2 DEF EventOf, One
  <2>2. New(t) = v
    BY <2>1 DEF New
  <2>3. t.ev.new \subseteq Values[h]
    BY <1>1 DEF Event
  <2> QED BY <2>1, <2>2, <2>3
<1>3. ASSUME t.ev.old # {} PROVE t.ev.old = {Old(t)} /\ Old(t) \in Values[h]
  <2>1. PICK v : t.ev.old = {v}
    BY <1>3 DEF EventOf, One
  <2>2. Old(t) = v
    BY <2>1 DEF Old
  <2>3. t.ev.old \subseteq Values[h]
    BY <1>1 DEF Event
  <2> QED BY <2>1, <2>2, <2>3
<1> QED BY <1>1, <1>2, <1>3

\* The changes that remain when a goroutine goes on, is done, or takes the next one.
LEMMA PendingSteps ==
    ASSUME NEW h \in Handlers, NEW t \in Task(h), NEW u \in Task(h), NEW q \in Seq(Event(h))
    PROVE  /\ t.pc # "idle" /\ u.pc # "idle" /\ u.ev = t.ev => Pending(u, q) = Pending(t, q)
           /\ t.pc # "idle" /\ u.pc = "idle" => Pending(t, q) # <<>> /\ Pending(u, q) = Tail(Pending(t, q))
           /\ t.pc = "idle" /\ u.pc # "idle" /\ q # <<>> /\ u.ev = Head(q) =>
                 Pending(u, Tail(q)) = Pending(t, q)
           /\ t.pc = "idle" /\ u.pc = "idle" /\ q # <<>> =>
                 Pending(t, q) # <<>> /\ Pending(u, Tail(q)) = Tail(Pending(t, q))
<1>1. t.pc # "idle" /\ u.pc # "idle" /\ u.ev = t.ev => Pending(u, q) = Pending(t, q)
  BY DEF Pending
<1>2. PICK S : S = Event(h) \cup {NoEvent}
  OBVIOUS
<1>3. q \in Seq(S) /\ t.ev \in S
  <2>1. t.ev \in Event(h) \cup {NoEvent}
    BY DEF Task
  <2> QED BY <1>2, <2>1, Widened
<1>4. ASSUME t.pc # "idle", u.pc = "idle"
      PROVE  Pending(t, q) # <<>> /\ Pending(u, q) = Tail(Pending(t, q))
  <2>1. Pending(u, q) = q
    BY <1>4, PendingFacts
  <2>2. Pending(t, q) = <<t.ev>> \o q
    BY <1>4 DEF Pending
  <2>3. <<t.ev>> \in Seq(S) /\ Len(<<t.ev>>) = 1
    BY <1>3
  <2>4. PICK l \in Seq(S) : l = <<t.ev>> \o q /\ Len(l) = Len(q) + 1 /\ \A j \in 1 .. Len(q) : l[j + 1] = q[j]
    <3>1. PICK l \in Seq(S) : l = <<t.ev>> \o q
      BY <1>3, <2>3, Joined
    <3>2. Len(l) = Len(q) + 1 /\ \A j \in 1 .. Len(q) : l[j + 1] = q[j]
      BY <1>3, <2>3, <3>1
    <3> QED BY <3>1, <3>2
  <2>5. l # <<>>
    BY <2>4
  <2>6. Tail(l) = q
    <3>1. Tail(l) \in Seq(S) /\ Len(Tail(l)) = Len(q) /\ \A j \in 1 .. Len(q) : Tail(l)[j] = l[j + 1]
      BY <2>4, <2>5
    <3> QED BY <1>3, <2>4, <3>1
  <2> QED BY <2>1, <2>2, <2>4, <2>5, <2>6
<1>5. ASSUME t.pc = "idle", u.pc # "idle", q # <<>>, u.ev = Head(q)
      PROVE  Pending(u, Tail(q)) = Pending(t, q)
  <2>1. Pending(t, q) = q
    BY <1>5, PendingFacts
  <2>2. Pending(u, Tail(q)) = <<Head(q)>> \o Tail(q)
    BY <1>5 DEF Pending
  <2>3. <<Head(q)>> \o Tail(q) = q
    <3>1. Head(q) \in S /\ Tail(q) \in Seq(S) /\ Len(q) \in Nat /\ Len(q) > 0 /\ Len(Tail(q)) = Len(q) - 1
      BY <1>3, <1>5
    <3>2. <<Head(q)>> \in Seq(S) /\ Len(<<Head(q)>>) = 1
      BY <3>1
    <3>3. PICK l \in Seq(S) : l = <<Head(q)>> \o Tail(q)
      BY <3>1, <3>2, Joined
    <3>4. Len(l) = Len(q) /\ \A j \in 1 .. Len(q) : l[j] = q[j]
      BY <1>3, <1>5, <3>1, <3>2, <3>3
    <3> QED BY <1>3, <3>3, <3>4
  <2> QED BY <2>1, <2>2, <2>3
<1>6. ASSUME t.pc = "idle", u.pc = "idle", q # <<>>
      PROVE  Pending(t, q) # <<>> /\ Pending(u, Tail(q)) = Tail(Pending(t, q))
  <2>1. Pending(t, q) = q
    BY <1>6, PendingFacts
  <2>2. Tail(q) \in Seq(Event(h))
    BY <1>6
  <2>3. Pending(u, Tail(q)) = Tail(q)
    BY <1>6, <2>2, PendingFacts
  <2> QED BY <1>6, <2>1, <2>3
<1> QED BY <1>1, <1>4, <1>5, <1>6

LEMMA PendingAppend ==
    ASSUME NEW h \in Handlers, NEW t \in Task(h), NEW q \in Seq(Event(h)), NEW ev \in Event(h)
    PROVE  Pending(t, Append(q, ev)) = Append(Pending(t, q), ev)
<1>1. PICK S : S = Event(h) \cup {NoEvent}
  OBVIOUS
<1>2. q \in Seq(S) /\ t.ev \in S /\ ev \in S /\ Append(q, ev) \in Seq(Event(h))
  <2>1. t.ev \in Event(h) \cup {NoEvent}
    BY DEF Task
  <2>2. Append(q, ev) \in Seq(Event(h))
    OBVIOUS
  <2>3. q \in Seq(S)
    BY <1>1, Widened
  <2> QED BY <1>1, <2>1, <2>2, <2>3
<1>3. CASE t.pc = "idle"
  <2>1. Pending(t, q) = q
    BY <1>3, PendingFacts
  <2>2. Pending(t, Append(q, ev)) = Append(q, ev)
    BY <1>2, <1>3, PendingFacts
  <2> QED BY <2>1, <2>2
<1>4. CASE t.pc # "idle"
  <2>1. PICK o \in Seq(S) : o = <<t.ev>> /\ Len(o) = 1
    <3>1. t.ev \in S
      BY <1>2
    <3>2. <<t.ev>> \in Seq(S) /\ Len(<<t.ev>>) = 1
      BY <3>1
    <3> QED BY <3>2
  <2>2. Pending(t, q) = o \o q /\ Pending(t, Append(q, ev)) = o \o Append(q, ev)
    BY <1>4, <2>1 DEF Pending
  <2>3. PICK a \in Seq(S) : a = Append(q, ev) /\ Len(a) = Len(q) + 1 /\ a[Len(q) + 1] = ev
                            /\ \A j \in 1 .. Len(q) : a[j] = q[j]
    <3>1. q \in Seq(S) /\ ev \in S
      BY <1>2
    <3>2. /\ Append(q, ev) \in Seq(S) /\ Len(Append(q, ev)) = Len(q) + 1 /\ Append(q, ev)[Len(q) + 1] = ev
          /\ \A j \in 1 .. Len(q) : Append(q, ev)[j] = q[j]
      BY <3>1
    <3> QED BY <3>2
  <2>4. PICK l \in Seq(S) : l = o \o q /\ Len(l) = 1 + Len(q)
           /\ \A j \in 1 .. 1 + Len(q) : l[j] = IF j <= 1 THEN o[j] ELSE q[j - 1]
    <3>1. o \o q \in Seq(S) /\ Len(o \o q) = Len(o) + Len(q)
      BY <1>2, Joined
    <3>2. \A j \in 1 .. Len(o) + Len(q) : (o \o q)[j] = IF j <= Len(o) THEN o[j] ELSE q[j - Len(o)]
      BY <1>2, Joined
    <3> QED BY <2>1, <3>1, <3>2
  <2>5. PICK k \in Seq(S) : k = o \o a /\ Len(k) = 1 + Len(a)
           /\ \A j \in 1 .. 1 + Len(a) : k[j] = IF j <= 1 THEN o[j] ELSE a[j - 1]
    <3>1. o \o a \in Seq(S) /\ Len(o \o a) = Len(o) + Len(a)
      BY Joined
    <3>2. \A j \in 1 .. Len(o) + Len(a) : (o \o a)[j] = IF j <= Len(o) THEN o[j] ELSE a[j - Len(o)]
      BY Joined
    <3> QED BY <2>1, <3>1, <3>2
  <2>6. Append(l, ev) \in Seq(S) /\ Len(Append(l, ev)) = 2 + Len(q) /\ Append(l, ev)[2 + Len(q)] = ev
        /\ \A j \in 1 .. 1 + Len(q) : Append(l, ev)[j] = l[j]
    BY <1>2, <2>4
  <2>7. PICK n \in Nat : n = Len(q)
    BY <1>2
  <2>8. \A j \in 1 .. 2 + n : k[j] = Append(l, ev)[j]
    <3> TAKE j \in 1 .. 2 + n
    <3>1. CASE j = 2 + n
      BY <2>3, <2>5, <2>6, <2>7, <3>1
    <3>2. CASE j # 2 + n
      BY <2>3, <2>4, <2>5, <2>6, <2>7, <3>2
    <3> QED BY <3>1, <3>2
  <2>9. k = Append(l, ev)
    BY <2>3, <2>5, <2>6, <2>7, <2>8
  <2> QED BY <2>2, <2>3, <2>4, <2>5, <2>9
<1> QED BY <1>3, <1>4

\* The first change is forgotten.
LEMMA ToldTail ==
    ASSUME NEW S, NEW q \in Seq(S), q # <<>>
    PROVE  /\ Tail(q) \in Seq(S) /\ \A j \in DOMAIN Tail(q) : \E k \in DOMAIN q : Tail(q)[j] = q[k]
           /\ \A e, v : DanmEpTold(q, e, v) => DanmEpTold(Tail(q), e, v)
           /\ \A s, v : SvcTold(q, s, v) => SvcTold(Tail(q), s, v)
           /\ \A p, r : PodTold(q, p, r) => PodTold(Tail(q), p, r)
<1>1. PICK n \in Nat : Len(q) = n + 1 /\ DOMAIN q = 1 .. n + 1
  <2>1. Len(q) \in Nat /\ Len(q) > 0 /\ DOMAIN q = 1 .. Len(q)
    OBVIOUS
  <2>2. Len(q) - 1 \in Nat /\ Len(q) = (Len(q) - 1) + 1
    BY <2>1
  <2> QED BY <2>1, <2>2
<1>2. PICK l \in Seq(S) : l = Tail(q) /\ DOMAIN l = 1 .. n /\ \A j \in 1 .. n : l[j] = q[j + 1]
  <2>1. Tail(q) \in Seq(S) /\ Len(Tail(q)) = n
    BY <1>1
  <2>2. DOMAIN Tail(q) = 1 .. n
    BY <2>1
  <2>3. \A j \in 1 .. n : Tail(q)[j] = q[j + 1]
    BY <1>1
  <2> QED BY <2>1, <2>2, <2>3
<1>3. \A j \in 1 .. n : j + 1 \in 1 .. n + 1
  OBVIOUS
<1>4. \A j \in 1 .. n : \A k \in 1 .. n + 1 : j + 1 < k =>
         k - 1 \in 1 .. n /\ j < k - 1 /\ l[k - 1] = q[k]
  <2> SUFFICES ASSUME NEW j \in 1 .. n, NEW k \in 1 .. n + 1, j + 1 < k
               PROVE  k - 1 \in 1 .. n /\ j < k - 1 /\ l[k - 1] = q[k]
    OBVIOUS
  <2>1. k - 1 \in 1 .. n /\ j < k - 1 /\ (k - 1) + 1 = k
    OBVIOUS
  <2> QED BY <1>2, <2>1
<1>5. \A j \in DOMAIN l : \E k \in DOMAIN q : l[j] = q[k]
  BY <1>1, <1>2, <1>3
<1>6. ASSUME NEW e, NEW v, DanmEpTold(q, e, v) PROVE DanmEpTold(l, e, v)
  <2> SUFFICES ASSUME NEW j \in 1 .. n, l[j].obj = e, l[j].new # v
               PROVE  \E k \in 1 .. n : j < k /\ l[k].obj = e /\ l[k].old = l[j].new
    BY <1>2 DEF DanmEpTold
  <2>1. PICK k \in 1 .. n + 1 : j + 1 < k /\ q[k].obj = e /\ q[k].old = q[j + 1].new
    BY <1>1, <1>2, <1>3, <1>6 DEF DanmEpTold
  <2> QED BY <1>2, <1>4, <2>1
<1>7. ASSUME NEW s, NEW v, SvcTold(q, s, v) PROVE SvcTold(l, s, v)
  <2> SUFFICES ASSUME NEW j \in 1 .. n, l[j].obj = s, Due(l[j]), l[j].new # v
               PROVE  \E k \in 1 .. n : j < k /\ l[k].obj = s /\ Due(l[k])
    BY <1>2 DEF SvcTold
  <2>1. PICK k \in 1 .. n + 1 : j + 1 < k /\ q[k].obj = s /\ Due(q[k])
    BY <1>1, <1>2, <1>3, <1>7 DEF SvcTold
  <2> QED BY <1>4, <2>1
<1>8. ASSUME NEW p, NEW r, PodTold(q, p, r) PROVE PodTold(l, p, r)
  <2> SUFFICES ASSUME NEW j \in 1 .. n, l[j].obj = p, Turns(l[j]), ~(\A m \in l[j].new : m.ready = r)
               PROVE  \E k \in 1 .. n : j < k /\ l[k].obj = p /\ Turns(l[k])
    BY <1>2 DEF PodTold
  <2>1. PICK k \in 1 .. n + 1 : j + 1 < k /\ q[k].obj = p /\ Turns(q[k])
    BY <1>1, <1>2, <1>3, <1>8 DEF PodTold
  <2> QED BY <1>4, <2>1
<1> QED BY <1>2, <1>5, <1>6, <1>7, <1>8

\* A change is announced.
LEMMA Appended ==
    ASSUME NEW S, NEW q \in Seq(S), NEW ev \in S
    PROVE  /\ Append(q, ev) \in Seq(S) /\ Len(q) \in Nat
           /\ DOMAIN q = 1 .. Len(q) /\ DOMAIN Append(q, ev) = 1 .. Len(q) + 1
           /\ Append(q, ev)[Len(q) + 1] = ev
           /\ \A j \in 1 .. Len(q) : j \in 1 .. Len(q) + 1 /\ j < Len(q) + 1 /\ Append(q, ev)[j] = q[j]
           /\ \A j \in 1 .. Len(q) + 1 : j \in 1 .. Len(q) \/ j = Len(q) + 1
OBVIOUS

LEMMA ToldAppend ==
    ASSUME NEW S, NEW q \in Seq(S), NEW ev \in S
    PROVE  /\ \A e, v : DanmEpTold(q, e, v) /\ ev.obj # e => DanmEpTold(Append(q, ev), e, v)
           /\ \A e : DanmEpTold(q, e, ev.old) /\ ev.obj = e => DanmEpTold(Append(q, ev), e, ev.new)
           /\ \A s, v : SvcTold(q, s, v) /\ (ev.obj # s \/ ~Due(ev)) => SvcTold(Append(q, ev), s, v)
           /\ \A s : ev.obj = s /\ Due(ev) => SvcTold(Append(q, ev), s, ev.new)
           /\ \A p, r : PodTold(q, p, r) /\ (ev.obj # p \/ ~Turns(ev)) => PodTold(Append(q, ev), p, r)
           /\ \A p, r : /\ ev.obj = p /\ Turns(ev) /\ \A n \in ev.new : n.ready = r
                        => PodTold(Append(q, ev), p, r)
<1>1. PICK n \in Nat, l \in Seq(S) :
         /\ n = Len(q) /\ l = Append(q, ev) /\ DOMAIN q = 1 .. n /\ DOMAIN l = 1 .. n + 1
         /\ l[n + 1] = ev
         /\ \A j \in 1 .. n : j \in 1 .. n + 1 /\ j < n + 1 /\ l[j] = q[j]
         /\ \A j \in 1 .. n + 1 : j \in 1 .. n \/ j = n + 1
  BY Appended
<1>2. n + 1 \in 1 .. n + 1
  OBVIOUS
<1>3. ASSUME NEW e, NEW v, DanmEpTold(q, e, v), ev.obj # e PROVE DanmEpTold(l, e, v)
  BY <1>1, <1>3 DEF DanmEpTold
<1>4. ASSUME NEW e, DanmEpTold(q, e, ev.old), ev.obj = e PROVE DanmEpTold(l, e, ev.new)
  <2> SUFFICES ASSUME NEW j \in 1 .. n + 1, l[j].obj = e, l[j].new # ev.new
               PROVE  \E k \in 1 .. n + 1 : j < k /\ l[k].obj = e /\ l[k].old = l[j].new
    BY <1>1 DEF DanmEpTold
  <2>1. j \in 1 .. n /\ l[j] = q[j] /\ j < n + 1
    BY <1>1
  <2>2. CASE q[j].new = ev.old
    BY <1>1, <1>2, <1>4, <2>1, <2>2
  <2>3. CASE q[j].new # ev.old
    <3>1. PICK k \in 1 .. n : j < k /\ q[k].obj = e /\ q[k].old = q[j].new
      BY <1>1, <1>4, <2>1, <2>3 DEF DanmEpTold
    <3> QED BY <1>1, <2>1, <3>1
  <2> QED BY <2>2, <2>3
<1>5. ASSUME NEW s, NEW v, SvcTold(q, s, v), ev.obj # s \/ ~Due(ev) PROVE SvcTold(l, s, v)
  <2> SUFFICES ASSUME NEW j \in 1 .. n + 1, l[j].obj = s, Due(l[j]), l[j].new # v
               PROVE  \E k \in 1 .. n + 1 : j < k /\ l[k].obj = s /\ Due(l[k])
    BY <1>1 DEF SvcTold
  <2>1. j \in 1 .. n /\ l[j] = q[j]
    BY <1>1, <1>5
  <2>2. PICK k \in 1 .. n : j < k /\ q[k].obj = s /\ Due(q[k])
    BY <1>1, <1>5, <2>1 DEF SvcTold
  <2> QED BY <1>1, <2>2
<1>6. ASSUME NEW s, ev.obj = s, Due(ev) PROVE SvcTold(l, s, ev.new)
  BY <1>1, <1>2, <1>6 DEF SvcTold
<1>7. ASSUME NEW p, NEW r, PodTold(q, p, r), ev.obj # p \/ ~Turns(ev) PROVE PodTold(l, p, r)
  <2> SUFFICES ASSUME NEW j \in 1 .. n + 1, l[j].obj = p, Turns(l[j]), ~(\A m \in l[j].new : m.ready = r)
               PROVE  \E k \in 1 .. n + 1 : j < k /\ l[k].obj = p /\ Turns(l[k])
    BY <1>1 DEF PodTold
  <2>1. j \in 1 .. n /\ l[j] = q[j]
    BY <1>1, <1>7
  <2>2. PICK k \in 1 .. n : j < k /\ q[k].obj = p /\ Turns(q[k])
    BY <1>1, <1>7, <2>1 DEF PodTold
  <2> QED BY <1>1, <2>2
<1>8. ASSUME NEW p, NEW r, ev.obj = p, Turns(ev), \A n_ \in ev.new : n_.ready = r PROVE PodTold(l, p, r)
  BY <1>1, <1>2, <1>8 DEF PodTold
<1> QED BY <1>1, <1>3, <1>4, <1>5, <1>6, <1>7, <1>8

\* No goroutine has more to do, and no object has changed.
LEMMA EventsKept ==
    ASSUME TypeOK, EventsTyped, Told, UNCHANGED objects,
           \A h \in Handlers : \/ Events(h)' = Events(h)
                               \/ Events(h) # <<>> /\ Events(h)' = Tail(Events(h))
    PROVE  EventsTyped' /\ Told'
<1>1. \A h \in Handlers : Events(h) \in Seq(Event(h) \cup {NoEvent})
  BY EventsFacts
<1>2. ASSUME NEW h \in Handlers
      PROVE  /\ \A j \in DOMAIN Events(h)' : \E k \in DOMAIN Events(h) : Events(h)'[j] = Events(h)[k]
             /\ \A e, v : DanmEpTold(Events(h), e, v) => DanmEpTold(Events(h)', e, v)
             /\ \A s, v : SvcTold(Events(h), s, v) => SvcTold(Events(h)', s, v)
             /\ \A p, r : PodTold(Events(h), p, r) => PodTold(Events(h)', p, r)
  <2>1. CASE Events(h)' = Events(h)
    BY <2>1
  <2>2. CASE Events(h) # <<>> /\ Events(h)' = Tail(Events(h))
    <3>0. PICK S : S = Event(h) \cup {NoEvent}
      OBVIOUS
    <3>1. PICK q \in Seq(S) : q = Events(h) /\ q # <<>> /\ Events(h)' = Tail(q)
      BY <1>1, <2>2, <3>0
    <3>2. /\ \A j \in DOMAIN Tail(q) : \E k \in DOMAIN q : Tail(q)[j] = q[k]
          /\ \A e, v : DanmEpTold(q, e, v) => DanmEpTold(Tail(q), e, v)
          /\ \A s, v : SvcTold(q, s, v) => SvcTold(Tail(q), s, v)
          /\ \A p, r : PodTold(q, p, r) => PodTold(Tail(q), p, r)
      BY <3>1, ToldTail
    <3> QED BY <3>1, <3>2
  <2> QED BY <2>1, <2>2
<1>3. EventsTyped'
  BY <1>2 DEF EventsTyped
<1>4. Told'
  <2>1. "pod" \in Handlers /\ "svc" \in Handlers /\ "danmep" \in Handlers
    BY DEF Handlers
  <2>2. pods' = pods /\ svcs' = svcs /\ danmEps' = danmEps
    BY DEF objects
  <2>3. ASSUME NEW e \in DOMAIN DanmEps PROVE DanmEpTold(Events("danmep"), e, DanmEpState(e))'
    BY <1>2, <2>1, <2>2 DEF Told, DanmEpState
  <2>4. ASSUME NEW s \in DOMAIN svcs' PROVE SvcTold(Events("svc"), s, {svcs[s]})'
    BY <1>2, <2>1, <2>2, <2>4 DEF Told
  <2>5. ASSUME NEW p \in DOMAIN pods', ~pods'[p].deleting PROVE PodTold(Events("pod"), p, pods[p].ready)'
    BY <1>2, <2>1, <2>2, <2>5 DEF Told
  <2> QED BY <2>3, <2>4, <2>5 DEF Told
<1> QED BY <1>3, <1>4

\* A goroutine goes on with its change, or is done with it.
LEMMA TaskStep ==
    ASSUME TypeOK, EventsTyped, Told, NEW h \in Handlers, NEW u \in Task(h), ~At(h, "idle"),
           Become(h, u), u.pc = "idle" \/ u.ev = task[h].ev, UNCHANGED <<objects, queue>>
    PROVE  /\ EventsTyped' /\ Told'
           /\ DOMAIN task' = Handlers /\ task'[h] = u
           /\ \A g \in Handlers : task'[g] \in Task(g) /\ (g # h => task'[g] = task[g])
           /\ \A g \in Handlers : g # h => Events(g)' = Events(g)
<1>1. DOMAIN task = Handlers /\ \A g \in Handlers : task[g] \in Task(g) /\ queue[g] \in Seq(Event(g))
  BY DEF TypeOK
<1>2. /\ DOMAIN task' = Handlers /\ task'[h] = u
      /\ \A g \in Handlers : task'[g] \in Task(g) /\ (g # h => task'[g] = task[g])
  BY <1>1 DEF Become
<1>3. \A g \in Handlers : g # h => Events(g)' = Events(g)
  BY <1>2 DEF Events
<1>4. Events(h)' = Events(h) \/ (Events(h) # <<>> /\ Events(h)' = Tail(Events(h)))
  <2>1. PICK t \in Task(h), q \in Seq(Event(h)) : t = task[h] /\ q = queue[h] /\ t.pc # "idle"
    BY <1>1 DEF At
  <2>2. Events(h) = Pending(t, q) /\ Events(h)' = Pending(u, q)
    BY <1>2, <2>1 DEF Events
  <2>3. CASE u.pc = "idle"
    <3>1. Pending(t, q) # <<>> /\ Pending(u, q) = Tail(Pending(t, q))
      BY <2>1, <2>3, PendingSteps
    <3> QED BY <2>2, <3>1
  <2>4. CASE u.pc # "idle"
    <3>1. Pending(u, q) = Pending(t, q)
      BY <2>1, <2>4 DEF Pending
    <3> QED BY <2>2, <3>1
  <2> QED BY <2>3, <2>4
<1>5. EventsTyped' /\ Told'
  BY <1>3, <1>4, EventsKept
<1> QED BY <1>2, <1>3, <1>5

\* A goroutine takes its next change, and may be done with it at once.
LEMMA TakeStep ==
    ASSUME TypeOK, EventsTyped, Told, NEW h \in Handlers, NEW u \in Task(h), At(h, "idle"), queue[h] # <<>>,
           Become(h, u), u.pc = "idle" \/ u.ev = Head(queue[h]),
           queue' = [queue EXCEPT ![h] = Tail(@)], UNCHANGED objects
    PROVE  /\ EventsTyped' /\ Told'
           /\ DOMAIN task' = Handlers /\ task'[h] = u
           /\ \A g \in Handlers : task'[g] \in Task(g) /\ (g # h => task'[g] = task[g])
           /\ DOMAIN queue' = Handlers /\ queue'[h] = Tail(queue[h])
           /\ \A g \in Handlers : queue'[g] \in Seq(Event(g)) /\ (g # h => queue'[g] = queue[g])
           /\ \A g \in Handlers : g # h => Events(g)' = Events(g)
           /\ u.pc # "idle" => Events(h)' = Events(h)
           /\ u.pc = "idle" => Events(h)' = Tail(Events(h))
<1>1. /\ DOMAIN task = Handlers /\ \A g \in Handlers : task[g] \in Task(g)
      /\ DOMAIN queue = Handlers /\ \A g \in Handlers : queue[g] \in Seq(Event(g))
  BY DEF TypeOK
<1>2. /\ DOMAIN task' = Handlers /\ task'[h] = u
      /\ \A g \in Handlers : task'[g] \in Task(g) /\ (g # h => task'[g] = task[g])
  BY <1>1 DEF Become
<1>3. /\ DOMAIN queue' = Handlers /\ queue'[h] = Tail(queue[h])
      /\ \A g \in Handlers : g # h => queue'[g] = queue[g]
  BY <1>1
<1>4. Tail(queue[h]) \in Seq(Event(h))
  <2>1. queue[h] \in Seq(Event(h))
    BY <1>1
  <2> QED BY <2>1
<1>5. \A g \in Handlers : g # h => Events(g)' = Events(g)
  BY <1>2, <1>3 DEF Events
<1>6. /\ u.pc # "idle" => Events(h)' = Events(h)
      /\ u.pc = "idle" => Events(h) # <<>> /\ Events(h)' = Tail(Events(h))
  <2>1. PICK t \in Task(h), q \in Seq(Event(h)) : t = task[h] /\ q = queue[h] /\ t.pc = "idle" /\ q # <<>>
    BY <1>1 DEF At
  <2>2. Events(h) = Pending(t, q) /\ Events(h)' = Pending(u, Tail(q))
    BY <1>2, <1>3, <2>1 DEF Events
  <2>3. CASE u.pc = "idle"
    <3>1. Pending(t, q) # <<>> /\ Pending(u, Tail(q)) = Tail(Pending(t, q))
      BY <2>1, <2>3, PendingSteps
    <3> QED BY <2>2, <2>3, <3>1
  <2>4. CASE u.pc # "idle"
    <3>1. u.ev = Head(q)
      BY <2>1, <2>4
    <3>2. Pending(u, Tail(q)) = Pending(t, q)
      BY <2>1, <2>4, <3>1, PendingSteps
    <3> QED BY <2>2, <2>4, <3>2
  <2> QED BY <2>3, <2>4
<1>7. EventsTyped' /\ Told'
  BY <1>5, <1>6, EventsKept
<1> QED BY <1>2, <1>3, <1>4, <1>1, <1>5, <1>6, <1>7

\* What a change that is being handled tells of the present.
LEMMA ToldDanmEp ==
    ASSUME TypeOK, EventsTyped, Told, ~At("danmep", "idle"), NEW e, e = task["danmep"].ev.obj
    PROVE  /\ e \in DOMAIN DanmEps
           /\ \/ task["danmep"].ev.new = DanmEpState(e)
              \/ \E k \in DOMAIN queue["danmep"] :
                    queue["danmep"][k].obj = e /\ queue["danmep"][k].old = task["danmep"].ev.new
<1>1. "danmep" \in Handlers
  BY DEF Handlers
<1>2. EventOf("danmep", task["danmep"].ev) /\ task["danmep"] \in Task("danmep")
  BY <1>1, TaskEvent
<1>3. e \in DOMAIN DanmEps
  <2>1. e \in Objects["danmep"]
    BY <1>1, <1>2, EventValues
  <2> QED BY <2>1 DEF Objects
<1>4. /\ DOMAIN Events("danmep") = 1 .. Len(queue["danmep"]) + 1
      /\ Events("danmep")[1] = task["danmep"].ev
      /\ \A j \in 1 .. Len(queue["danmep"]) : Events("danmep")[j + 1] = queue["danmep"][j]
      /\ DOMAIN queue["danmep"] = 1 .. Len(queue["danmep"]) /\ Len(queue["danmep"]) \in Nat
  BY <1>1, EventsFacts
<1>5. DanmEpTold(Events("danmep"), e, DanmEpState(e))
  BY <1>3 DEF Told
<1>6. 1 \in DOMAIN Events("danmep")
  BY <1>4
<1>7. CASE task["danmep"].ev.new # DanmEpState(e)
  <2>1. PICK k \in DOMAIN Events("danmep") :
           1 < k /\ Events("danmep")[k].obj = e /\ Events("danmep")[k].old = task["danmep"].ev.new
    BY <1>4, <1>5, <1>6, <1>7 DEF DanmEpTold
  <2>2. k - 1 \in 1 .. Len(queue["danmep"]) /\ (k - 1) + 1 = k
    BY <1>4, <2>1
  <2> QED BY <1>3, <1>4, <2>1, <2>2
<1> QED BY <1>3, <1>7

LEMMA ToldSvc ==
    ASSUME TypeOK, EventsTyped, Told, ~At("svc", "idle"), NEW s, s = task["svc"].ev.obj,
           s \in DOMAIN svcs, Due(task["svc"].ev)
    PROVE  \/ task["svc"].ev.new = {svcs[s]}
           \/ \E k \in DOMAIN queue["svc"] : queue["svc"][k].obj = s /\ Due(queue["svc"][k])
<1>1. "svc" \in Handlers
  BY DEF Handlers
<1>4. /\ DOMAIN Events("svc") = 1 .. Len(queue["svc"]) + 1
      /\ Events("svc")[1] = task["svc"].ev
      /\ \A j \in 1 .. Len(queue["svc"]) : Events("svc")[j + 1] = queue["svc"][j]
      /\ DOMAIN queue["svc"] = 1 .. Len(queue["svc"]) /\ Len(queue["svc"]) \in Nat
  BY <1>1, EventsFacts
<1>5. SvcTold(Events("svc"), s, {svcs[s]})
  BY DEF Told
<1>6. 1 \in DOMAIN Events("svc")
  BY <1>4
<1>7. CASE task["svc"].ev.new # {svcs[s]}
  <2>1. PICK k \in DOMAIN Events("svc") : 1 < k /\ Events("svc")[k].obj = s /\ Due(Events("svc")[k])
    BY <1>4, <1>5, <1>6, <1>7 DEF SvcTold
  <2>2. k - 1 \in 1 .. Len(queue["svc"]) /\ (k - 1) + 1 = k
    BY <1>4, <2>1
  <2> QED BY <1>4, <2>1, <2>2
<1> QED BY <1>7

LEMMA ToldPod ==
    ASSUME TypeOK, EventsTyped, Told, ~At("pod", "idle"), NEW p, p = task["pod"].ev.obj,
           p \in DOMAIN pods, ~pods[p].deleting, Turns(task["pod"].ev)
    PROVE  (\A n \in task["pod"].ev.new : n.ready = pods[p].ready) \/ Announced(p)
<1>1. "pod" \in Handlers
  BY DEF Handlers
<1>4. /\ DOMAIN Events("pod") = 1 .. Len(queue["pod"]) + 1
      /\ Events("pod")[1] = task["pod"].ev
      /\ \A j \in 1 .. Len(queue["pod"]) : Events("pod")[j + 1] = queue["pod"][j]
      /\ DOMAIN queue["pod"] = 1 .. Len(queue["pod"]) /\ Len(queue["pod"]) \in Nat
  BY <1>1, EventsFacts
<1>5. PodTold(Events("pod"), p, pods[p].ready)
  BY DEF Told
<1>6. 1 \in DOMAIN Events("pod")
  BY <1>4
<1>7. CASE ~(\A n \in task["pod"].ev.new : n.ready = pods[p].ready)
  <2>1. PICK k \in DOMAIN Events("pod") : 1 < k /\ Events("pod")[k].obj = p /\ Turns(Events("pod")[k])
    BY <1>4, <1>5, <1>6, <1>7 DEF PodTold
  <2>2. k - 1 \in 1 .. Len(queue["pod"]) /\ (k - 1) + 1 = k
    BY <1>4, <2>1
  <2>3. queue["pod"][k - 1].obj = p /\ Turns(queue["pod"][k - 1])
    BY <1>4, <2>1, <2>2
  <2> QED BY <1>4, <2>2, <2>3 DEF Announced, Turns
<1> QED BY <1>7

-----------------------------------------------------------------------------
(* Writes                                                                    *)

LEMMA StoredFacts ==
    ASSUME NEW x \in EndpointsType, NEW w \in WriteType, NEW y, y = Stored(x, w)
    PROVE  /\ y \in EndpointsType /\ y.exists = w.eps.exists /\ y.anno = w.eps.anno
           /\ y.ready = w.eps.ready /\ y.notReady = w.eps.notReady
           /\ y.rv = x.rv \/ y.rv = x.rv + 1
           /\ y.rv = x.rv => y = x
<1>1. PICK z \in EndpointsType : z = w.eps
  BY DEF WriteType
<1>2. CASE [z EXCEPT !.rv = x.rv] = x
  <2>1. y = x
    BY <1>1, <1>2 DEF Stored
  <2>2. x.exists = z.exists /\ x.anno = z.anno /\ x.ready = z.ready /\ x.notReady = z.notReady
    BY <1>2 DEF EndpointsType
  <2> QED BY <1>1, <2>1, <2>2
<1>3. CASE [z EXCEPT !.rv = x.rv] # x
  <2>1. y = [z EXCEPT !.rv = x.rv + 1]
    BY <1>1, <1>3 DEF Stored
  <2>2. x.rv \in Nat /\ x.rv + 1 \in Nat
    BY EndpointsFacts
  <2>3. y \in EndpointsType
    BY <2>1, <2>2 DEF EndpointsType
  <2>4. y.exists = z.exists /\ y.anno = z.anno /\ y.ready = z.ready /\ y.notReady = z.notReady
        /\ y.rv = x.rv + 1
    BY <2>1 DEF EndpointsType
  <2> QED BY <1>1, <2>2, <2>3, <2>4
<1> QED BY <1>2, <1>3

\* A write stays what it is when the Endpoints stay, or get another version.
LEMMA DerivedKept ==
    ASSUME NEW t, NEW u, u.op = t.op, u.ev = t.ev, u.anno = t.anno, u.pod = t.pod,
           NEW w \in WriteType, Derived(t, w), missed => missed',
           endpoints[w.svc] \in EndpointsType,
           \/ endpoints'[w.svc] = endpoints[w.svc]
           \/ endpoints'[w.svc].rv \in Nat /\ endpoints'[w.svc].rv > endpoints[w.svc].rv
    PROVE  Derived(u, w)'
<1>1. w.basis \in Nat /\ endpoints[w.svc].rv \in Nat
  BY DEF WriteType, EndpointsType
<1>2. New(u) = New(t) /\ Old(u) = Old(t)
  BY DEF New, Old
<1>3. CASE endpoints'[w.svc] = endpoints[w.svc]
  BY <1>2, <1>3 DEF Derived
<1>4. CASE endpoints'[w.svc].rv \in Nat /\ endpoints'[w.svc].rv > endpoints[w.svc].rv
  <2>1. w.basis <= endpoints[w.svc].rv
    BY DEF Derived
  <2>2. w.basis # endpoints'[w.svc].rv /\ w.basis <= endpoints'[w.svc].rv
    BY <1>1, <1>4, <2>1
  <2> QED BY <2>2 DEF Derived
<1> QED BY <1>3, <1>4

LEMMA BuiltKept ==
    ASSUME NEW w, NEW a, NEW D, Built(w, a, D), DOMAIN pods' \subseteq DOMAIN pods
    PROVE  Built(w, a, D)'
BY DEF Built, HasAddress

\* What a goroutine may be doing.
TaskOf(g, t) ==
    /\ g = "svc" => SvcTask(t)
    /\ g = "danmep" => DanmEpTask(t)
    /\ g = "pod" => PodTask(t)
    /\ t.pc = "put" <=> t.writes # <<>>
TaskFits(g) == TaskOf(g, task[g])

LEMMA TasksSplit == Tasks <=> \A g \in Handlers : TaskFits(g)
BY DEF Tasks, TaskFits, TaskOf, Handlers

LEMMA TaskKept ==
    ASSUME TypeOK, NEW g \in Handlers, TaskFits(g), task'[g] = task[g], missed => missed',
           DOMAIN pods' \subseteq DOMAIN pods,
           \A s \in Services : \/ endpoints'[s] = endpoints[s]
                               \/ endpoints'[s].rv \in Nat /\ endpoints'[s].rv > endpoints[s].rv
    PROVE  TaskFits(g)'
<1>1. PICK t : t = task[g]
  OBVIOUS
<1>2. t \in Task(g) /\ task'[g] = t
  BY <1>1 DEF TypeOK
<1>3. \A i \in DOMAIN t.writes : t.writes[i] \in WriteType /\ t.writes[i].svc \in Services
  <2>1. t.writes \in Seq(WriteType)
    BY <1>2 DEF Task
  <2>2. \A i \in DOMAIN t.writes : t.writes[i] \in WriteType
    BY <2>1
  <2> QED BY <2>2 DEF WriteType
<1>4. \A s \in Services : endpoints[s] \in EndpointsType
  BY DEF TypeOK
<1>5. \A i \in DOMAIN t.writes : Derived(t, t.writes[i]) => Derived(t, t.writes[i])'
  <2> SUFFICES ASSUME NEW i \in DOMAIN t.writes, Derived(t, t.writes[i]) PROVE Derived(t, t.writes[i])'
    OBVIOUS
  <2>1. PICK w \in WriteType : w = t.writes[i] /\ w.svc \in Services
    BY <1>3
  <2>2. Derived(t, w)
    BY <2>1
  <2>3. /\ endpoints[w.svc] \in EndpointsType
        /\ \/ endpoints'[w.svc] = endpoints[w.svc]
           \/ endpoints'[w.svc].rv \in Nat /\ endpoints'[w.svc].rv > endpoints[w.svc].rv
    BY <1>4, <2>1
  <2>4. Derived(t, w)'
    BY <2>2, <2>3, DerivedKept
  <2> QED BY <2>1, <2>4
<1>6. \A w, a, D : Built(w, a, D) => Built(w, a, D)'
  BY BuiltKept
<1>7. CASE g = "svc"
  <2>1. SvcTask(t)
    BY <1>1, <1>7 DEF TaskFits, TaskOf
  <2>2. SvcTask(t)'
    BY <1>6, <2>1 DEF SvcTask
  <2> QED BY <1>1, <1>2, <1>7, <2>2 DEF TaskFits, TaskOf
<1>8. CASE g = "danmep"
  <2>1. DanmEpTask(t)
    BY <1>1, <1>8 DEF TaskFits, TaskOf
  <2>2. DanmEpTask(t)'
    <3>1. CASE t.pc # "put"
      BY <2>1, <3>1 DEF DanmEpTask, Chosen, Adding
    <3>2. CASE t.pc = "put" /\ t.op = "del" /\ \A i \in DOMAIN t.writes : Derived(t, t.writes[i])
      <4>1. \A i \in DOMAIN t.writes : Derived(t, t.writes[i])'
        BY <1>5, <3>2
      <4> QED BY <2>1, <3>2, <4>1 DEF DanmEpTask, Chosen, Adding
    <3>3. CASE /\ t.pc = "put" /\ t.op = "add" /\ Len(t.writes) = 1
               /\ LET w == t.writes[1] IN
                  /\ w.svc = t.cur
                  /\ \/ Derived(t, w)
                     \/ /\ w.kind \in {"update", "invalid"} /\ Built(w, t.anno, {t.ev.obj})
                        /\ w.basis <= endpoints[w.svc].rv
                        /\ w.basis = endpoints[w.svc].rv => ~HasSubsets(endpoints[w.svc])
      <4>1. 1 \in DOMAIN t.writes
        <5>1. t.writes \in Seq(WriteType)
          BY <1>2 DEF Task
        <5> QED BY <3>3, <5>1
      <4>2. Derived(t, t.writes[1]) => Derived(t, t.writes[1])'
        BY <1>5, <4>1
      <4>3. Built(t.writes[1], t.anno, {t.ev.obj}) => Built(t.writes[1], t.anno, {t.ev.obj})'
        BY <1>6
      <4>4. ASSUME ~Derived(t, t.writes[1])
            PROVE  /\ t.writes[1].basis <= endpoints'[t.writes[1].svc].rv
                   /\ t.writes[1].basis = endpoints'[t.writes[1].svc].rv => ~HasSubsets(endpoints'[t.writes[1].svc])
        <5>1. PICK w \in WriteType : w = t.writes[1] /\ w.svc \in Services
          BY <1>3, <4>1
        <5>2. /\ w.basis <= endpoints[w.svc].rv
              /\ w.basis = endpoints[w.svc].rv => ~HasSubsets(endpoints[w.svc])
          BY <3>3, <4>4, <5>1
        <5>3. w.basis \in Nat /\ endpoints[w.svc].rv \in Nat
          BY <1>4, <5>1 DEF WriteType, EndpointsType
        <5>4. CASE endpoints'[w.svc] = endpoints[w.svc]
          BY <5>1, <5>2, <5>4
        <5>5. CASE endpoints'[w.svc].rv \in Nat /\ endpoints'[w.svc].rv > endpoints[w.svc].rv
          <6>1. w.basis <= endpoints'[w.svc].rv /\ w.basis # endpoints'[w.svc].rv
            BY <5>2, <5>3, <5>5
          <6> QED BY <5>1, <6>1
        <5> QED BY <5>1, <5>4, <5>5
      <4> QED BY <2>1, <3>3, <4>2, <4>3, <4>4 DEF DanmEpTask, Chosen, Adding
    <3> QED BY <2>1, <3>1, <3>2, <3>3 DEF DanmEpTask
  <2> QED BY <1>1, <1>2, <1>8, <2>2 DEF TaskFits, TaskOf
<1>9. CASE g = "pod"
  <2>1. PodTask(t)
    BY <1>1, <1>9 DEF TaskFits, TaskOf
  <2>2. PodTask(t)'
    BY <1>5, <2>1 DEF PodTask
  <2> QED BY <1>1, <1>2, <1>9, <2>2 DEF TaskFits, TaskOf
<1> QED BY <1>7, <1>8, <1>9 DEF Handlers

\* All of the invariant but what the Endpoints list.
SInv ==
    /\ TypeOK /\ EventsTyped /\ Told /\ Tasks
    /\ Copies /\ Uniques /\ PodsStay /\ PanicsAfterMiss

LEMMA Unwritten ==
    ASSUME NEW g \in Handlers, NEW t, t.pc # "put"
    PROVE  TaskOf(g, t) <=> TaskOf(g, t)'
BY DEF TaskOf, SvcTask, DanmEpTask, PodTask, Adding, Chosen

LEMMA IdleTask ==
    ASSUME NEW g \in Handlers
    PROVE  TaskOf(g, Idle) /\ TaskOf(g, Idle)'
<1>1. TaskOf(g, Idle)
  <2>1. PICK t : t = Idle /\ t.pc = "idle" /\ t.writes = <<>>
    BY IdleFacts
  <2>2. TaskOf(g, t)
    BY <2>1 DEF TaskOf, SvcTask, DanmEpTask, PodTask, Adding, Chosen
  <2> QED BY <2>1, <2>2
<1>2. Idle.pc # "put"
  BY IdleFacts
<1> QED BY <1>1, <1>2, Unwritten

\* A goroutine that is at the end of a loop.
AtEnd(h, t) ==
    /\ h = "svc" => t.op = "svc"
    /\ h = "danmep" =>
          \/ t.op = "del"
          \/ t.op = "add" /\ t.ev.new # {} /\ \A n \in t.todo : Selects(n.anno, t.ev.obj, New(t))
    /\ h = "pod" => t.op \in {"touch", "status"} /\ ~New(t).deleting

LEMMA AfterTask ==
    ASSUME NEW h \in Handlers, NEW t \in Task(h), AtEnd(h, t)
    PROVE  TaskOf(h, After(t))
<1>1. CASE After(t) = Idle
  BY <1>1, IdleTask
<1>2. ASSUME NEW l \in {"match", "next", "label"}, After(t) = Goes(t, l),
             \/ t.op = "del" /\ t.ev.new # {} /\ l = "match"
             \/ t.op = "add" /\ l = "next"
             \/ t.op = "status" /\ l = "label"
      PROVE  TaskOf(h, After(t))
  <2>1. l \in Pcs
    BY DEF Pcs
  <2>2. PICK u : u = Goes(t, l)
    OBVIOUS
  <2>3. u.pc = l /\ u.writes = <<>> /\ u.op = t.op /\ u.ev = t.ev /\ u.todo = t.todo
    BY <2>1, <2>2, GoesFacts
  <2>4. New(u) = New(t)
    BY <2>3 DEF New
  <2>5. TaskOf(h, u)
    BY <1>2, <2>3, <2>4 DEF TaskOf, SvcTask, DanmEpTask, PodTask, Adding, Chosen, AtEnd, Handlers
  <2> QED BY <1>2, <2>2, <2>5
<1>3. \/ After(t) = Idle
      \/ t.op = "del" /\ t.ev.new # {} /\ After(t) = Goes(t, "match")
      \/ t.op = "add" /\ After(t) = Goes(t, "next")
      \/ t.op = "status" /\ After(t) = Goes(t, "label")
  BY AfterFacts
<1> QED BY <1>1, <1>2, <1>3

LEMMA PutEnds ==
    ASSUME NEW h \in Handlers, NEW t \in Task(h), TaskOf(h, t), t.pc = "put"
    PROVE  AtEnd(h, t)
BY DEF TaskOf, SvcTask, DanmEpTask, PodTask, Adding, Chosen, AtEnd

\* The types of a state with other tasks.
LEMMA TypeKept ==
    ASSUME TypeOK, UNCHANGED <<objects, cached, changes>>,
           DOMAIN task' = Handlers, \A g \in Handlers : task'[g] \in Task(g),
           DOMAIN queue' = Handlers, \A g \in Handlers : queue'[g] \in Seq(Event(g)),
           endpoints' \in [Services -> EndpointsType], panicked' \in BOOLEAN, missed' \in BOOLEAN,
           \A s \in Services : endpoints'[s].rv >= endpoints[s].rv
    PROVE  TypeOK'
<1>1. pods' = pods /\ svcs' = svcs /\ danmEps' = danmEps /\ cached' = cached /\ changes' = changes
  BY DEF objects
<1>2. \A s \in Services : cached'[s].rv <= endpoints'[s].rv
  <2> TAKE s \in Services
  <2>1. cached[s].rv \in Nat /\ endpoints[s].rv \in Nat /\ endpoints'[s].rv \in Nat
    BY DEF TypeOK, EndpointsType
  <2>2. cached[s].rv <= endpoints[s].rv /\ endpoints'[s].rv >= endpoints[s].rv
    BY DEF TypeOK
  <2> QED BY <1>1, <2>1, <2>2
<1> QED BY <1>1, <1>2 DEF TypeOK

\* A goroutine goes on, and nothing else happens.
LEMMA GoesOn ==
    ASSUME SInv, NEW h \in Handlers, NEW u \in Task(h), ~At(h, "idle"), Become(h, u),
           u.pc = "idle" \/ u.ev = task[h].ev, TaskOf(h, u)',
           UNCHANGED <<objects, endpoints, cached, queue, changes>>,
           missed' \in BOOLEAN, missed => missed', panicked' \in BOOLEAN, panicked' => missed'
    PROVE  SInv'
<1>1. TypeOK /\ EventsTyped /\ Told /\ Tasks
  BY DEF SInv
<1>2. /\ EventsTyped' /\ Told'
      /\ DOMAIN task' = Handlers /\ task'[h] = u
      /\ \A g \in Handlers : task'[g] \in Task(g) /\ (g # h => task'[g] = task[g])
  BY <1>1, TaskStep
<1>3. TypeOK'
  <2>1. \A s \in Services : endpoints[s].rv >= endpoints[s].rv
    <3> TAKE s \in Services
    <3>1. endpoints[s].rv \in Nat
      BY <1>1 DEF TypeOK, EndpointsType
    <3> QED BY <3>1
  <2>2. \A g \in Handlers : queue[g] \in Seq(Event(g))
    BY <1>1 DEF TypeOK
  <2>3. DOMAIN queue = Handlers /\ endpoints \in [Services -> EndpointsType]
    BY <1>1 DEF TypeOK
  <2>4. endpoints' = endpoints /\ queue' = queue
    OBVIOUS
  <2> QED BY <1>1, <1>2, <2>1, <2>2, <2>3, <2>4, TypeKept
<1>4. Tasks'
  <2>1. \A g \in Handlers : TaskFits(g)
    BY <1>1, TasksSplit
  <2>2. ASSUME NEW g \in Handlers, g # h PROVE TaskFits(g)'
    <3>1. pods' = pods /\ task'[g] = task[g] /\ TaskFits(g)
      BY <1>2, <2>1, <2>2 DEF objects
    <3> QED BY <1>1, <3>1, TaskKept
  <2>3. TaskFits(h)'
    BY <1>2 DEF TaskFits
  <2>4. \A g \in Handlers : TaskFits(g)'
    BY <2>2, <2>3
  <2> QED BY <2>4, TasksSplit DEF Tasks, TaskFits, TaskOf, Handlers
<1>5. Copies' /\ Uniques' /\ PodsStay'
  BY DEF SInv, Copies, Uniques, PodsStay, objects
<1> QED BY <1>2, <1>3, <1>4, <1>5 DEF SInv, PanicsAfterMiss

-----------------------------------------------------------------------------
(* The steps of the goroutines, without what the Endpoints list              *)

Started(ev, l) == [[Idle EXCEPT !.ev = ev] EXCEPT !.pc = l]

LEMMA StartedFacts ==
    ASSUME NEW h \in Handlers, NEW ev \in Event(h), NEW l \in Pcs
    PROVE  /\ Started(ev, l) \in Task(h) /\ Started(ev, l).pc = l /\ Started(ev, l).ev = ev
           /\ Started(ev, l).writes = <<>> /\ Started(ev, l).op = "idle" /\ Started(ev, l).todo = {}
<1>1. PICK t \in Task(h) : t = Idle /\ t.writes = <<>> /\ t.op = "idle" /\ t.todo = {}
  BY IdleFacts
<1>2. Started(ev, l) = [[t EXCEPT !.ev = ev] EXCEPT !.pc = l]
  BY <1>1 DEF Started
<1> QED BY <1>1, <1>2 DEF Task

LEMMA TakeEffect ==
    ASSUME TypeOK, EventsTyped, NEW h \in Handlers, Take(h)
    PROVE  \E u \in Task(h) :
              /\ Become(h, u) /\ TaskOf(h, u) /\ u.pc # "put"
              /\ u.pc = "idle" \/ u.ev = Head(queue[h])
              /\ h = "danmep" =>
                    /\ u.pc \in {"del", "match"} /\ u.ev = Head(queue[h])
                    /\ u.ev.old # {} => u.pc = "del"
              /\ h = "pod" => (u.pc = "status" /\ u.ev = Head(queue[h])) \/ ~Turns(Head(queue[h]))
              /\ h = "svc" => \/ u.pc = "svc"
                              \/ ~Due(Head(queue[h]))
                              \/ \E a : Head(queue[h]).new = {a} /\ ~Watched(a)
<1>1. queue[h] \in Seq(Event(h)) /\ queue[h] # <<>>
  BY DEF TypeOK, Take
<1>2. PICK ev \in Event(h) : ev = Head(queue[h]) /\ ev = queue[h][1] /\ 1 \in DOMAIN queue[h]
  BY <1>1
<1>3. EventOf(h, ev)
  BY <1>2, TaskEvent
<1>4. PICK t : t = [Idle EXCEPT !.ev = ev]
  OBVIOUS
<1>5. t \in Task(h) /\ t.ev = ev /\ \A l : Started(ev, l) = [t EXCEPT !.pc = l]
  <2>1. PICK i \in Task(h) : i = Idle
    BY IdleFacts
  <2>2. t = [i EXCEPT !.ev = ev]
    BY <1>4, <2>1
  <2>3. t \in Task(h) /\ t.ev = ev
    BY <2>2 DEF Task
  <2> QED BY <1>4, <2>3 DEF Started
<1>6. PICK o, n : o = Old(t) /\ n = New(t)
  OBVIOUS
<1>7. (ev.new # {} => ev.new = {n} /\ n \in Values[h]) /\ (ev.old # {} => ev.old = {o} /\ o \in Values[h])
  BY <1>3, <1>5, <1>6, EventValues
<1>8. Become(h, IF h = "danmep" THEN Started(ev, IF ev.old # {} THEN "del" ELSE "match")
                ELSE IF h = "pod" THEN
                   IF n.deleting THEN Idle
                   ELSE Started(ev, IF o.ready # n.ready THEN "status"
                                    ELSE IF o.labels # n.labels THEN "label" ELSE "touch")
                ELSE IF (ev.old = {} \/ SvcChanged(o, n)) /\ Watched(n)
                     THEN Started(ev, "svc") ELSE Idle)
  <2>1. Become(h, IF h = "danmep" THEN [t EXCEPT !.pc = IF t.ev.old # {} THEN "del" ELSE "match"]
                  ELSE IF h = "pod" THEN
                     IF New(t).deleting THEN Idle
                     ELSE [t EXCEPT !.pc = IF Old(t).ready # New(t).ready THEN "status"
                                           ELSE IF Old(t).labels # New(t).labels THEN "label"
                                           ELSE "touch"]
                  ELSE IF /\ t.ev.old = {} \/ SvcChanged(Old(t), New(t))
                          /\ Watched(New(t))
                       THEN [t EXCEPT !.pc = "svc"] ELSE Idle)
    <3>1. t = [Idle EXCEPT !.ev = Head(queue[h])]
      BY <1>2, <1>4
    <3> QED BY <3>1 DEF Take
  <2> QED BY <1>5, <1>6, <2>1
<1>9. \A l : New(Started(ev, l)) = n /\ Old(Started(ev, l)) = o
  <2> TAKE l
  <2>1. Started(ev, l).ev = ev
    <3>1. Started(ev, l) = [t EXCEPT !.pc = l]
      BY <1>5
    <3>2. [t EXCEPT !.pc = l].ev = t.ev
      BY <1>5 DEF Task
    <3> QED BY <1>5, <3>1, <3>2
  <2> QED BY <1>5, <1>6, <2>1 DEF New, Old
<1>10. \A l \in Pcs : /\ Started(ev, l) \in Task(h) /\ Started(ev, l).pc = l /\ Started(ev, l).ev = ev
                      /\ Started(ev, l).writes = <<>>
  BY StartedFacts
<1>11. Idle \in Task(h) /\ Idle.pc = "idle" /\ TaskOf(h, Idle)
  BY IdleFacts, IdleTask
<1>12. CASE h = "danmep"
  <2>1. PICK l \in {"del", "match"} : l = IF ev.old # {} THEN "del" ELSE "match"
    OBVIOUS
  <2>2. l \in Pcs
    BY DEF Pcs
  <2>3. PICK u \in Task(h) : u = Started(ev, l) /\ u.pc = l /\ u.ev = ev /\ u.writes = <<>>
    BY <1>10, <2>2
  <2>4. Become(h, u)
    BY <1>8, <1>12, <2>1, <2>3
  <2>5. l = "match" => ev.new # {}
    BY <1>3, <1>12, <2>1 DEF EventOf
  <2>6. TaskOf(h, u)
    BY <1>12, <2>1, <2>3, <2>5 DEF TaskOf, DanmEpTask, Adding, Chosen
  <2> QED BY <1>2, <1>12, <2>1, <2>3, <2>4, <2>6
<1>13. CASE h = "pod"
  <2>1. ev.new = {n} /\ ev.old = {o}
    BY <1>3, <1>7, <1>13 DEF EventOf
  <2>2. CASE n.deleting
    <3>1. Become(h, Idle)
      BY <1>8, <1>13, <2>2
    <3>2. ~Turns(ev)
      BY <2>1, <2>2 DEF Turns
    <3> QED BY <1>2, <1>11, <1>13, <3>1, <3>2
  <2>3. CASE ~n.deleting
    <3>1. PICK l \in {"status", "label", "touch"} :
             l = IF o.ready # n.ready THEN "status" ELSE IF o.labels # n.labels THEN "label" ELSE "touch"
      OBVIOUS
    <3>2. l \in Pcs
      BY DEF Pcs
    <3>3. PICK u \in Task(h) : u = Started(ev, l) /\ u.pc = l /\ u.ev = ev /\ u.writes = <<>>
      BY <1>10, <3>2
    <3>4. Become(h, u) /\ New(u) = n /\ Old(u) = o
      BY <1>8, <1>9, <1>13, <2>3, <3>1, <3>3
    <3>5. TaskOf(h, u)
      BY <1>13, <2>3, <3>1, <3>3, <3>4 DEF TaskOf, PodTask
    <3>6. u.pc = "status" \/ ~Turns(ev)
      BY <2>1, <3>1, <3>3 DEF Turns
    <3> QED BY <1>2, <1>13, <3>1, <3>3, <3>4, <3>5, <3>6
  <2> QED BY <2>2, <2>3
<1>14. CASE h = "svc"
  <2>1. ev.new = {n}
    BY <1>3, <1>7, <1>14 DEF EventOf
  <2>2. Due(ev) <=> ev.old = {} \/ SvcChanged(o, n)
    BY <1>7, <2>1 DEF Due
  <2>3. CASE Due(ev) /\ Watched(n)
    <3>1. "svc" \in Pcs
      BY DEF Pcs
    <3>2. PICK u \in Task(h) : u = Started(ev, "svc") /\ u.pc = "svc" /\ u.ev = ev /\ u.writes = <<>>
      BY <1>10, <3>1
    <3>3. Become(h, u)
      BY <1>8, <1>14, <2>2, <2>3, <3>2
    <3>4. TaskOf(h, u)
      BY <1>14, <2>3, <3>2 DEF TaskOf, SvcTask
    <3> QED BY <1>2, <1>14, <3>2, <3>3, <3>4
  <2>4. CASE ~(Due(ev) /\ Watched(n))
    <3>1. Become(h, Idle)
      BY <1>8, <1>14, <2>2, <2>4
    <3> QED BY <1>2, <1>11, <1>14, <2>1, <2>4, <3>1
  <2> QED BY <2>3, <2>4
<1> QED BY <1>12, <1>13, <1>14 DEF Handlers

LEMMA TakeSafe ==
    ASSUME SInv, NEW h \in Handlers, Take(h)
    PROVE  SInv'
<1>1. TypeOK /\ EventsTyped /\ Told /\ Tasks
  BY DEF SInv
<1>2. PICK u \in Task(h) : /\ Become(h, u) /\ TaskOf(h, u) /\ u.pc # "put"
                           /\ u.pc = "idle" \/ u.ev = Head(queue[h])
  BY <1>1, TakeEffect
<1>3. /\ At(h, "idle") /\ queue[h] # <<>> /\ queue' = [queue EXCEPT ![h] = Tail(@)]
      /\ UNCHANGED <<objects, endpoints, cached, panicked, changes, missed>>
  BY DEF Take
<1>4. /\ EventsTyped' /\ Told'
      /\ DOMAIN task' = Handlers /\ task'[h] = u
      /\ \A g \in Handlers : task'[g] \in Task(g) /\ (g # h => task'[g] = task[g])
      /\ DOMAIN queue' = Handlers
      /\ \A g \in Handlers : queue'[g] \in Seq(Event(g))
  BY <1>1, <1>2, <1>3, TakeStep
<1>5. TypeOK'
  <2>1. \A s \in Services : endpoints[s].rv >= endpoints[s].rv
    <3> TAKE s \in Services
    <3>1. endpoints[s].rv \in Nat
      BY <1>1 DEF TypeOK, EndpointsType
    <3> QED BY <3>1
  <2>2. endpoints \in [Services -> EndpointsType] /\ panicked \in BOOLEAN /\ missed \in BOOLEAN
    BY <1>1 DEF TypeOK
  <2>3. endpoints' = endpoints /\ panicked' = panicked /\ missed' = missed
    BY <1>3
  <2> QED BY <1>1, <1>3, <1>4, <2>1, <2>2, <2>3, TypeKept
<1>6. Tasks'
  <2>1. \A g \in Handlers : TaskFits(g)
    BY <1>1, TasksSplit
  <2>2. ASSUME NEW g \in Handlers, g # h PROVE TaskFits(g)'
    <3>1. pods' = pods /\ task'[g] = task[g] /\ TaskFits(g) /\ endpoints' = endpoints /\ missed' = missed
      BY <1>3, <1>4, <2>1, <2>2 DEF objects
    <3> QED BY <1>1, <3>1, TaskKept
  <2>3. TaskFits(h)'
    <3>1. TaskOf(h, u)'
      BY <1>2, Unwritten
    <3> QED BY <1>4, <3>1 DEF TaskFits
  <2>4. \A g \in Handlers : TaskFits(g)'
    BY <2>2, <2>3
  <2> QED BY <2>4, TasksSplit DEF Tasks, TaskFits, TaskOf, Handlers
<1>7. Copies' /\ Uniques' /\ PodsStay' /\ PanicsAfterMiss'
  BY <1>3 DEF SInv, Copies, Uniques, PodsStay, PanicsAfterMiss, objects
<1> QED BY <1>4, <1>5, <1>6, <1>7 DEF SInv

LEMMA WriteFacts ==
    ASSUME TypeOK, NEW kind \in {"versioned", "update", "create", "invalid"}, NEW s \in Services,
           NEW x \in EndpointsType, NEW basis \in Nat, NEW ps, ps \subseteq DOMAIN pods,
           NEW des, des \subseteq DOMAIN DanmEps
    PROVE  Write(kind, s, x, basis, ps, des) \in WriteType
<1>1. {[pod |-> p, ready |-> pods[p].ready] : p \in ps} \in SUBSET [pod : Pods, ready : BOOLEAN]
  BY DEF TypeOK, PodState
<1>2. PICK W : W = {[pod |-> p, ready |-> pods[p].ready] : p \in ps}
  OBVIOUS
<1>3. Write(kind, s, x, basis, ps, des)
         = [kind |-> kind, svc |-> s, eps |-> x, basis |-> basis, pods |-> W, des |-> des, early |-> {}]
  BY <1>2 DEF Write
<1> QED BY <1>1, <1>2, <1>3 DEF WriteType

LEMMA WriteFields ==
    ASSUME NEW kind, NEW s, NEW x, NEW basis, NEW ps, NEW des, NEW w, w = Write(kind, s, x, basis, ps, des)
    PROVE  /\ w.kind = kind /\ w.svc = s /\ w.eps = x /\ w.basis = basis
           /\ w.des = des /\ w.early = {}
BY DEF Write

LEMMA BuiltNew ==
    ASSUME TypeOK, NEW a \in Annotations, NEW des \in SUBSET DOMAIN DanmEps, NEW x \in MakeNewEps(a, des),
           NEW w, w.eps = x, w.kind # "versioned", w.kind = "invalid" => ~HasSubsets(x),
           NEW ps, w.pods = {[pod |-> p, ready |-> pods[p].ready] : p \in ps},
           \A e \in des : HasAddress(e) => PodOf(e) \in ps
    PROVE  Built(w, a, des)
<1>1. /\ x.exists /\ x.anno = a /\ Unique(x)
      /\ a.early => x.notReady = <<>>
      /\ Listed(x) \subseteq {IpOf(e) : e \in des}
      /\ \A e \in des : HasAddress(e) => IpOf(e) \in Right(x, pods[PodOf(e)].ready)
  <2>1. DOMAIN pods \subseteq Pods /\ pods \in [DOMAIN pods -> PodState]
    BY DEF TypeOK
  <2> QED BY <2>1, NewFacts
<1>2. ASSUME NEW e \in des, HasAddress(e)
      PROVE  \E u \in w.pods : u.pod = PodOf(e) /\ IpOf(e) \in Right(w.eps, u.ready)
  <2>1. PICK u : u = [pod |-> PodOf(e), ready |-> pods[PodOf(e)].ready]
    OBVIOUS
  <2>2. PodOf(e) \in ps
    BY <1>2
  <2>3. u \in w.pods
    BY <2>1, <2>2
  <2>4. u.pod = PodOf(e) /\ u.ready = pods[PodOf(e)].ready
    BY <2>1
  <2> QED BY <1>1, <1>2, <2>3, <2>4
<1> QED BY <1>1, <1>2 DEF Built

LEMMA AddSvcEffect ==
    ASSUME SInv, addSvc
    PROVE  \E u \in Task("svc") :
              /\ Become("svc", u) /\ u.pc = "put" /\ u.ev = task["svc"].ev /\ TaskOf("svc", u)
              /\ ~At("svc", "idle") /\ UNCHANGED <<objects, endpoints, cached, queue, panicked, changes, missed>>
<1>1. TypeOK /\ EventsTyped /\ "svc" \in Handlers
  BY DEF SInv, Handlers
<1>2. PICK t : t = task["svc"]
  OBVIOUS
<1>3. t \in Task("svc") /\ EventOf("svc", t.ev) /\ t.pc = "svc"
  BY <1>1, <1>2, TaskEvent DEF addSvc, At
<1>4. TaskOf("svc", t)
  BY <1>1, <1>2, TasksSplit DEF SInv, TaskFits
<1>5. Due(t.ev)
  BY <1>3, <1>4 DEF TaskOf, SvcTask
<1>6. PICK a, s : a = New(t) /\ s = t.ev.obj
  OBVIOUS
<1>7. a \in Annotations /\ s \in Services
  <2>1. t.ev.new # {}
    BY <1>3 DEF EventOf
  <2>2. New(t) \in Values["svc"] /\ t.ev.obj \in Objects["svc"]
    BY <1>1, <1>3, <2>1, EventValues
  <2> QED BY <1>6, <2>2 DEF Values, Objects
<1>8. PICK des : des = SelectDesMatchLabels(a)
  OBVIOUS
<1>9. des \in SUBSET DOMAIN DanmEps
  BY <1>1, <1>8 DEF SelectDesMatchLabels, TypeOK
<1> DEFINE ps == {DanmEps[e].pod : e \in {d \in des : HasAddress(d)}}
<1>10. PICK x \in MakeNewEps(a, des), kind \in {"update", "create", "invalid"} :
          /\ kind = "invalid" => ~HasSubsets(x)
          /\ Become("svc", Writing(t, "svc", <<Write(kind, s, x, endpoints[s].rv, ps, des)>>))
  <2>1. PICK x \in MakeNewEps(a, des) :
           LET kind == IF des # {} /\ ~HasSubsets(x) THEN "invalid"
                       ELSE IF cached[s].exists THEN "update" ELSE "create"
           IN Become("svc", Writing(t, "svc", <<Write(kind, s, x, endpoints[s].rv, ps, des)>>))
    BY <1>2, <1>6, <1>8 DEF addSvc
  <2>2. PICK kind : kind = IF des # {} /\ ~HasSubsets(x) THEN "invalid"
                       ELSE IF cached[s].exists THEN "update" ELSE "create"
    OBVIOUS
  <2>3. Become("svc", Writing(t, "svc", <<Write(kind, s, x, endpoints[s].rv, ps, des)>>))
    <3> HIDE DEF ps
    <3> QED BY <2>1, <2>2
  <2>4. kind \in {"update", "create", "invalid"} /\ (kind = "invalid" => ~HasSubsets(x))
    BY <2>2
  <2> HIDE DEF ps
  <2> QED BY <2>3, <2>4
<1>11. ps \in SUBSET DOMAIN pods
  BY DEF HasAddress
<1>12. x \in EndpointsType /\ endpoints[s].rv \in Nat
  <2>1. DOMAIN pods \subseteq Pods /\ pods \in [DOMAIN pods -> PodState] /\ endpoints[s] \in EndpointsType
    BY <1>1, <1>7 DEF TypeOK
  <2> QED BY <1>7, <1>9, <2>1, NewFacts DEF EndpointsType
<1>13. \A e \in des : HasAddress(e) => PodOf(e) \in ps
  BY DEF PodOf
<1> HIDE DEF ps
<1>14. PICK w : w = Write(kind, s, x, endpoints[s].rv, ps, des)
  OBVIOUS
<1>15. /\ w \in WriteType /\ w.kind = kind /\ w.svc = s /\ w.eps = x
       /\ w.pods = {[pod |-> p, ready |-> pods[p].ready] : p \in ps} /\ w.des = des
  <2>1. kind \in {"versioned", "update", "create", "invalid"}
    OBVIOUS
  <2>2. PICK b \in Nat : b = endpoints[s].rv
    BY <1>12
  <2>3. w = Write(kind, s, x, b, ps, des)
    BY <1>14, <2>2
  <2>4. w \in WriteType
    BY <1>1, <1>7, <1>9, <1>11, <1>12, <2>1, <2>3, WriteFacts
  <2>5. w.kind = kind /\ w.svc = s /\ w.eps = x /\ w.des = des
    BY <2>3, WriteFields
  <2>6. w.pods = {[pod |-> p, ready |-> pods[p].ready] : p \in ps}
    BY <2>3 DEF Write
  <2> QED BY <2>4, <2>5, <2>6
<1>16. Built(w, a, des)
  <2>1. w.kind # "versioned" /\ (w.kind = "invalid" => ~HasSubsets(x)) /\ w.eps = x
    BY <1>10, <1>15
  <2>2. w.pods = {[pod |-> p, ready |-> pods[p].ready] : p \in ps}
    BY <1>15
  <2> QED BY <1>1, <1>7, <1>9, <1>13, <2>1, <2>2, BuiltNew
<1>17. <<w>> \in Seq(WriteType) /\ <<w>> # <<>> /\ Len(<<w>>) = 1 /\ <<w>>[1] = w /\ "svc" \in Pcs
  BY <1>15 DEF Pcs
<1>18. PICK u : u = Writing(t, "svc", <<w>>)
  OBVIOUS
<1>19. PICK ws \in Seq(WriteType) : ws = <<w>> /\ ws # <<>> /\ Len(ws) = 1 /\ ws[1] = w
  BY <1>17
<1>20. u = Puts(t, "svc", ws)
  BY <1>1, <1>3, <1>17, <1>18, <1>19, WritingFacts
<1>21. u \in Task("svc") /\ u.pc = "put" /\ u.op = "svc" /\ u.writes = ws /\ u.ev = t.ev
  BY <1>1, <1>3, <1>17, <1>20, PutsFacts
<1>22. New(u) = a
  BY <1>6, <1>21 DEF New
<1>23. TaskOf("svc", u)
  BY <1>5, <1>6, <1>15, <1>16, <1>19, <1>21, <1>22 DEF TaskOf, SvcTask
<1>24. Become("svc", u)
  BY <1>10, <1>14, <1>18
<1>25. ~At("svc", "idle") /\ UNCHANGED <<objects, endpoints, cached, queue, panicked, changes, missed>>
  BY DEF addSvc, At
<1> QED BY <1>2, <1>21, <1>23, <1>24, <1>25

\* What an action does to tasks is about the present state; the rest has not changed.
LEMMA TaskPrimed ==
    ASSUME NEW g \in Handlers, NEW t, TaskOf(g, t), missed => missed',
           UNCHANGED endpoints, UNCHANGED pods
    PROVE  TaskOf(g, t)'
<1>1. \A w : Derived(t, w) => Derived(t, w)'
  BY DEF Derived
<1>2. \A w, a, D : Built(w, a, D) => Built(w, a, D)'
  BY DEF Built, HasAddress
<1> QED BY <1>1, <1>2 DEF TaskOf, SvcTask, DanmEpTask, PodTask, Adding, Chosen

LEMMA AddSvcSafe ==
    ASSUME SInv, addSvc
    PROVE  SInv'
<1>1. PICK u \in Task("svc") :
         /\ Become("svc", u) /\ u.pc = "put" /\ u.ev = task["svc"].ev /\ TaskOf("svc", u)
         /\ ~At("svc", "idle") /\ UNCHANGED <<objects, endpoints, cached, queue, panicked, changes, missed>>
  BY AddSvcEffect
<1>2. "svc" \in Handlers
  BY DEF Handlers
<1>3. TaskOf("svc", u)'
  BY <1>1, <1>2, TaskPrimed DEF objects
<1>4. missed' \in BOOLEAN /\ panicked' \in BOOLEAN /\ (panicked' => missed')
  BY <1>1 DEF SInv, TypeOK, PanicsAfterMiss
<1> QED BY <1>1, <1>2, <1>3, <1>4, GoesOn

\* The Services delDanmep writes to.
DelHit(t) == {s \in Services : HasSubsets(cached[s]) /\ Selects(cached[s].anno, t.ev.obj, Old(t))}

LEMMA DelDanmepEffect ==
    ASSUME SInv, delDanmep, ~panicked'
    PROVE  \E u \in Task("danmep") :
              /\ Become("danmep", u) /\ TaskOf("danmep", u)
              /\ u.pc = "idle" \/ u.ev = task["danmep"].ev
              /\ \/ u.ev = task["danmep"].ev /\ (u.pc = "match" \/ (u.pc = "put" /\ u.op = "del"))
                 \/ task["danmep"].ev.new = {}
              /\ \A s \in DelHit(task["danmep"]) :
                    u.ev = task["danmep"].ev /\ u.pc = "put" /\ u.op = "del" /\ Writes(u, s)
              /\ missed' = (missed \/ PassesOver(DelHit(task["danmep"])))
<1>1. TypeOK /\ EventsTyped /\ "danmep" \in Handlers /\ Copies
  BY DEF SInv, Handlers
<1>2. PICK t : t = task["danmep"]
  OBVIOUS
<1>3. t \in Task("danmep") /\ EventOf("danmep", t.ev) /\ t.pc = "del"
  BY <1>1, <1>2, TaskEvent DEF delDanmep, At
<1>4. TaskOf("danmep", t)
  BY <1>1, <1>2, TasksSplit DEF SInv, TaskFits
<1>5. t.ev.old # {}
  BY <1>3, <1>4 DEF TaskOf, DanmEpTask
<1>6. PICK e : e = t.ev.obj
  OBVIOUS
<1>7. e \in DOMAIN DanmEps
  <2>1. t.ev.obj \in Objects["danmep"]
    BY <1>1, <1>3, EventValues
  <2> QED BY <1>6, <2>1 DEF Objects
<1>8. PICK hit : hit = DelHit(t)
  OBVIOUS
<1>9. hit \in SUBSET Services
  BY <1>8 DEF DelHit
<1> DEFINE left(s) == [cached[s] EXCEPT !.ready = deleteFromEpAddressList(IpOf(e), @).list,
                                        !.notReady = deleteFromEpAddressList(IpOf(e), @).list]
           write(s) == Write("versioned", s, left(s), cached[s].rv, {}, {})
<1>10. PICK l \in SetToSeqs(hit) :
          /\ Become("danmep", Writing(t, "del", [i \in DOMAIN l |-> write(l[i])]))
          /\ missed' = (missed \/ PassesOver(hit))
  <2>1. ~panicked' => \E l \in SetToSeqs(hit) :
           /\ Become("danmep", Writing(t, "del", [i \in DOMAIN l |-> write(l[i])]))
           /\ missed' = (missed \/ PassesOver(hit))
    BY <1>2, <1>6, <1>8 DEF delDanmep, DelHit, IpOf
  <2> QED BY <2>1
<1>11. ASSUME NEW s \in Services
       PROVE  write(s) \in WriteType /\ write(s).svc = s
  <2>1. PICK x \in EndpointsType : x = cached[s]
    BY <1>1 DEF TypeOK
  <2>2. PICK y : y = left(s)
    OBVIOUS
  <2>3. y = [x EXCEPT !.ready = deleteFromEpAddressList(IpOf(e), @).list,
                      !.notReady = deleteFromEpAddressList(IpOf(e), @).list]
    BY <2>1, <2>2
  <2>4. y \in EndpointsType
    BY <1>7, <2>3, DelFacts
  <2>5. PICK b \in Nat : b = cached[s].rv
    BY <2>1 DEF EndpointsType
  <2>6. write(s) = Write("versioned", s, y, b, {}, {})
    BY <2>2, <2>5
  <2>7. Write("versioned", s, y, b, {}, {}) \in WriteType
    BY <1>1, <2>4, WriteFacts
  <2> HIDE DEF write
  <2> QED BY <2>6, <2>7, WriteFields
<1>12. ASSUME NEW s \in Services, NEW u, u.op = "del", u.ev = t.ev
       PROVE  Derived(u, write(s))
  <2>1. cached[s].rv <= endpoints[s].rv /\ (cached[s].rv = endpoints[s].rv => cached[s] = endpoints[s])
    BY <1>1 DEF Copies
  <2>2. PICK w : w = write(s)
    OBVIOUS
  <2>3. w.kind = "versioned" /\ w.svc = s /\ w.eps = left(s) /\ w.basis = cached[s].rv
    <3> HIDE DEF left
    <3> QED BY <2>2, WriteFields
  <2>4. w.basis = endpoints[w.svc].rv =>
           w.eps = [endpoints[w.svc] EXCEPT !.ready = deleteFromEpAddressList(IpOf(u.ev.obj), @).list,
                                            !.notReady = deleteFromEpAddressList(IpOf(u.ev.obj), @).list]
    BY <1>6, <1>12, <2>1, <2>3
  <2> HIDE DEF write, left
  <2>5. Derived(u, w)
    BY <1>12, <2>1, <2>3, <2>4 DEF Derived
  <2> QED BY <2>2, <2>5
<1>13. /\ l \in Seq(hit) /\ {l[i] : i \in 1 .. Len(l)} = hit /\ DOMAIN l = 1 .. Len(l) /\ Len(l) \in Nat
  <2>1. IsFiniteSet(hit)
    BY <1>9, SvcAssumption, FS_Subset
  <2>2. l \in Seq(hit) /\ {l[i] : i \in 1 .. Len(l)} = hit
    BY <2>1, Orders
  <2> QED BY <2>2
<1>14. PICK ws : ws = [i \in DOMAIN l |-> write(l[i])]
  OBVIOUS
<1> HIDE DEF write
<1>15. \A i \in 1 .. Len(l) : l[i] \in hit /\ l[i] \in Services
  BY <1>9, <1>13
<1>16. /\ ws \in Seq(WriteType) /\ Len(ws) = Len(l) /\ DOMAIN ws = 1 .. Len(l)
       /\ \A i \in 1 .. Len(l) : ws[i] = write(l[i])
  <2>1. ws \in [1 .. Len(l) -> WriteType] /\ \A i \in 1 .. Len(l) : ws[i] = write(l[i])
    BY <1>11, <1>13, <1>14, <1>15
  <2> QED BY <1>13, <2>1, SeqForm
<1>17. "del" \in Pcs
  BY DEF Pcs
<1>18. PICK u : u = Writing(t, "del", ws)
  OBVIOUS
<1>19. Become("danmep", u)
  BY <1>10, <1>14, <1>18
<1>20. CASE ws # <<>>
  <2>1. u = Puts(t, "del", ws)
    BY <1>1, <1>3, <1>16, <1>17, <1>18, <1>20, WritingFacts
  <2>2. u \in Task("danmep") /\ u.pc = "put" /\ u.op = "del" /\ u.writes = ws /\ u.ev = t.ev
    BY <1>1, <1>3, <1>16, <1>17, <2>1, PutsFacts
  <2>3. \A i \in DOMAIN u.writes : Derived(u, u.writes[i])
    BY <1>12, <1>15, <1>16, <2>2
  <2>4. TaskOf("danmep", u)
    BY <1>5, <1>20, <2>2, <2>3 DEF TaskOf, DanmEpTask, Adding, Chosen
  <2>5. \A s \in hit : Writes(u, s)
    <3> TAKE s \in hit
    <3>1. PICK i \in 1 .. Len(l) : l[i] = s
      BY <1>13
    <3>2. u.writes[i].svc = s /\ i \in DOMAIN u.writes
      BY <1>9, <1>11, <1>16, <2>2, <3>1
    <3> QED BY <3>2 DEF Writes
  <2> QED BY <1>2, <1>8, <1>10, <1>19, <2>2, <2>4, <2>5
<1>21. CASE ws = <<>>
  <2>1. hit = {}
    <3>1. Len(l) = 0
      BY <1>16, <1>21
    <3> QED BY <1>13, <3>1
  <2>2. PICK d : d = Doing(t, "del")
    OBVIOUS
  <2>3. u = After(d)
    BY <1>1, <1>3, <1>16, <1>17, <1>18, <1>21, <2>2, WritingFacts
  <2>4. d \in Task("danmep") /\ d.op = "del" /\ d.ev = t.ev
    BY <1>1, <1>3, <1>17, <2>2, DoingFacts
  <2>5. TaskOf("danmep", u)
    <3>1. AtEnd("danmep", d)
      BY <2>4 DEF AtEnd
    <3> QED BY <1>1, <2>3, <2>4, <3>1, AfterTask
  <2>6. u \in Task("danmep") /\ (u.pc = "idle" \/ u.ev = t.ev)
    BY <1>1, <2>3, <2>4, AfterFacts
  <2>7. (u.ev = t.ev /\ u.pc = "match") \/ t.ev.new = {}
    <3>1. CASE t.ev.new # {}
      <4>1. u = Goes(d, "match") /\ "match" \in Pcs
        BY <2>3, <2>4, <3>1 DEF After, Goes, Pcs
      <4> QED BY <1>1, <2>4, <4>1, GoesFacts
    <3> QED BY <3>1
  <2> QED BY <1>2, <1>8, <1>10, <1>19, <2>1, <2>5, <2>6, <2>7
<1> QED BY <1>20, <1>21

\* The removal panics only on a list that has the address twice.
LEMMA DelDanmepPanics ==
    ASSUME SInv, delDanmep, panicked'
    PROVE  missed \/ panicked
<1>1. SUFFICES ASSUME ~missed, ~panicked PROVE FALSE
  OBVIOUS
<1>2. TypeOK /\ Uniques /\ "danmep" \in Handlers
  BY DEF SInv, Handlers
<1>3. PICK s \in Services : \/ ~deleteFromEpAddressList(IpOf(task["danmep"].ev.obj), cached[s].ready).ok
                            \/ ~deleteFromEpAddressList(IpOf(task["danmep"].ev.obj), cached[s].notReady).ok
  BY <1>1 DEF delDanmep, IpOf
<1>4. cached[s].ready \in Seq(Entry) /\ cached[s].notReady \in Seq(Entry)
  <2>1. cached[s] \in EndpointsType
    BY <1>2 DEF TypeOK
  <2> QED BY <2>1 DEF EndpointsType
<1>5. OneEach(cached[s].ready) /\ OneEach(cached[s].notReady)
  BY <1>1, <1>2 DEF Uniques, Unique
<1>6. PICK ip : ip = IpOf(task["danmep"].ev.obj)
  OBVIOUS
<1>7. deleteFromEpAddressList(ip, cached[s].ready).ok
  BY <1>4, <1>5, DeletedOnce
<1>8. deleteFromEpAddressList(ip, cached[s].notReady).ok
  BY <1>4, <1>5, DeletedOnce
<1> QED BY <1>3, <1>6, <1>7, <1>8

LEMMA DelDanmepSafe ==
    ASSUME SInv, ~panicked, delDanmep
    PROVE  SInv'
<1>1. "danmep" \in Handlers
  BY DEF Handlers
<1>2. /\ At("danmep", "del") /\ ~At("danmep", "idle")
      /\ UNCHANGED <<objects, endpoints, cached, queue, changes>>
  BY DEF delDanmep, At
<1>3. (panicked' = TRUE /\ UNCHANGED <<task, missed>>) \/ panicked' = panicked
  BY DEF delDanmep
<1>4. TypeOK /\ Tasks /\ missed \in BOOLEAN /\ panicked \in BOOLEAN
  BY DEF SInv, TypeOK
<1>5. CASE panicked'
  <2>1. missed /\ missed' = missed /\ task' = task /\ panicked' \in BOOLEAN
    BY <1>3, <1>5, DelDanmepPanics
  <2>2. TypeOK'
    BY <1>2, <1>4, <2>1 DEF TypeOK, objects
  <2>3. EventsTyped' /\ Told'
    <3>1. \A h \in Handlers : Events(h)' = Events(h)
      BY <1>2, <2>1 DEF Events
    <3>2. EventsTyped /\ Told /\ UNCHANGED objects
      BY <1>2 DEF SInv
    <3> QED BY <1>4, <3>1, <3>2, EventsKept
  <2>4. Tasks'
    <3>1. \A g \in Handlers : TaskFits(g)
      BY <1>4, TasksSplit
    <3>2. ASSUME NEW g \in Handlers PROVE TaskFits(g)'
      <4>1. pods' = pods /\ task'[g] = task[g] /\ TaskFits(g) /\ endpoints' = endpoints
        BY <1>2, <2>1, <3>1, <3>2 DEF objects
      <4> QED BY <1>4, <2>1, <4>1, TaskKept
    <3> QED BY <3>2, TasksSplit DEF Tasks, TaskFits, TaskOf, Handlers
  <2>5. Copies' /\ Uniques' /\ PodsStay'
    BY <1>2, <2>1 DEF SInv, Copies, Uniques, PodsStay, objects
  <2> QED BY <2>1, <2>2, <2>3, <2>4, <2>5 DEF SInv, PanicsAfterMiss
<1>6. CASE ~panicked'
  <2>1. PICK u \in Task("danmep") :
           /\ Become("danmep", u) /\ TaskOf("danmep", u)
           /\ u.pc = "idle" \/ u.ev = task["danmep"].ev
           /\ missed' = (missed \/ PassesOver(DelHit(task["danmep"])))
    BY <1>6, DelDanmepEffect
  <2>2. TaskOf("danmep", u)'
    BY <1>1, <1>2, <2>1, TaskPrimed DEF objects
  <2>3. missed' \in BOOLEAN /\ panicked' \in BOOLEAN /\ (panicked' => missed') /\ (missed => missed')
    BY <1>3, <1>4, <1>6, <2>1
  <2> QED BY <1>1, <1>2, <2>1, <2>2, <2>3, GoesOn
<1> QED BY <1>5, <1>6

-----------------------------------------------------------------------------
LEMMA AddDanmepEffect ==
    ASSUME SInv, addDanmep
    PROVE  \E u \in Task("danmep") :
              /\ Become("danmep", u) /\ TaskOf("danmep", u)
              /\ u.pc = "idle" \/ u.ev = task["danmep"].ev
              /\ missed => missed'
              /\ missed' \in BOOLEAN
              /\ ~missed' => \A s \in DOMAIN svcs :
                    Selects(svcs[s], task["danmep"].ev.obj, New(task["danmep"])) =>
                       /\ u.pc = "next" /\ u.ev = task["danmep"].ev
                       /\ \E n \in u.todo : n.svc = s
<1>1. TypeOK /\ EventsTyped /\ "danmep" \in Handlers
  BY DEF SInv, Handlers
<1>2. PICK t : t = task["danmep"]
  OBVIOUS
<1>3. t \in Task("danmep") /\ EventOf("danmep", t.ev) /\ t.pc = "match"
  BY <1>1, <1>2, TaskEvent DEF addDanmep, At
<1>4. TaskOf("danmep", t)
  BY <1>1, <1>2, TasksSplit DEF SInv, TaskFits
<1>5. t.ev.new # {} /\ t.writes = <<>>
  BY <1>3, <1>4 DEF TaskOf, DanmEpTask
<1>6. PICK e, l : e = t.ev.obj /\ l = New(t)
  OBVIOUS
<1>7. PICK all : all = {s \in DOMAIN svcs : Selects(svcs[s], e, l)}
  OBVIOUS
<1>8. PICK m \in MatchExistingSvc(e, l) :
         /\ Become("danmep", IF m = {} THEN Idle
                             ELSE [t EXCEPT !.pc = "next", !.todo = {[svc |-> s, anno |-> svcs[s]] : s \in m}])
         /\ missed' = (missed \/ m # all)
  BY <1>2, <1>6, <1>7 DEF addDanmep
<1>9. m \in SUBSET all
  BY <1>7, <1>8 DEF MatchExistingSvc
<1>10. (missed => missed') /\ missed' \in BOOLEAN
  BY <1>1, <1>8 DEF TypeOK
<1>11. CASE m = {}
  <2>1. Become("danmep", Idle) /\ Idle \in Task("danmep") /\ Idle.pc = "idle" /\ TaskOf("danmep", Idle)
    BY <1>1, <1>8, <1>11, IdleFacts, IdleTask
  <2>2. ~missed' => \A s \in DOMAIN svcs : ~Selects(svcs[s], e, l)
    BY <1>7, <1>8, <1>11
  <2> QED BY <1>2, <1>6, <1>10, <2>1, <2>2
<1>12. CASE m # {}
  <2>1. PICK todo : todo = {[svc |-> s, anno |-> svcs[s]] : s \in m}
    OBVIOUS
  <2>2. PICK u : u = [t EXCEPT !.pc = "next", !.todo = todo]
    OBVIOUS
  <2>3. Become("danmep", u)
    BY <1>8, <1>12, <2>1, <2>2
  <2>4. m \subseteq Services /\ \A s \in m : svcs[s] \in Annotations /\ Selects(svcs[s], e, l)
    BY <1>1, <1>7, <1>9 DEF TypeOK
  <2>5. todo \in SUBSET [svc : Services, anno : Annotations]
    BY <2>1, <2>4
  <2>6. todo \in SUBSET Todo["danmep"] /\ "next" \in Pcs
    BY <2>5 DEF Todo, Pcs
  <2>7. /\ u \in Task("danmep") /\ u.pc = "next" /\ u.todo = todo /\ u.ev = t.ev /\ u.writes = <<>>
    BY <1>3, <1>5, <2>2, <2>6 DEF Task
  <2>8. New(u) = l
    BY <1>6, <2>7 DEF New
  <2>9. \A n \in todo : Selects(n.anno, e, l)
    BY <2>1, <2>4
  <2>10. TaskOf("danmep", u)
    BY <1>5, <1>6, <2>7, <2>8, <2>9 DEF TaskOf, DanmEpTask, Adding, Chosen
  <2>11. ASSUME ~missed', NEW s \in DOMAIN svcs, Selects(svcs[s], e, l)
         PROVE  \E n \in u.todo : n.svc = s
    <3>1. s \in m
      BY <1>7, <1>8, <2>11
    <3>2. [svc |-> s, anno |-> svcs[s]] \in todo
      BY <2>1, <3>1
    <3> QED BY <2>7, <3>2
  <2> QED BY <1>2, <1>6, <1>10, <2>3, <2>7, <2>10, <2>11
<1> QED BY <1>11, <1>12

LEMMA AddDanmepSafe ==
    ASSUME SInv, addDanmep
    PROVE  SInv'
<1>1. PICK u \in Task("danmep") :
         /\ Become("danmep", u) /\ TaskOf("danmep", u)
         /\ u.pc = "idle" \/ u.ev = task["danmep"].ev
         /\ missed => missed'
         /\ missed' \in BOOLEAN
  BY AddDanmepEffect
<1>2. /\ "danmep" \in Handlers /\ ~At("danmep", "idle")
      /\ UNCHANGED <<objects, endpoints, cached, queue, panicked, changes>>
  BY DEF Handlers, addDanmep, At
<1>3. TaskOf("danmep", u)'
  BY <1>1, <1>2, TaskPrimed DEF objects
<1>4. panicked' \in BOOLEAN /\ (panicked' => missed')
  BY <1>1, <1>2 DEF SInv, TypeOK, PanicsAfterMiss
<1> QED BY <1>1, <1>2, <1>3, <1>4, GoesOn

LEMMA NextServiceEffect ==
    ASSUME SInv, NextService
    PROVE  \E u \in Task("danmep") :
              /\ Become("danmep", u) /\ TaskOf("danmep", u)
              /\ u.pc = "idle" \/ u.ev = task["danmep"].ev
              /\ \A n \in task["danmep"].todo :
                    \/ n \in u.todo /\ u.pc \in {"next", "add"} /\ u.ev = task["danmep"].ev
                    \/ u.pc = "add" /\ u.cur = n.svc /\ u.ev = task["danmep"].ev
                    \/ PodOf(task["danmep"].ev.obj) \notin DOMAIN pods
<1>1. TypeOK /\ EventsTyped /\ "danmep" \in Handlers
  BY DEF SInv, Handlers
<1>2. PICK t : t = task["danmep"]
  OBVIOUS
<1>3. t \in Task("danmep") /\ EventOf("danmep", t.ev) /\ t.pc = "next"
  BY <1>1, <1>2, TaskEvent DEF NextService, At
<1>4. TaskOf("danmep", t)
  BY <1>1, <1>2, TasksSplit DEF SInv, TaskFits
<1>5. t.ev.new # {} /\ t.writes = <<>> /\ \A n \in t.todo : Selects(n.anno, t.ev.obj, New(t))
  BY <1>3, <1>4 DEF TaskOf, DanmEpTask, Adding
<1>6. PICK p : p = PodOf(t.ev.obj)
  OBVIOUS
<1>7. PICK n \in t.todo :
         Become("danmep", LET rest == [t EXCEPT !.op = "add", !.todo = @ \ {n}]
                          IN IF p \notin DOMAIN pods THEN After(rest)
                             ELSE [rest EXCEPT !.pc = "add", !.cur = n.svc, !.anno = n.anno, !.pod = pods[p]])
  BY <1>2, <1>6 DEF NextService, PodOf
<1>8. PICK rest : rest = [t EXCEPT !.op = "add", !.todo = @ \ {n}]
  OBVIOUS
<1>9. n.svc \in Services /\ n.anno \in Annotations /\ t.todo \in SUBSET Todo["danmep"]
  <2>1. t.todo \in SUBSET Todo["danmep"]
    BY <1>3 DEF Task
  <2> QED BY <2>1 DEF Todo
<1>10. "add" \in Pcs
  BY DEF Pcs
<1>11. /\ rest \in Task("danmep") /\ rest.op = "add" /\ rest.todo = t.todo \ {n} /\ rest.ev = t.ev
       /\ rest.writes = <<>> /\ rest.pc = "next"
  BY <1>3, <1>5, <1>8, <1>9, <1>10 DEF Task
<1>12. New(rest) = New(t)
  BY <1>11 DEF New
<1>13. CASE p \notin DOMAIN pods
  <2>1. PICK u : u = After(rest)
    OBVIOUS
  <2>2. Become("danmep", u)
    BY <1>7, <1>8, <1>13, <2>1
  <2>3. AtEnd("danmep", rest)
    BY <1>5, <1>11, <1>12 DEF AtEnd
  <2>4. TaskOf("danmep", u)
    BY <1>1, <1>11, <2>1, <2>3, AfterTask
  <2>5. u \in Task("danmep") /\ (u.pc = "idle" \/ u.ev = t.ev)
    BY <1>1, <1>11, <2>1, AfterFacts
  <2> QED BY <1>2, <1>6, <1>13, <2>2, <2>4, <2>5
<1>14. CASE p \in DOMAIN pods
  <2>1. PICK u : u = [rest EXCEPT !.pc = "add", !.cur = n.svc, !.anno = n.anno, !.pod = pods[p]]
    OBVIOUS
  <2>2. Become("danmep", u)
    BY <1>7, <1>8, <1>14, <2>1
  <2>3. pods[p] \in PodState
    BY <1>1, <1>14 DEF TypeOK
  <2>4. /\ u \in Task("danmep") /\ u.pc = "add" /\ u.todo = t.todo \ {n} /\ u.ev = t.ev
        /\ u.writes = <<>> /\ u.cur = n.svc /\ u.anno = n.anno
    BY <1>9, <1>10, <1>11, <2>1, <2>3 DEF Task
  <2>5. New(u) = New(t)
    BY <2>4 DEF New
  <2>6. TaskOf("danmep", u)
    BY <1>5, <1>9, <2>4, <2>5 DEF TaskOf, DanmEpTask, Adding, Chosen
  <2> QED BY <1>2, <2>2, <2>4, <2>6
<1> QED BY <1>13, <1>14

LEMMA NextServiceSafe ==
    ASSUME SInv, NextService
    PROVE  SInv'
<1>1. PICK u \in Task("danmep") :
         /\ Become("danmep", u) /\ TaskOf("danmep", u)
         /\ u.pc = "idle" \/ u.ev = task["danmep"].ev
  BY NextServiceEffect
<1>2. /\ "danmep" \in Handlers /\ ~At("danmep", "idle")
      /\ UNCHANGED <<objects, endpoints, cached, queue, panicked, changes, missed>>
  BY DEF Handlers, NextService, At
<1>3. TaskOf("danmep", u)'
  BY <1>1, <1>2, TaskPrimed DEF objects
<1>4. missed' \in BOOLEAN /\ panicked' \in BOOLEAN /\ (panicked' => missed')
  BY <1>2 DEF SInv, TypeOK, PanicsAfterMiss
<1> QED BY <1>1, <1>2, <1>3, <1>4, GoesOn

LEMMA AddWrites ==
    ASSUME TypeOK, NEW t \in Task("danmep"), TaskOf("danmep", t), t.pc = "add",
           NEW w \in WriteType, w.svc = t.cur, NEW u, u = Writing(t, "add", <<w>>),
           \/ \A v : v.op = "add" /\ v.ev = t.ev /\ v.anno = t.anno /\ v.pod = t.pod => Derived(v, w)'
           \/ /\ w.kind \in {"update", "invalid"} /\ Built(w, t.anno, {t.ev.obj})'
              /\ w.basis <= endpoints'[w.svc].rv
              /\ w.basis = endpoints'[w.svc].rv => ~HasSubsets(endpoints'[w.svc])
    PROVE  /\ u \in Task("danmep") /\ TaskOf("danmep", u)' /\ u.pc = "put" /\ u.op = "add"
           /\ u.ev = t.ev /\ u.todo = t.todo /\ u.cur = t.cur
<1>1. "danmep" \in Handlers /\ "add" \in Pcs
  BY DEF Handlers, Pcs
<1>2. PICK ws \in Seq(WriteType) : ws = <<w>> /\ ws # <<>> /\ Len(ws) = 1 /\ ws[1] = w
  <2>1. <<w>> \in Seq(WriteType) /\ <<w>> # <<>> /\ Len(<<w>>) = 1 /\ <<w>>[1] = w
    OBVIOUS
  <2> QED BY <2>1
<1>3. u = Puts(t, "add", ws)
  BY <1>1, <1>2, WritingFacts
<1>4. /\ u \in Task("danmep") /\ u.pc = "put" /\ u.op = "add" /\ u.writes = ws /\ u.ev = t.ev
      /\ u.todo = t.todo /\ u.cur = t.cur /\ u.anno = t.anno /\ u.pod = t.pod
  <2>1. t \in Task("danmep") /\ ws \in Seq(WriteType)
    BY <1>2
  <2>2. u \in Task("danmep") /\ u.pc = "put" /\ u.op = "add" /\ u.writes = ws /\ u.ev = t.ev
    BY ONLY <1>1, <2>1, <1>3, PutsFacts
  <2>3. u.todo = t.todo /\ u.cur = t.cur /\ u.anno = t.anno /\ u.pod = t.pod
    BY ONLY <1>1, <2>1, <1>3, PutsFacts
  <2> QED BY ONLY <2>2, <2>3
<1>5. New(u) = New(t)
  BY <1>4 DEF New
<1>6. /\ t.ev.new # {} /\ \A n \in t.todo : Selects(n.anno, t.ev.obj, New(t))
      /\ t.cur \in Services /\ t.anno \in Annotations
      /\ Selects(t.anno, t.ev.obj, New(t))
  BY DEF TaskOf, DanmEpTask, Adding, Chosen
<1>7. \/ Derived(u, w)'
      \/ /\ w.kind \in {"update", "invalid"} /\ Built(w, t.anno, {t.ev.obj})'
         /\ w.basis <= endpoints'[w.svc].rv
         /\ w.basis = endpoints'[w.svc].rv => ~HasSubsets(endpoints'[w.svc])
  BY <1>4
<1>8. TaskOf("danmep", u)'
  BY <1>2, <1>4, <1>5, <1>6, <1>7 DEF TaskOf, DanmEpTask, Adding, Chosen
<1> QED BY <1>4, <1>8

LEMMA AddToServiceEffect ==
    ASSUME SInv, AddToService
    PROVE  \E u \in Task("danmep") :
              /\ Become("danmep", u) /\ TaskOf("danmep", u)'
              /\ u.ev = task["danmep"].ev /\ u.pc = "put" /\ u.op = "add"
              /\ u.todo = task["danmep"].todo /\ u.cur = task["danmep"].cur
<1>1. TypeOK /\ EventsTyped /\ "danmep" \in Handlers /\ Copies
  BY DEF SInv, Handlers
<1>2. PICK t : t = task["danmep"]
  OBVIOUS
<1>3. t \in Task("danmep") /\ EventOf("danmep", t.ev) /\ t.pc = "add"
  BY <1>1, <1>2, TaskEvent DEF AddToService, At
<1>4. TaskOf("danmep", t)
  BY <1>1, <1>2, TasksSplit DEF SInv, TaskFits
<1>5. t.cur \in Services /\ t.anno \in Annotations
  BY <1>3, <1>4 DEF TaskOf, DanmEpTask, Chosen
<1>6. PICK e : e = t.ev.obj
  OBVIOUS
<1>7. e \in DOMAIN DanmEps
  <2>1. t.ev.obj \in Objects["danmep"]
    BY <1>1, <1>3, EventValues
  <2> QED BY <1>6, <2>1 DEF Objects
<1>8. PICK c \in EndpointsType : c = cached[t.cur]
  BY <1>1, <1>5 DEF TypeOK
<1>9. PICK x \in EndpointsType : x = endpoints[t.cur]
  BY <1>1, <1>5 DEF TypeOK
<1>10. c.rv \in Nat /\ x.rv \in Nat /\ c.rv <= x.rv /\ (c.rv = x.rv => c = x)
  BY <1>1, <1>5, <1>8, <1>9 DEF Copies, EndpointsType
<1>11. endpoints' = endpoints /\ pods' = pods
  BY DEF AddToService, objects
<1>12. t.pod \in PodState /\ t.anno.early \in BOOLEAN /\ PodOf(e) \in Pods
  <2>1. t.pod \in PodState
    BY <1>3 DEF Task
  <2>2. t.anno.early \in BOOLEAN
    BY <1>5, SvcAssumption
  <2> QED BY <1>7, <2>1, <2>2, IpFacts
<1>13. CASE HasSubsets(c)
  <2>1. PICK y : y = EpCheckUpdate(e, t.pod, c, t.anno.early)
    OBVIOUS
  <2>2. PICK v : v = Write("versioned", t.cur, y, c.rv, {}, {})
    OBVIOUS
  <2>3. PICK w : w = [v EXCEPT !.pods = {[pod |-> PodOf(e), ready |-> t.pod.ready]}]
    OBVIOUS
  <2>4. PICK u : u = Writing(t, "add", <<w>>)
    OBVIOUS
  <2>5. Become("danmep", u) /\ missed' = (missed \/ IpOf(e) \in Ips(c.notReady))
    <3>1. /\ Become("danmep", Writing(t, "add",
                <<[Write("versioned", t.cur, EpCheckUpdate(e, t.pod, c, t.anno.early), c.rv, {}, {})
                     EXCEPT !.pods = {[pod |-> PodOf(e), ready |-> t.pod.ready]}]>>))
          /\ missed' = (missed \/ IpOf(e) \in Ips(c.notReady))
      BY <1>2, <1>6, <1>8, <1>13 DEF AddToService, PodOf, IpOf
    <3> QED BY <2>1, <2>2, <2>3, <2>4, <3>1
  <2>6. y \in EndpointsType
    BY <1>7, <1>12, <2>1, AddFacts
  <2>7. v \in WriteType /\ v.kind = "versioned" /\ v.svc = t.cur /\ v.eps = y /\ v.basis = c.rv
    <3>1. PICK b \in Nat : b = c.rv
      BY <1>10
    <3>2. v = Write("versioned", t.cur, y, b, {}, {})
      BY <2>2, <3>1
    <3>3. v \in WriteType
      BY <1>1, <1>5, <2>6, <3>2, WriteFacts
    <3>4. v.kind = "versioned" /\ v.svc = t.cur /\ v.eps = y /\ v.basis = b
      BY <3>2, WriteFields
    <3> QED BY <3>1, <3>3, <3>4
  <2>8. /\ w \in WriteType /\ w.kind = "versioned" /\ w.svc = t.cur /\ w.eps = y /\ w.basis = c.rv
        /\ w.pods = {[pod |-> PodOf(e), ready |-> t.pod.ready]}
    <3>1. {[pod |-> PodOf(e), ready |-> t.pod.ready]} \in SUBSET [pod : Pods, ready : BOOLEAN]
      BY <1>12 DEF PodState
    <3>2. PICK ps \in SUBSET [pod : Pods, ready : BOOLEAN] : ps = {[pod |-> PodOf(e), ready |-> t.pod.ready]}
      BY <3>1
    <3>3. w = [v EXCEPT !.pods = ps]
      BY <2>3, <3>2
    <3> QED BY <2>7, <3>2, <3>3 DEF WriteType
  <2>9. ASSUME NEW k, k.op = "add", k.ev = t.ev, k.anno = t.anno, k.pod = t.pod
        PROVE  Derived(k, w)'
    <3>1. endpoints'[w.svc] = x
      BY <1>9, <1>11, <2>8
    <3>2. w.basis = x.rv => w.eps = EpCheckUpdate(k.ev.obj, k.pod, x, k.anno.early)
      BY <1>6, <1>10, <2>1, <2>8, <2>9
    <3>3. w.basis = x.rv => (~missed' => IpOf(k.ev.obj) \notin Ips(x.notReady))
      BY <1>6, <1>10, <2>5, <2>8, <2>9
    <3>4. w.pods = {[pod |-> PodOf(k.ev.obj), ready |-> k.pod.ready]}
      BY <1>6, <2>8, <2>9
    <3> QED BY <1>10, <2>8, <2>9, <3>1, <3>2, <3>3, <3>4 DEF Derived
  <2>10. w.svc = t.cur
    BY <2>8
  <2>11. /\ u \in Task("danmep") /\ TaskOf("danmep", u)' /\ u.pc = "put" /\ u.op = "add"
         /\ u.ev = t.ev /\ u.todo = t.todo /\ u.cur = t.cur
    BY <1>1, <1>3, <1>4, <2>4, <2>8, <2>9, <2>10, AddWrites
  <2> QED BY <1>2, <2>5, <2>11
<1>14. CASE ~HasSubsets(c)
  <2>1. PICK ps : ps = {PodOf(e)} \cap DOMAIN pods
    OBVIOUS
  <2>2. PICK y \in MakeNewEps(t.anno, {e}) :
           Become("danmep", Writing(t, "add",
              <<Write(IF HasSubsets(y) THEN "update" ELSE "invalid", t.cur, y, c.rv, ps, {})>>))
    BY <1>2, <1>6, <1>8, <1>14, <2>1 DEF AddToService, PodOf
  <2>3. PICK kind \in {"update", "invalid"} : kind = IF HasSubsets(y) THEN "update" ELSE "invalid"
    OBVIOUS
  <2>4. PICK w : w = Write(kind, t.cur, y, c.rv, ps, {})
    OBVIOUS
  <2>5. PICK u : u = Writing(t, "add", <<w>>)
    OBVIOUS
  <2>6. Become("danmep", u)
    BY <2>2, <2>3, <2>4, <2>5
  <2>7. {e} \in SUBSET DOMAIN DanmEps
    BY <1>7
  <2>8. y \in EndpointsType
    <3>1. DOMAIN pods \subseteq Pods /\ pods \in [DOMAIN pods -> PodState]
      BY <1>1 DEF TypeOK
    <3> QED BY <1>5, <2>7, <3>1, NewFacts
  <2>9. /\ w \in WriteType /\ w.kind = kind /\ w.svc = t.cur /\ w.eps = y /\ w.basis = c.rv
        /\ w.pods = {[pod |-> p, ready |-> pods[p].ready] : p \in ps}
    <3>1. PICK b \in Nat : b = c.rv
      BY <1>10
    <3>2. w = Write(kind, t.cur, y, b, ps, {})
      BY <2>4, <3>1
    <3>3. kind \in {"versioned", "update", "create", "invalid"} /\ ps \subseteq DOMAIN pods
      BY <2>1
    <3>4. w \in WriteType
      BY <1>1, <1>5, <2>8, <3>2, <3>3, WriteFacts
    <3>5. w.kind = kind /\ w.svc = t.cur /\ w.eps = y /\ w.basis = b
      BY <3>2, WriteFields
    <3>6. w.pods = {[pod |-> p, ready |-> pods[p].ready] : p \in ps}
      BY <3>2 DEF Write
    <3> QED BY <3>1, <3>4, <3>5, <3>6
  <2>10. Built(w, t.anno, {e})
    <3>1. \A d \in {e} : HasAddress(d) => PodOf(d) \in ps
      BY <2>1 DEF HasAddress, PodOf
    <3>2. w.kind # "versioned" /\ (w.kind = "invalid" => ~HasSubsets(y))
      BY <2>3, <2>9
    <3> QED BY <1>1, <1>5, <2>2, <2>7, <2>9, <3>1, <3>2, BuiltNew
  <2>11. Built(w, t.anno, {t.ev.obj})'
    <3>1. Built(w, t.anno, {t.ev.obj})
      BY <1>6, <2>10
    <3> QED BY <1>11, <3>1, BuiltKept
  <2>12. /\ w.basis <= endpoints'[w.svc].rv
         /\ w.basis = endpoints'[w.svc].rv => ~HasSubsets(endpoints'[w.svc])
    BY <1>9, <1>10, <1>11, <1>14, <2>9
  <2>13. w.kind \in {"update", "invalid"} /\ w.svc = t.cur /\ w \in WriteType
    BY <2>3, <2>9
  <2>14. /\ u \in Task("danmep") /\ TaskOf("danmep", u)' /\ u.pc = "put" /\ u.op = "add"
         /\ u.ev = t.ev /\ u.todo = t.todo /\ u.cur = t.cur
    BY <1>1, <1>3, <1>4, <2>5, <2>11, <2>12, <2>13, AddWrites
  <2> QED BY <1>2, <2>6, <2>14
<1> QED BY <1>13, <1>14

LEMMA AddToServiceSafe ==
    ASSUME SInv, AddToService
    PROVE  SInv'
<1>1. PICK u \in Task("danmep") :
         /\ Become("danmep", u) /\ TaskOf("danmep", u)'
         /\ u.ev = task["danmep"].ev
  BY AddToServiceEffect
<1>2. /\ "danmep" \in Handlers /\ ~At("danmep", "idle")
      /\ UNCHANGED <<objects, endpoints, cached, queue, panicked, changes>>
  BY DEF Handlers, AddToService, At
<1>3. (missed' \in BOOLEAN \/ missed' = missed) /\ (missed => missed')
  <2>1. PICK B : B = (DanmEps[task["danmep"].ev.obj].ip \in Ips(cached[task["danmep"].cur].notReady))
    OBVIOUS
  <2>2. missed' = (missed \/ B) \/ missed' = missed
    BY <2>1 DEF AddToService
  <2>3. missed \in BOOLEAN
    BY DEF SInv, TypeOK
  <2>4. CASE missed' = missed
    BY <2>3, <2>4
  <2>5. CASE missed' = (missed \/ B)
    BY <2>3, <2>5
  <2> QED BY <2>2, <2>4, <2>5
<1>4. missed' \in BOOLEAN /\ panicked' \in BOOLEAN /\ (panicked' => missed')
  BY <1>2, <1>3 DEF SInv, TypeOK, PanicsAfterMiss
<1> QED BY <1>1, <1>2, <1>3, <1>4, GoesOn

LEMMA PodWrites ==
    ASSUME NEW t \in Task("pod"), ~New(t).deleting, t.pc # "idle",
           NEW op \in {"touch", "status"}, op = "status" => Old(t).ready # New(t).ready,
           NEW ws \in Seq(WriteType),
           \A k : k.op = op /\ k.ev = t.ev => \A i \in DOMAIN ws : Derived(k, ws[i]),
           NEW u, u = Writing(t, op, ws)
    PROVE  /\ u \in Task("pod") /\ TaskOf("pod", u)
           /\ u.pc = "idle" \/ u.ev = t.ev
           /\ ws # <<>> => u.pc = "put" /\ u.op = op /\ u.writes = ws /\ u.ev = t.ev
<1>1. "pod" \in Handlers /\ op \in Pcs
  BY DEF Handlers, Pcs
<1>2. /\ t \in Task("pod") /\ ws \in Seq(WriteType) /\ u = Writing(t, op, ws)
  OBVIOUS
<1>3. CASE ws # <<>>
  <2>1. u = Puts(t, op, ws)
    BY ONLY <1>1, <1>2, <1>3, WritingFacts
  <2>2. u \in Task("pod") /\ u.pc = "put" /\ u.op = op /\ u.writes = ws /\ u.ev = t.ev
    BY ONLY <1>1, <1>2, <2>1, PutsFacts
  <2>3. New(u) = New(t) /\ Old(u) = Old(t)
    BY <2>2 DEF New, Old
  <2>4. \A i \in DOMAIN u.writes : Derived(u, u.writes[i])
    BY <2>2
  <2>5. TaskOf("pod", u)
    BY <1>3, <2>2, <2>3, <2>4 DEF TaskOf, PodTask
  <2> QED BY <2>2, <2>5
<1>4. CASE ws = <<>>
  <2>1. PICK d : d = Doing(t, op)
    OBVIOUS
  <2>2. u = After(d)
    <3>1. ~(ws # <<>> /\ Writing(t, op, ws) = Puts(t, op, ws))
      BY <1>4
    <3>2. \/ ws # <<>> /\ Writing(t, op, ws) = Puts(t, op, ws)
          \/ ws = <<>> /\ Writing(t, op, ws) = After(Doing(t, op))
      BY ONLY <1>1, <1>2, WritingFacts
    <3> QED BY <1>2, <2>1, <3>1, <3>2
  <2>3. d \in Task("pod") /\ d.op = op /\ d.ev = t.ev
    BY ONLY <1>1, <1>2, <2>1, DoingFacts
  <2>4. New(d) = New(t)
    BY <2>3 DEF New
  <2>5. AtEnd("pod", d)
    BY <2>3, <2>4 DEF AtEnd
  <2>6. TaskOf("pod", u)
    BY <1>1, <2>2, <2>3, <2>5, AfterTask
  <2>7. u \in Task("pod") /\ (u.pc = "idle" \/ u.ev = t.ev)
    BY ONLY <1>1, <2>2, <2>3, AfterFacts
  <2> QED BY <1>4, <2>6, <2>7
<1> QED BY <1>3, <1>4

LEMMA ImageFinite ==
    ASSUME NEW S, IsFiniteSet(S), NEW f, DOMAIN f = S
    PROVE  IsFiniteSet({f[x] : x \in S})
<1>1. PICK T : T = {f[x] : x \in S}
  OBVIOUS
<1>2. PICK g \in [S -> T] : \A x \in S : g[x] = f[x]
  <2>1. [x \in S |-> f[x]] \in [S -> T] /\ \A x \in S : [y \in S |-> f[y]][x] = f[x]
    BY <1>1
  <2> QED BY <2>1
<1>3. g \in Surjection(S, T)
  BY <1>1, <1>2 DEF Surjection
<1> QED BY <1>1, <1>3, FS_Surjection

\* The places of a Pod in the Endpoints of the Services.
TouchCopies(p) ==
    UNION {{[svc |-> s, at |-> i] : i \in PodAddresses(cached[s], p)} :
              s \in {s \in Services : HasSubsets(cached[s])}}

LEMMA CopiesFinite ==
    ASSUME TypeOK, NEW p
    PROVE  IsFiniteSet(TouchCopies(p)) /\ \A c \in TouchCopies(p) : c.svc \in Services
<1>1. ASSUME NEW s \in Services
      PROVE  IsFiniteSet({[svc |-> s, at |-> i] : i \in PodAddresses(cached[s], p)})
  <2>1. PICK n : n = Len(cached[s].ready) + Len(cached[s].notReady)
    OBVIOUS
  <2>2. n \in Nat
    <3>1. cached[s].ready \in Seq(Entry) /\ cached[s].notReady \in Seq(Entry)
      BY DEF TypeOK, EndpointsType
    <3>2. Len(cached[s].ready) \in Nat /\ Len(cached[s].notReady) \in Nat
      BY <3>1
    <3>3. PICK k \in Nat, m \in Nat : k = Len(cached[s].ready) /\ m = Len(cached[s].notReady)
      BY <3>2
    <3>4. n = k + m
      BY <2>1, <3>3
    <3>5. \A a, b \in Nat : a + b \in Nat
      OBVIOUS
    <3> QED BY <3>3, <3>4, <3>5, Zenon
  <2>3. PodAddresses(cached[s], p) \subseteq 1 .. n
    BY <2>1 DEF PodAddresses
  <2>4. PICK P : P = PodAddresses(cached[s], p) /\ IsFiniteSet(P)
    <3>1. IsFiniteSet(1 .. n)
      BY <2>2, FS_Interval
    <3> QED BY <2>3, <3>1, FS_Subset
  <2>5. PICK f : f = [i \in P |-> [svc |-> s, at |-> i]]
    OBVIOUS
  <2>6. DOMAIN f = P /\ \A i \in P : f[i] = [svc |-> s, at |-> i]
    BY <2>5
  <2>7. IsFiniteSet({f[i] : i \in P})
    BY <2>4, <2>6, ImageFinite
  <2>8. {f[i] : i \in P} = {[svc |-> s, at |-> i] : i \in P}
    BY <2>6
  <2> QED BY <2>4, <2>7, <2>8
<1>2. PICK hit : hit = {s \in Services : HasSubsets(cached[s])}
  OBVIOUS
<1>3. IsFiniteSet(hit) /\ hit \subseteq Services
  BY <1>2, SvcAssumption, FS_Subset
<1>4. PICK f : f = [s \in hit |-> {[svc |-> s, at |-> i] : i \in PodAddresses(cached[s], p)}]
  OBVIOUS
<1>5. DOMAIN f = hit /\ \A s \in hit : f[s] = {[svc |-> s, at |-> i] : i \in PodAddresses(cached[s], p)}
  BY <1>4
<1>6. PICK F : F = {f[s] : s \in hit}
  OBVIOUS
<1>7. IsFiniteSet(F)
  BY <1>3, <1>5, <1>6, ImageFinite
<1>8. \A T \in F : IsFiniteSet(T)
  BY <1>1, <1>3, <1>5, <1>6
<1>9. IsFiniteSet(UNION F)
  BY <1>7, <1>8, FS_UNION
<1>10. TouchCopies(p) = UNION F
  <2>1. {{[svc |-> s, at |-> i] : i \in PodAddresses(cached[s], p)} : s \in hit} = F
    BY <1>5, <1>6
  <2> QED BY <1>2, <2>1 DEF TouchCopies
<1>11. \A c \in UNION F : c.svc \in Services
  <2> TAKE c \in UNION F
  <2>1. PICK s \in hit : c \in f[s]
    BY <1>6
  <2>2. PICK i : c = [svc |-> s, at |-> i]
    BY <1>5, <2>1
  <2> QED BY <1>3, <2>2
<1> QED BY <1>9, <1>10, <1>11

TouchWrite(s, t) ==
    Write("versioned", s, UpdatePodRvInEps(cached[s], t.ev.obj, New(t)), cached[s].rv, {}, {})

LEMMA UpdatePodRvEffect ==
    ASSUME SInv, UpdatePodRv
    PROVE  \E u \in Task("pod") :
              /\ Become("pod", u) /\ TaskOf("pod", u)
              /\ u.pc = "idle" \/ u.ev = task["pod"].ev
<1>1. TypeOK /\ EventsTyped /\ "pod" \in Handlers /\ Copies
  BY DEF SInv, Handlers
<1>2. PICK t : t = task["pod"]
  OBVIOUS
<1>3. t \in Task("pod") /\ EventOf("pod", t.ev) /\ t.pc = "touch"
  BY <1>1, <1>2, TaskEvent DEF UpdatePodRv, At
<1>4. TaskOf("pod", t)
  BY <1>1, <1>2, TasksSplit DEF SInv, TaskFits
<1>5. ~New(t).deleting
  BY <1>3, <1>4 DEF TaskOf, PodTask
<1>6. PICK p, pod : p = t.ev.obj /\ pod = New(t)
  OBVIOUS
<1>7. pod \in PodState
  <2>1. t.ev.new # {}
    BY <1>3 DEF EventOf
  <2>2. New(t) \in Values["pod"]
    BY <1>1, <1>3, <2>1, EventValues
  <2> QED BY <1>6, <2>2 DEF Values
<1>8. PICK C : C = TouchCopies(p)
  OBVIOUS
<1>9. \E l \in SetToSeqs(TouchCopies(task["pod"].ev.obj)) :
         Become("pod", Writing(task["pod"], "touch", [i \in DOMAIN l |-> TouchWrite(l[i].svc, task["pod"])]))
  BY DEF UpdatePodRv, TouchCopies, TouchWrite
<1>10. PICK l \in SetToSeqs(C) : Become("pod", Writing(t, "touch", [i \in DOMAIN l |-> TouchWrite(l[i].svc, t)]))
  BY <1>2, <1>6, <1>8, <1>9
<1>11. IsFiniteSet(C) /\ \A c \in C : c.svc \in Services
  BY <1>1, <1>8, CopiesFinite
<1>12. ASSUME NEW s \in Services
       PROVE  TouchWrite(s, t) \in WriteType /\ \A k : k.op = "touch" /\ k.ev = t.ev => Derived(k, TouchWrite(s, t))
  <2>1. PICK c \in EndpointsType : c = cached[s]
    BY <1>1 DEF TypeOK
  <2>2. PICK x \in EndpointsType : x = endpoints[s]
    BY <1>1 DEF TypeOK
  <2>3. c.rv <= x.rv /\ (c.rv = x.rv => c = x)
    BY <1>1, <2>1, <2>2 DEF Copies
  <2>4. PICK y \in EndpointsType : y = UpdatePodRvInEps(c, p, pod)
    BY <1>7, TouchFacts
  <2>5. PICK b \in Nat : b = c.rv
    BY <2>1 DEF EndpointsType
  <2>6. PICK w : w = Write("versioned", s, y, b, {}, {})
    OBVIOUS
  <2>7. w \in WriteType
    BY <1>1, <2>6, WriteFacts
  <2>8. w.kind = "versioned" /\ w.svc = s /\ w.eps = y /\ w.basis = b
    BY <2>6, WriteFields
  <2>9. w = TouchWrite(s, t)
    BY <1>6, <2>1, <2>4, <2>5, <2>6 DEF TouchWrite
  <2>10. ASSUME NEW k, k.op = "touch", k.ev = t.ev
         PROVE  Derived(k, w)
    <3>1. New(k) = pod /\ k.ev.obj = p
      BY <1>6, <2>10 DEF New
    <3>2. w.basis = x.rv => w.eps = UpdatePodRvInEps(x, k.ev.obj, New(k))
      BY <2>3, <2>4, <2>5, <2>8, <3>1
    <3> QED BY <2>2, <2>3, <2>5, <2>8, <2>10, <3>2 DEF Derived
  <2> QED BY <2>7, <2>9, <2>10
<1>13. l \in Seq(C) /\ DOMAIN l = 1 .. Len(l) /\ Len(l) \in Nat
  BY <1>11, Orders
<1>14. \A i \in 1 .. Len(l) : l[i].svc \in Services
  BY <1>11, <1>13
<1>15. PICK ws : ws = [i \in DOMAIN l |-> TouchWrite(l[i].svc, t)]
  OBVIOUS
<1>16. /\ ws \in Seq(WriteType) /\ DOMAIN ws = 1 .. Len(l)
       /\ \A i \in 1 .. Len(l) : ws[i] = TouchWrite(l[i].svc, t)
  <2>1. ws \in [1 .. Len(l) -> WriteType] /\ \A i \in 1 .. Len(l) : ws[i] = TouchWrite(l[i].svc, t)
    BY <1>12, <1>13, <1>14, <1>15
  <2> QED BY <1>13, <2>1, SeqForm
<1>17. \A k : k.op = "touch" /\ k.ev = t.ev => \A i \in DOMAIN ws : Derived(k, ws[i])
  BY <1>12, <1>14, <1>16
<1>18. PICK u : u = Writing(t, "touch", ws)
  OBVIOUS
<1>19. u \in Task("pod") /\ TaskOf("pod", u) /\ (u.pc = "idle" \/ u.ev = t.ev)
  <2>1. t.pc # "idle" /\ ws \in Seq(WriteType) /\ t \in Task("pod")
    BY <1>3, <1>16
  <2>2. PICK op \in {"touch", "status"} : op = "touch"
    OBVIOUS
  <2>3. /\ op = "status" => Old(t).ready # New(t).ready
        /\ \A k : k.op = op /\ k.ev = t.ev => \A i \in DOMAIN ws : Derived(k, ws[i])
        /\ u = Writing(t, op, ws)
    BY <1>17, <1>18, <2>2
  <2> QED BY ONLY <1>5, <2>1, <2>2, <2>3, PodWrites
<1> QED BY <1>2, <1>10, <1>15, <1>18, <1>19

LEMMA UpdatePodRvSafe ==
    ASSUME SInv, UpdatePodRv
    PROVE  SInv'
<1>1. PICK u \in Task("pod") :
         /\ Become("pod", u) /\ TaskOf("pod", u)
         /\ u.pc = "idle" \/ u.ev = task["pod"].ev
  BY UpdatePodRvEffect
<1>2. /\ "pod" \in Handlers /\ ~At("pod", "idle")
      /\ UNCHANGED <<objects, endpoints, cached, queue, panicked, changes, missed>>
  BY DEF Handlers, UpdatePodRv, At
<1>3. TaskOf("pod", u)'
  BY <1>1, <1>2, TaskPrimed DEF objects
<1>4. missed' \in BOOLEAN /\ panicked' \in BOOLEAN /\ (panicked' => missed')
  BY <1>2 DEF SInv, TypeOK, PanicsAfterMiss
<1> QED BY <1>1, <1>2, <1>3, <1>4, GoesOn

\* The Services whose Endpoints UpdatePodStatus goes over, and what it makes of one.
StatusHit == {s \in DOMAIN svcs : HasSubsets(cached[s])}
StatusNew(s, t) == UpdatePodStatusInEps(cached[s], t.ev.obj, Old(t).ready, New(t).ready, svcs[s].early)
StatusWrite(s, x) ==
    [Write("versioned", s, x, cached[s].rv, {}, {}) EXCEPT !.early = {svcs[s].early}]

LEMMA StatusWriteFacts ==
    ASSUME SInv, NEW t \in Task("pod"), EventOf("pod", t.ev), NEW s \in DOMAIN svcs, NEW y \in StatusNew(s, t)
    PROVE  /\ StatusWrite(s, y) \in WriteType /\ StatusWrite(s, y).svc = s
           /\ \A k : k.op = "status" /\ k.ev = t.ev => Derived(k, StatusWrite(s, y))
<1>1. TypeOK /\ Copies /\ "pod" \in Handlers
  BY DEF SInv, Handlers
<1>2. PICK o, n \in PodState : o = Old(t) /\ n = New(t)
  <2>1. t.ev.new # {} /\ t.ev.old # {}
    BY DEF EventOf
  <2>2. New(t) \in Values["pod"]
    BY <1>1, <2>1, EventValues
  <2>3. Old(t) \in Values["pod"]
    BY <1>1, <2>1, EventValues
  <2> QED BY <2>2, <2>3 DEF Values
<1>3. s \in Services /\ svcs[s].early \in BOOLEAN
  <2>1. s \in Services /\ svcs[s] \in Annotations
    BY <1>1 DEF TypeOK
  <2> QED BY <2>1, SvcAssumption
<1>4. PICK b \in BOOLEAN : b = svcs[s].early
  BY <1>3
<1>5. PICK c \in EndpointsType : c = cached[s]
  BY <1>1, <1>3 DEF TypeOK
<1>6. PICK x \in EndpointsType : x = endpoints[s]
  BY <1>1, <1>3 DEF TypeOK
<1>7. c.rv <= x.rv /\ (c.rv = x.rv => c = x)
  BY <1>1, <1>3, <1>5, <1>6 DEF Copies
<1>8. o.ready \in BOOLEAN /\ n.ready \in BOOLEAN
  BY DEF PodState
<1>9. y \in UpdatePodStatusInEps(c, t.ev.obj, o.ready, n.ready, b)
  BY <1>2, <1>4, <1>5 DEF StatusNew
<1>10. y \in EndpointsType
  BY <1>8, <1>9, StatusFacts
<1>11. PICK r \in Nat : r = c.rv
  BY DEF EndpointsType
<1>12. PICK v : v = Write("versioned", s, y, r, {}, {})
  OBVIOUS
<1>13. v \in WriteType
  BY <1>1, <1>3, <1>10, <1>12, WriteFacts
<1>14. v.kind = "versioned" /\ v.svc = s /\ v.eps = y /\ v.basis = r
  BY <1>12, WriteFields
<1>15. PICK w : w = [v EXCEPT !.early = {b}]
  OBVIOUS
<1>16. /\ w \in WriteType /\ w.kind = "versioned" /\ w.svc = s /\ w.eps = y /\ w.basis = r
       /\ w.early = {b}
  BY <1>13, <1>14, <1>15 DEF WriteType
<1>17. w = StatusWrite(s, y)
  BY <1>4, <1>5, <1>11, <1>12, <1>15 DEF StatusWrite
<1>18. ASSUME NEW k, k.op = "status", k.ev = t.ev
       PROVE  Derived(k, w)
  <2>1. New(k) = n /\ Old(k) = o /\ k.ev.obj = t.ev.obj
    BY <1>2, <1>18 DEF New, Old
  <2>2. w.basis = x.rv => w.eps \in UpdatePodStatusInEps(x, k.ev.obj, Old(k).ready, New(k).ready, b)
    BY <1>7, <1>9, <1>11, <1>16, <2>1
  <2> QED BY <1>6, <1>7, <1>11, <1>16, <1>18, <2>2 DEF Derived
<1> QED BY <1>16, <1>17, <1>18

LEMMA UpdatePodStatusEffect ==
    ASSUME SInv, UpdatePodStatus
    PROVE  \E u \in Task("pod") :
              /\ Become("pod", u) /\ TaskOf("pod", u)
              /\ u.pc = "idle" \/ u.ev = task["pod"].ev
              /\ \A s \in StatusHit : u.ev = task["pod"].ev /\ u.pc = "put" /\ u.op = "status" /\ Writes(u, s)
              /\ missed' = (missed \/ PassesOver(StatusHit))
<1>1. TypeOK /\ EventsTyped /\ "pod" \in Handlers
  BY DEF SInv, Handlers
<1>2. PICK t : t = task["pod"]
  OBVIOUS
<1>3. t \in Task("pod") /\ EventOf("pod", t.ev) /\ t.pc = "status"
  BY <1>1, <1>2, TaskEvent DEF UpdatePodStatus, At
<1>4. TaskOf("pod", t)
  BY <1>1, <1>2, TasksSplit DEF SInv, TaskFits
<1>5. ~New(t).deleting /\ Old(t).ready # New(t).ready
  BY <1>3, <1>4 DEF TaskOf, PodTask
<1>6. PICK hit : hit = StatusHit
  OBVIOUS
<1>7. \E l \in SetToSeqs(StatusHit) :
      \E x \in [StatusHit -> UNION {StatusNew(s, task["pod"]) : s \in StatusHit}] :
         /\ \A s \in StatusHit : x[s] \in StatusNew(s, task["pod"])
         /\ Become("pod", Writing(task["pod"], "status", [i \in DOMAIN l |-> StatusWrite(l[i], x[l[i]])]))
         /\ missed' = (missed \/ PassesOver(StatusHit))
  BY DEF UpdatePodStatus, StatusHit, StatusNew, StatusWrite
<1>8. PICK l \in SetToSeqs(hit), x \in [hit -> UNION {StatusNew(s, t) : s \in hit}] :
         /\ \A s \in hit : x[s] \in StatusNew(s, t)
         /\ Become("pod", Writing(t, "status", [i \in DOMAIN l |-> StatusWrite(l[i], x[l[i]])]))
         /\ missed' = (missed \/ PassesOver(hit))
  BY <1>2, <1>6, <1>7
<1>9. hit \in SUBSET DOMAIN svcs /\ hit \in SUBSET Services
  BY <1>1, <1>6 DEF StatusHit, TypeOK
<1>10. ASSUME NEW s \in hit
       PROVE  /\ StatusWrite(s, x[s]) \in WriteType /\ StatusWrite(s, x[s]).svc = s
              /\ \A k : k.op = "status" /\ k.ev = t.ev => Derived(k, StatusWrite(s, x[s]))
  <2>1. PICK y \in StatusNew(s, t) : y = x[s]
    BY <1>8
  <2>2. s \in DOMAIN svcs
    BY <1>9
  <2> QED BY <1>3, <2>1, <2>2, StatusWriteFacts
<1>11. /\ l \in Seq(hit) /\ {l[i] : i \in 1 .. Len(l)} = hit /\ DOMAIN l = 1 .. Len(l) /\ Len(l) \in Nat
  <2>1. IsFiniteSet(hit)
    BY <1>9, SvcAssumption, FS_Subset
  <2>2. l \in Seq(hit) /\ {l[i] : i \in 1 .. Len(l)} = hit
    BY <2>1, Orders
  <2>3. DOMAIN l = 1 .. Len(l) /\ Len(l) \in Nat
    BY ONLY <2>2
  <2> QED BY ONLY <2>2, <2>3
<1>12. PICK ws : ws = [i \in DOMAIN l |-> StatusWrite(l[i], x[l[i]])]
  OBVIOUS
<1>13. \A i \in 1 .. Len(l) : l[i] \in hit
  BY <1>11
<1>14. /\ ws \in Seq(WriteType) /\ DOMAIN ws = 1 .. Len(l) /\ Len(ws) = Len(l)
       /\ \A i \in 1 .. Len(l) : ws[i] = StatusWrite(l[i], x[l[i]])
  <2>1. ws \in [1 .. Len(l) -> WriteType] /\ \A i \in 1 .. Len(l) : ws[i] = StatusWrite(l[i], x[l[i]])
    BY <1>10, <1>11, <1>12, <1>13
  <2> QED BY <1>11, <2>1, SeqForm
<1>15. \A k : k.op = "status" /\ k.ev = t.ev => \A i \in DOMAIN ws : Derived(k, ws[i])
  BY <1>10, <1>13, <1>14
<1>16. PICK u : u = Writing(t, "status", ws)
  OBVIOUS
<1>17. /\ u \in Task("pod") /\ TaskOf("pod", u) /\ (u.pc = "idle" \/ u.ev = t.ev)
       /\ ws # <<>> => u.pc = "put" /\ u.op = "status" /\ u.writes = ws /\ u.ev = t.ev
  <2>1. t.pc # "idle" /\ ws \in Seq(WriteType) /\ t \in Task("pod")
    BY <1>3, <1>14
  <2>2. PICK op \in {"touch", "status"} : op = "status"
    OBVIOUS
  <2>3. /\ op = "status" => Old(t).ready # New(t).ready
        /\ \A k : k.op = op /\ k.ev = t.ev => \A i \in DOMAIN ws : Derived(k, ws[i])
        /\ u = Writing(t, op, ws)
    BY <1>5, <1>15, <1>16, <2>2
  <2>4. /\ u \in Task("pod") /\ TaskOf("pod", u) /\ (u.pc = "idle" \/ u.ev = t.ev)
    BY ONLY <1>5, <2>1, <2>2, <2>3, PodWrites
  <2>5. ws # <<>> => u.pc = "put" /\ u.op = op /\ u.writes = ws /\ u.ev = t.ev
    BY ONLY <1>5, <2>1, <2>2, <2>3, PodWrites
  <2> QED BY <2>2, <2>4, <2>5
<1>18. ASSUME NEW s \in hit
       PROVE  u.ev = t.ev /\ u.pc = "put" /\ u.op = "status" /\ Writes(u, s)
  <2>1. PICK i \in 1 .. Len(l) : l[i] = s
    BY <1>11
  <2>2. ws # <<>>
    BY <1>11, <1>14, <2>1
  <2>3. i \in DOMAIN u.writes /\ u.writes[i] = StatusWrite(s, x[s])
    BY <1>14, <1>17, <2>1, <2>2
  <2>4. u.writes[i].svc = s
    BY <1>10, <2>3
  <2> QED BY <1>17, <2>2, <2>3, <2>4 DEF Writes
<1> QED BY <1>2, <1>6, <1>8, <1>12, <1>16, <1>17, <1>18

LEMMA UpdatePodStatusSafe ==
    ASSUME SInv, UpdatePodStatus
    PROVE  SInv'
<1>1. PICK u \in Task("pod") :
         /\ Become("pod", u) /\ TaskOf("pod", u)
         /\ u.pc = "idle" \/ u.ev = task["pod"].ev
         /\ missed' = (missed \/ PassesOver(StatusHit))
  BY UpdatePodStatusEffect
<1>2. /\ "pod" \in Handlers /\ ~At("pod", "idle")
      /\ UNCHANGED <<objects, endpoints, cached, queue, panicked, changes>>
  BY DEF Handlers, UpdatePodStatus, At
<1>3. missed' \in BOOLEAN /\ (missed => missed') /\ panicked' \in BOOLEAN /\ (panicked' => missed')
  BY <1>1, <1>2 DEF SInv, TypeOK, PanicsAfterMiss
<1>4. TaskOf("pod", u)'
  BY <1>1, <1>2, <1>3, TaskPrimed DEF objects
<1> QED BY <1>1, <1>2, <1>3, <1>4, GoesOn

LEMMA UpdateLabelsEffect ==
    ASSUME SInv, UpdateLabels
    PROVE  \E u \in Task("pod") :
              Become("pod", u) /\ TaskOf("pod", u) /\ (u.pc = "idle" \/ u.ev = task["pod"].ev)
<1>1. TypeOK /\ EventsTyped /\ "pod" \in Handlers
  BY DEF SInv, Handlers
<1>2. PICK t : t = task["pod"]
  OBVIOUS
<1>3. t \in Task("pod") /\ EventOf("pod", t.ev) /\ t.pc = "label"
  BY <1>1, <1>2, TaskEvent DEF UpdateLabels, At
<1>4. TaskOf("pod", t)
  BY <1>1, <1>2, TasksSplit DEF SInv, TaskFits
<1>5. ~New(t).deleting /\ t.writes = <<>>
  BY <1>3, <1>4 DEF TaskOf, PodTask
<1>6. PICK des : /\ des = {[ep |-> e, labels |-> danmEps[e]] : e \in {d \in DOMAIN danmEps : DanmEps[d].pod = t.ev.obj}}
                 /\ Become("pod", IF des = {} THEN Idle ELSE [t EXCEPT !.pc = "relabel", !.todo = des])
  BY <1>2 DEF UpdateLabels
<1>7. \E u \in Task("pod") : Become("pod", u) /\ TaskOf("pod", u) /\ (u.pc = "idle" \/ u.ev = t.ev)
  <2>1. CASE des = {}
    <3>1. Become("pod", Idle)
      BY <1>6, <2>1
    <3> QED BY <1>1, <3>1, IdleFacts, IdleTask
  <2>2. CASE des # {}
    <3>1. PICK u : u = [t EXCEPT !.pc = "relabel", !.todo = des]
      OBVIOUS
    <3>2. des \in SUBSET Todo["pod"] /\ "relabel" \in Pcs
      BY <1>1, <1>6 DEF TypeOK, Todo, Pcs
    <3>3. u \in Task("pod") /\ u.pc = "relabel" /\ u.ev = t.ev /\ u.writes = <<>>
      BY <1>3, <1>5, <3>1, <3>2 DEF Task
    <3>4. New(u) = New(t)
      BY <3>3 DEF New
    <3>5. TaskOf("pod", u)
      BY <1>5, <3>3, <3>4 DEF TaskOf, PodTask
    <3> QED BY <1>6, <2>2, <3>1, <3>3, <3>5
  <2> QED BY <2>1, <2>2
<1> QED BY <1>2, <1>7

LEMMA UpdateLabelsSafe ==
    ASSUME SInv, UpdateLabels
    PROVE  SInv'
<1>1. TypeOK /\ EventsTyped /\ "pod" \in Handlers
  BY DEF SInv, Handlers
<1>2. UNCHANGED <<objects, endpoints, cached, queue, panicked, changes, missed>> /\ ~At("pod", "idle")
  BY DEF UpdateLabels, At
<1>3. PICK u \in Task("pod") : Become("pod", u) /\ TaskOf("pod", u) /\ (u.pc = "idle" \/ u.ev = task["pod"].ev)
  BY UpdateLabelsEffect
<1>4. TaskOf("pod", u)'
  BY <1>1, <1>2, <1>3, TaskPrimed DEF objects
<1>5. missed' \in BOOLEAN /\ panicked' \in BOOLEAN /\ (panicked' => missed')
  BY <1>2 DEF SInv, TypeOK, PanicsAfterMiss
<1> QED BY <1>1, <1>2, <1>3, <1>4, <1>5, GoesOn

\* A goroutine that has something to write.
LEMMA PutFacts ==
    ASSUME SInv, NEW h \in Handlers, At(h, "put"), NEW t, t = task[h]
    PROVE  /\ t \in Task(h) /\ TaskOf(h, t) /\ EventOf(h, t.ev) /\ ~At(h, "idle") /\ t.pc = "put"
           /\ t.writes \in Seq(WriteType) /\ t.writes # <<>> /\ Len(t.writes) \in Nat \ {0}
           /\ DOMAIN t.writes = 1 .. Len(t.writes)
           /\ Current(h) = t.writes[1] /\ Current(h) \in WriteType
<1>1. TypeOK /\ EventsTyped
  BY DEF SInv
<1>2. t \in Task(h) /\ EventOf(h, t.ev) /\ t.pc = "put" /\ ~At(h, "idle")
  BY <1>1, TaskEvent DEF At
<1>3. TaskOf(h, t)
  BY <1>1, TasksSplit DEF SInv, TaskFits
<1>4. t.writes \in Seq(WriteType) /\ t.writes # <<>>
  BY <1>2, <1>3 DEF Task, TaskOf
<1>5. PICK ws \in Seq(WriteType) : ws = t.writes
  BY <1>4
<1>6. /\ Len(ws) \in Nat \ {0} /\ DOMAIN ws = 1 .. Len(ws)
      /\ Head(ws) = ws[1] /\ ws[1] \in WriteType
  BY <1>4, <1>5
<1> QED BY <1>2, <1>3, <1>4, <1>5, <1>6 DEF Current

LEMMA UpdateConflictsEffect ==
    ASSUME SInv, NEW h \in Handlers, UpdateConflicts(h)
    PROVE  \E u \in Task(h) :
              /\ Become(h, u) /\ TaskOf(h, u) /\ (u.pc = "idle" \/ u.ev = task[h].ev)
              /\ task[h].op # "del" => u = Goes(task[h], task[h].op)
              /\ h = "svc" => task[h].op # "del"
<1>1. PICK t : t = task[h]
  OBVIOUS
<1>2. At(h, "put")
  BY DEF UpdateConflicts
<1>3. t \in Task(h) /\ TaskOf(h, t) /\ t.pc = "put"
  BY <1>1, <1>2, PutFacts
<1>4. Become(h, IF t.op = "del" THEN After(t) ELSE Goes(t, t.op))
  BY <1>1 DEF UpdateConflicts, Goes
<1>5. h = "svc" => t.op = "svc"
  BY <1>3 DEF TaskOf, SvcTask
<1>6. CASE t.op = "del"
  <2>1. AtEnd(h, t)
    BY <1>3, PutEnds
  <2>2. After(t) \in Task(h) /\ (After(t).pc = "idle" \/ After(t).ev = t.ev)
    BY <1>3, AfterFacts
  <2>3. TaskOf(h, After(t))
    BY <1>3, <2>1, AfterTask
  <2> QED BY <1>1, <1>4, <1>5, <1>6, <2>2, <2>3
<1>7. CASE t.op # "del"
  <2>1. t.op \in {"svc", "add", "touch", "status"}
    BY <1>3, <1>7 DEF TaskOf, SvcTask, DanmEpTask, PodTask, Handlers
  <2>2. t.op \in Pcs
    BY <2>1 DEF Pcs
  <2>3. PICK u : u = Goes(t, t.op)
    OBVIOUS
  <2>4. u \in Task(h) /\ u.pc = t.op /\ u.writes = <<>> /\ u.ev = t.ev
    BY ONLY <1>3, <2>2, <2>3, GoesFacts
  <2>5. u.todo = t.todo /\ u.cur = t.cur /\ u.anno = t.anno
    BY ONLY <1>3, <2>2, <2>3, GoesFacts
  <2>6. New(u) = New(t) /\ Old(u) = Old(t)
    BY <2>4 DEF New, Old
  <2>7. TaskOf(h, u)
    BY <1>3, <2>1, <2>4, <2>5, <2>6 DEF TaskOf, SvcTask, DanmEpTask, PodTask, Adding, Chosen, Handlers
  <2> QED BY <1>1, <1>4, <1>5, <1>7, <2>3, <2>4, <2>7
<1> QED BY <1>6, <1>7

LEMMA UpdateConflictsSafe ==
    ASSUME SInv, NEW h \in Handlers, UpdateConflicts(h)
    PROVE  SInv'
<1>1. PICK u \in Task(h) : Become(h, u) /\ TaskOf(h, u) /\ (u.pc = "idle" \/ u.ev = task[h].ev)
  BY UpdateConflictsEffect
<1>2. /\ ~At(h, "idle") /\ missed' = (missed \/ task[h].op = "del")
      /\ UNCHANGED <<objects, endpoints, cached, queue, panicked, changes>>
  BY DEF UpdateConflicts, At
<1>3. missed' \in BOOLEAN /\ (missed => missed') /\ panicked' \in BOOLEAN /\ (panicked' => missed')
  BY <1>2 DEF SInv, TypeOK, PanicsAfterMiss
<1>4. TaskOf(h, u)'
  BY <1>1, <1>2, <1>3, TaskPrimed DEF objects
<1> QED BY <1>1, <1>2, <1>3, <1>4, GoesOn

LEMMA UpdateFailsEffect ==
    ASSUME SInv, NEW h \in Handlers, UpdateFails(h)
    PROVE  \E u \in Task(h) :
              /\ Become(h, u) /\ TaskOf(h, u) /\ (u.pc = "idle" \/ u.ev = task[h].ev)
              /\ u = After(task[h])
<1>1. PICK t : t = task[h]
  OBVIOUS
<1>2. At(h, "put") /\ Become(h, After(t))
  BY <1>1 DEF UpdateFails
<1>3. t \in Task(h) /\ TaskOf(h, t) /\ t.pc = "put"
  BY <1>1, <1>2, PutFacts
<1>4. AtEnd(h, t)
  BY <1>3, PutEnds
<1>5. After(t) \in Task(h) /\ (After(t).pc = "idle" \/ After(t).ev = t.ev)
  BY <1>3, AfterFacts
<1>6. TaskOf(h, After(t))
  BY <1>3, <1>4, AfterTask
<1> QED BY <1>1, <1>2, <1>5, <1>6

LEMMA UpdateFailsSafe ==
    ASSUME SInv, NEW h \in Handlers, UpdateFails(h)
    PROVE  SInv'
<1>1. PICK u \in Task(h) : Become(h, u) /\ TaskOf(h, u) /\ (u.pc = "idle" \/ u.ev = task[h].ev)
  BY UpdateFailsEffect
<1>2. /\ ~At(h, "idle") /\ missed' = (missed \/ Len(task[h].writes) > 1 \/ h = "svc")
      /\ UNCHANGED <<objects, endpoints, cached, queue, panicked, changes>>
  BY DEF UpdateFails, At
<1>3. missed' \in BOOLEAN /\ (missed => missed') /\ panicked' \in BOOLEAN /\ (panicked' => missed')
  BY <1>2 DEF SInv, TypeOK, PanicsAfterMiss
<1>4. TaskOf(h, u)'
  BY <1>1, <1>2, <1>3, TaskPrimed DEF objects
<1> QED BY <1>1, <1>2, <1>3, <1>4, GoesOn

-----------------------------------------------------------------------------
(* What others do                                                            *)

LEMMA EnvTypes ==
    ASSUME TypeOK, NEW s \in Services, NEW a \in Annotations, NEW e \in DOMAIN DanmEps, NEW l \in Labels
    PROVE  /\ DOMAIN With(svcs, s, a) = DOMAIN svcs \cup {s}
           /\ With(svcs, s, a)[s] = a
           /\ \A r \in DOMAIN svcs : r # s => With(svcs, s, a)[r] = svcs[r]
           /\ With(svcs, s, a) \in [DOMAIN svcs \cup {s} -> Annotations]
           /\ DOMAIN With(danmEps, e, l) = DOMAIN danmEps \cup {e}
           /\ With(danmEps, e, l)[e] = l
           /\ \A d \in DOMAIN danmEps : d # e => With(danmEps, e, l)[d] = danmEps[d]
           /\ With(danmEps, e, l) \in [DOMAIN danmEps \cup {e} -> Labels]
<1>1. \A r \in DOMAIN svcs : svcs[r] \in Annotations
  BY DEF TypeOK
<1>2. \A d \in DOMAIN danmEps : danmEps[d] \in Labels
  BY DEF TypeOK
<1>3. PICK f : f = With(svcs, s, a)
  OBVIOUS
<1>4. DOMAIN f = DOMAIN svcs \cup {s} /\ f[s] = a /\ \A r \in DOMAIN svcs : r # s => f[r] = svcs[r]
  BY <1>3 DEF With
<1>5. f \in [DOMAIN svcs \cup {s} -> Annotations]
  <2>1. f = [r \in DOMAIN svcs \cup {s} |-> f[r]]
    BY <1>3 DEF With
  <2>2. \A r \in DOMAIN svcs \cup {s} : f[r] \in Annotations
    BY <1>1, <1>4
  <2> QED BY <2>1, <2>2
<1>6. PICK g : g = With(danmEps, e, l)
  OBVIOUS
<1>7. DOMAIN g = DOMAIN danmEps \cup {e} /\ g[e] = l /\ \A d \in DOMAIN danmEps : d # e => g[d] = danmEps[d]
  BY <1>6 DEF With
<1>8. g \in [DOMAIN danmEps \cup {e} -> Labels]
  <2>1. g = [d \in DOMAIN danmEps \cup {e} |-> g[d]]
    BY <1>6 DEF With
  <2>2. \A d \in DOMAIN danmEps \cup {e} : g[d] \in Labels
    BY <1>2, <1>7
  <2> QED BY <2>1, <2>2
<1> QED BY <1>3, <1>4, <1>5, <1>6, <1>7, <1>8

LEMMA AnnounceStep ==
    ASSUME TypeOK, EventsTyped, NEW h \in Handlers, NEW ev, EventOf(h, ev),
           queue' = [queue EXCEPT ![h] = Append(@, ev)],
           task'[h] = task[h]
    PROVE  /\ DOMAIN queue' = Handlers /\ queue'[h] = Append(queue[h], ev)
           /\ \A g \in Handlers : queue'[g] \in Seq(Event(g)) /\ (g # h => queue'[g] = queue[g])
           /\ \A g \in Handlers : \A j \in DOMAIN queue[g] : j \in DOMAIN queue'[g] /\ queue'[g][j] = queue[g][j]
           /\ \E j \in DOMAIN queue'[h] : queue'[h][j] = ev
           /\ Events(h)' = Append(Events(h), ev)
           /\ \A j \in DOMAIN Events(h)' : EventOf(h, Events(h)'[j])
<1>1. /\ DOMAIN queue = Handlers /\ \A g \in Handlers : queue[g] \in Seq(Event(g))
      /\ task[h] \in Task(h)
  BY DEF TypeOK
<1>2. ev \in Event(h)
  BY DEF EventOf
<1>3. DOMAIN queue' = Handlers /\ queue'[h] = Append(queue[h], ev) /\ \A g \in Handlers : g # h => queue'[g] = queue[g]
  BY <1>1
<1>4. PICK q \in Seq(Event(h)) : q = queue[h]
  BY <1>1
<1>5. /\ Append(q, ev) \in Seq(Event(h)) /\ Len(q) \in Nat
      /\ DOMAIN q = 1 .. Len(q) /\ DOMAIN Append(q, ev) = 1 .. Len(q) + 1
      /\ Append(q, ev)[Len(q) + 1] = ev
      /\ \A j \in 1 .. Len(q) : j \in 1 .. Len(q) + 1 /\ j < Len(q) + 1 /\ Append(q, ev)[j] = q[j]
  BY <1>2, Appended
<1>6. \A g \in Handlers : queue'[g] \in Seq(Event(g))
  <2> TAKE g \in Handlers
  <2>1. CASE g = h
    BY <1>3, <1>4, <1>5, <2>1
  <2>2. CASE g # h
    BY <1>1, <1>3, <2>2
  <2> QED BY <2>1, <2>2
<1>7. \A g \in Handlers : \A j \in DOMAIN queue[g] : j \in DOMAIN queue'[g] /\ queue'[g][j] = queue[g][j]
  <2> TAKE g \in Handlers
  <2>1. CASE g = h
    BY <1>3, <1>4, <1>5, <2>1
  <2>2. CASE g # h
    BY <1>3, <2>2
  <2> QED BY <2>1, <2>2
<1>8. \E j \in DOMAIN queue'[h] : queue'[h][j] = ev
  <2>1. Len(q) + 1 \in DOMAIN Append(q, ev)
    BY <1>5
  <2> QED BY <1>3, <1>4, <1>5, <2>1
<1>9. PICK all : all = Events(h)
  OBVIOUS
<1>10. Events(h)' = Append(all, ev)
  <2>1. Events(h)' = Pending(task[h], Append(q, ev))
    BY <1>3, <1>4 DEF Events
  <2>2. Pending(task[h], Append(q, ev)) = Append(Pending(task[h], q), ev)
    BY <1>1, <1>2, PendingAppend
  <2> QED BY <1>4, <1>9, <2>1, <2>2 DEF Events
<1>11. all \in Seq(Event(h) \cup {NoEvent}) /\ \A j \in DOMAIN all : EventOf(h, all[j])
  BY <1>9, EventsFacts DEF EventsTyped
<1>12. PICK more : more = Append(all, ev)
  OBVIOUS
<1>13. \A j \in DOMAIN more : EventOf(h, more[j])
  <2>1. ev \in Event(h) \cup {NoEvent}
    BY <1>2
  <2>2. /\ DOMAIN all = 1 .. Len(all) /\ DOMAIN more = 1 .. Len(all) + 1
        /\ more[Len(all) + 1] = ev
        /\ \A j \in 1 .. Len(all) : more[j] = all[j]
        /\ \A j \in 1 .. Len(all) + 1 : j \in 1 .. Len(all) \/ j = Len(all) + 1
    BY <1>11, <1>12, <2>1, Appended
  <2> TAKE j \in DOMAIN more
  <2>3. j \in 1 .. Len(all) \/ j = Len(all) + 1
    BY <2>2
  <2> QED BY <1>11, <2>2, <2>3
<1> QED BY <1>3, <1>6, <1>7, <1>8, <1>9, <1>10, <1>12, <1>13

\* The parts of the invariant an action of others disturbs.
LEMMA EnvSafe ==
    ASSUME SInv, TypeOK', EventsTyped', Told', PodsStay', UNCHANGED <<cached, task, panicked, missed>>,
           DOMAIN pods' \subseteq DOMAIN pods,
           \A s \in Services :
              \/ endpoints'[s] = endpoints[s]
              \/ /\ endpoints'[s].rv \in Nat /\ endpoints'[s].rv > endpoints[s].rv
                 /\ Unique(endpoints'[s])
    PROVE  SInv'
<1>1. TypeOK
  BY DEF SInv
<1>2. Tasks'
  <2>1. \A g \in Handlers : TaskFits(g)
    BY TasksSplit DEF SInv
  <2>2. ASSUME NEW g \in Handlers PROVE TaskFits(g)'
    <3>1. task'[g] = task[g] /\ TaskFits(g) /\ missed' = missed
      BY <2>1
    <3> QED BY <1>1, <3>1, TaskKept
  <2> QED BY <2>2, TasksSplit DEF Tasks, TaskFits, TaskOf, Handlers
<1>3. Copies'
  <2> SUFFICES ASSUME NEW s \in Services
               PROVE  /\ cached[s].rv <= endpoints'[s].rv
                      /\ cached[s].rv = endpoints'[s].rv => cached[s] = endpoints'[s]
    BY DEF Copies
  <2>1. cached[s].rv \in Nat /\ endpoints[s].rv \in Nat
    BY <1>1 DEF TypeOK, EndpointsType
  <2>2. cached[s].rv <= endpoints[s].rv /\ (cached[s].rv = endpoints[s].rv => cached[s] = endpoints[s])
    BY DEF SInv, Copies
  <2> QED BY <2>1, <2>2
<1>4. Uniques'
  BY DEF SInv, Uniques, Unique, OneEach
<1> QED BY <1>2, <1>3, <1>4 DEF SInv, PanicsAfterMiss

NewEvent(obj, old, new) == [obj |-> obj, old |-> old, new |-> new]

LEMMA Announcing ==
    ASSUME NEW h \in Handlers, NEW obj \in Objects[h], NEW old \in SUBSET Values[h], NEW new \in SUBSET Values[h],
           new = {} \/ One(new), old = {} \/ One(old),
           h = "svc" => new # {},
           h = "danmep" => ~(old = {} /\ new = {}),
           h = "pod" => old # {} /\ new # {}
    PROVE  /\ EventOf(h, NewEvent(obj, old, new)) /\ NewEvent(obj, old, new).obj = obj
           /\ NewEvent(obj, old, new).old = old /\ NewEvent(obj, old, new).new = new
<1>1. PICK ev : ev = NewEvent(obj, old, new)
  OBVIOUS
<1>2. ev \in Event(h) /\ ev.obj = obj /\ ev.old = old /\ ev.new = new
  BY <1>1 DEF Event, NewEvent
<1>3. EventOf(h, ev)
  BY <1>2 DEF EventOf
<1> QED BY <1>1, <1>2, <1>3

\* The other goroutines' changes are as they were.
LEMMA OtherEvents ==
    ASSUME EventsTyped, NEW h \in Handlers, UNCHANGED task, \A g \in Handlers : g # h => queue'[g] = queue[g],
           \A j \in DOMAIN Events(h)' : EventOf(h, Events(h)'[j])
    PROVE  EventsTyped' /\ \A g \in Handlers : g # h => Events(g)' = Events(g)
<1>1. \A g \in Handlers : g # h => Events(g)' = Events(g)
  BY DEF Events
<1>2. \A g \in Handlers : \A j \in DOMAIN Events(g)' : EventOf(g, Events(g)'[j])
  BY <1>1 DEF EventsTyped
<1> QED BY <1>1, <1>2 DEF EventsTyped

LEMMA WriteSvcSafe ==
    ASSUME SInv, NEW s \in Services, WriteSvc(s)
    PROVE  SInv'
<1>1. TypeOK /\ EventsTyped /\ Told /\ "svc" \in Handlers
  BY DEF SInv, Handlers
<1>2. UNCHANGED <<pods, danmEps, endpoints, cached, task, panicked, missed>> /\ changes' = changes + 1
  BY DEF WriteSvc, Others, Change
<1>3. PICK a \in Annotations :
         /\ svcs' = With(svcs, s, a)
         /\ Announce("svc", s, IF s \in DOMAIN svcs THEN {svcs[s]} ELSE {}, {a})
  BY DEF WriteSvc
<1>4. PICK old : old = IF s \in DOMAIN svcs THEN {svcs[s]} ELSE {}
  OBVIOUS
<1>5. old \in SUBSET Values["svc"] /\ {a} \in SUBSET Values["svc"] /\ s \in Objects["svc"]
  BY <1>1, <1>4 DEF TypeOK, Values, Objects
<1>6. PICK ev : /\ EventOf("svc", ev) /\ ev.obj = s /\ ev.old = old /\ ev.new = {a}
                /\ queue' = [queue EXCEPT !["svc"] = Append(@, ev)]
  <2>1. PICK new : new = {a}
    OBVIOUS
  <2>2. (old = {} \/ One(old)) /\ One(new) /\ new # {}
    BY <1>4, <2>1 DEF One
  <2>3. Announce("svc", s, old, new) /\ new \in SUBSET Values["svc"]
    BY <1>3, <1>4, <1>5, <2>1
  <2>4. PICK ev : ev = NewEvent(s, old, new)
    OBVIOUS
  <2>5. EventOf("svc", ev) /\ ev.obj = s /\ ev.old = old /\ ev.new = new
    BY <1>1, <1>5, <2>2, <2>3, <2>4, Announcing
  <2>6. queue' = [queue EXCEPT !["svc"] = Append(@, ev)]
    BY <2>3, <2>4 DEF Announce, NewEvent
  <2> QED BY <2>1, <2>5, <2>6
<1>7. task'["svc"] = task["svc"]
  BY <1>2
<1>8. /\ DOMAIN queue' = Handlers
      /\ \A g \in Handlers : queue'[g] \in Seq(Event(g)) /\ (g # "svc" => queue'[g] = queue[g])
      /\ \A j \in DOMAIN Events("svc")' : EventOf("svc", Events("svc")'[j])
  BY <1>1, <1>6, <1>7, AnnounceStep
<1>9. Events("svc")' = Append(Events("svc"), ev)
  BY <1>1, <1>6, <1>7, AnnounceStep
<1>10. EventsTyped' /\ \A g \in Handlers : g # "svc" => Events(g)' = Events(g)
  BY <1>1, <1>2, <1>8, OtherEvents
<1>11. /\ DOMAIN svcs' = DOMAIN svcs \cup {s} /\ svcs'[s] = a
       /\ \A r \in DOMAIN svcs : r # s => svcs'[r] = svcs[r]
       /\ svcs' \in [DOMAIN svcs' -> Annotations]
  BY <1>3, <1>1 DEF With, TypeOK
<1>12. TypeOK'
  BY <1>1, <1>2, <1>8, <1>11 DEF TypeOK
<1>13. Told'
  <2>1. PICK q \in Seq(Event("svc") \cup {NoEvent}) : q = Events("svc")
    BY <1>1, EventsFacts
  <2>2. ev \in Event("svc") \cup {NoEvent}
    BY <1>6 DEF EventOf
  <2>3. ASSUME NEW r \in DOMAIN svcs' PROVE SvcTold(Append(q, ev), r, {svcs'[r]})
    <3>1. CASE r # s
      <4>1. SvcTold(q, r, {svcs'[r]}) /\ ev.obj # r
        BY <1>1, <1>6, <1>11, <2>1, <2>3, <3>1 DEF Told
      <4> QED BY <2>2, <4>1, ToldAppend
    <3>2. CASE r = s /\ Due(ev)
      <4>1. ev.obj = r /\ Due(ev) /\ ev.new = {svcs'[r]}
        BY <1>6, <1>11, <3>2
      <4>2. SvcTold(Append(q, ev), r, ev.new)
        BY <2>2, <4>1, ToldAppend
      <4> QED BY <4>1, <4>2
    <3>3. CASE r = s /\ ~Due(ev)
      <4>1. s \in DOMAIN svcs /\ svcs[s] = a
        BY <1>4, <1>6, <3>3 DEF Due, SvcChanged
      <4>2. SvcTold(q, r, {svcs'[r]}) /\ ~Due(ev)
        BY <1>1, <1>11, <2>1, <3>3, <4>1 DEF Told
      <4> QED BY <2>2, <4>2, ToldAppend
    <3> QED BY <3>1, <3>2, <3>3
  <2>4. \A r \in DOMAIN svcs' : SvcTold(Events("svc")', r, {svcs'[r]})
    BY <1>9, <2>1, <2>3
  <2>5. \A e \in DOMAIN DanmEps : DanmEpTold(Events("danmep")', e, DanmEpState(e)')
    BY <1>1, <1>2, <1>10 DEF Told, Handlers, DanmEpState
  <2>6. \A p \in DOMAIN pods' : ~pods'[p].deleting => PodTold(Events("pod")', p, pods'[p].ready)
    BY <1>1, <1>2, <1>10 DEF Told, Handlers
  <2> QED BY <2>4, <2>5, <2>6 DEF Told
<1>14. PodsStay'
  BY <1>2 DEF SInv, PodsStay
<1> QED BY <1>2, <1>10, <1>12, <1>13, <1>14, EnvSafe

LEMMA DeleteSvcSafe ==
    ASSUME SInv, NEW s \in Services, DeleteSvc(s)
    PROVE  SInv'
<1>1. TypeOK /\ EventsTyped /\ Told
  BY DEF SInv
<1>2. UNCHANGED <<pods, danmEps, cached, queue, task, panicked, missed>> /\ changes' = changes + 1
  BY DEF DeleteSvc, Change
<1>3. DOMAIN svcs' = DOMAIN svcs \ {s} /\ \A r \in DOMAIN svcs' : svcs'[r] = svcs[r]
  BY DEF DeleteSvc, Without
<1>4. svcs' \in [DOMAIN svcs' -> Annotations]
  BY <1>1 DEF DeleteSvc, Without, TypeOK
<1>5. PICK x : x = [NoEndpoints EXCEPT !.rv = endpoints[s].rv + 1]
  OBVIOUS
<1>6. endpoints[s].rv \in Nat
  BY <1>1 DEF TypeOK, EndpointsType
<1>7. x \in EndpointsType /\ x.rv = endpoints[s].rv + 1 /\ x.ready = <<>> /\ x.notReady = <<>>
  <2>1. x = [exists |-> FALSE, anno |-> NoAnnotation, ready |-> <<>>, notReady |-> <<>>, rv |-> endpoints[s].rv + 1]
    BY <1>5 DEF NoEndpoints
  <2>2. <<>> \in Seq(Entry) /\ endpoints[s].rv + 1 \in Nat
    BY <1>6
  <2> QED BY <2>1, <2>2 DEF EndpointsType
<1>8. endpoints' = [endpoints EXCEPT ![s] = x]
  BY <1>5 DEF DeleteSvc
<1>9. endpoints' \in [Services -> EndpointsType] /\ endpoints'[s] = x /\ \A r \in Services : r # s => endpoints'[r] = endpoints[r]
  BY <1>1, <1>7, <1>8 DEF TypeOK
<1>10. \A r \in Services : \/ endpoints'[r] = endpoints[r]
                           \/ /\ endpoints'[r].rv \in Nat /\ endpoints'[r].rv > endpoints[r].rv
                              /\ Unique(endpoints'[r])
  <2>1. x.rv \in Nat /\ x.rv > endpoints[s].rv
    BY <1>6, <1>7
  <2>2. Unique(x)
    BY <1>7 DEF Unique, OneEach
  <2> QED BY <1>9, <2>1, <2>2
<1>11. TypeOK'
  <2>1. \A r \in Services : cached'[r].rv <= endpoints'[r].rv
    <3> TAKE r \in Services
    <3>1. cached[r].rv \in Nat /\ endpoints[r].rv \in Nat /\ cached[r].rv <= endpoints[r].rv
      BY <1>1 DEF TypeOK, EndpointsType
    <3> QED BY <1>2, <1>10, <3>1
  <2> QED BY <1>1, <1>2, <1>3, <1>4, <1>9, <2>1 DEF TypeOK
<1>12. EventsTyped' /\ \A g \in Handlers : Events(g)' = Events(g)
  BY <1>1, <1>2 DEF EventsTyped, Events
<1>13. Told'
  <2>1. \A r \in DOMAIN svcs' : SvcTold(Events("svc")', r, {svcs'[r]})
    BY <1>1, <1>3, <1>12 DEF Told, Handlers
  <2>2. \A e \in DOMAIN DanmEps : DanmEpTold(Events("danmep")', e, DanmEpState(e)')
    BY <1>1, <1>2, <1>12 DEF Told, Handlers, DanmEpState
  <2>3. \A p \in DOMAIN pods' : ~pods'[p].deleting => PodTold(Events("pod")', p, pods'[p].ready)
    BY <1>1, <1>2, <1>12 DEF Told, Handlers
  <2> QED BY <2>1, <2>2, <2>3 DEF Told
<1>14. PodsStay'
  BY <1>2 DEF SInv, PodsStay
<1> QED BY <1>2, <1>10, <1>11, <1>12, <1>13, <1>14, EnvSafe

LEMMA DanmEpChanged ==
    ASSUME SInv, NEW e \in DOMAIN DanmEps, NEW old, old = DanmEpState(e), NEW new, new = DanmEpState(e)',
           \A d \in DOMAIN DanmEps : d # e => DanmEpState(d)' = DanmEpState(d),
           old # {} \/ new # {}, new \in SUBSET Labels,
           Announce("danmep", e, old, new), task'["danmep"] = task["danmep"]
    PROVE  /\ DOMAIN queue' = Handlers
           /\ \A g \in Handlers : queue'[g] \in Seq(Event(g)) /\ (g # "danmep" => queue'[g] = queue[g])
           /\ \A j \in DOMAIN Events("danmep")' : EventOf("danmep", Events("danmep")'[j])
           /\ \A d \in DOMAIN DanmEps : DanmEpTold(Events("danmep")', d, DanmEpState(d)')
<1>1. TypeOK /\ EventsTyped /\ Told /\ "danmep" \in Handlers
  BY DEF SInv, Handlers
<1>2. old \in SUBSET Values["danmep"] /\ new \in SUBSET Values["danmep"] /\ e \in Objects["danmep"]
  BY <1>1 DEF TypeOK, Values, Objects, DanmEpState
<1>3. (old = {} \/ One(old)) /\ (new = {} \/ One(new)) /\ ~(old = {} /\ new = {})
  BY DEF DanmEpState, One
<1>4. PICK ev : ev = NewEvent(e, old, new)
  OBVIOUS
<1>5. EventOf("danmep", ev) /\ ev.obj = e /\ ev.old = old /\ ev.new = new
  BY <1>1, <1>2, <1>3, <1>4, Announcing
<1>6. queue' = [queue EXCEPT !["danmep"] = Append(@, ev)]
  BY <1>4 DEF Announce, NewEvent
<1>7. /\ DOMAIN queue' = Handlers
      /\ \A g \in Handlers : queue'[g] \in Seq(Event(g)) /\ (g # "danmep" => queue'[g] = queue[g])
      /\ \A j \in DOMAIN Events("danmep")' : EventOf("danmep", Events("danmep")'[j])
  BY <1>1, <1>5, <1>6, AnnounceStep
<1>8. Events("danmep")' = Append(Events("danmep"), ev)
  BY <1>1, <1>5, <1>6, AnnounceStep
<1>9. PICK q \in Seq(Event("danmep") \cup {NoEvent}) : q = Events("danmep")
  BY <1>1, EventsFacts
<1>10. ev \in Event("danmep") \cup {NoEvent}
  BY <1>5 DEF EventOf
<1>11. ASSUME NEW d \in DOMAIN DanmEps PROVE DanmEpTold(Append(q, ev), d, DanmEpState(d)')
  <2>1. CASE d # e
    <3>1. DanmEpTold(q, d, DanmEpState(d)') /\ ev.obj # d
      BY <1>1, <1>5, <1>9, <2>1 DEF Told
    <3> QED BY <1>10, <3>1, ToldAppend
  <2>2. CASE d = e
    <3>1. DanmEpTold(q, d, ev.old) /\ ev.obj = d /\ ev.new = DanmEpState(d)'
      BY <1>1, <1>5, <1>9, <2>2 DEF Told
    <3>2. DanmEpTold(Append(q, ev), d, ev.new)
      BY <1>10, <3>1, ToldAppend
    <3> QED BY <3>1, <3>2
  <2> QED BY <2>1, <2>2
<1>12. \A d \in DOMAIN DanmEps : DanmEpTold(Events("danmep")', d, DanmEpState(d)')
  BY <1>8, <1>9, <1>11
<1> QED BY <1>7, <1>12

LEMMA SameEndpoints ==
    ASSUME UNCHANGED endpoints
    PROVE  \A s \in Services :
              \/ endpoints'[s] = endpoints[s]
              \/ /\ endpoints'[s].rv \in Nat /\ endpoints'[s].rv > endpoints[s].rv
                 /\ Unique(endpoints'[s])
OBVIOUS

LEMMA ChangeDanmEpSafe ==
    ASSUME SInv, NEW e \in DOMAIN DanmEps, CreateDanmEp(e) \/ DeleteDanmEp(e)
    PROVE  SInv'
<1>1. TypeOK /\ EventsTyped /\ Told /\ "danmep" \in Handlers
  BY DEF SInv, Handlers
<1>2. UNCHANGED <<pods, svcs, endpoints, cached, task, panicked, missed>> /\ changes' = changes + 1
  BY DEF CreateDanmEp, DeleteDanmEp, Others, Change
<1>3. PICK old, new :
         /\ old = DanmEpState(e) /\ new = DanmEpState(e)' /\ (old # {} \/ new # {}) /\ new \in SUBSET Labels
         /\ Announce("danmep", e, old, new)
         /\ DOMAIN danmEps' \subseteq DOMAIN DanmEps /\ danmEps' \in [DOMAIN danmEps' -> Labels]
         /\ \A d \in DOMAIN DanmEps : d # e => DanmEpState(d)' = DanmEpState(d)
         /\ PodsStay'
  <2>1. CASE CreateDanmEp(e)
    <3>1. PICK l : /\ l = pods[PodOf(e)].labels /\ PodOf(e) \in DOMAIN pods
                   /\ danmEps' = With(danmEps, e, l) /\ Announce("danmep", e, {}, {l}) /\ e \notin DOMAIN danmEps
      BY <2>1 DEF CreateDanmEp, PodOf
    <3>2. l \in Labels
      BY <1>1, <3>1 DEF TypeOK, PodState
    <3>3. /\ DOMAIN danmEps' = DOMAIN danmEps \cup {e} /\ danmEps'[e] = l
          /\ \A d \in DOMAIN danmEps : d # e => danmEps'[d] = danmEps[d]
          /\ danmEps' \in [DOMAIN danmEps' -> Labels]
      BY <1>1, <3>1, <3>2 DEF With, TypeOK
    <3>4. DanmEpState(e) = {} /\ DanmEpState(e)' = {l} /\ {l} \in SUBSET Labels
      BY <3>1, <3>2, <3>3 DEF DanmEpState
    <3>5. \A d \in DOMAIN DanmEps : d # e => DanmEpState(d)' = DanmEpState(d)
      BY <3>3 DEF DanmEpState
    <3>6. PodsStay'
      BY <1>2, <3>1, <3>3 DEF SInv, PodsStay
    <3>7. DOMAIN danmEps' \subseteq DOMAIN DanmEps
      BY <1>1, <3>3 DEF TypeOK
    <3> QED BY <3>1, <3>3, <3>4, <3>5, <3>6, <3>7
  <2>2. CASE DeleteDanmEp(e)
    <3>1. e \in DOMAIN danmEps /\ danmEps' = Without(danmEps, e) /\ Announce("danmep", e, {danmEps[e]}, {})
      BY <2>2 DEF DeleteDanmEp
    <3>2. /\ DOMAIN danmEps' = DOMAIN danmEps \ {e}
          /\ \A d \in DOMAIN danmEps : d # e => danmEps'[d] = danmEps[d]
          /\ danmEps' \in [DOMAIN danmEps' -> Labels]
      BY <1>1, <3>1 DEF Without, TypeOK
    <3>3. DanmEpState(e) = {danmEps[e]} /\ DanmEpState(e)' = {}
      BY <3>1, <3>2 DEF DanmEpState
    <3>4. \A d \in DOMAIN DanmEps : d # e => DanmEpState(d)' = DanmEpState(d)
      BY <3>2 DEF DanmEpState
    <3>5. PodsStay'
      BY <1>2, <3>2 DEF SInv, PodsStay
    <3>6. DOMAIN danmEps' \subseteq DOMAIN DanmEps
      BY <1>1, <3>2 DEF TypeOK
    <3> QED BY <3>1, <3>2, <3>3, <3>4, <3>5, <3>6
  <2> QED BY <2>1, <2>2
<1>4. task'["danmep"] = task["danmep"]
  BY <1>2
<1>5. /\ DOMAIN queue' = Handlers
      /\ \A g \in Handlers : queue'[g] \in Seq(Event(g)) /\ (g # "danmep" => queue'[g] = queue[g])
      /\ \A j \in DOMAIN Events("danmep")' : EventOf("danmep", Events("danmep")'[j])
      /\ \A d \in DOMAIN DanmEps : DanmEpTold(Events("danmep")', d, DanmEpState(d)')
  BY <1>3, <1>4, DanmEpChanged
<1>6. EventsTyped' /\ \A g \in Handlers : g # "danmep" => Events(g)' = Events(g)
  BY <1>1, <1>2, <1>5, OtherEvents
<1>7. TypeOK'
  BY <1>1, <1>2, <1>3, <1>5 DEF TypeOK
<1>8. Told'
  <2>1. \A r \in DOMAIN svcs' : SvcTold(Events("svc")', r, {svcs'[r]})
    BY <1>1, <1>2, <1>6 DEF Told, Handlers
  <2>2. \A p \in DOMAIN pods' : ~pods'[p].deleting => PodTold(Events("pod")', p, pods'[p].ready)
    BY <1>1, <1>2, <1>6 DEF Told, Handlers
  <2> QED BY <1>5, <2>1, <2>2 DEF Told
<1> QED BY <1>2, <1>3, <1>6, <1>7, <1>8, SameEndpoints, EnvSafe

LEMMA ChangePodSafe ==
    ASSUME SInv, NEW p \in Pods, ChangePod(p)
    PROVE  SInv'
<1>1. TypeOK /\ EventsTyped /\ Told /\ "pod" \in Handlers
  BY DEF SInv, Handlers
<1>2. /\ UNCHANGED <<svcs, danmEps, endpoints, cached, task, panicked, missed>> /\ changes' = changes + 1
      /\ p \in DOMAIN pods
  BY DEF ChangePod, Others, Change
<1>3. PICK n : /\ n \in PodState /\ n.labels \in Labels /\ (pods[p].deleting => n.deleting)
               /\ pods' = [pods EXCEPT ![p] = n]
               /\ Announce("pod", p, {pods[p]}, {pods'[p]})
  <2>1. PICK r \in BOOLEAN, d \in BOOLEAN, l \in Labels :
           /\ pods[p].deleting => d
           /\ pods' = [pods EXCEPT ![p] = [ready |-> r, labels |-> l, deleting |-> d, rv |-> @.rv + 1]]
    BY DEF ChangePod
  <2>2. PICK n : n = [ready |-> r, labels |-> l, deleting |-> d, rv |-> pods[p].rv + 1]
    OBVIOUS
  <2>3. pods[p].rv \in Nat
    BY <1>1, <1>2 DEF TypeOK, PodState
  <2>4. n \in PodState /\ n.deleting = d /\ n.labels \in Labels
    BY <2>2, <2>3 DEF PodState
  <2>5. Announce("pod", p, {pods[p]}, {pods'[p]})
    BY DEF ChangePod
  <2>6. pods' = [pods EXCEPT ![p] = n]
    BY <2>1, <2>2
  <2> QED BY <2>1, <2>4, <2>5, <2>6
<1>4. /\ DOMAIN pods' = DOMAIN pods /\ pods'[p] = n /\ \A o \in DOMAIN pods : o # p => pods'[o] = pods[o]
      /\ pods' \in [DOMAIN pods' -> PodState]
  BY <1>1, <1>2, <1>3 DEF TypeOK
<1>5. PICK old, new : old = {pods[p]} /\ new = {n}
  OBVIOUS
<1>6. PICK ev : ev = NewEvent(p, old, new)
  OBVIOUS
<1>7. EventOf("pod", ev) /\ ev.obj = p /\ ev.old = old /\ ev.new = new
  <2>1. old \in SUBSET Values["pod"] /\ new \in SUBSET Values["pod"] /\ p \in Objects["pod"]
    BY <1>1, <1>2, <1>3, <1>5 DEF TypeOK, Values, Objects
  <2>2. One(old) /\ One(new) /\ old # {} /\ new # {}
    BY <1>5 DEF One
  <2> QED BY <1>1, <1>6, <2>1, <2>2, Announcing
<1>8. queue' = [queue EXCEPT !["pod"] = Append(@, ev)]
  BY <1>3, <1>4, <1>5, <1>6 DEF Announce, NewEvent
<1>9. task'["pod"] = task["pod"]
  BY <1>2
<1>10. /\ DOMAIN queue' = Handlers
       /\ \A g \in Handlers : queue'[g] \in Seq(Event(g)) /\ (g # "pod" => queue'[g] = queue[g])
       /\ \A j \in DOMAIN Events("pod")' : EventOf("pod", Events("pod")'[j])
  BY <1>1, <1>7, <1>8, <1>9, AnnounceStep
<1>11. Events("pod")' = Append(Events("pod"), ev)
  BY <1>1, <1>7, <1>8, <1>9, AnnounceStep
<1>12. EventsTyped' /\ \A g \in Handlers : g # "pod" => Events(g)' = Events(g)
  BY <1>1, <1>2, <1>10, OtherEvents
<1>13. TypeOK'
  BY <1>1, <1>2, <1>3, <1>4, <1>10 DEF TypeOK
<1>14. Told'
  <2>1. PICK q \in Seq(Event("pod") \cup {NoEvent}) : q = Events("pod")
    BY <1>1, EventsFacts
  <2>2. ev \in Event("pod") \cup {NoEvent}
    BY <1>7 DEF EventOf
  <2>3. ASSUME NEW o \in DOMAIN pods, ~pods'[o].deleting
        PROVE  PodTold(Append(q, ev), o, pods'[o].ready)
    <3>1. CASE o # p
      <4>1. PodTold(q, o, pods'[o].ready) /\ ev.obj # o
        BY <1>1, <1>4, <1>7, <2>1, <2>3, <3>1 DEF Told
      <4> QED BY <2>2, <4>1, ToldAppend
    <3>2. CASE o = p /\ Turns(ev)
      <4>1. ev.obj = o /\ Turns(ev) /\ \A m \in ev.new : m.ready = pods'[o].ready
        BY <1>4, <1>5, <1>7, <3>2
      <4> QED BY <2>2, <4>1, ToldAppend
    <3>3. CASE o = p /\ ~Turns(ev)
      <4>1. ~n.deleting /\ ~pods[p].deleting
        BY <1>2, <1>3, <1>4, <2>3, <3>3
      <4>2. pods[p].ready = n.ready
        BY <1>5, <1>7, <3>3, <4>1 DEF Turns
      <4>3. PodTold(q, o, pods'[o].ready)
        BY <1>1, <1>2, <1>4, <2>1, <3>3, <4>1, <4>2 DEF Told
      <4> QED BY <2>2, <3>3, <4>3, ToldAppend
    <3> QED BY <3>1, <3>2, <3>3
  <2>4. \A o \in DOMAIN pods' : ~pods'[o].deleting => PodTold(Events("pod")', o, pods'[o].ready)
    BY <1>4, <1>11, <2>1, <2>3
  <2>5. \A r \in DOMAIN svcs' : SvcTold(Events("svc")', r, {svcs'[r]})
    BY <1>1, <1>2, <1>12 DEF Told, Handlers
  <2>6. \A e \in DOMAIN DanmEps : DanmEpTold(Events("danmep")', e, DanmEpState(e)')
    BY <1>1, <1>2, <1>12 DEF Told, Handlers, DanmEpState
  <2> QED BY <2>4, <2>5, <2>6 DEF Told
<1>15. PodsStay'
  BY <1>2, <1>4 DEF SInv, PodsStay
<1> QED BY <1>2, <1>4, <1>12, <1>13, <1>14, <1>15, SameEndpoints, EnvSafe

LEMMA RemovePodSafe ==
    ASSUME SInv, NEW p \in Pods, RemovePod(p)
    PROVE  SInv'
<1>1. TypeOK /\ EventsTyped /\ Told
  BY DEF SInv
<1>2. UNCHANGED <<svcs, danmEps, queue, endpoints, cached, task, panicked, missed>> /\ changes' = changes + 1
  BY DEF RemovePod, Others, Change
<1>3. /\ DOMAIN pods' = DOMAIN pods \ {p} /\ \A o \in DOMAIN pods' : pods'[o] = pods[o]
      /\ pods' \in [DOMAIN pods' -> PodState]
  BY <1>1 DEF RemovePod, Without, TypeOK
<1>4. PodsStay'
  BY <1>2, <1>3 DEF SInv, PodsStay, RemovePod, PodOf
<1>5. TypeOK'
  BY <1>1, <1>2, <1>3 DEF TypeOK
<1>6. EventsTyped' /\ \A g \in Handlers : Events(g)' = Events(g)
  BY <1>1, <1>2 DEF EventsTyped, Events
<1>7. Told'
  BY <1>1, <1>2, <1>3, <1>6 DEF Told, Handlers, DanmEpState
<1> QED BY <1>2, <1>3, <1>4, <1>5, <1>6, <1>7, SameEndpoints, EnvSafe

LEMMA CacheSyncSafe ==
    ASSUME SInv, NEW s \in Services, CacheSync(s)
    PROVE  SInv'
<1>1. TypeOK /\ EventsTyped /\ Told /\ Tasks
  BY DEF SInv
<1>2. /\ cached' = [cached EXCEPT ![s] = endpoints[s]]
      /\ UNCHANGED <<pods, svcs, danmEps, endpoints, queue, task, panicked, changes, missed>>
  BY DEF CacheSync, objects
<1>3. /\ cached' \in [Services -> EndpointsType] /\ cached'[s] = endpoints[s]
      /\ \A r \in Services : r # s => cached'[r] = cached[r]
  BY <1>1, <1>2 DEF TypeOK
<1>4. \A r \in Services : endpoints[r].rv \in Nat /\ endpoints[r].rv <= endpoints[r].rv
  BY <1>1 DEF TypeOK, EndpointsType
<1>5. TypeOK'
  BY <1>1, <1>2, <1>3, <1>4 DEF TypeOK
<1>6. EventsTyped' /\ Told'
  <2>1. \A h \in Handlers : Events(h)' = Events(h)
    BY <1>2 DEF Events
  <2> QED BY <1>1, <1>2, <2>1, EventsKept DEF objects
<1>7. Tasks'
  <2>1. \A g \in Handlers : TaskFits(g)
    BY <1>1, TasksSplit
  <2>2. ASSUME NEW g \in Handlers PROVE TaskFits(g)'
    <3>1. task'[g] = task[g] /\ TaskFits(g) /\ missed' = missed /\ endpoints' = endpoints /\ pods' = pods
      BY <1>2, <2>1
    <3> QED BY <1>1, <3>1, TaskKept
  <2> QED BY <2>2, TasksSplit DEF Tasks, TaskFits, TaskOf, Handlers
<1>8. Copies' /\ Uniques' /\ PodsStay' /\ PanicsAfterMiss'
  BY <1>2, <1>3, <1>4 DEF SInv, Copies, Uniques, PodsStay, PanicsAfterMiss
<1> QED BY <1>5, <1>6, <1>7, <1>8 DEF SInv

LEMMA RelabelEffect ==
    ASSUME SInv, RelabelDanmEp
    PROVE  /\ \E u \in Task("pod") :
                 Become("pod", u) /\ TaskOf("pod", u) /\ (u.pc = "idle" \/ u.ev = task["pod"].ev)
           /\ \/ UNCHANGED <<danmEps, queue>>
              \/ \E e \in DOMAIN danmEps, l \in Labels :
                    /\ danmEps' = [danmEps EXCEPT ![e] = l]
                    /\ Announce("danmep", e, {danmEps[e]}, {l})
<1>1. TypeOK /\ EventsTyped /\ "pod" \in Handlers
  BY DEF SInv, Handlers
<1>2. PICK t : t = task["pod"]
  OBVIOUS
<1>3. t \in Task("pod") /\ EventOf("pod", t.ev) /\ t.pc = "relabel"
  BY <1>1, <1>2, TaskEvent DEF RelabelDanmEp, At
<1>4. TaskOf("pod", t)
  BY <1>1, <1>2, TasksSplit DEF SInv, TaskFits
<1>5. ~New(t).deleting /\ t.writes = <<>>
  BY <1>3, <1>4 DEF TaskOf, PodTask
<1>6. PICK d \in t.todo :
         /\ Become("pod", IF t.todo = {d} THEN Idle ELSE [t EXCEPT !.todo = @ \ {d}])
         /\ IF d.ep \in DOMAIN danmEps /\ danmEps[d.ep] = d.labels /\ d.labels # New(t).labels
            THEN /\ danmEps' = [danmEps EXCEPT ![d.ep] = New(t).labels]
                 /\ Announce("danmep", d.ep, {d.labels}, {New(t).labels})
            ELSE UNCHANGED <<danmEps, queue>>
  BY <1>2 DEF RelabelDanmEp
<1>7. \E u \in Task("pod") :
         Become("pod", u) /\ TaskOf("pod", u) /\ (u.pc = "idle" \/ u.ev = task["pod"].ev)
  <2>1. CASE t.todo = {d}
    <3>1. Become("pod", Idle)
      BY <1>6, <2>1
    <3> QED BY <1>1, <3>1, IdleFacts, IdleTask
  <2>2. CASE t.todo # {d}
    <3>1. PICK u : u = [t EXCEPT !.todo = @ \ {d}]
      OBVIOUS
    <3>2. t.todo \ {d} \in SUBSET Todo["pod"]
      BY <1>3 DEF Task
    <3>3. u \in Task("pod") /\ u.pc = "relabel" /\ u.ev = t.ev /\ u.writes = <<>>
      BY <1>3, <1>5, <3>1, <3>2 DEF Task
    <3>4. New(u) = New(t)
      BY <3>3 DEF New
    <3>5. TaskOf("pod", u)
      BY <1>5, <3>3, <3>4 DEF TaskOf, PodTask
    <3> QED BY <1>2, <1>6, <2>2, <3>1, <3>3, <3>5
  <2> QED BY <2>1, <2>2
<1>8. CASE UNCHANGED <<danmEps, queue>>
  BY <1>7, <1>8
<1>9. CASE ~UNCHANGED <<danmEps, queue>>
  <2>1. PICK l : l = New(t).labels
    OBVIOUS
  <2>2. /\ d.ep \in DOMAIN danmEps /\ danmEps[d.ep] = d.labels /\ l # d.labels
        /\ danmEps' = [danmEps EXCEPT ![d.ep] = l]
        /\ Announce("danmep", d.ep, {danmEps[d.ep]}, {l})
    BY <1>6, <1>9, <2>1
  <2>3. l \in Labels
    <3>1. t.ev.new # {}
      BY <1>3 DEF EventOf
    <3>2. New(t) \in Values["pod"]
      BY <1>1, <1>3, <3>1, EventValues
    <3> QED BY <2>1, <3>2 DEF Values, PodState
  <2> QED BY <1>7, <2>2, <2>3
<1> QED BY <1>8, <1>9

LEMMA RelabelDanmEpSafe ==
    ASSUME SInv, RelabelDanmEp
    PROVE  SInv'
<1>1. TypeOK /\ EventsTyped /\ Told /\ "pod" \in Handlers /\ "danmep" \in Handlers
  BY DEF SInv, Handlers
<1>2. PICK u \in Task("pod") : Become("pod", u) /\ TaskOf("pod", u) /\ (u.pc = "idle" \/ u.ev = task["pod"].ev)
  BY RelabelEffect
<1>3. /\ UNCHANGED <<pods, svcs, endpoints, cached, panicked, changes, missed>>
      /\ ~At("pod", "idle")
  BY DEF RelabelDanmEp, At
<1>4. missed' \in BOOLEAN /\ panicked' \in BOOLEAN /\ (panicked' => missed')
  BY <1>3 DEF SInv, TypeOK, PanicsAfterMiss
<1>5. TaskOf("pod", u)'
  BY <1>1, <1>2, <1>3, TaskPrimed
<1>6. CASE UNCHANGED <<danmEps, queue>>
  BY <1>1, <1>2, <1>3, <1>4, <1>5, <1>6, GoesOn DEF objects
<1>7. CASE ~UNCHANGED <<danmEps, queue>>
  <2>1. PICK e \in DOMAIN danmEps, l \in Labels :
           danmEps' = [danmEps EXCEPT ![e] = l] /\ Announce("danmep", e, {danmEps[e]}, {l})
    BY <1>7, RelabelEffect
  <2>2. /\ DOMAIN task' = Handlers /\ task'["pod"] = u
        /\ \A g \in Handlers : task'[g] \in Task(g) /\ (g # "pod" => task'[g] = task[g])
    BY <1>1, <1>2 DEF Become, TypeOK
  <2>3. /\ DOMAIN danmEps' = DOMAIN danmEps /\ danmEps'[e] = l
        /\ \A d \in DOMAIN danmEps : d # e => danmEps'[d] = danmEps[d]
        /\ danmEps' \in [DOMAIN danmEps' -> Labels] /\ e \in DOMAIN DanmEps
    BY <1>1, <2>1 DEF TypeOK
  <2>4. PICK old, new : old = {danmEps[e]} /\ new = {l}
    OBVIOUS
  <2>5. /\ old = DanmEpState(e) /\ new = DanmEpState(e)' /\ (old # {} \/ new # {}) /\ new \in SUBSET Labels
        /\ Announce("danmep", e, old, new)
        /\ \A d \in DOMAIN DanmEps : d # e => DanmEpState(d)' = DanmEpState(d)
    BY <2>1, <2>3, <2>4 DEF DanmEpState
  <2>6. task'["danmep"] = task["danmep"]
    BY <1>1, <2>2
  <2>7. /\ DOMAIN queue' = Handlers
        /\ \A g \in Handlers : queue'[g] \in Seq(Event(g)) /\ (g # "danmep" => queue'[g] = queue[g])
        /\ \A j \in DOMAIN Events("danmep")' : EventOf("danmep", Events("danmep")'[j])
        /\ \A d \in DOMAIN DanmEps : DanmEpTold(Events("danmep")', d, DanmEpState(d)')
    BY <2>3, <2>5, <2>6, DanmEpChanged
  <2>8. Events("svc")' = Events("svc")
    BY <2>2, <2>7 DEF Events, Handlers
  <2>9. PICK t \in Task("pod"), q \in Seq(Event("pod")) : t = task["pod"] /\ q = queue["pod"] /\ t.pc # "idle"
    BY <1>1, <1>3 DEF TypeOK, At
  <2>10. PICK now, then : now = Pending(t, q) /\ then = Pending(u, q) /\ now = Events("pod") /\ then = Events("pod")'
    <3>1. Events("pod")' = Pending(u, q)
      BY <1>1, <2>2, <2>7, <2>9 DEF Events
    <3> QED BY <2>9, <3>1 DEF Events
  <2>11. then = now \/ (now # <<>> /\ then = Tail(now))
    <3>1. CASE u.pc = "idle"
      <4>1. Pending(t, q) # <<>> /\ Pending(u, q) = Tail(Pending(t, q))
        BY <1>1, <2>9, <3>1, PendingSteps
      <4> QED BY <2>10, <4>1
    <3>2. CASE u.pc # "idle"
      BY <1>2, <2>9, <2>10, <3>2 DEF Pending
    <3> QED BY <3>1, <3>2
  <2>12. /\ now \in Seq(Event("pod") \cup {NoEvent})
         /\ \A j \in DOMAIN now : EventOf("pod", now[j])
         /\ \A p \in DOMAIN pods : ~pods[p].deleting => PodTold(now, p, pods[p].ready)
    BY <1>1, <2>10, EventsFacts DEF EventsTyped, Told
  <2>13. /\ \A j \in DOMAIN then : EventOf("pod", then[j])
         /\ \A p \in DOMAIN pods : ~pods[p].deleting => PodTold(then, p, pods[p].ready)
    <3>1. CASE then = now
      BY <2>12, <3>1
    <3>2. CASE now # <<>> /\ then = Tail(now)
      <4>1. \A j \in DOMAIN then : \E k \in DOMAIN now : then[j] = now[k]
        BY <2>12, <3>2, ToldTail
      <4>2. \A p, r : PodTold(now, p, r) => PodTold(then, p, r)
        BY <2>12, <3>2, ToldTail
      <4> QED BY <2>12, <4>1, <4>2
    <3> QED BY <2>11, <3>1, <3>2
  <2>14. EventsTyped'
    BY <1>1, <2>7, <2>8, <2>10, <2>13 DEF EventsTyped, Handlers
  <2>15. Told'
    <3>1. \A r \in DOMAIN svcs' : SvcTold(Events("svc")', r, {svcs'[r]})
      BY <1>1, <1>3, <2>8 DEF Told
    <3>2. \A p \in DOMAIN pods' : ~pods'[p].deleting => PodTold(Events("pod")', p, pods'[p].ready)
      BY <1>3, <2>10, <2>13
    <3> QED BY <2>7, <3>1, <3>2 DEF Told
  <2>16. TypeOK'
    BY <1>1, <1>3, <2>2, <2>3, <2>7 DEF TypeOK
  <2>17. Tasks'
    <3>1. \A g \in Handlers : TaskFits(g)
      BY TasksSplit DEF SInv
    <3>2. ASSUME NEW g \in Handlers, g # "pod" PROVE TaskFits(g)'
      <4>1. pods' = pods /\ task'[g] = task[g] /\ TaskFits(g) /\ endpoints' = endpoints /\ missed' = missed
        BY <1>3, <2>2, <3>1, <3>2
      <4> QED BY <1>1, <4>1, TaskKept
    <3>3. TaskFits("pod")'
      BY <1>5, <2>2 DEF TaskFits
    <3>4. \A g \in Handlers : TaskFits(g)'
      BY <3>2, <3>3
    <3> QED BY <3>4, TasksSplit DEF Tasks, TaskFits, TaskOf, Handlers
  <2>18. Copies' /\ Uniques' /\ PodsStay' /\ PanicsAfterMiss'
    BY <1>3, <2>3 DEF SInv, Copies, Uniques, PodsStay, PanicsAfterMiss
  <2> QED BY <2>14, <2>15, <2>16, <2>17, <2>18 DEF SInv
<1> QED BY <1>6, <1>7

-----------------------------------------------------------------------------
(* A write that is accepted                                                  *)

\* What an operation makes of an Endpoints.
DelApplied(h, t, w, x) ==
    /\ h = "danmep" /\ t.op = "del" /\ t.ev.obj \in DOMAIN DanmEps
    /\ w.eps = [x EXCEPT !.ready = deleteFromEpAddressList(IpOf(t.ev.obj), @).list,
                         !.notReady = deleteFromEpAddressList(IpOf(t.ev.obj), @).list]
AddApplied(h, t, w, x) ==
    /\ h = "danmep" /\ t.op = "add" /\ t.ev.obj \in DOMAIN DanmEps
    /\ t.pod \in PodState /\ t.anno.early \in BOOLEAN
    /\ w.eps = EpCheckUpdate(t.ev.obj, t.pod, x, t.anno.early)
    /\ ~missed => IpOf(t.ev.obj) \notin Ips(x.notReady)
TouchApplied(h, t, w, x) ==
    /\ h = "pod" /\ t.op = "touch" /\ New(t) \in PodState
    /\ w.eps = UpdatePodRvInEps(x, t.ev.obj, New(t))
StatusApplied(h, t, w, x) ==
    /\ h = "pod" /\ t.op = "status" /\ Old(t).ready \in BOOLEAN /\ New(t).ready \in BOOLEAN
    /\ Old(t).ready # New(t).ready
    /\ \E b \in BOOLEAN :
          /\ w.early = {b}
          /\ w.eps \in UpdatePodStatusInEps(x, t.ev.obj, Old(t).ready, New(t).ready, b)

\* A write with the present version does to the present Endpoints what the operation does.
LEMMA Applied ==
    ASSUME SInv, NEW h \in Handlers, At(h, "put"), NEW t, t = task[h], NEW w, w = t.writes[1],
           Derived(t, w), NEW x, x = endpoints[w.svc], w.basis = x.rv, h # "svc", w.svc \in Services
    PROVE  /\ x \in EndpointsType
           /\ \/ DelApplied(h, t, w, x) \/ AddApplied(h, t, w, x)
              \/ TouchApplied(h, t, w, x) \/ StatusApplied(h, t, w, x)
<1>1. TypeOK
  BY DEF SInv
<1>2. x \in EndpointsType
  BY <1>1 DEF TypeOK
<1>3. t \in Task(h) /\ TaskOf(h, t) /\ EventOf(h, t.ev) /\ t.pc = "put"
  BY PutFacts
<1>4. t.ev.obj \in Objects[h]
  BY <1>3, EventValues
<1>5. CASE h = "danmep" /\ t.op = "del"
  <2>1. t.ev.obj \in DOMAIN DanmEps
    BY <1>4, <1>5 DEF Objects
  <2> QED BY <1>2, <1>5, <2>1 DEF Derived, DelApplied
<1>6. CASE h = "danmep" /\ t.op = "add"
  <2>1. t.ev.obj \in DOMAIN DanmEps
    BY <1>4, <1>6 DEF Objects
  <2>2. t.pod \in PodState
    BY <1>3 DEF Task
  <2>3. t.anno \in Annotations
    BY <1>3, <1>6 DEF TaskOf, DanmEpTask, Chosen
  <2>4. t.anno.early \in BOOLEAN
    BY <2>3, SvcAssumption
  <2> QED BY <1>2, <1>6, <2>1, <2>2, <2>4 DEF Derived, AddApplied
<1>7. CASE h = "pod"
  <2>1. t.ev.new # {} /\ t.ev.old # {}
    BY <1>3, <1>7 DEF EventOf
  <2>2. New(t) \in Values["pod"]
    BY <1>3, <1>7, <2>1, EventValues
  <2>3. Old(t) \in Values["pod"]
    BY <1>3, <1>7, <2>1, EventValues
  <2>4. New(t) \in PodState /\ Old(t).ready \in BOOLEAN /\ New(t).ready \in BOOLEAN
    BY <2>2, <2>3 DEF Values, PodState
  <2>5. CASE t.op = "touch"
    BY <1>2, <1>7, <2>4, <2>5 DEF Derived, TouchApplied
  <2>6. CASE t.op = "status"
    <3>1. Old(t).ready # New(t).ready
      BY <1>3, <1>7, <2>6 DEF TaskOf, PodTask
    <3> QED BY <1>2, <1>7, <2>4, <2>6, <3>1 DEF Derived, StatusApplied
  <2> QED BY <1>3, <1>7, <2>5, <2>6 DEF TaskOf, PodTask
<1>8. h = "danmep" => t.op \in {"del", "add"}
  BY <1>3 DEF TaskOf, DanmEpTask
<1> QED BY <1>5, <1>6, <1>7, <1>8 DEF Handlers

\* The Pod whose addresses a goroutine changes.
Concerned(h, t) == IF h = "pod" THEN t.ev.obj ELSE PodOf(t.ev.obj)

LEMMA AppliedFacts ==
    ASSUME SInv, ~missed, NEW h \in Handlers, At(h, "put"), NEW t, t = task[h], NEW w, w = t.writes[1],
           Derived(t, w), NEW x, x = endpoints[w.svc], w.basis = x.rv, h # "svc", w.svc \in Services
    PROVE  /\ Unique(x) /\ Unique(w.eps) /\ w.eps.exists = x.exists /\ w.eps.anno = x.anno
           /\ Rest(w.eps.ready, Concerned(h, t)) = Rest(x.ready, Concerned(h, t))
           /\ Rest(w.eps.notReady, Concerned(h, t)) = Rest(x.notReady, Concerned(h, t))
<1>1. Unique(x)
  BY DEF SInv, Uniques
<1>2. x \in EndpointsType
  BY Applied
<1>3. PICK y, p, obj : y = w.eps /\ p = Concerned(h, t) /\ obj = t.ev.obj
  OBVIOUS
<1>4. CASE DelApplied(h, t, w, x)
  <2>1. /\ y = [x EXCEPT !.ready = deleteFromEpAddressList(IpOf(obj), @).list,
                         !.notReady = deleteFromEpAddressList(IpOf(obj), @).list]
        /\ obj \in DOMAIN DanmEps /\ p = PodOf(obj)
    BY <1>3, <1>4 DEF Concerned, DelApplied
  <2>2. /\ y.exists = x.exists /\ y.anno = x.anno
        /\ y.ready = deleteFromEpAddressList(IpOf(obj), x.ready).list
        /\ y.notReady = deleteFromEpAddressList(IpOf(obj), x.notReady).list
    BY ONLY <1>2, <2>1, DelFacts
  <2>3. Unique(y)
    BY ONLY <1>1, <1>2, <2>1, <2>2, DelOnce
  <2>4. Rest(y.ready, PodOf(obj)) = Rest(x.ready, PodOf(obj))
    BY ONLY <1>1, <1>2, <2>1, <2>2, DelRest
  <2>5. Rest(y.notReady, PodOf(obj)) = Rest(x.notReady, PodOf(obj))
    BY ONLY <1>1, <1>2, <2>1, <2>2, DelRestNotReady
  <2>6. p = PodOf(obj)
    BY <2>1
  <2>7. Rest(y.ready, p) = Rest(x.ready, p) /\ Rest(y.notReady, p) = Rest(x.notReady, p)
    BY <2>4, <2>5, <2>6
  <2> QED BY <1>1, <1>3, <2>2, <2>3, <2>7
<1>5. CASE AddApplied(h, t, w, x)
  <2>1. PICK pod \in PodState, early \in BOOLEAN : pod = t.pod /\ early = t.anno.early
    BY <1>5 DEF AddApplied
  <2>2. /\ y = EpCheckUpdate(obj, pod, x, early) /\ IpOf(obj) \notin Ips(x.notReady)
        /\ obj \in DOMAIN DanmEps /\ p = PodOf(obj)
    BY <1>3, <1>5, <2>1 DEF Concerned, AddApplied
  <2>3. y.exists = x.exists /\ y.anno = x.anno
    BY <1>2, <2>1, <2>2, AddFacts
  <2>4. Unique(y)
    BY <1>1, <1>2, <2>1, <2>2, AddFacts
  <2>5. Rest(y.ready, p) = Rest(x.ready, p)
    BY <1>2, <2>1, <2>2, AddFacts
  <2>6. Rest(y.notReady, p) = Rest(x.notReady, p)
    BY <1>2, <2>1, <2>2, AddFacts
  <2> QED BY <1>1, <1>3, <2>3, <2>4, <2>5, <2>6
<1>6. CASE TouchApplied(h, t, w, x)
  <2>1. PICK pod : pod \in PodState /\ pod = New(t)
    BY <1>6 DEF TouchApplied
  <2>2. y = UpdatePodRvInEps(x, p, pod)
    BY <1>3, <1>6, <2>1 DEF Concerned, TouchApplied
  <2>3. y.exists = x.exists /\ y.anno = x.anno /\ Unique(y)
    BY ONLY <1>1, <1>2, <2>1, <2>2, TouchFacts
  <2>4. Rest(y.ready, p) = Rest(x.ready, p)
    BY ONLY <1>2, <2>1, <2>2, TouchFacts
  <2>5. Rest(y.notReady, p) = Rest(x.notReady, p)
    BY ONLY <1>2, <2>1, <2>2, TouchFacts
  <2> QED BY <1>1, <1>3, <2>3, <2>4, <2>5
<1>7. CASE StatusApplied(h, t, w, x)
  <2>1. PICK o \in BOOLEAN, n \in BOOLEAN : o = Old(t).ready /\ n = New(t).ready
    BY <1>7 DEF StatusApplied
  <2>2. PICK b \in BOOLEAN : y \in UpdatePodStatusInEps(x, p, o, n, b)
    BY <1>3, <1>7, <2>1 DEF Concerned, StatusApplied
  <2>3. y.exists = x.exists /\ y.anno = x.anno
    BY <1>2, <2>1, <2>2, StatusFacts
  <2>4. Unique(y)
    BY <1>1, <1>2, <2>1, <2>2, StatusFacts
  <2>5. Rest(y.ready, p) = Rest(x.ready, p)
    BY <1>1, <1>2, <2>1, <2>2, StatusFacts
  <2>6. Rest(y.notReady, p) = Rest(x.notReady, p)
    BY <1>1, <1>2, <2>1, <2>2, StatusFacts
  <2> QED BY <1>1, <1>3, <2>3, <2>4, <2>5, <2>6
<1> QED BY <1>4, <1>5, <1>6, <1>7, Applied

\* A write is derived from a copy, or built anew.
LEMMA WriteMade ==
    ASSUME SInv, NEW h \in Handlers, At(h, "put"), NEW t, t = task[h], NEW w, w = t.writes[1]
    PROVE  /\ h = "svc" => /\ t.op = "svc" /\ Len(t.writes) = 1
                           /\ w.svc = t.ev.obj /\ Due(t.ev) /\ Built(w, New(t), w.des)
           /\ h = "danmep" /\ t.op = "add" => Len(t.writes) = 1 /\ w.svc = t.cur
           /\ h # "svc" => \/ Derived(t, w)
                           \/ /\ h = "danmep" /\ t.op = "add" /\ w.svc = t.cur
                              /\ w.kind \in {"update", "invalid"} /\ Built(w, t.anno, {t.ev.obj})
                              /\ w.basis <= endpoints[w.svc].rv
                              /\ w.basis = endpoints[w.svc].rv => ~HasSubsets(endpoints[w.svc])
<1>1. TaskOf(h, t) /\ t.pc = "put" /\ 1 \in DOMAIN t.writes
  <2>1. DOMAIN t.writes = 1 .. Len(t.writes) /\ Len(t.writes) \in Nat \ {0}
    BY PutFacts
  <2>2. TaskOf(h, t) /\ t.pc = "put"
    BY PutFacts
  <2> QED BY <2>1, <2>2
<1>2. CASE h = "svc"
  BY <1>1, <1>2 DEF TaskOf, SvcTask
<1>3. CASE h = "danmep"
  BY <1>1, <1>3 DEF TaskOf, DanmEpTask
<1>4. CASE h = "pod"
  BY <1>1, <1>4 DEF TaskOf, PodTask
<1> QED BY <1>2, <1>3, <1>4 DEF Handlers

-----------------------------------------------------------------------------
(* A write is accepted                                                       *)

LEMMA StoreStep ==
    ASSUME SInv, NEW h \in Handlers, UpdateEndpoints(h), NEW t, t = task[h], NEW w, w = t.writes[1]
    PROVE  /\ w \in WriteType /\ w.svc \in Services /\ Accepted(w)
           /\ endpoints' \in [Services -> EndpointsType]
           /\ endpoints'[w.svc] = Stored(endpoints[w.svc], w)
           /\ \A s \in Services : s # w.svc => endpoints'[s] = endpoints[s]
           /\ \A s \in Services : \/ endpoints'[s] = endpoints[s]
                                  \/ endpoints'[s].rv \in Nat /\ endpoints'[s].rv > endpoints[s].rv
           /\ \A s \in Services : endpoints'[s].rv >= endpoints[s].rv
<1>1. TypeOK /\ At(h, "put")
  BY DEF SInv, UpdateEndpoints
<1>2. w \in WriteType /\ w = Current(h)
  BY <1>1, PutFacts
<1>3. w.svc \in Services
  BY <1>2 DEF WriteType
<1>4. Accepted(w) /\ endpoints' = [endpoints EXCEPT ![w.svc] = Stored(@, w)]
  BY <1>2 DEF UpdateEndpoints
<1>5. endpoints \in [Services -> EndpointsType]
  BY <1>1 DEF TypeOK
<1>6. PICK x \in EndpointsType : x = endpoints[w.svc]
  BY <1>3, <1>5
<1>7. PICK y : y = Stored(x, w)
  OBVIOUS
<1>8. y \in EndpointsType /\ (y.rv = x.rv \/ y.rv = x.rv + 1) /\ (y.rv = x.rv => y = x)
  BY <1>2, <1>7, StoredFacts
<1>9. /\ endpoints' \in [Services -> EndpointsType] /\ endpoints'[w.svc] = y
      /\ \A s \in Services : s # w.svc => endpoints'[s] = endpoints[s]
  BY <1>3, <1>4, <1>5, <1>6, <1>7, <1>8
<1>10. x.rv \in Nat /\ y.rv \in Nat
  BY <1>8 DEF EndpointsType
<1>11. y = x \/ y.rv > x.rv
  BY <1>8, <1>10
<1>12. \A s \in Services : \/ endpoints'[s] = endpoints[s]
                           \/ endpoints'[s].rv \in Nat /\ endpoints'[s].rv > endpoints[s].rv
  BY <1>6, <1>9, <1>10, <1>11
<1>13. \A s \in Services : endpoints'[s].rv >= endpoints[s].rv
  <2> TAKE s \in Services
  <2>1. endpoints[s].rv \in Nat
    BY <1>5 DEF EndpointsType
  <2> QED BY <1>12, <2>1
<1> QED BY <1>2, <1>3, <1>4, <1>6, <1>7, <1>9, <1>12, <1>13

LEMMA TailFacts ==
    ASSUME NEW S, NEW q \in Seq(S), q # <<>>
    PROVE  /\ Tail(q) \in Seq(S) /\ Len(q) \in Nat \ {0}
           /\ Len(Tail(q)) = Len(q) - 1 /\ DOMAIN Tail(q) = 1 .. Len(q) - 1
           /\ \A i \in 1 .. Len(q) - 1 : Tail(q)[i] = q[i + 1] /\ i + 1 \in 1 .. Len(q)
OBVIOUS

Rests(t) == [t EXCEPT !.writes = Tail(@)]

\* The goroutine goes on with the next write, or where the loop ends.
LEMMA UpdateEndpointsEffect ==
    ASSUME SInv, NEW h \in Handlers, UpdateEndpoints(h), NEW t, t = task[h]
    PROVE  \E u \in Task(h) :
              /\ Become(h, u) /\ TaskOf(h, u)' /\ (u.pc = "idle" \/ u.ev = t.ev)
              /\ \/ Len(t.writes) = 1 /\ u = After(t)
                 \/ /\ u.pc = "put" /\ u.op = t.op /\ u.ev = t.ev /\ u.writes = Tail(t.writes)
                    /\ t.op \in {"del", "touch", "status"} /\ h # "svc"
<1>1. At(h, "put") /\ TypeOK
  BY DEF UpdateEndpoints, SInv
<1>2. t \in Task(h) /\ TaskOf(h, t) /\ t.pc = "put" /\ t.writes \in Seq(WriteType) /\ t.writes # <<>>
  BY <1>1, PutFacts
<1>3. PICK ws \in Seq(WriteType) : ws = t.writes
  BY <1>2
<1>4. Len(ws) \in Nat \ {0} /\ DOMAIN ws = 1 .. Len(ws)
  BY <1>2, <1>3
<1>5. Become(h, IF Len(ws) = 1 THEN After(t) ELSE Rests(t))
  BY <1>3 DEF UpdateEndpoints, Rests
<1>6. CASE Len(ws) = 1
  <2>1. AtEnd(h, t)
    BY <1>2, PutEnds
  <2>2. After(t) \in Task(h) /\ (After(t).pc = "idle" \/ After(t).ev = t.ev) /\ After(t).pc # "put"
    BY <1>2, AfterFacts
  <2>3. TaskOf(h, After(t))'
    BY <1>2, <2>1, <2>2, AfterTask, Unwritten
  <2> QED BY <1>3, <1>5, <1>6, <2>2, <2>3
<1>7. CASE Len(ws) # 1
  <2>1. t.op \in {"del", "touch", "status"} /\ h # "svc" /\ \A i \in DOMAIN ws : Derived(t, ws[i])
    BY <1>2, <1>3, <1>7 DEF TaskOf, SvcTask, DanmEpTask, PodTask, Handlers
  <2>2. PICK rest \in Seq(WriteType) : rest = Tail(ws)
    BY <1>2, <1>3, TailFacts
  <2>3. /\ rest # <<>> /\ DOMAIN rest = 1 .. Len(ws) - 1
        /\ \A i \in 1 .. Len(ws) - 1 : rest[i] = ws[i + 1] /\ i + 1 \in 1 .. Len(ws)
    <3>1. Len(ws) > 1 /\ Len(rest) = Len(ws) - 1
      <4>1. Len(rest) = Len(ws) - 1
        BY <1>2, <1>3, <2>2, TailFacts
      <4> QED BY <1>4, <1>7, <4>1
    <3>2. rest # <<>>
      BY <1>4, <3>1
    <3>3. \A i \in 1 .. Len(ws) - 1 : rest[i] = ws[i + 1] /\ i + 1 \in 1 .. Len(ws)
      BY <1>2, <1>3, <1>4, <2>2
    <3> QED BY <3>1, <3>2, <3>3
  <2>4. PICK u : u = Rests(t)
    OBVIOUS
  <2>5. u = [t EXCEPT !.writes = rest]
    BY <1>3, <2>2, <2>4 DEF Rests
  <2>6. /\ u \in Task(h) /\ u.pc = t.pc /\ u.op = t.op /\ u.ev = t.ev /\ u.writes = rest
        /\ u.todo = t.todo /\ u.cur = t.cur /\ u.anno = t.anno /\ u.pod = t.pod
    BY <1>2, <2>5 DEF Task
  <2>7. \A i \in DOMAIN rest : Derived(u, rest[i])'
    <3> TAKE i \in DOMAIN rest
    <3>1. PICK w : w = t.writes[1]
      OBVIOUS
    <3>2. \A s \in Services : \/ endpoints'[s] = endpoints[s]
                              \/ endpoints'[s].rv \in Nat /\ endpoints'[s].rv > endpoints[s].rv
      BY <3>1, StoreStep
    <3>3. rest[i] \in WriteType /\ Derived(t, rest[i])
      BY <1>4, <2>1, <2>3
    <3>4. PICK v \in WriteType : v = rest[i]
      BY <3>3
    <3>5. v.svc \in Services
      BY DEF WriteType
    <3>6. /\ endpoints[v.svc] \in EndpointsType
          /\ \/ endpoints'[v.svc] = endpoints[v.svc]
             \/ endpoints'[v.svc].rv \in Nat /\ endpoints'[v.svc].rv > endpoints[v.svc].rv
      BY <1>1, <3>2, <3>5 DEF TypeOK
    <3>7. missed => missed'
      BY DEF UpdateEndpoints
    <3>8. Derived(u, v)'
      BY <2>6, <3>3, <3>4, <3>6, <3>7, DerivedKept
    <3> QED BY <3>4, <3>8
  <2>8. New(u) = New(t) /\ Old(u) = Old(t)
    BY <2>6 DEF New, Old
  <2>9. TaskOf(h, u)'
    <3>1. u.pc = "put" /\ u.writes # <<>> /\ \A i \in DOMAIN u.writes : Derived(u, u.writes[i])'
      BY <1>2, <2>3, <2>6, <2>7
    <3>2. CASE h = "danmep"
      <4>1. t.op = "del" /\ t.ev.old # {}
        BY <1>2, <2>1, <3>2 DEF TaskOf, DanmEpTask
      <4>2. u.op = "del" /\ u.ev.old # {} /\ ~Adding(u) /\ ~Chosen(u)
        BY <2>6, <3>1, <4>1 DEF Adding, Chosen
      <4> QED BY <3>1, <3>2, <4>2 DEF TaskOf, DanmEpTask
    <3>3. CASE h = "pod"
      <4>1. /\ t.op \in {"touch", "status"} /\ ~New(t).deleting
            /\ t.op = "status" => Old(t).ready # New(t).ready
        BY <1>2, <3>3 DEF TaskOf, PodTask
      <4> QED BY <2>6, <2>8, <3>1, <3>3, <4>1 DEF TaskOf, PodTask
    <3> QED BY <2>1, <3>2, <3>3 DEF Handlers
  <2> QED BY <1>2, <1>3, <1>5, <1>7, <2>1, <2>2, <2>4, <2>6, <2>9
<1> QED BY <1>6, <1>7

\* What is written lists no address twice.
LEMMA AcceptedUnique ==
    ASSUME SInv, ~missed, NEW h \in Handlers, UpdateEndpoints(h), NEW t, t = task[h], NEW w, w = t.writes[1]
    PROVE  Unique(w.eps)
<1>1. At(h, "put") /\ Accepted(w) /\ w.svc \in Services
  <2>1. At(h, "put")
    BY DEF UpdateEndpoints
  <2> QED BY <2>1, StoreStep
<1>2. CASE h = "svc"
  <2>1. Built(w, New(t), w.des)
    BY <1>1, <1>2, WriteMade
  <2> QED BY <2>1 DEF Built
<1>3. CASE h # "svc" /\ Derived(t, w)
  <2>1. w.basis = endpoints[w.svc].rv
    BY <1>1, <1>3 DEF Derived, Accepted
  <2> QED BY <1>1, <1>3, <2>1, AppliedFacts
<1>4. CASE h # "svc" /\ ~Derived(t, w)
  <2>1. Built(w, t.anno, {t.ev.obj})
    BY <1>1, <1>4, WriteMade
  <2> QED BY <2>1 DEF Built
<1> QED BY <1>2, <1>3, <1>4

LEMMA UpdateEndpointsSafe ==
    ASSUME SInv, NEW h \in Handlers, UpdateEndpoints(h)
    PROVE  SInv'
<1>1. TypeOK /\ EventsTyped /\ Told /\ Tasks
  BY DEF SInv
<1>2. PICK t, w : t = task[h] /\ w = t.writes[1]
  OBVIOUS
<1>3. PICK u \in Task(h) : Become(h, u) /\ TaskOf(h, u)' /\ (u.pc = "idle" \/ u.ev = t.ev)
  BY <1>2, UpdateEndpointsEffect
<1>4. /\ ~At(h, "idle") /\ UNCHANGED <<objects, cached, queue, panicked, changes>>
      /\ missed' = (missed \/ Outdated(h, Current(h)))
  BY DEF UpdateEndpoints, At
<1>5. /\ missed => missed'
      /\ missed' \in BOOLEAN /\ panicked' \in BOOLEAN /\ (panicked' => missed')
  BY <1>4 DEF SInv, TypeOK, PanicsAfterMiss
<1>6. /\ EventsTyped' /\ Told'
      /\ DOMAIN task' = Handlers /\ task'[h] = u
      /\ \A g \in Handlers : task'[g] \in Task(g) /\ (g # h => task'[g] = task[g])
  BY <1>1, <1>2, <1>3, <1>4, TaskStep
<1>7. /\ w.svc \in Services /\ w \in WriteType
      /\ endpoints' \in [Services -> EndpointsType]
      /\ endpoints'[w.svc] = Stored(endpoints[w.svc], w)
      /\ \A s \in Services : s # w.svc => endpoints'[s] = endpoints[s]
      /\ \A s \in Services : \/ endpoints'[s] = endpoints[s]
                             \/ endpoints'[s].rv \in Nat /\ endpoints'[s].rv > endpoints[s].rv
      /\ \A s \in Services : endpoints'[s].rv >= endpoints[s].rv
  BY <1>2, StoreStep
<1>8. TypeOK'
  <2>1. DOMAIN queue' = Handlers /\ \A g \in Handlers : queue'[g] \in Seq(Event(g))
    BY <1>1, <1>4 DEF TypeOK
  <2> QED BY <1>1, <1>4, <1>5, <1>6, <1>7, <2>1, TypeKept
<1>9. Tasks'
  <2>1. \A g \in Handlers : TaskFits(g)
    BY <1>1, TasksSplit
  <2>2. ASSUME NEW g \in Handlers, g # h PROVE TaskFits(g)'
    <3>1. DOMAIN pods' \subseteq DOMAIN pods /\ task'[g] = task[g] /\ TaskFits(g)
      BY <1>4, <1>6, <2>1, <2>2 DEF objects
    <3> QED BY <1>1, <1>5, <1>7, <3>1, TaskKept
  <2>3. TaskFits(h)'
    BY <1>3, <1>6 DEF TaskFits
  <2>4. \A g \in Handlers : TaskFits(g)'
    BY <2>2, <2>3
  <2> QED BY <2>4, TasksSplit DEF Tasks, TaskFits, TaskOf, Handlers
<1>10. Copies'
  <2> SUFFICES ASSUME NEW s \in Services
               PROVE  /\ cached[s].rv <= endpoints'[s].rv
                      /\ cached[s].rv = endpoints'[s].rv => cached[s] = endpoints'[s]
    BY <1>4 DEF Copies
  <2>1. cached[s].rv \in Nat /\ endpoints[s].rv \in Nat
    BY <1>1 DEF TypeOK, EndpointsType
  <2>2. cached[s].rv <= endpoints[s].rv /\ (cached[s].rv = endpoints[s].rv => cached[s] = endpoints[s])
    BY DEF SInv, Copies
  <2> QED BY <1>7, <2>1, <2>2
<1>11. Uniques'
  <2> SUFFICES ASSUME ~missed', NEW s \in Services PROVE Unique(endpoints'[s]) /\ Unique(cached[s])
    BY <1>4 DEF Uniques, Unique, OneEach
  <2>1. ~missed
    BY <1>5
  <2>2. Unique(endpoints[s]) /\ Unique(cached[s])
    BY <2>1 DEF SInv, Uniques
  <2>3. CASE s # w.svc
    BY <1>7, <2>2, <2>3
  <2>4. CASE s = w.svc
    <3>1. Unique(w.eps)
      BY <1>2, <2>1, AcceptedUnique
    <3>2. endpoints[s] \in EndpointsType
      BY <1>1 DEF TypeOK
    <3>3. PICK y : y = Stored(endpoints[s], w)
      OBVIOUS
    <3>4. y.ready = w.eps.ready /\ y.notReady = w.eps.notReady
      BY <1>7, <3>2, <3>3, StoredFacts
    <3> QED BY <1>7, <2>2, <2>4, <3>1, <3>3, <3>4 DEF Unique
  <2> QED BY <2>3, <2>4
<1>12. PodsStay' /\ PanicsAfterMiss'
  BY <1>4, <1>5 DEF SInv, PodsStay, PanicsAfterMiss, objects
<1> QED BY <1>6, <1>8, <1>9, <1>10, <1>11, <1>12 DEF SInv

-----------------------------------------------------------------------------
(* The invariant so far                                                      *)

LEMMA InitSafe == Init => SInv
<1> SUFFICES ASSUME Init PROVE SInv
  OBVIOUS
<1>1. PICK S \in SUBSET Services, a \in Annotations, D \in SUBSET DOMAIN DanmEps :
         /\ S # {} => Watched(a)
         /\ svcs = [s \in S |-> a]
         /\ danmEps = [e \in D |-> InitPod.labels]
         /\ endpoints = [s \in Services |->
               IF s \in S THEN CHOOSE x \in MakeNewEps(a, SelectDesMatchLabels(a)) : TRUE
               ELSE NoEndpoints]
  BY DEF Init
<1>2. /\ pods = [p \in Pods |-> InitPod] /\ cached = endpoints
      /\ queue = [h \in Handlers |-> <<>>] /\ task = [h \in Handlers |-> Idle]
      /\ panicked = FALSE /\ changes = 0 /\ missed = FALSE
  BY DEF Init
<1>3. InitPod \in PodState /\ InitPod.labels \in Labels
  <2>1. (CHOOSE l \in Labels : l # {}) \in Labels
    BY SvcAssumption
  <2>2. PICK l : l = CHOOSE k \in Labels : k # {}
    OBVIOUS
  <2>3. l \in Labels
    BY <2>1, <2>2
  <2>4. InitPod = [NoPod EXCEPT !.labels = l]
    BY <2>2 DEF InitPod
  <2>5. InitPod = [ready |-> FALSE, labels |-> l, deleting |-> FALSE, rv |-> 0]
    BY <2>4 DEF NoPod
  <2> QED BY <2>3, <2>5 DEF PodState
<1>4. DOMAIN pods = Pods /\ pods \in [DOMAIN pods -> PodState] /\ \A p \in DOMAIN pods : pods[p].labels \in Labels
  BY <1>2, <1>3
<1>5. PICK des : des = SelectDesMatchLabels(a)
  OBVIOUS
<1>6. des \in SUBSET DOMAIN DanmEps
  BY <1>1, <1>5 DEF SelectDesMatchLabels
<1>7. PICK n : n = CHOOSE x \in MakeNewEps(a, des) : TRUE
  OBVIOUS
<1>8. n \in MakeNewEps(a, des)
  BY <1>6, <1>7, NewExists
<1>9. n \in EndpointsType /\ Unique(n)
  <2>1. DOMAIN pods \subseteq Pods
    BY <1>4
  <2> QED BY <1>4, <1>6, <1>8, <2>1, NewFacts
<1>10. NoEndpoints \in EndpointsType /\ Unique(NoEndpoints)
  <2>1. <<>> \in Seq(Entry)
    OBVIOUS
  <2>2. NoEndpoints \in EndpointsType
    BY <2>1 DEF NoEndpoints, EndpointsType
  <2>3. OneEach(<<>>)
    BY DEF OneEach
  <2> QED BY <2>2, <2>3 DEF Unique, NoEndpoints
<1>11. endpoints \in [Services -> EndpointsType] /\ \A s \in Services : Unique(endpoints[s])
  <2>1. endpoints = [s \in Services |-> IF s \in S THEN n ELSE NoEndpoints]
    BY <1>1, <1>5, <1>7
  <2> QED BY <1>9, <1>10, <2>1
<1>12. \A s \in Services : endpoints[s].rv \in Nat
  BY <1>11 DEF EndpointsType
<1>13. TypeOK
  <2>1. DOMAIN svcs \subseteq Services /\ svcs \in [DOMAIN svcs -> Annotations]
    BY <1>1
  <2>2. DOMAIN danmEps \subseteq DOMAIN DanmEps /\ danmEps \in [DOMAIN danmEps -> Labels]
    BY <1>1, <1>3
  <2>3. DOMAIN queue = Handlers /\ \A h \in Handlers : queue[h] \in Seq(Event(h))
    BY <1>2
  <2>4. DOMAIN task = Handlers /\ \A h \in Handlers : task[h] \in Task(h)
    BY <1>2, IdleFacts
  <2>5. \A s \in Services : cached[s].rv <= endpoints[s].rv
    BY <1>2, <1>12
  <2> QED BY <1>2, <1>4, <1>11, <2>1, <2>2, <2>3, <2>4, <2>5 DEF TypeOK
<1>14. \A h \in Handlers : Events(h) = <<>>
  <2> TAKE h \in Handlers
  <2>1. task[h] = Idle /\ queue[h] = <<>>
    BY <1>2
  <2>2. task[h].pc = "idle"
    BY <2>1, IdleFacts
  <2> QED BY <1>13, <2>1, <2>2, EventsFacts DEF At
<1>15. EventsTyped
  BY <1>14 DEF EventsTyped
<1>16. Told
  BY <1>14 DEF Told, DanmEpTold, SvcTold, PodTold, Handlers
<1>17. Tasks
  <2>1. \A g \in Handlers : TaskFits(g)
    BY <1>2, IdleTask DEF TaskFits
  <2> QED BY <2>1, TasksSplit
<1>18. Copies /\ Uniques
  BY <1>2, <1>11, <1>12 DEF Copies, Uniques
<1>19. PodsStay /\ PanicsAfterMiss
  BY <1>1, <1>2, IpFacts DEF PodsStay, PanicsAfterMiss
<1> QED BY <1>13, <1>15, <1>16, <1>17, <1>18, <1>19 DEF SInv

LEMMA HandlerSafe ==
    ASSUME SInv, ~panicked, NEW h \in Handlers, HandlerStep(h)
    PROVE  SInv'
<1>1. CASE Take(h)
  BY <1>1, TakeSafe
<1>2. CASE UpdateEndpoints(h)
  BY <1>2, UpdateEndpointsSafe
<1>3. CASE UpdateConflicts(h)
  BY <1>3, UpdateConflictsSafe
<1>4. CASE UpdateFails(h)
  BY <1>4, UpdateFailsSafe
<1>5. CASE addSvc
  BY <1>5, AddSvcSafe
<1>6. CASE delDanmep
  BY <1>6, DelDanmepSafe
<1>7. CASE addDanmep
  BY <1>7, AddDanmepSafe
<1>8. CASE NextService
  BY <1>8, NextServiceSafe
<1>9. CASE AddToService
  BY <1>9, AddToServiceSafe
<1>10. CASE UpdatePodRv
  BY <1>10, UpdatePodRvSafe
<1>11. CASE UpdatePodStatus
  BY <1>11, UpdatePodStatusSafe
<1>12. CASE UpdateLabels
  BY <1>12, UpdateLabelsSafe
<1>13. CASE RelabelDanmEp
  BY <1>13, RelabelDanmEpSafe
<1> QED
  BY <1>1, <1>2, <1>3, <1>4, <1>5, <1>6, <1>7, <1>8, <1>9, <1>10, <1>11, <1>12, <1>13 DEF HandlerStep

LEMMA NextSafe ==
    ASSUME SInv, [Next]_vars
    PROVE  SInv'
<1>1. CASE UNCHANGED vars
  <2>1. /\ UNCHANGED <<cached, task, panicked, missed>> /\ DOMAIN pods' \subseteq DOMAIN pods
        /\ UNCHANGED <<pods, svcs, danmEps, queue, changes>> /\ UNCHANGED endpoints
    BY <1>1 DEF vars, objects
  <2>2. TypeOK /\ EventsTyped /\ Told /\ PodsStay
    BY DEF SInv
  <2>3. \A h \in Handlers : Events(h)' = Events(h)
    BY <2>1 DEF Events
  <2>4. TypeOK'
    BY <2>1, <2>2 DEF TypeOK
  <2>5. EventsTyped' /\ Told'
    <3>1. UNCHANGED objects
      BY <2>1 DEF objects
    <3> QED BY <2>2, <2>3, <3>1, EventsKept
  <2>6. PodsStay'
    BY <2>1, <2>2 DEF PodsStay
  <2> QED BY <2>1, <2>4, <2>5, <2>6, SameEndpoints, EnvSafe
<1>2. CASE ~panicked /\ \E h \in Handlers : HandlerStep(h)
  BY <1>2, HandlerSafe
<1>3. CASE \E s \in Services : CacheSync(s)
  BY <1>3, CacheSyncSafe
<1>4. CASE Environment
  <2>1. CASE \E s \in Services : WriteSvc(s) \/ DeleteSvc(s)
    BY <2>1, WriteSvcSafe, DeleteSvcSafe
  <2>2. CASE \E e \in DOMAIN DanmEps : CreateDanmEp(e) \/ DeleteDanmEp(e)
    BY <2>2, ChangeDanmEpSafe
  <2>3. CASE \E p \in Pods : ChangePod(p) \/ RemovePod(p)
    BY <2>3, ChangePodSafe, RemovePodSafe
  <2> QED BY <1>4, <2>1, <2>2, <2>3 DEF Environment
<1> QED BY <1>1, <1>2, <1>3, <1>4 DEF Next

\* An accepted write with a version leaves the addresses of the other Pods as they are.
LEMMA OthersKeptStep ==
    ASSUME SInv, ~missed, NEW h \in Handlers, UpdateEndpoints(h), Current(h).kind = "versioned",
           NEW s, s = Current(h).svc, NEW p, p = Concerned(h, task[h])
    PROVE  /\ Rest(endpoints'[s].ready, p) = Rest(endpoints[s].ready, p)
           /\ Rest(endpoints'[s].notReady, p) = Rest(endpoints[s].notReady, p)
<1>1. PICK t, w : t = task[h] /\ w = t.writes[1]
  OBVIOUS
<1>2. At(h, "put") /\ TypeOK
  BY DEF UpdateEndpoints, SInv
<1>3. w = Current(h)
  BY <1>1, <1>2, PutFacts
<1>4. /\ w \in WriteType /\ s \in Services /\ Accepted(w)
      /\ endpoints'[s] = Stored(endpoints[s], w)
  BY <1>1, <1>3, StoreStep
<1>5. h # "svc" /\ Derived(t, w)
  <2>1. w.kind = "versioned"
    BY <1>3
  <2>2. h # "svc"
    <3>1. h = "svc" => Built(w, New(t), w.des)
      BY <1>1, <1>2, WriteMade
    <3> QED BY <2>1, <3>1 DEF Built
  <2>3. Derived(t, w) \/ w.kind \in {"update", "invalid"}
    BY <1>1, <1>2, <2>2, WriteMade
  <2> QED BY <2>1, <2>2, <2>3
<1>6. PICK x \in EndpointsType : x = endpoints[s]
  BY <1>2, <1>4 DEF TypeOK
<1>7. w.basis = x.rv /\ w.svc = s
  BY <1>3, <1>4, <1>5, <1>6 DEF Accepted, Derived
<1>8. PICK y : y = Stored(x, w)
  OBVIOUS
<1>9. y.ready = w.eps.ready /\ y.notReady = w.eps.notReady
  BY <1>4, <1>8, StoredFacts
<1>10. Rest(w.eps.ready, p) = Rest(x.ready, p) /\ Rest(w.eps.notReady, p) = Rest(x.notReady, p)
  <2>1. Rest(w.eps.ready, Concerned(h, t)) = Rest(x.ready, Concerned(h, t))
    BY <1>1, <1>2, <1>4, <1>5, <1>6, <1>7, AppliedFacts
  <2>2. Rest(w.eps.notReady, Concerned(h, t)) = Rest(x.notReady, Concerned(h, t))
    BY <1>1, <1>2, <1>4, <1>5, <1>6, <1>7, AppliedFacts
  <2> QED BY <1>1, <2>1, <2>2
<1> QED BY <1>4, <1>6, <1>8, <1>9, <1>10

-----------------------------------------------------------------------------
(* What the Endpoints list: the steps that leave them as they are            *)

\* What is still due in the Endpoints of a Service stays due.
AddKept(s) ==
    \A e \in DOMAIN DanmEps :
        /\ IpOf(e) # NoIp /\ e \in SelectDesMatchLabels(svcs[s]) /\ IpOf(e) \notin Listed(endpoints[s])
        /\ AddDue(e, s)
        => AddDue(e, s)'
DelKept(s) ==
    \A e \in DOMAIN DanmEps :
        /\ IpOf(e) # NoIp /\ IpOf(e) \in Listed(endpoints[s]) /\ e \notin SelectDesMatchLabels(svcs[s])
        /\ DelDue(e, s)
        => DelDue(e, s)'
StatusKept(s) ==
    \A e \in DOMAIN DanmEps :
        /\ IpOf(e) \in Listed(endpoints[s])
        /\ PodOf(e) \in DOMAIN pods /\ ~pods[PodOf(e)].deleting
        /\ StatusDue(PodOf(e), s)
        => StatusDue(PodOf(e), s)'

LEMMA ListedSubsets ==
    ASSUME NEW x \in EndpointsType, x.exists, ~HasSubsets(x)
    PROVE  Listed(x) = {} /\ x.ready = <<>> /\ x.notReady = <<>>
<1>1. PICK a \in Seq(Entry), b \in Seq(Entry) : a = x.ready /\ b = x.notReady
  BY EndpointsFacts
<1>2. a \o b = <<>>
  BY <1>1 DEF HasSubsets
<1>3. Len(a \o b) = Len(a) + Len(b) /\ Len(a) \in Nat /\ Len(b) \in Nat
  BY Joined
<1>4. Len(a) = 0 /\ Len(b) = 0
  BY <1>2, <1>3
<1>5. a = <<>> /\ b = <<>>
  BY <1>4
<1> QED BY <1>1, <1>5 DEF Listed, Ips

LEMMA FitsKept ==
    ASSUME NEW s \in DOMAIN svcs, Fits(s), UNCHANGED objects, endpoints'[s] = endpoints[s],
           AddKept(s), DelKept(s), StatusKept(s)
    PROVE  Fits(s)'
<1>1. pods' = pods /\ svcs' = svcs /\ danmEps' = danmEps
  BY DEF objects
<1>2. SelectDesMatchLabels(svcs[s])' = SelectDesMatchLabels(svcs[s])
  BY <1>1 DEF SelectDesMatchLabels
<1>3. \A e \in DOMAIN DanmEps : FitsDanmEp(s, e)'
  <2> SUFFICES ASSUME NEW e \in DOMAIN DanmEps, IpOf(e) # NoIp
               PROVE  /\ e \in SelectDesMatchLabels(svcs[s]) => IpOf(e) \in Listed(endpoints[s]) \/ AddDue(e, s)'
                      /\ IpOf(e) \in Listed(endpoints[s]) =>
                            /\ e \in SelectDesMatchLabels(svcs[s]) \/ DelDue(e, s)'
                            /\ PodOf(e) \in DOMAIN pods /\ ~pods[PodOf(e)].deleting =>
                                  \/ StatusDue(PodOf(e), s)'
                                  \/ IpOf(e) \in Right(endpoints[s], pods[PodOf(e)].ready)
    BY <1>1, <1>2 DEF FitsDanmEp, Listed, Right
  <2>1. FitsDanmEp(s, e)
    BY DEF Fits
  <2>2. e \in SelectDesMatchLabels(svcs[s]) => IpOf(e) \in Listed(endpoints[s]) \/ AddDue(e, s)'
    BY <2>1 DEF FitsDanmEp, AddKept
  <2>3. IpOf(e) \in Listed(endpoints[s]) => e \in SelectDesMatchLabels(svcs[s]) \/ DelDue(e, s)'
    BY <2>1 DEF FitsDanmEp, DelKept
  <2>4. IpOf(e) \in Listed(endpoints[s]) /\ PodOf(e) \in DOMAIN pods /\ ~pods[PodOf(e)].deleting =>
           StatusDue(PodOf(e), s)' \/ IpOf(e) \in Right(endpoints[s], pods[PodOf(e)].ready)
    BY <2>1 DEF FitsDanmEp, StatusKept
  <2> QED BY <2>2, <2>3, <2>4
<1> QED BY <1>1, <1>3 DEF Fits

LEMMA FitsFrame ==
    ASSUME Fitting, UNCHANGED objects, missed => missed',
           ~missed' => \A s \in DOMAIN svcs : Settled(s)' =>
              /\ Settled(s)
              /\ Fits(s) => endpoints'[s] = endpoints[s] /\ AddKept(s) /\ DelKept(s) /\ StatusKept(s)
    PROVE  Fitting'
<1>1. svcs' = svcs
  BY DEF objects
<1> SUFFICES ASSUME ~missed', NEW s \in DOMAIN svcs, Settled(s)' PROVE Fits(s)'
  BY <1>1 DEF Fitting
<1>2. Fits(s)
  BY DEF Fitting
<1> QED BY <1>2, FitsKept

LEMMA DanmEpQuiet ==
    ASSUME task'["danmep"] = task["danmep"], queue'["danmep"] = queue["danmep"], svcs' = svcs, NEW s
    PROVE  AddKept(s) /\ DelKept(s)
BY DEF AddKept, DelKept, AddDue, DelDue

LEMMA PodQuiet ==
    ASSUME task'["pod"] = task["pod"], queue'["pod"] = queue["pod"], NEW s
    PROVE  StatusKept(s)
BY DEF StatusKept, StatusDue, Announced

LEMMA SvcQuiet ==
    ASSUME task'["svc"] = task["svc"], queue'["svc"] = queue["svc"], svcs' = svcs, NEW s
    PROVE  Settled(s)' <=> Settled(s)
BY DEF Settled, SvcDue, Events

LEMMA CacheSyncFits ==
    ASSUME Fitting, NEW s \in Services, CacheSync(s)
    PROVE  Fitting'
<1>1. /\ task' = task /\ queue' = queue /\ svcs' = svcs /\ UNCHANGED objects
      /\ missed' = missed /\ endpoints' = endpoints
  BY DEF CacheSync, objects
<1>2. \A r \in DOMAIN svcs : Settled(r)' =>
         /\ Settled(r)
         /\ Fits(r) => endpoints'[r] = endpoints[r] /\ AddKept(r) /\ DelKept(r) /\ StatusKept(r)
  BY <1>1, DanmEpQuiet, PodQuiet, SvcQuiet
<1> QED BY <1>1, <1>2, FitsFrame

\* The goroutine of the Services does something else than write.
LEMMA SvcFits ==
    ASSUME SInv, Fitting, UNCHANGED <<objects, endpoints>>, missed => missed',
           task'["danmep"] = task["danmep"], queue'["danmep"] = queue["danmep"],
           task'["pod"] = task["pod"], queue'["pod"] = queue["pod"],
           \A s \in DOMAIN svcs : Settled(s)' => Settled(s)
    PROVE  Fitting'
<1>1. svcs' = svcs
  BY DEF objects
<1>2. \A s \in DOMAIN svcs : Settled(s)' =>
         /\ Settled(s)
         /\ Fits(s) => endpoints'[s] = endpoints[s] /\ AddKept(s) /\ DelKept(s) /\ StatusKept(s)
  BY <1>1, DanmEpQuiet, PodQuiet
<1> QED BY <1>2, FitsFrame

LEMMA SvcGoesOnFits ==
    ASSUME SInv, Fitting, addSvc \/ UpdateConflicts("svc")
    PROVE  Fitting'
<1>1. "svc" \in Handlers /\ "danmep" \in Handlers /\ "pod" \in Handlers /\ TypeOK
  BY DEF Handlers, SInv
<1>2. UNCHANGED <<objects, endpoints, queue>> /\ ~At("svc", "idle") /\ (missed => missed')
  <2>1. CASE addSvc
    BY <2>1 DEF addSvc, At
  <2>2. CASE UpdateConflicts("svc")
    BY <2>2 DEF UpdateConflicts, At
  <2> QED BY <2>1, <2>2
<1>3. PICK u \in Task("svc") : Become("svc", u) /\ u.ev = task["svc"].ev /\ u.pc # "idle"
  <2>1. CASE addSvc
    BY <2>1, AddSvcEffect
  <2>2. CASE UpdateConflicts("svc")
    <3>1. PICK t : t = task["svc"]
      OBVIOUS
    <3>2. PICK u \in Task("svc") : Become("svc", u) /\ u = Goes(t, t.op)
      BY <1>1, <2>2, <3>1, UpdateConflictsEffect
    <3>3. At("svc", "put")
      BY <2>2 DEF UpdateConflicts
    <3>4. t \in Task("svc") /\ t.op = "svc"
      BY <1>1, <3>1, <3>3, PutFacts, WriteMade
    <3>5. t.op \in Pcs
      BY <3>4 DEF Pcs
    <3>6. u.pc = t.op /\ u.ev = t.ev
      BY <1>1, <3>2, <3>4, <3>5, GoesFacts
    <3> QED BY <3>1, <3>2, <3>4, <3>6
  <2> QED BY <2>1, <2>2
<1>4. task'["svc"] = u /\ task'["danmep"] = task["danmep"] /\ task'["pod"] = task["pod"]
  BY <1>1, <1>3 DEF Become, TypeOK
<1>5. Events("svc")' = Events("svc")
  BY <1>2, <1>3, <1>4 DEF Events, Pending, At
<1>6. \A s \in DOMAIN svcs : Settled(s)' => Settled(s)
  BY <1>2, <1>5 DEF Settled, SvcDue, objects
<1> QED BY <1>2, <1>4, <1>6, SvcFits

LEMMA TakeSvcFits ==
    ASSUME SInv, Fitting, Take("svc")
    PROVE  Fitting'
<1>1. "svc" \in Handlers /\ "danmep" \in Handlers /\ "pod" \in Handlers /\ TypeOK /\ EventsTyped /\ Told
  BY DEF Handlers, SInv
<1>2. /\ UNCHANGED <<objects, endpoints, missed>> /\ At("svc", "idle") /\ queue["svc"] # <<>>
      /\ queue' = [queue EXCEPT !["svc"] = Tail(@)] /\ svcs' = svcs
  BY DEF Take, objects
<1>3. PICK u \in Task("svc") :
         /\ Become("svc", u) /\ (u.pc = "idle" \/ u.ev = Head(queue["svc"]))
         /\ \/ u.pc = "svc"
            \/ ~Due(Head(queue["svc"]))
            \/ \E a : Head(queue["svc"]).new = {a} /\ ~Watched(a)
  BY <1>1, TakeEffect
<1>4. /\ task'["danmep"] = task["danmep"] /\ queue'["danmep"] = queue["danmep"]
      /\ task'["pod"] = task["pod"] /\ queue'["pod"] = queue["pod"]
      /\ u.pc # "idle" => Events("svc")' = Events("svc")
      /\ u.pc = "idle" => Events("svc")' = Tail(Events("svc"))
  <2>1. \A g \in Handlers : g # "svc" => task'[g] = task[g] /\ queue'[g] = queue[g]
    BY <1>1, <1>2, <1>3, TakeStep
  <2>2. u.pc # "idle" => Events("svc")' = Events("svc")
    BY <1>1, <1>2, <1>3, TakeStep
  <2>3. u.pc = "idle" => Events("svc")' = Tail(Events("svc"))
    BY <1>1, <1>2, <1>3, TakeStep
  <2> QED BY <1>1, <2>1, <2>2, <2>3
<1>5. \A s \in DOMAIN svcs : Settled(s)' => Settled(s)
  <2> SUFFICES ASSUME NEW s \in DOMAIN svcs, Settled(s)' PROVE Settled(s)
    OBVIOUS
  <2>1. Watched(svcs[s])
    BY <1>2 DEF Settled
  <2>2. CASE u.pc # "idle"
    BY <1>2, <1>4, <2>1, <2>2 DEF Settled, SvcDue
  <2>3. CASE u.pc = "idle"
    <3>1. PICK q : q = queue["svc"]
      OBVIOUS
    <3>2. q \in Seq(Event("svc")) /\ q # <<>> /\ Events("svc") = q /\ Events("svc")' = Tail(q)
      BY <1>1, <1>2, <1>4, <2>3, <3>1, EventsFacts
    <3>3. /\ Len(q) \in Nat \ {0} /\ DOMAIN q = 1 .. Len(q) /\ DOMAIN Tail(q) = 1 .. Len(q) - 1
          /\ \A i \in 1 .. Len(q) - 1 : Tail(q)[i] = q[i + 1]
          /\ Head(q) = q[1]
      <4>1. Head(q) = q[1] /\ DOMAIN q = 1 .. Len(q)
        BY <3>2
      <4>2. Len(q) \in Nat \ {0} /\ DOMAIN Tail(q) = 1 .. Len(q) - 1
        BY <3>2, TailFacts
      <4>3. \A i \in 1 .. Len(q) - 1 : Tail(q)[i] = q[i + 1]
        BY <3>2, TailFacts
      <4> QED BY <4>1, <4>2, <4>3
    <3>4. ASSUME NEW j \in DOMAIN q, q[j].obj = s, Due(q[j]) PROVE j = 1
      <4>1. CASE j # 1
        <5>1. j - 1 \in 1 .. Len(q) - 1 /\ Tail(q)[j - 1] = q[j]
          <6>1. j - 1 \in 1 .. Len(q) - 1 /\ (j - 1) + 1 = j
            BY <3>3, <4>1
          <6> QED BY <3>3, <6>1
        <5>2. SvcDue(s)'
          BY <3>2, <3>3, <3>4, <5>1 DEF SvcDue
        <5> QED BY <5>2 DEF Settled
      <4> QED BY <4>1
    <3>5. ~(q[1].obj = s /\ Due(q[1]))
      <4> SUFFICES ASSUME q[1].obj = s, Due(q[1]) PROVE FALSE
        OBVIOUS
      <4>1. SvcTold(q, s, {svcs[s]})
        BY <1>1, <3>2 DEF Told
      <4>2. 1 \in DOMAIN q
        BY <3>3
      <4>3. \/ q[1].new = {svcs[s]}
            \/ \E k \in DOMAIN q : 1 < k /\ q[k].obj = s /\ Due(q[k])
        BY <4>1, <4>2 DEF SvcTold
      <4>4. q[1].new = {svcs[s]}
        BY <3>4, <4>3
      <4>5. \E a : q[1].new = {a} /\ ~Watched(a)
        BY <1>3, <2>3, <3>1, <3>3
      <4> QED BY <2>1, <4>4, <4>5
    <3>6. ~SvcDue(s)
      BY <3>2, <3>4, <3>5 DEF SvcDue
    <3> QED BY <2>1, <3>6 DEF Settled
  <2> QED BY <2>2, <2>3
<1> QED BY <1>2, <1>4, <1>5, SvcFits

\* The goroutine of the DanmEps does something else than write.
LEMMA DanmEpFits ==
    ASSUME SInv, Fitting, UNCHANGED <<objects, endpoints>>, missed => missed',
           task'["svc"] = task["svc"], queue'["svc"] = queue["svc"],
           task'["pod"] = task["pod"], queue'["pod"] = queue["pod"],
           ~missed' => \A s \in DOMAIN svcs : Fits(s) => AddKept(s) /\ DelKept(s)
    PROVE  Fitting'
<1>1. svcs' = svcs /\ endpoints' = endpoints
  BY DEF objects
<1>2. ~missed' => \A s \in DOMAIN svcs : Settled(s)' =>
         /\ Settled(s)
         /\ Fits(s) => endpoints'[s] = endpoints[s] /\ AddKept(s) /\ DelKept(s) /\ StatusKept(s)
  BY <1>1, SvcQuiet, PodQuiet
<1> QED BY <1>2, FitsFrame

LEMMA TakeDanmEpFits ==
    ASSUME SInv, Fitting, Take("danmep")
    PROVE  Fitting'
<1>1. "svc" \in Handlers /\ "danmep" \in Handlers /\ "pod" \in Handlers /\ TypeOK /\ EventsTyped /\ Told
  BY DEF Handlers, SInv
<1>2. /\ UNCHANGED <<objects, endpoints, missed>> /\ At("danmep", "idle") /\ queue["danmep"] # <<>>
      /\ queue' = [queue EXCEPT !["danmep"] = Tail(@)]
  BY DEF Take
<1>3. PICK u \in Task("danmep") :
         /\ Become("danmep", u)
         /\ u.pc \in {"del", "match"} /\ u.ev = Head(queue["danmep"])
         /\ u.ev.old # {} => u.pc = "del"
  BY <1>1, TakeEffect
<1>4. PICK q \in Seq(Event("danmep")) : q = queue["danmep"] /\ q # <<>>
  BY <1>1, <1>2 DEF TypeOK
<1>5. /\ \A g \in Handlers : g # "danmep" => task'[g] = task[g] /\ queue'[g] = queue[g]
      /\ task'["danmep"] = u /\ queue'["danmep"] = Tail(q) /\ u.ev = q[1]
  <2>1. DOMAIN task = Handlers /\ DOMAIN queue = Handlers
    BY <1>1 DEF TypeOK
  <2>2. Head(q) = q[1]
    BY <1>4
  <2> QED BY <1>1, <1>2, <1>3, <1>4, <2>1, <2>2 DEF Become
<1>6. \A j \in DOMAIN q : q[j] = u.ev \/ \E k \in DOMAIN Tail(q) : Tail(q)[k] = q[j]
  <2> TAKE j \in DOMAIN q
  <2>1. Len(q) \in Nat \ {0} /\ DOMAIN Tail(q) = 1 .. Len(q) - 1 /\ DOMAIN q = 1 .. Len(q)
    BY <1>4, TailFacts
  <2>2. \A i \in 1 .. Len(q) - 1 : Tail(q)[i] = q[i + 1]
    BY <1>4, TailFacts
  <2>3. CASE j = 1
    BY <1>5, <2>3
  <2>4. CASE j # 1
    <3>1. j - 1 \in 1 .. Len(q) - 1 /\ (j - 1) + 1 = j
      BY <2>1, <2>4
    <3> QED BY <2>1, <2>2, <3>1
  <2> QED BY <2>3, <2>4
<1>7. \A s \in DOMAIN svcs : AddKept(s) /\ DelKept(s)
  <2> TAKE s \in DOMAIN svcs
  <2>1. task["danmep"].pc = "idle"
    BY <1>2 DEF At
  <2>2. svcs' = svcs
    BY <1>2 DEF objects
  <2>3. AddKept(s)
    <3> SUFFICES ASSUME NEW e \in DOMAIN DanmEps, AddDue(e, s) PROVE AddDue(e, s)'
      BY DEF AddKept
    <3>1. ~AddTask(task["danmep"], e, s)
      BY <2>1 DEF AddTask, Adding, Chosen
    <3>2. PICK j \in DOMAIN q : q[j].obj = e
      BY <1>4, <3>1 DEF AddDue
    <3>3. CASE q[j] = u.ev
      <4>1. AddTask(u, e, s)
        BY <1>3, <3>2, <3>3 DEF AddTask
      <4> QED BY <1>5, <4>1 DEF AddDue, AddTask, Adding, Chosen
    <3>4. CASE \E k \in DOMAIN Tail(q) : Tail(q)[k] = q[j]
      BY <1>5, <3>2, <3>4 DEF AddDue
    <3> QED BY <1>6, <3>3, <3>4
  <2>4. DelKept(s)
    <3> SUFFICES ASSUME NEW e \in DOMAIN DanmEps, DelDue(e, s) PROVE DelDue(e, s)'
      BY DEF DelKept
    <3>1. ~DelTask(task["danmep"], e, s, svcs[s])
      BY <2>1 DEF DelTask
    <3>2. PICK j \in DOMAIN q : q[j].obj = e /\ \E l \in q[j].old : Selects(svcs[s], e, l)
      BY <1>4, <3>1 DEF DelDue
    <3>3. CASE q[j] = u.ev
      <4>1. DelTask(u, e, s, svcs[s])
        BY <1>3, <3>2, <3>3 DEF DelTask
      <4> QED BY <1>5, <2>2, <4>1 DEF DelDue, DelTask, Writes
    <3>4. CASE \E k \in DOMAIN Tail(q) : Tail(q)[k] = q[j]
      BY <1>5, <2>2, <3>2, <3>4 DEF DelDue
    <3> QED BY <1>6, <3>3, <3>4
  <2> QED BY <2>3, <2>4
<1>8. /\ task'["svc"] = task["svc"] /\ queue'["svc"] = queue["svc"]
      /\ task'["pod"] = task["pod"] /\ queue'["pod"] = queue["pod"]
  BY <1>1, <1>5
<1> QED BY <1>2, <1>7, <1>8, DanmEpFits

\* One that handles no change from its queue.
LEMMA DanmEpGoesOn ==
    ASSUME SInv, Fitting, UNCHANGED <<objects, endpoints, queue>>, missed => missed',
           NEW u \in Task("danmep"), Become("danmep", u),
           ~missed' => \A s \in DOMAIN svcs : Fits(s) => \A e \in DOMAIN DanmEps :
              IpOf(e) # NoIp =>
              /\ /\ e \in SelectDesMatchLabels(svcs[s]) /\ IpOf(e) \notin Listed(endpoints[s])
                 /\ AddTask(task["danmep"], e, s)
                 => AddTask(u, e, s) \/ \E j \in DOMAIN queue["danmep"] : queue["danmep"][j].obj = e
              /\ /\ IpOf(e) \in Listed(endpoints[s]) /\ e \notin SelectDesMatchLabels(svcs[s])
                 /\ DelTask(task["danmep"], e, s, svcs[s])
                 => DelTask(u, e, s, svcs[s])
    PROVE  Fitting'
<1>1. "svc" \in Handlers /\ "danmep" \in Handlers /\ "pod" \in Handlers /\ DOMAIN task = Handlers
  BY DEF Handlers, SInv, TypeOK
<1>2. task'["danmep"] = u /\ task'["svc"] = task["svc"] /\ task'["pod"] = task["pod"] /\ svcs' = svcs
  BY <1>1 DEF Become, objects
<1>3. ~missed' => \A s \in DOMAIN svcs : Fits(s) => AddKept(s) /\ DelKept(s)
  <2> SUFFICES ASSUME ~missed', NEW s \in DOMAIN svcs, Fits(s) PROVE AddKept(s) /\ DelKept(s)
    OBVIOUS
  <2>1. AddKept(s)
    <3> SUFFICES ASSUME NEW e \in DOMAIN DanmEps, IpOf(e) # NoIp, e \in SelectDesMatchLabels(svcs[s]),
                        IpOf(e) \notin Listed(endpoints[s]), AddDue(e, s)
                 PROVE  AddDue(e, s)'
      BY DEF AddKept
    <3>1. AddTask(u, e, s) \/ \E j \in DOMAIN queue["danmep"] : queue["danmep"][j].obj = e
      BY DEF AddDue
    <3> QED BY <1>2, <3>1 DEF AddDue, AddTask, Adding, Chosen
  <2>2. DelKept(s)
    <3> SUFFICES ASSUME NEW e \in DOMAIN DanmEps, IpOf(e) # NoIp, e \notin SelectDesMatchLabels(svcs[s]),
                        IpOf(e) \in Listed(endpoints[s]), DelDue(e, s)
                 PROVE  DelDue(e, s)'
      BY DEF DelKept
    <3>1. \/ DelTask(u, e, s, svcs[s])
          \/ \E j \in DOMAIN queue["danmep"] :
                queue["danmep"][j].obj = e /\ \E l \in queue["danmep"][j].old : Selects(svcs[s], e, l)
      BY DEF DelDue
    <3> QED BY <1>2, <3>1 DEF DelDue, DelTask, Writes
  <2> QED BY <2>1, <2>2
<1> QED BY <1>2, <1>3, DanmEpFits

LEMMA TaskNow ==
    ASSUME SInv, NEW h \in Handlers, NEW t, t = task[h]
    PROVE  t \in Task(h) /\ TaskOf(h, t) /\ (t.pc # "idle" => EventOf(h, t.ev))
<1>1. TypeOK /\ EventsTyped
  BY DEF SInv
<1>2. t \in Task(h) /\ (t.pc # "idle" => EventOf(h, t.ev))
  BY <1>1, TaskEvent DEF At
<1>3. TaskOf(h, t)
  BY TasksSplit DEF SInv, TaskFits
<1> QED BY <1>2, <1>3

\* The DanmEp is as it was announced, or another change of it is in the queue.
LEMMA SelectedNow ==
    ASSUME SInv, ~At("danmep", "idle"), NEW e, e = task["danmep"].ev.obj, NEW a, e \in SelectDesMatchLabels(a)
    PROVE  \/ task["danmep"].ev.new = {danmEps[e]} /\ Selects(a, e, danmEps[e])
           \/ \E j \in DOMAIN queue["danmep"] : queue["danmep"][j].obj = e
<1>1. \/ task["danmep"].ev.new = DanmEpState(e)
      \/ \E k \in DOMAIN queue["danmep"] : queue["danmep"][k].obj = e
  BY ToldDanmEp DEF SInv
<1>2. e \in DOMAIN danmEps /\ Selects(a, e, danmEps[e])
  BY DEF SelectDesMatchLabels
<1> QED BY <1>1, <1>2 DEF DanmEpState

\* What the Service selects is not listed by the loop of delDanmep ...
LEMMA DelDanmepFits ==
    ASSUME SInv, Fitting, ~panicked, delDanmep
    PROVE  Fitting'
<1>1. UNCHANGED <<objects, endpoints, queue>> /\ At("danmep", "del") /\ ~At("danmep", "idle")
  BY DEF delDanmep, At
<1>2. (missed => missed') /\ missed' \in BOOLEAN /\ missed \in BOOLEAN
  <2>1. missed' = missed \/ missed' = (missed \/ PassesOver(DelHit(task["danmep"])))
    BY DEF delDanmep, DelHit
  <2> QED BY <2>1 DEF SInv, TypeOK, PassesOver
<1>3. SUFFICES ASSUME ~missed' PROVE Fitting'
  BY DEF Fitting
<1>4. ~panicked'
  BY <1>2, <1>3, DelDanmepPanics
<1>5. PICK t : t = task["danmep"]
  OBVIOUS
<1>6. PICK u \in Task("danmep") :
         /\ Become("danmep", u)
         /\ \/ u.ev = t.ev /\ (u.pc = "match" \/ (u.pc = "put" /\ u.op = "del"))
            \/ t.ev.new = {}
         /\ \A s \in DelHit(t) : u.ev = t.ev /\ u.pc = "put" /\ u.op = "del" /\ Writes(u, s)
         /\ missed' = (missed \/ PassesOver(DelHit(t)))
  BY <1>4, <1>5, DelDanmepEffect
<1>7. t \in Task("danmep") /\ EventOf("danmep", t.ev) /\ "danmep" \in Handlers
  BY <1>1, <1>5, TaskNow DEF At, Handlers
<1>8. DOMAIN svcs \subseteq Services
  BY DEF SInv, TypeOK
<1>9. ASSUME NEW s \in DOMAIN svcs, Fits(s), NEW e \in DOMAIN DanmEps, IpOf(e) # NoIp
      PROVE  /\ /\ e \in SelectDesMatchLabels(svcs[s]) /\ IpOf(e) \notin Listed(endpoints[s])
                /\ AddTask(t, e, s)
                => AddTask(u, e, s) \/ \E j \in DOMAIN queue["danmep"] : queue["danmep"][j].obj = e
             /\ /\ IpOf(e) \in Listed(endpoints[s]) /\ e \notin SelectDesMatchLabels(svcs[s])
                /\ DelTask(t, e, s, svcs[s])
                => DelTask(u, e, s, svcs[s])
  <2>1. ASSUME e \in SelectDesMatchLabels(svcs[s]), AddTask(t, e, s)
        PROVE  AddTask(u, e, s) \/ \E j \in DOMAIN queue["danmep"] : queue["danmep"][j].obj = e
    <3>1. t.ev.obj = e
      BY <2>1 DEF AddTask
    <3>2. \/ t.ev.new = {danmEps[e]}
          \/ \E j \in DOMAIN queue["danmep"] : queue["danmep"][j].obj = e
      BY <1>1, <1>5, <2>1, <3>1, SelectedNow
    <3> QED BY <1>6, <3>1, <3>2 DEF AddTask
  <2>2. ASSUME IpOf(e) \in Listed(endpoints[s]), DelTask(t, e, s, svcs[s])
        PROVE  DelTask(u, e, s, svcs[s])
    <3>1. PICK l \in t.ev.old : t.ev.obj = e /\ Selects(svcs[s], e, l)
      BY <2>2 DEF DelTask
    <3>2. l = Old(t)
      BY <1>7, <3>1, EventValues
    <3>3. s \in DelHit(t)
      <4>1. SUFFICES ASSUME s \notin DelHit(t) PROVE FALSE
        OBVIOUS
      <4>2. cached[s] = endpoints[s]
        BY <1>3, <1>6, <1>8, <4>1 DEF PassesOver
      <4>3. endpoints[s].exists /\ endpoints[s].anno = svcs[s]
        BY <1>9 DEF Fits
      <4>4. ~HasSubsets(endpoints[s])
        BY <1>8, <3>1, <3>2, <4>1, <4>2, <4>3 DEF DelHit
      <4>5. endpoints[s] \in EndpointsType
        BY <1>8 DEF SInv, TypeOK
      <4> QED BY <2>2, <4>3, <4>4, <4>5, ListedSubsets
    <3> QED BY <1>6, <2>2, <3>3 DEF DelTask
  <2> QED BY <2>1, <2>2
<1> QED BY <1>1, <1>2, <1>5, <1>6, <1>9, DanmEpGoesOn

LEMMA AddDanmepFits ==
    ASSUME SInv, Fitting, addDanmep
    PROVE  Fitting'
<1>1. UNCHANGED <<objects, endpoints, queue>> /\ At("danmep", "match") /\ ~At("danmep", "idle")
  BY DEF addDanmep, At
<1>2. PICK t : t = task["danmep"]
  OBVIOUS
<1>3. PICK u \in Task("danmep") :
         /\ Become("danmep", u)
         /\ missed => missed'
         /\ ~missed' => \A s \in DOMAIN svcs :
               Selects(svcs[s], t.ev.obj, New(t)) =>
                  /\ u.pc = "next" /\ u.ev = t.ev
                  /\ \E n \in u.todo : n.svc = s
  BY <1>2, AddDanmepEffect
<1>4. t \in Task("danmep") /\ EventOf("danmep", t.ev) /\ "danmep" \in Handlers /\ t.pc = "match"
  BY <1>1, <1>2, TaskNow DEF At, Handlers
<1>5. ASSUME ~missed', NEW s \in DOMAIN svcs, Fits(s), NEW e \in DOMAIN DanmEps, IpOf(e) # NoIp
      PROVE  /\ /\ e \in SelectDesMatchLabels(svcs[s]) /\ IpOf(e) \notin Listed(endpoints[s])
                /\ AddTask(t, e, s)
                => AddTask(u, e, s) \/ \E j \in DOMAIN queue["danmep"] : queue["danmep"][j].obj = e
             /\ /\ IpOf(e) \in Listed(endpoints[s]) /\ e \notin SelectDesMatchLabels(svcs[s])
                /\ DelTask(t, e, s, svcs[s])
                => DelTask(u, e, s, svcs[s])
  <2>1. ASSUME e \in SelectDesMatchLabels(svcs[s]), AddTask(t, e, s)
        PROVE  AddTask(u, e, s) \/ \E j \in DOMAIN queue["danmep"] : queue["danmep"][j].obj = e
    <3>1. t.ev.obj = e
      BY <2>1 DEF AddTask
    <3>2. \/ t.ev.new = {danmEps[e]} /\ Selects(svcs[s], e, danmEps[e])
          \/ \E j \in DOMAIN queue["danmep"] : queue["danmep"][j].obj = e
      BY <1>1, <1>2, <2>1, <3>1, SelectedNow
    <3>3. CASE t.ev.new = {danmEps[e]} /\ Selects(svcs[s], e, danmEps[e])
      <4>1. New(t) = danmEps[e]
        BY <3>3 DEF New
      <4>2. u.pc = "next" /\ u.ev = t.ev /\ \E n \in u.todo : n.svc = s
        BY <1>3, <1>5, <3>1, <3>3, <4>1
      <4> QED BY <3>1, <4>2 DEF AddTask, Adding
    <3> QED BY <3>2, <3>3
  <2>2. ~DelTask(t, e, s, svcs[s])
    BY <1>4 DEF DelTask
  <2> QED BY <2>1, <2>2
<1> QED BY <1>1, <1>2, <1>3, <1>5, DanmEpGoesOn

LEMMA NextServiceFits ==
    ASSUME SInv, Fitting, NextService
    PROVE  Fitting'
<1>1. UNCHANGED <<objects, endpoints, queue, missed>> /\ At("danmep", "next") /\ ~At("danmep", "idle")
  BY DEF NextService, At
<1>2. PICK t : t = task["danmep"]
  OBVIOUS
<1>3. PICK u \in Task("danmep") :
         /\ Become("danmep", u)
         /\ \A n \in t.todo :
              \/ n \in u.todo /\ u.pc \in {"next", "add"} /\ u.ev = t.ev
              \/ u.pc = "add" /\ u.cur = n.svc /\ u.ev = t.ev
              \/ PodOf(t.ev.obj) \notin DOMAIN pods
  BY <1>2, NextServiceEffect
<1>4. t \in Task("danmep") /\ "danmep" \in Handlers /\ t.pc = "next"
  BY <1>1, <1>2, TaskNow DEF At, Handlers
<1>5. ASSUME NEW s \in DOMAIN svcs, Fits(s), NEW e \in DOMAIN DanmEps, IpOf(e) # NoIp
      PROVE  /\ /\ e \in SelectDesMatchLabels(svcs[s]) /\ IpOf(e) \notin Listed(endpoints[s])
                /\ AddTask(t, e, s)
                => AddTask(u, e, s) \/ \E j \in DOMAIN queue["danmep"] : queue["danmep"][j].obj = e
             /\ /\ IpOf(e) \in Listed(endpoints[s]) /\ e \notin SelectDesMatchLabels(svcs[s])
                /\ DelTask(t, e, s, svcs[s])
                => DelTask(u, e, s, svcs[s])
  <2>1. ASSUME e \in SelectDesMatchLabels(svcs[s]), AddTask(t, e, s)
        PROVE  AddTask(u, e, s)
    <3>1. PICK n \in t.todo : t.ev.obj = e /\ n.svc = s
      BY <1>4, <2>1 DEF AddTask, Adding, Chosen
    <3>2. PodOf(e) \in DOMAIN pods
      <4>1. e \in DOMAIN danmEps
        BY <2>1 DEF SelectDesMatchLabels
      <4> QED BY <4>1 DEF SInv, PodsStay
    <3> QED BY <1>3, <3>1, <3>2 DEF AddTask, Adding, Chosen
  <2>2. ~DelTask(t, e, s, svcs[s])
    BY <1>4 DEF DelTask
  <2> QED BY <2>1, <2>2
<1> QED BY <1>1, <1>2, <1>3, <1>5, DanmEpGoesOn

LEMMA AddToServiceFits ==
    ASSUME SInv, Fitting, AddToService
    PROVE  Fitting'
<1>1. UNCHANGED <<objects, endpoints, queue>> /\ At("danmep", "add") /\ (missed => missed')
  <2>1. UNCHANGED <<objects, endpoints, queue>> /\ At("danmep", "add")
    BY DEF AddToService
  <2>2. PICK B : B = (DanmEps[task["danmep"].ev.obj].ip \in Ips(cached[task["danmep"].cur].notReady))
    OBVIOUS
  <2>3. missed' = (missed \/ B) \/ missed' = missed
    BY <2>2 DEF AddToService
  <2>4. missed \in BOOLEAN
    BY DEF SInv, TypeOK
  <2>5. CASE missed' = missed
    BY <2>1, <2>5
  <2>6. CASE missed' = (missed \/ B)
    BY <2>1, <2>4, <2>6
  <2> QED BY <2>3, <2>5, <2>6
<1>2. PICK t : t = task["danmep"]
  OBVIOUS
<1>3. PICK u \in Task("danmep") :
         /\ Become("danmep", u)
         /\ u.ev = t.ev /\ u.pc = "put" /\ u.op = "add" /\ u.todo = t.todo /\ u.cur = t.cur
  BY <1>2, AddToServiceEffect
<1>4. t.pc = "add"
  BY <1>1, <1>2 DEF At
<1>5. ASSUME NEW s \in DOMAIN svcs, NEW e \in DOMAIN DanmEps
      PROVE  (AddTask(t, e, s) => AddTask(u, e, s)) /\ ~DelTask(t, e, s, svcs[s])
  BY <1>3, <1>4 DEF AddTask, DelTask, Adding, Chosen
<1> QED BY <1>1, <1>2, <1>3, <1>5, DanmEpGoesOn

LEMMA DanmEpConflictFits ==
    ASSUME SInv, Fitting, UpdateConflicts("danmep")
    PROVE  Fitting'
<1>1. /\ UNCHANGED <<objects, endpoints, queue>> /\ At("danmep", "put") /\ (missed => missed')
      /\ task["danmep"].op = "del" => missed'
  BY DEF UpdateConflicts
<1>2. PICK t : t = task["danmep"]
  OBVIOUS
<1>3. "danmep" \in Handlers
  BY DEF Handlers
<1>4. PICK u \in Task("danmep") : Become("danmep", u) /\ (t.op # "del" => u = Goes(t, t.op))
  BY <1>2, <1>3, UpdateConflictsEffect
<1>5. t \in Task("danmep") /\ TaskOf("danmep", t) /\ t.pc = "put"
  BY <1>1, <1>2, <1>3, TaskNow DEF At
<1>6. t.op \in {"del", "add"}
  BY <1>5 DEF TaskOf, DanmEpTask
<1>7. ASSUME ~missed', NEW s \in DOMAIN svcs, NEW e \in DOMAIN DanmEps
      PROVE  (AddTask(t, e, s) => AddTask(u, e, s)) /\ ~DelTask(t, e, s, svcs[s])
  <2>1. t.op = "add" /\ u = Goes(t, t.op) /\ t.op \in Pcs
    BY <1>1, <1>2, <1>4, <1>6, <1>7 DEF Pcs
  <2>2. u.pc = "add" /\ u.ev = t.ev /\ u.todo = t.todo /\ u.cur = t.cur
    BY <1>3, <1>5, <2>1, GoesFacts
  <2> QED BY <1>5, <2>1, <2>2 DEF AddTask, DelTask, Adding, Chosen
<1> QED BY <1>1, <1>2, <1>4, <1>7, DanmEpGoesOn

\* A write that is refused is not one made from a copy, if the Endpoints exist.
LEMMA RefusedMade ==
    ASSUME NEW t, NEW w, ~Accepted(w), ~Conflicting(w), endpoints[w.svc].exists
    PROVE  ~Derived(t, w)
BY DEF Derived, Accepted, Conflicting

\* One built anew is refused if it has no address, so there is no DanmEp to list.
LEMMA RefusedEmpty ==
    ASSUME SInv, NEW w \in WriteType, ~Accepted(w), w.kind \in {"update", "invalid"}, NEW a,
           NEW e \in DOMAIN DanmEps, Built(w, a, {e}), IpOf(e) # NoIp, e \in DOMAIN danmEps
    PROVE  FALSE
<1>1. w.kind = "invalid" /\ ~HasSubsets(w.eps)
  BY DEF Accepted, Built
<1>2. w.eps \in EndpointsType /\ w.eps.exists
  BY DEF WriteType, Built
<1>3. Listed(w.eps) = {}
  BY <1>1, <1>2, ListedSubsets
<1>4. HasAddress(e)
  BY DEF HasAddress, SInv, PodsStay, PodOf, IpOf
<1>5. \E u \in w.pods : u.pod = PodOf(e) /\ IpOf(e) \in Right(w.eps, u.ready)
  BY <1>4 DEF Built
<1> QED BY <1>3, <1>5 DEF Right, Listed

LEMMA DanmEpFailsFits ==
    ASSUME SInv, Fitting, UpdateFails("danmep")
    PROVE  Fitting'
<1>1. PICK t, w : t = task["danmep"] /\ w = t.writes[1]
  OBVIOUS
<1>2. /\ UNCHANGED <<objects, endpoints, queue>> /\ At("danmep", "put") /\ (missed => missed')
      /\ Len(t.writes) > 1 => missed'
  BY <1>1 DEF UpdateFails
<1>3. "danmep" \in Handlers
  BY DEF Handlers
<1>4. /\ t \in Task("danmep") /\ TaskOf("danmep", t) /\ EventOf("danmep", t.ev) /\ t.pc = "put"
      /\ Len(t.writes) \in Nat \ {0} /\ DOMAIN t.writes = 1 .. Len(t.writes)
      /\ w \in WriteType /\ ~At("danmep", "idle")
  BY <1>1, <1>2, <1>3, PutFacts
<1>5. ~Accepted(w) /\ ~Conflicting(w)
  <2>1. w = Current("danmep")
    BY <1>1, <1>2, <1>3, PutFacts
  <2> QED BY <2>1 DEF UpdateFails
<1>6. PICK u \in Task("danmep") : Become("danmep", u) /\ u = After(t)
  BY <1>1, <1>3, UpdateFailsEffect
<1>7. \/ t.op = "del" /\ t.ev.new # {} /\ u = Goes(t, "match")
      \/ t.op = "add" /\ t.todo # {} /\ u = Goes(t, "next")
      \/ t.op = "del" /\ u = Idle /\ t.ev.new = {}
      \/ t.op = "add" /\ u = Idle /\ t.todo = {}
  <2>1. t.op \in {"del", "add"}
    BY <1>4 DEF TaskOf, DanmEpTask
  <2>2. \/ t.op = "del" /\ t.ev.new # {} /\ After(t) = Goes(t, "match")
        \/ t.op = "add" /\ t.todo # {} /\ After(t) = Goes(t, "next")
        \/ t.op = "status" /\ After(t) = Goes(t, "label")
        \/ /\ After(t) = Idle
           /\ t.op = "del" => t.ev.new = {}
           /\ t.op = "add" => t.todo = {}
    BY <1>3, <1>4, AfterFacts
  <2> QED BY <1>6, <2>1, <2>2
<1>8. ASSUME ~missed', NEW s \in DOMAIN svcs, Fits(s), NEW e \in DOMAIN DanmEps, IpOf(e) # NoIp
      PROVE  /\ /\ e \in SelectDesMatchLabels(svcs[s]) /\ IpOf(e) \notin Listed(endpoints[s])
                /\ AddTask(t, e, s)
                => AddTask(u, e, s) \/ \E j \in DOMAIN queue["danmep"] : queue["danmep"][j].obj = e
             /\ /\ IpOf(e) \in Listed(endpoints[s]) /\ e \notin SelectDesMatchLabels(svcs[s])
                /\ DelTask(t, e, s, svcs[s])
                => DelTask(u, e, s, svcs[s])
  <2>1. endpoints[s].exists
    BY <1>8 DEF Fits
  <2>2. w.svc = s => ~Derived(t, w)
    BY <1>5, <2>1, RefusedMade
  <2>3. DOMAIN t.writes = {1}
    <3>1. PICK n : n \in Nat \ {0} /\ n = Len(t.writes)
      BY <1>4
    <3>2. ~(n > 1)
      BY <1>2, <1>8, <3>1
    <3>3. 1 .. n = {1}
      BY <3>1, <3>2
    <3> QED BY <1>4, <3>1, <3>3
  <2>4. ASSUME e \in SelectDesMatchLabels(svcs[s]), AddTask(t, e, s)
        PROVE  AddTask(u, e, s) \/ \E j \in DOMAIN queue["danmep"] : queue["danmep"][j].obj = e
    <3>1. t.ev.obj = e /\ e \in DOMAIN danmEps
      BY <2>4 DEF AddTask, SelectDesMatchLabels
    <3>2. CASE t.op = "del" /\ t.ev.new # {} /\ u = Goes(t, "match")
      <4>1. u.pc = "match" /\ u.ev = t.ev
        <5>1. "match" \in Pcs
          BY DEF Pcs
        <5> QED BY <1>3, <1>4, <3>2, <5>1, GoesFacts
      <4> QED BY <3>1, <4>1 DEF AddTask
    <3>3. CASE t.op = "del" /\ u = Idle /\ t.ev.new = {}
      <4>1. \/ t.ev.new = {danmEps[e]}
            \/ \E j \in DOMAIN queue["danmep"] : queue["danmep"][j].obj = e
        BY <1>1, <1>4, <2>4, <3>1, SelectedNow
      <4> QED BY <3>3, <4>1
    <3>4. CASE t.op = "add"
      <4>1. w.svc = t.cur
        BY <1>1, <1>4, <3>4 DEF TaskOf, DanmEpTask
      <4>2. t.cur # s
        <5>1. SUFFICES ASSUME t.cur = s PROVE FALSE
          OBVIOUS
        <5>2. w.kind \in {"update", "invalid"} /\ Built(w, t.anno, {e})
          BY <1>1, <1>2, <1>3, <2>2, <3>1, <4>1, <5>1, WriteMade
        <5> QED BY <1>4, <1>5, <1>8, <3>1, <5>2, RefusedEmpty
      <4>3. \E n \in t.todo : n.svc = s
        BY <1>4, <2>4, <3>4, <4>2 DEF AddTask, Adding, Chosen
      <4>4. u = Goes(t, "next")
        BY <1>7, <3>4, <4>3
      <4>5. u.pc = "next" /\ u.ev = t.ev /\ u.todo = t.todo
        <5>1. "next" \in Pcs
          BY DEF Pcs
        <5> QED BY <1>3, <1>4, <4>4, <5>1, GoesFacts
      <4> QED BY <3>1, <4>3, <4>5 DEF AddTask, Adding
    <3> QED BY <1>7, <3>2, <3>3, <3>4
  <2>5. ~DelTask(t, e, s, svcs[s])
    <3>1. SUFFICES ASSUME DelTask(t, e, s, svcs[s]) PROVE FALSE
      OBVIOUS
    <3>2. t.op = "del" /\ Writes(t, s)
      BY <1>4, <3>1 DEF DelTask
    <3>3. w.svc = s
      BY <1>1, <2>3, <3>2 DEF Writes
    <3>4. Derived(t, w)
      <4>1. 1 \in DOMAIN t.writes
        BY <1>4
      <4> QED BY <1>1, <1>4, <3>2, <4>1 DEF TaskOf, DanmEpTask
    <3> QED BY <2>2, <3>3, <3>4
  <2> QED BY <2>4, <2>5
<1> QED BY <1>1, <1>2, <1>6, <1>8, DanmEpGoesOn

\* The goroutine of the Pods does something else than write.
LEMMA PodFits ==
    ASSUME SInv, Fitting, UNCHANGED <<objects, endpoints>>, missed => missed',
           task'["svc"] = task["svc"], queue'["svc"] = queue["svc"],
           task'["danmep"] = task["danmep"], queue'["danmep"] = queue["danmep"],
           ~missed' => \A s \in DOMAIN svcs : Fits(s) => StatusKept(s)
    PROVE  Fitting'
<1>1. svcs' = svcs /\ endpoints' = endpoints
  BY DEF objects
<1>2. ~missed' => \A s \in DOMAIN svcs : Settled(s)' =>
         /\ Settled(s)
         /\ Fits(s) => endpoints'[s] = endpoints[s] /\ AddKept(s) /\ DelKept(s) /\ StatusKept(s)
  BY <1>1, SvcQuiet, DanmEpQuiet
<1> QED BY <1>2, FitsFrame

LEMMA TakePodFits ==
    ASSUME SInv, Fitting, Take("pod")
    PROVE  Fitting'
<1>1. "svc" \in Handlers /\ "danmep" \in Handlers /\ "pod" \in Handlers /\ TypeOK
  BY DEF Handlers, SInv
<1>2. /\ UNCHANGED <<objects, endpoints, missed>> /\ At("pod", "idle") /\ queue["pod"] # <<>>
      /\ queue' = [queue EXCEPT !["pod"] = Tail(@)]
  BY DEF Take
<1>3. PICK u \in Task("pod") :
         /\ Become("pod", u)
         /\ (u.pc = "status" /\ u.ev = Head(queue["pod"])) \/ ~Turns(Head(queue["pod"]))
  BY <1>1, TakeEffect DEF SInv
<1>4. PICK q \in Seq(Event("pod")) : q = queue["pod"] /\ q # <<>>
  BY <1>1, <1>2 DEF TypeOK
<1>5. /\ \A g \in Handlers : g # "pod" => task'[g] = task[g] /\ queue'[g] = queue[g]
      /\ task'["pod"] = u /\ queue'["pod"] = Tail(q) /\ Head(queue["pod"]) = q[1]
  <2>1. DOMAIN task = Handlers /\ DOMAIN queue = Handlers
    BY <1>1 DEF TypeOK
  <2>2. Head(q) = q[1]
    BY <1>4
  <2> QED BY <1>1, <1>2, <1>3, <1>4, <2>1, <2>2 DEF Become
<1>6. \A j \in DOMAIN q : j = 1 \/ \E k \in DOMAIN Tail(q) : Tail(q)[k] = q[j]
  <2> TAKE j \in DOMAIN q
  <2>1. Len(q) \in Nat \ {0} /\ DOMAIN Tail(q) = 1 .. Len(q) - 1 /\ DOMAIN q = 1 .. Len(q)
    BY <1>4, TailFacts
  <2>2. \A i \in 1 .. Len(q) - 1 : Tail(q)[i] = q[i + 1]
    BY <1>4, TailFacts
  <2>3. CASE j # 1
    <3>1. j - 1 \in 1 .. Len(q) - 1 /\ (j - 1) + 1 = j
      BY <2>1, <2>3
    <3> QED BY <2>1, <2>2, <3>1
  <2> QED BY <2>3
<1>7. \A s \in DOMAIN svcs : StatusKept(s)
  <2> TAKE s \in DOMAIN svcs
  <2> SUFFICES ASSUME NEW p, StatusDue(p, s) PROVE StatusDue(p, s)'
    BY DEF StatusKept
  <2>1. ~StatusTask(task["pod"], p, s)
    BY <1>2 DEF StatusTask, At
  <2>2. PICK j \in DOMAIN q : q[j].obj = p /\ \E o \in q[j].old, n \in q[j].new : o.ready # n.ready /\ ~n.deleting
    BY <1>4, <2>1 DEF StatusDue, Announced
  <2>3. CASE j = 1
    <3>1. u.pc = "status" /\ u.ev = q[1]
      BY <1>3, <1>5, <2>2, <2>3 DEF Turns
    <3>2. StatusTask(u, p, s)
      BY <2>2, <2>3, <3>1 DEF StatusTask
    <3> QED BY <1>5, <3>2 DEF StatusDue, StatusTask, Writes
  <2>4. CASE \E k \in DOMAIN Tail(q) : Tail(q)[k] = q[j]
    <3>1. Announced(p)'
      BY <1>5, <2>2, <2>4 DEF Announced
    <3> QED BY <3>1 DEF StatusDue
  <2> QED BY <1>6, <2>3, <2>4
<1>8. /\ task'["svc"] = task["svc"] /\ queue'["svc"] = queue["svc"]
      /\ task'["danmep"] = task["danmep"] /\ queue'["danmep"] = queue["danmep"]
  BY <1>1, <1>5
<1> QED BY <1>2, <1>7, <1>8, PodFits

LEMMA PodGoesOn ==
    ASSUME SInv, Fitting, UNCHANGED <<objects, endpoints, queue>>, missed => missed',
           NEW u \in Task("pod"), Become("pod", u),
           ~missed' => \A s \in DOMAIN svcs : Fits(s) /\ Listed(endpoints[s]) # {} =>
              \A p : StatusTask(task["pod"], p, s) => StatusTask(u, p, s)
    PROVE  Fitting'
<1>1. "svc" \in Handlers /\ "danmep" \in Handlers /\ "pod" \in Handlers /\ DOMAIN task = Handlers
  BY DEF Handlers, SInv, TypeOK
<1>2. task'["pod"] = u /\ task'["svc"] = task["svc"] /\ task'["danmep"] = task["danmep"]
  BY <1>1 DEF Become
<1>3. ~missed' => \A s \in DOMAIN svcs : Fits(s) => StatusKept(s)
  BY <1>2 DEF StatusKept, StatusDue, StatusTask, Writes, Announced
<1> QED BY <1>2, <1>3, PodFits

LEMMA UpdatePodRvFits ==
    ASSUME SInv, Fitting, UpdatePodRv
    PROVE  Fitting'
<1>1. UNCHANGED <<objects, endpoints, queue, missed>> /\ At("pod", "touch")
  BY DEF UpdatePodRv
<1>2. PICK u \in Task("pod") : Become("pod", u)
  BY UpdatePodRvEffect
<1>3. \A p, s : ~StatusTask(task["pod"], p, s)
  BY <1>1 DEF StatusTask, At
<1> QED BY <1>1, <1>2, <1>3, PodGoesOn

LEMMA UpdateLabelsFits ==
    ASSUME SInv, Fitting, UpdateLabels
    PROVE  Fitting'
<1>1. UNCHANGED <<objects, endpoints, queue, missed>> /\ At("pod", "label")
  BY DEF UpdateLabels
<1>2. PICK u \in Task("pod") : Become("pod", u)
  BY UpdateLabelsEffect
<1>3. \A p, s : ~StatusTask(task["pod"], p, s)
  BY <1>1 DEF StatusTask, At
<1> QED BY <1>1, <1>2, <1>3, PodGoesOn

LEMMA UpdatePodStatusFits ==
    ASSUME SInv, Fitting, UpdatePodStatus
    PROVE  Fitting'
<1>1. UNCHANGED <<objects, endpoints, queue>>
  BY DEF UpdatePodStatus
<1>2. PICK t : t = task["pod"]
  OBVIOUS
<1>3. PICK u \in Task("pod") :
         /\ Become("pod", u)
         /\ \A s \in StatusHit : u.ev = t.ev /\ u.pc = "put" /\ u.op = "status" /\ Writes(u, s)
         /\ missed' = (missed \/ PassesOver(StatusHit))
  BY <1>2, UpdatePodStatusEffect
<1>4. missed => missed'
  BY <1>3
<1>5. DOMAIN svcs \subseteq Services
  BY DEF SInv, TypeOK
<1>6. ASSUME ~missed', NEW s \in DOMAIN svcs, Fits(s), Listed(endpoints[s]) # {}, NEW p, StatusTask(t, p, s)
      PROVE  StatusTask(u, p, s)
  <2>1. s \in StatusHit
    <3>1. SUFFICES ASSUME s \notin StatusHit PROVE FALSE
      OBVIOUS
    <3>2. cached[s] = endpoints[s]
      BY <1>3, <1>5, <1>6, <3>1 DEF PassesOver
    <3>3. endpoints[s].exists /\ endpoints[s] \in EndpointsType
      BY <1>5, <1>6 DEF Fits, SInv, TypeOK
    <3>4. ~HasSubsets(endpoints[s])
      BY <3>1, <3>2 DEF StatusHit
    <3> QED BY <1>6, <3>3, <3>4, ListedSubsets
  <2> QED BY <1>3, <1>6, <2>1 DEF StatusTask
<1> QED BY <1>1, <1>2, <1>3, <1>4, <1>6, PodGoesOn

LEMMA PodConflictFits ==
    ASSUME SInv, Fitting, UpdateConflicts("pod")
    PROVE  Fitting'
<1>1. UNCHANGED <<objects, endpoints, queue>> /\ At("pod", "put") /\ (missed => missed')
  BY DEF UpdateConflicts
<1>2. PICK t : t = task["pod"]
  OBVIOUS
<1>3. "pod" \in Handlers
  BY DEF Handlers
<1>4. t \in Task("pod") /\ TaskOf("pod", t) /\ t.pc = "put"
  BY <1>1, <1>2, <1>3, TaskNow DEF At
<1>5. t.op \in {"touch", "status"}
  BY <1>4 DEF TaskOf, PodTask
<1>6. PICK u \in Task("pod") : Become("pod", u) /\ u = Goes(t, t.op)
  BY <1>2, <1>3, <1>5, UpdateConflictsEffect
<1>7. u.pc = t.op /\ u.ev = t.ev
  <2>1. t.op \in Pcs
    BY <1>5 DEF Pcs
  <2> QED BY <1>3, <1>4, <1>6, <2>1, GoesFacts
<1>8. \A p, s : StatusTask(t, p, s) => StatusTask(u, p, s)
  BY <1>4, <1>7 DEF StatusTask
<1> QED BY <1>1, <1>2, <1>6, <1>8, PodGoesOn

LEMMA PodFailsFits ==
    ASSUME SInv, Fitting, UpdateFails("pod")
    PROVE  Fitting'
<1>1. PICK t, w : t = task["pod"] /\ w = t.writes[1]
  OBVIOUS
<1>2. /\ UNCHANGED <<objects, endpoints, queue>> /\ At("pod", "put") /\ (missed => missed')
      /\ Len(t.writes) > 1 => missed'
  BY <1>1 DEF UpdateFails
<1>3. "pod" \in Handlers
  BY DEF Handlers
<1>4. /\ t \in Task("pod") /\ TaskOf("pod", t) /\ t.pc = "put"
      /\ Len(t.writes) \in Nat \ {0} /\ DOMAIN t.writes = 1 .. Len(t.writes)
      /\ w = Current("pod")
  BY <1>1, <1>2, <1>3, PutFacts
<1>5. ~Accepted(w) /\ ~Conflicting(w)
  BY <1>4 DEF UpdateFails
<1>6. PICK u \in Task("pod") : Become("pod", u)
  BY <1>3, UpdateFailsEffect
<1>7. ASSUME ~missed', NEW s \in DOMAIN svcs, Fits(s), NEW p, StatusTask(t, p, s)
      PROVE  FALSE
  <2>1. endpoints[s].exists
    BY <1>7 DEF Fits
  <2>2. Writes(t, s)
    BY <1>4, <1>7 DEF StatusTask
  <2>3. DOMAIN t.writes = {1}
    <3>1. PICK n : n \in Nat \ {0} /\ n = Len(t.writes)
      BY <1>4
    <3>2. ~(n > 1)
      BY <1>2, <1>7, <3>1
    <3>3. 1 .. n = {1}
      BY <3>1, <3>2
    <3> QED BY <1>4, <3>1, <3>3
  <2>4. w.svc = s
    BY <1>1, <2>2, <2>3 DEF Writes
  <2>5. Derived(t, w)
    BY <1>1, <1>4, <2>3 DEF TaskOf, PodTask
  <2> QED BY <1>5, <2>1, <2>4, <2>5, RefusedMade
<1> QED BY <1>1, <1>2, <1>6, <1>7, PodGoesOn

-----------------------------------------------------------------------------
(* What the Endpoints list: writes                                           *)

LEMMA PutStep ==
    ASSUME SInv, NEW h \in Handlers, UpdateEndpoints(h), ~missed',
           NEW t, t = task[h], NEW w, w = t.writes[1], NEW y, y = endpoints'[w.svc]
    PROVE  /\ ~missed /\ w \in WriteType /\ w.svc \in Services /\ Accepted(w) /\ ~Outdated(h, w)
           /\ UNCHANGED <<objects, queue>> /\ svcs' = svcs
           /\ \A s \in Services : s # w.svc => endpoints'[s] = endpoints[s]
           /\ y \in EndpointsType /\ y.exists = w.eps.exists /\ y.anno = w.eps.anno
           /\ y.ready = w.eps.ready /\ y.notReady = w.eps.notReady
           /\ t.pc = "put" /\ ~At(h, "idle") /\ \A g \in Handlers : g # h => task'[g] = task[g]
<1>1. At(h, "put") /\ TypeOK
  BY DEF UpdateEndpoints, SInv
<1>2. w = Current(h)
  BY <1>1, PutFacts
<1>3. ~missed /\ ~Outdated(h, w)
  BY <1>2 DEF UpdateEndpoints
<1>4. /\ w \in WriteType /\ w.svc \in Services /\ Accepted(w)
      /\ y = Stored(endpoints[w.svc], w)
      /\ \A s \in Services : s # w.svc => endpoints'[s] = endpoints[s]
  BY StoreStep
<1>5. endpoints[w.svc] \in EndpointsType
  BY <1>1, <1>4 DEF TypeOK
<1>6. /\ y \in EndpointsType /\ y.exists = w.eps.exists /\ y.anno = w.eps.anno
      /\ y.ready = w.eps.ready /\ y.notReady = w.eps.notReady
  BY <1>4, <1>5, StoredFacts
<1>7. UNCHANGED <<objects, queue>> /\ svcs' = svcs
  BY DEF UpdateEndpoints, objects
<1>8. PICK u \in Task(h) : Become(h, u)
  BY UpdateEndpointsEffect
<1>9. \A g \in Handlers : g # h => task'[g] = task[g]
  BY <1>1, <1>8 DEF Become, TypeOK
<1> QED BY <1>1, <1>3, <1>4, <1>6, <1>7, <1>9 DEF At

LEMMA FitsWritten ==
    ASSUME NEW s \in DOMAIN svcs, UNCHANGED objects, NEW y, y = endpoints'[s],
           y.exists, y.anno = svcs[s], svcs[s].early => y.notReady = <<>>,
           \A e \in DOMAIN DanmEps : IpOf(e) # NoIp /\ e \in SelectDesMatchLabels(svcs[s]) =>
              IpOf(e) \in Listed(y) \/ AddDue(e, s)',
           \A e \in DOMAIN DanmEps : IpOf(e) # NoIp /\ IpOf(e) \in Listed(y) =>
              e \in SelectDesMatchLabels(svcs[s]) \/ DelDue(e, s)',
           \A e \in DOMAIN DanmEps :
              /\ IpOf(e) # NoIp /\ IpOf(e) \in Listed(y)
              /\ PodOf(e) \in DOMAIN pods /\ ~pods[PodOf(e)].deleting
              => StatusDue(PodOf(e), s)' \/ IpOf(e) \in Right(y, pods[PodOf(e)].ready)
    PROVE  Fits(s)'
<1>1. pods' = pods /\ svcs' = svcs /\ danmEps' = danmEps
  BY DEF objects
<1>2. SelectDesMatchLabels(svcs[s])' = SelectDesMatchLabels(svcs[s])
  BY <1>1 DEF SelectDesMatchLabels
<1>3. \A e \in DOMAIN DanmEps : FitsDanmEp(s, e)'
  <2> TAKE e \in DOMAIN DanmEps
  <2> QED BY <1>1, <1>2 DEF FitsDanmEp, Listed, Right
<1> QED BY <1>1, <1>3 DEF Fits

LEMMA PendingElements ==
    ASSUME NEW h \in Handlers, NEW t \in Task(h), NEW q \in Seq(Event(h))
    PROVE  /\ \A j \in DOMAIN q : \E k \in DOMAIN Pending(t, q) : Pending(t, q)[k] = q[j]
           /\ \A k \in DOMAIN Pending(t, q) :
                 \/ \E j \in DOMAIN q : Pending(t, q)[k] = q[j]
                 \/ t.pc # "idle" /\ Pending(t, q)[k] = t.ev
<1>1. CASE t.pc = "idle"
  <2>1. Pending(t, q) = q
    BY <1>1, PendingFacts
  <2> QED BY <2>1
<1>2. t.pc # "idle" => /\ DOMAIN Pending(t, q) = 1 .. Len(q) + 1
                       /\ Pending(t, q)[1] = t.ev
                       /\ \A j \in 1 .. Len(q) : Pending(t, q)[j + 1] = q[j]
  BY PendingFacts
<1>3. CASE t.pc # "idle"
  <2> DEFINE p == Pending(t, q)
  <2>1. PICK n \in Nat : n = Len(q)
    OBVIOUS
  <2>2. DOMAIN q = 1 .. n
    BY <2>1
  <2>3. DOMAIN p = 1 .. n + 1
    BY <1>2, <1>3, <2>1
  <2>4. p[1] = t.ev
    BY <1>2, <1>3
  <2>5. \A j \in 1 .. n : p[j + 1] = q[j]
    BY <1>2, <1>3, <2>1
  <2> HIDE DEF p
  <2>6. ASSUME NEW j \in DOMAIN q PROVE \E k \in DOMAIN p : p[k] = q[j]
    <3>1. j + 1 \in 1 .. n + 1
      BY <2>2
    <3> QED BY <2>2, <2>3, <2>5, <3>1
  <2>7. ASSUME NEW k \in DOMAIN p PROVE (\E j \in DOMAIN q : p[k] = q[j]) \/ p[k] = t.ev
    <3>1. CASE k = 1
      BY <2>4, <3>1
    <3>2. CASE k # 1
      <4>1. k - 1 \in 1 .. n /\ (k - 1) + 1 = k
        BY <2>3, <3>2
      <4>2. p[k] = q[k - 1]
        BY <2>5, <4>1
      <4> QED BY <2>2, <4>1, <4>2
    <3> QED BY <3>1, <3>2
  <2> QED BY <1>3, <2>6, <2>7 DEF p
<1> QED BY <1>1, <1>3

\* addSvc and updateSvc write what the Service selects now, unless it has changed again.
LEMMA SvcPutFits ==
    ASSUME SInv, Fitting, UpdateEndpoints("svc")
    PROVE  Fitting'
<1>1. PICK t, w, y : t = task["svc"] /\ w = t.writes[1] /\ y = endpoints'[w.svc]
  OBVIOUS
<1>2. SUFFICES ASSUME ~missed' PROVE Fitting'
  BY DEF Fitting
<1>3. "svc" \in Handlers /\ "danmep" \in Handlers /\ "pod" \in Handlers /\ TypeOK /\ EventsTyped /\ Told
  BY DEF Handlers, SInv
<1>4. /\ ~missed /\ w \in WriteType /\ w.svc \in Services /\ ~Outdated("svc", w)
      /\ UNCHANGED <<objects, queue>> /\ svcs' = svcs
      /\ \A s \in Services : s # w.svc => endpoints'[s] = endpoints[s]
      /\ y.exists = w.eps.exists /\ y.anno = w.eps.anno
      /\ y.ready = w.eps.ready /\ y.notReady = w.eps.notReady
      /\ t.pc = "put" /\ ~At("svc", "idle")
      /\ task'["danmep"] = task["danmep"] /\ task'["pod"] = task["pod"]
  BY <1>1, <1>2, <1>3, PutStep
<1>5. t.op = "svc" /\ Len(t.writes) = 1 /\ w.svc = t.ev.obj /\ Due(t.ev) /\ Built(w, New(t), w.des)
  <2>1. TaskOf("svc", t)
    BY <1>1, <1>3, TaskNow
  <2> QED BY <1>1, <1>4, <2>1 DEF TaskOf, SvcTask
<1>6. PICK u \in Task("svc") : Become("svc", u) /\ (u.pc = "idle" \/ u.ev = t.ev)
  BY <1>1, <1>3, UpdateEndpointsEffect
<1>7. task'["svc"] = u
  BY <1>3, <1>6 DEF Become, TypeOK
<1>8. PICK q : q = queue["svc"] /\ q \in Seq(Event("svc"))
  BY <1>3 DEF TypeOK
<1>9. \A s \in DOMAIN svcs : Settled(s)' =>
         /\ ~\E j \in DOMAIN q : q[j].obj = s /\ Due(q[j])
         /\ s # t.ev.obj => Settled(s)
  <2> SUFFICES ASSUME NEW s \in DOMAIN svcs, Settled(s)'
               PROVE  /\ ~\E j \in DOMAIN q : q[j].obj = s /\ Due(q[j])
                      /\ s # t.ev.obj => Settled(s)
    OBVIOUS
  <2>1. Events("svc")' = Pending(u, q) /\ Events("svc") = Pending(t, q)
    BY <1>1, <1>4, <1>7, <1>8 DEF Events
  <2>2. \A j \in DOMAIN q : \E k \in DOMAIN Pending(u, q) : Pending(u, q)[k] = q[j]
    BY <1>3, <1>6, <1>8, PendingElements
  <2>3. ~\E j \in DOMAIN q : q[j].obj = s /\ Due(q[j])
    BY <2>1, <2>2 DEF Settled, SvcDue
  <2>4. ASSUME s # t.ev.obj PROVE Settled(s)
    <3>1. t \in Task("svc")
      BY <1>1, <1>3, TaskNow
    <3>2. ASSUME NEW k \in DOMAIN Pending(t, q), Pending(t, q)[k].obj = s, Due(Pending(t, q)[k]) PROVE FALSE
      <4>1. (\E j \in DOMAIN q : Pending(t, q)[k] = q[j]) \/ Pending(t, q)[k] = t.ev
        BY <1>3, <1>8, <3>1, PendingElements
      <4> QED BY <2>3, <2>4, <3>2, <4>1
    <3> QED BY <1>4, <2>1, <3>2 DEF Settled, SvcDue
  <2> QED BY <2>3, <2>4
<1>10. DOMAIN svcs \subseteq Services
  BY <1>3 DEF TypeOK
<1>11. ASSUME NEW s \in DOMAIN svcs, Settled(s)', s # t.ev.obj PROVE Fits(s)'
  <2>1. Settled(s) /\ Fits(s)
    BY <1>4, <1>9, <1>11 DEF Fitting
  <2>2. endpoints'[s] = endpoints[s]
    BY <1>4, <1>5, <1>10, <1>11
  <2>3. AddKept(s) /\ DelKept(s) /\ StatusKept(s)
    BY <1>4, DanmEpQuiet, PodQuiet
  <2> QED BY <1>4, <2>1, <2>2, <2>3, FitsKept
<1>12. ASSUME NEW s \in DOMAIN svcs, Settled(s)', s = t.ev.obj PROVE Fits(s)'
  <2>1. t.ev.new = {svcs[s]}
    <3>1. \/ t.ev.new = {svcs[s]}
          \/ \E k \in DOMAIN queue["svc"] : queue["svc"][k].obj = s /\ Due(queue["svc"][k])
      BY <1>1, <1>3, <1>4, <1>5, <1>12, ToldSvc
    <3> QED BY <1>8, <1>9, <1>12, <3>1
  <2>2. New(t) = svcs[s]
    BY <2>1 DEF New
  <2>3. PICK a, des : a = svcs[s] /\ des = SelectDesMatchLabels(a)
    OBVIOUS
  <2>4. Built(w, a, w.des)
    BY <1>5, <2>2, <2>3
  <2>5. w.eps.exists /\ w.eps.anno = a /\ (a.early => w.eps.notReady = <<>>)
    BY <2>4 DEF Built
  <2>6. w.des = des
    BY <1>4, <2>3, <2>5 DEF Outdated
  <2>7. y.exists /\ y.anno = a /\ (a.early => y.notReady = <<>>) /\ s = w.svc /\ y = endpoints'[s]
    BY <1>1, <1>4, <1>5, <1>12, <2>5
  <2>8. Listed(y) \subseteq {IpOf(e) : e \in des}
    BY <1>4, <2>4, <2>6 DEF Built, Listed
  <2>9. \A e \in des : HasAddress(e) => \E v \in w.pods : v.pod = PodOf(e) /\ IpOf(e) \in Right(y, v.ready)
    BY <1>4, <2>4, <2>6 DEF Built, Right
  <2>10. \A e \in des : IpOf(e) # NoIp => HasAddress(e)
    BY <1>3, <2>3 DEF HasAddress, SelectDesMatchLabels, SInv, PodsStay, PodOf, IpOf
  <2>11. \A r \in BOOLEAN : Right(y, r) \subseteq Listed(y)
    BY DEF Right, Listed
  <2>12. \A v : Right(y, v) \subseteq Listed(y)
    BY DEF Right, Listed
  <2>13. \A e \in DOMAIN DanmEps : IpOf(e) # NoIp /\ e \in SelectDesMatchLabels(svcs[s]) =>
            IpOf(e) \in Listed(y) \/ AddDue(e, s)'
    BY <2>3, <2>9, <2>10, <2>12
  <2>14. \A e \in DOMAIN DanmEps : IpOf(e) # NoIp /\ IpOf(e) \in Listed(y) => e \in des
    <3> SUFFICES ASSUME NEW e \in DOMAIN DanmEps, IpOf(e) # NoIp, IpOf(e) \in Listed(y) PROVE e \in des
      OBVIOUS
    <3>1. PICK f \in des : IpOf(e) = IpOf(f)
      BY <2>8
    <3>2. f \in DOMAIN DanmEps
      BY <1>3, <2>3 DEF SelectDesMatchLabels, TypeOK
    <3> QED BY <3>1, <3>2, IpFacts
  <2>15. \A e \in DOMAIN DanmEps :
            /\ IpOf(e) # NoIp /\ IpOf(e) \in Listed(y)
            /\ PodOf(e) \in DOMAIN pods /\ ~pods[PodOf(e)].deleting
            => StatusDue(PodOf(e), s)' \/ IpOf(e) \in Right(y, pods[PodOf(e)].ready)
    <3> SUFFICES ASSUME NEW e \in DOMAIN DanmEps, IpOf(e) # NoIp, IpOf(e) \in Listed(y),
                        PodOf(e) \in DOMAIN pods, ~pods[PodOf(e)].deleting
                 PROVE  StatusDue(PodOf(e), s)' \/ IpOf(e) \in Right(y, pods[PodOf(e)].ready)
      OBVIOUS
    <3>1. PICK v \in w.pods : v.pod = PodOf(e) /\ IpOf(e) \in Right(y, v.ready)
      BY <2>9, <2>10, <2>14
    <3>2. pods[PodOf(e)].ready = v.ready \/ Announced(PodOf(e))
      BY <1>4, <3>1 DEF Outdated
    <3>3. Announced(PodOf(e)) => StatusDue(PodOf(e), s)'
      BY <1>4 DEF StatusDue, Announced
    <3> QED BY <3>1, <3>2, <3>3
  <2> QED BY <1>4, <2>3, <2>7, <2>13, <2>14, <2>15, FitsWritten
<1> QED BY <1>4, <1>11, <1>12 DEF Fitting

LEMMA RestWrites ==
    ASSUME NEW q \in Seq(WriteType), q # <<>>, NEW s, q[1].svc # s, \E i \in DOMAIN q : q[i].svc = s
    PROVE  Len(q) # 1 /\ \E i \in DOMAIN Tail(q) : Tail(q)[i].svc = s
<1>1. PICK n \in Nat \ {0} : n = Len(q)
  BY TailFacts
<1>2. DOMAIN q = 1 .. n
  BY <1>1
<1>3. DOMAIN Tail(q) = 1 .. n - 1
  BY <1>1, TailFacts
<1>4. \A i \in 1 .. n - 1 : Tail(q)[i] = q[i + 1]
  BY <1>1, TailFacts
<1>5. PICK i \in 1 .. n : q[i].svc = s
  BY <1>2
<1>6. i - 1 \in 1 .. n - 1 /\ (i - 1) + 1 = i /\ n # 1
  BY <1>5
<1>7. Tail(q)[i - 1].svc = s
  BY <1>4, <1>5, <1>6
<1> QED BY <1>1, <1>3, <1>6, <1>7

LEMMA PutFrame ==
    ASSUME SInv, Fitting, NEW h \in Handlers, h # "svc", UpdateEndpoints(h), ~missed',
           NEW s \in DOMAIN svcs, Settled(s)'
    PROVE  /\ Fits(s) /\ s \in Services
           /\ h = "danmep" => StatusKept(s)
           /\ h = "pod" => AddKept(s) /\ DelKept(s)
<1>1. "svc" \in Handlers /\ "danmep" \in Handlers /\ "pod" \in Handlers /\ TypeOK
  BY DEF Handlers, SInv
<1>2. /\ ~missed /\ UNCHANGED <<objects, queue>> /\ svcs' = svcs
      /\ \A g \in Handlers : g # h => task'[g] = task[g]
  BY PutStep
<1>3. Settled(s)
  BY <1>1, <1>2, SvcQuiet
<1>4. Fits(s)
  BY <1>2, <1>3 DEF Fitting
<1>5. h = "danmep" => StatusKept(s)
  BY <1>1, <1>2, PodQuiet
<1>6. h = "pod" => AddKept(s) /\ DelKept(s)
  BY <1>1, <1>2, DanmEpQuiet
<1>7. s \in Services
  BY <1>1 DEF TypeOK
<1> QED BY <1>4, <1>5, <1>6, <1>7

\* A write with a version is made from the present Endpoints.
LEMMA PutDerived ==
    ASSUME SInv, NEW h \in Handlers, h # "svc", UpdateEndpoints(h), ~missed',
           NEW t, t = task[h], NEW w, w = t.writes[1], Derived(t, w), NEW x, x = endpoints[w.svc]
    PROVE  /\ x \in EndpointsType /\ Unique(x) /\ Unique(w.eps) /\ w.eps.exists = x.exists /\ w.eps.anno = x.anno
           /\ Rest(w.eps.ready, Concerned(h, t)) = Rest(x.ready, Concerned(h, t))
           /\ Rest(w.eps.notReady, Concerned(h, t)) = Rest(x.notReady, Concerned(h, t))
           /\ \/ DelApplied(h, t, w, x) \/ AddApplied(h, t, w, x)
              \/ TouchApplied(h, t, w, x) \/ StatusApplied(h, t, w, x)
<1>1. At(h, "put")
  BY DEF UpdateEndpoints
<1>2. ~missed /\ w \in WriteType /\ w.svc \in Services /\ Accepted(w)
  BY PutStep
<1>3. w.kind = "versioned"
  BY DEF Derived
<1>4. w.basis = x.rv
  BY <1>2, <1>3 DEF Accepted
<1>5. x \in EndpointsType
  BY <1>1, <1>2, <1>4, Applied
<1>6. \/ DelApplied(h, t, w, x) \/ AddApplied(h, t, w, x)
      \/ TouchApplied(h, t, w, x) \/ StatusApplied(h, t, w, x)
  BY <1>1, <1>2, <1>4, Applied
<1>7. Unique(x) /\ Unique(w.eps) /\ w.eps.exists = x.exists /\ w.eps.anno = x.anno
  BY <1>1, <1>2, <1>4, AppliedFacts
<1>8. /\ Rest(w.eps.ready, Concerned(h, t)) = Rest(x.ready, Concerned(h, t))
      /\ Rest(w.eps.notReady, Concerned(h, t)) = Rest(x.notReady, Concerned(h, t))
  BY <1>1, <1>2, <1>4, AppliedFacts
<1> QED BY <1>5, <1>6, <1>7, <1>8

\* delDanmep: a DanmEp the Service selects, if it is the one whose address goes, is added
\* afterwards.
LEMMA DelPutAdds ==
    ASSUME SInv, UpdateEndpoints("danmep"), task["danmep"].op = "del", NEW s,
           NEW e \in SelectDesMatchLabels(svcs[s]), AddDue(e, s)
    PROVE  AddDue(e, s)'
<1>1. PICK t : t = task["danmep"]
  OBVIOUS
<1>2. "danmep" \in Handlers /\ TypeOK
  BY DEF Handlers, SInv
<1>3. At("danmep", "put") /\ queue' = queue
  BY DEF UpdateEndpoints
<1>4. t \in Task("danmep") /\ t.pc = "put" /\ ~At("danmep", "idle")
  BY <1>1, <1>2, <1>3, PutFacts DEF At
<1>5. PICK u \in Task("danmep") :
         /\ Become("danmep", u)
         /\ \/ u = After(t)
            \/ u.pc = "put" /\ u.op = t.op /\ u.ev = t.ev
  BY <1>1, <1>2, UpdateEndpointsEffect
<1>6. task'["danmep"] = u
  BY <1>2, <1>5 DEF Become, TypeOK
<1>7. CASE \E j \in DOMAIN queue["danmep"] : queue["danmep"][j].obj = e
  BY <1>3, <1>7 DEF AddDue
<1>8. CASE AddTask(t, e, s) /\ ~\E j \in DOMAIN queue["danmep"] : queue["danmep"][j].obj = e
  <2>1. e = t.ev.obj
    BY <1>8 DEF AddTask
  <2>2. t.ev.new # {}
    BY <1>1, <1>4, <1>8, <2>1, SelectedNow
  <2>3. t.op = "del"
    BY <1>1
  <2>4. AddTask(u, e, s)
    <3>1. CASE u = After(t)
      <4>1. After(t) = Goes(t, "match")
        BY <1>2, <1>4, <2>2, <2>3, AfterFacts
      <4>2. u.pc = "match" /\ u.ev = t.ev
        BY <3>1, <4>1, <1>2, <1>4, GoesFacts DEF Pcs
      <4> QED BY <2>1, <4>2 DEF AddTask
    <3>2. CASE u.pc = "put" /\ u.op = t.op /\ u.ev = t.ev
      BY <2>1, <2>3, <3>2 DEF AddTask
    <3> QED BY <1>5, <3>1, <3>2
  <2> QED BY <1>6, <2>4 DEF AddDue
<1> QED BY <1>1, <1>7, <1>8 DEF AddDue

LEMMA DelPutFits ==
    ASSUME SInv, Fitting, UpdateEndpoints("danmep"), task["danmep"].op = "del", ~missed',
           NEW s \in DOMAIN svcs, Settled(s)'
    PROVE  Fits(s)'
<1>1. PICK t, w : t = task["danmep"] /\ w = t.writes[1]
  OBVIOUS
<1>2. "danmep" \in Handlers /\ TypeOK
  BY DEF Handlers, SInv
<1>3. At("danmep", "put") /\ queue' = queue
  BY DEF UpdateEndpoints
<1>4. /\ ~missed /\ w \in WriteType /\ w.svc \in Services /\ UNCHANGED objects /\ svcs' = svcs
      /\ \A r \in Services : r # w.svc => endpoints'[r] = endpoints[r]
  BY <1>1, <1>2, PutStep
<1>5. Fits(s) /\ s \in Services /\ StatusKept(s)
  BY <1>2, PutFrame
<1>6. /\ t \in Task("danmep") /\ EventOf("danmep", t.ev) /\ t.pc = "put"
      /\ t.writes \in Seq(WriteType) /\ t.writes # <<>>
  BY <1>1, <1>2, <1>3, PutFacts
<1>7. PICK u \in Task("danmep") :
         /\ Become("danmep", u)
         /\ \/ Len(t.writes) = 1
            \/ u.pc = "put" /\ u.op = t.op /\ u.ev = t.ev /\ u.writes = Tail(t.writes)
  BY <1>1, <1>2, UpdateEndpointsEffect
<1>8. task'["danmep"] = u
  BY <1>2, <1>7 DEF Become, TypeOK
<1>9. CASE s # w.svc
  <2>1. AddKept(s)
    BY DelPutAdds DEF AddKept
  <2>2. DelKept(s)
    <3> SUFFICES ASSUME NEW e \in DOMAIN DanmEps, DelDue(e, s) PROVE DelDue(e, s)'
      BY DEF DelKept
    <3>1. CASE \E j \in DOMAIN queue["danmep"] :
                  /\ queue["danmep"][j].obj = e
                  /\ \E l \in queue["danmep"][j].old : Selects(svcs[s], e, l)
      BY <1>3, <1>4, <3>1 DEF DelDue
    <3>2. CASE DelTask(t, e, s, svcs[s])
      <4>1. \E i \in DOMAIN t.writes : t.writes[i].svc = s
        BY <1>6, <3>2 DEF DelTask, Writes
      <4>2. Len(t.writes) # 1 /\ \E i \in DOMAIN Tail(t.writes) : Tail(t.writes)[i].svc = s
        BY <1>1, <1>6, <1>9, <4>1, RestWrites
      <4>3. u.pc = "put" /\ u.op = t.op /\ u.ev = t.ev /\ Writes(u, s)
        BY <1>7, <4>2 DEF Writes
      <4>4. DelTask(u, e, s, svcs[s])
        BY <1>1, <3>2, <4>3 DEF DelTask
      <4> QED BY <1>4, <1>8, <4>4 DEF DelDue
    <3> QED BY <1>1, <3>1, <3>2 DEF DelDue
  <2>3. endpoints'[s] = endpoints[s]
    BY <1>4, <1>5, <1>9
  <2> QED BY <1>4, <1>5, <2>1, <2>2, <2>3, FitsKept
<1>10. CASE s = w.svc
  <2>1. PICK x, y : x = endpoints[s] /\ y = endpoints'[s]
    OBVIOUS
  <2>2. PICK d : d = t.ev.obj
    OBVIOUS
  <2>3. Derived(t, w)
    <3>1. TaskOf("danmep", t) /\ t.writes # <<>> /\ DOMAIN t.writes = 1 .. Len(t.writes) /\ Len(t.writes) \in Nat \ {0}
      BY <1>1, <1>2, <1>3, PutFacts
    <3>2. 1 \in DOMAIN t.writes
      BY <3>1
    <3> QED BY <1>1, <1>6, <3>1, <3>2 DEF TaskOf, DanmEpTask
  <2>4. x \in EndpointsType /\ Unique(x) /\ w.eps.exists = x.exists /\ w.eps.anno = x.anno
    BY <1>1, <1>2, <1>10, <2>1, <2>3, PutDerived
  <2>5. DelApplied("danmep", t, w, x)
    <3>1. \/ DelApplied("danmep", t, w, x) \/ AddApplied("danmep", t, w, x)
          \/ TouchApplied("danmep", t, w, x) \/ StatusApplied("danmep", t, w, x)
      BY <1>1, <1>2, <1>10, <2>1, <2>3, PutDerived
    <3> QED BY <1>1, <3>1 DEF AddApplied, TouchApplied, StatusApplied
  <2>6. d \in DOMAIN DanmEps
    BY <2>2, <2>5 DEF DelApplied
  <2>7. /\ w.eps.ready = deleteFromEpAddressList(IpOf(d), x.ready).list
        /\ w.eps.notReady = deleteFromEpAddressList(IpOf(d), x.notReady).list
    BY <2>2, <2>4, <2>5, <2>6, DelFacts DEF DelApplied
  <2>8. /\ Ips(w.eps.ready) = Ips(x.ready) \ {IpOf(d)}
        /\ Ips(w.eps.notReady) = Ips(x.notReady) \ {IpOf(d)}
        /\ x.notReady = <<>> => w.eps.notReady = <<>>
    BY <2>4, <2>6, <2>7, DelOnce
  <2>9. y.exists = x.exists /\ y.anno = x.anno /\ y.ready = w.eps.ready /\ y.notReady = w.eps.notReady
    BY <1>1, <1>2, <1>10, <2>1, <2>4, PutStep
  <2>10. /\ Listed(y) = Listed(x) \ {IpOf(d)} 
         /\ \A r : Right(y, r) = Right(x, r) \ {IpOf(d)}
    BY <2>8, <2>9 DEF Listed, Right
  <2>11. /\ x.exists /\ x.anno = svcs[s] /\ (x.anno.early => x.notReady = <<>>)
         /\ \A e \in DOMAIN DanmEps : FitsDanmEp(s, e)
    BY <1>5, <2>1 DEF Fits
  <2>12. y.exists /\ y.anno = svcs[s] /\ (svcs[s].early => y.notReady = <<>>)
    BY <2>8, <2>9, <2>11
  <2>13. ASSUME NEW e \in DOMAIN DanmEps, IpOf(e) # NoIp, e \in SelectDesMatchLabels(svcs[s])
         PROVE  IpOf(e) \in Listed(y) \/ AddDue(e, s)'
    <3>1. IpOf(e) \in Listed(x) \/ AddDue(e, s)
      BY <2>1, <2>11, <2>13 DEF FitsDanmEp
    <3>2. CASE AddDue(e, s)
      BY <2>13, <3>2, DelPutAdds
    <3>3. CASE IpOf(e) \in Listed(x) /\ e # d
      <4>1. IpOf(e) # IpOf(d)
        BY <2>6, <2>13, <3>3, IpFacts
      <4> QED BY <2>10, <3>3, <4>1
    <3>4. CASE e = d
      <4>1. AddTask(t, e, s)
        BY <1>1, <1>6, <2>2, <3>4 DEF AddTask
      <4>2. AddDue(e, s)
        BY <1>1, <4>1 DEF AddDue
      <4> QED BY <2>13, <4>2, DelPutAdds
    <3> QED BY <3>1, <3>2, <3>3, <3>4
  <2>14. ASSUME NEW e \in DOMAIN DanmEps, IpOf(e) # NoIp, IpOf(e) \in Listed(y)
         PROVE  e \in SelectDesMatchLabels(svcs[s]) \/ DelDue(e, s)'
    <3>1. IpOf(e) \in Listed(x) /\ e # d
      BY <2>10, <2>14
    <3>2. e \in SelectDesMatchLabels(svcs[s]) \/ DelDue(e, s)
      BY <2>1, <2>11, <2>14, <3>1 DEF FitsDanmEp
    <3>3. ASSUME DelDue(e, s) PROVE DelDue(e, s)'
      <4>1. ~DelTask(task["danmep"], e, s, svcs[s])
        BY <1>1, <2>2, <3>1 DEF DelTask
      <4>2. \E j \in DOMAIN queue["danmep"] :
               /\ queue["danmep"][j].obj = e
               /\ \E l \in queue["danmep"][j].old : Selects(svcs[s], e, l)
        BY <3>3, <4>1 DEF DelDue
      <4> QED BY <1>3, <1>4, <4>2 DEF DelDue
    <3> QED BY <3>2, <3>3
  <2>15. ASSUME NEW e \in DOMAIN DanmEps, IpOf(e) # NoIp, IpOf(e) \in Listed(y),
                PodOf(e) \in DOMAIN pods, ~pods[PodOf(e)].deleting
         PROVE  StatusDue(PodOf(e), s)' \/ IpOf(e) \in Right(y, pods[PodOf(e)].ready)
    <3>1. IpOf(e) \in Listed(x) /\ IpOf(e) # IpOf(d)
      BY <2>10, <2>15
    <3>2. StatusDue(PodOf(e), s) \/ IpOf(e) \in Right(x, pods[PodOf(e)].ready)
      BY <2>1, <2>11, <2>15, <3>1 DEF FitsDanmEp
    <3>3. StatusDue(PodOf(e), s) => StatusDue(PodOf(e), s)'
      BY <1>5, <2>1, <2>15, <3>1 DEF StatusKept
    <3> QED BY <2>10, <3>1, <3>2, <3>3
  <2> QED BY <1>4, <2>1, <2>12, <2>13, <2>14, <2>15, FitsWritten
<1> QED BY <1>9, <1>10

\* AddToService has one write, for the Service t.cur.
LEMMA AddPutStep ==
    ASSUME SInv, Fitting, UpdateEndpoints("danmep"), NEW t, t = task["danmep"], t.op = "add", ~missed',
           NEW w, w = t.writes[1], NEW d, d = t.ev.obj
    PROVE  /\ w.svc = t.cur /\ d \in DOMAIN DanmEps
           /\ w.svc \in DOMAIN svcs /\ svcs[w.svc] = t.anno
           /\ t.ev.new # {} /\ Selects(t.anno, d, New(t))
           /\ svcs' = svcs /\ queue' = queue /\ objects' = objects
           /\ \A s : \A e \in DOMAIN DanmEps : DelDue(e, s) => DelDue(e, s)'
           /\ \A s : \A e \in DOMAIN DanmEps : AddDue(e, s) => AddDue(e, s)' \/ (e = d /\ s = t.cur)
<1>1. "danmep" \in Handlers /\ TypeOK /\ EventsTyped
  BY DEF Handlers, SInv
<1>2. At("danmep", "put")
  BY DEF UpdateEndpoints
<1>3. ~Outdated("danmep", w) /\ UNCHANGED <<objects, queue>> /\ svcs' = svcs /\ ~At("danmep", "idle")
  BY <1>1, PutStep
<1>4. w.svc \in DOMAIN svcs /\ svcs[w.svc] = t.anno
  BY <1>3 DEF Outdated
<1>5. t \in Task("danmep") /\ TaskOf("danmep", t) /\ EventOf("danmep", t.ev) /\ t.pc = "put"
  BY <1>1, <1>2, PutFacts
<1>6. w.svc = t.cur
  BY <1>5 DEF TaskOf, DanmEpTask
<1>7. Adding(t) /\ Chosen(t)
  BY <1>5 DEF Adding, Chosen
<1>8. t.ev.new # {} /\ Selects(t.anno, d, New(t))
  BY <1>5, <1>7 DEF TaskOf, DanmEpTask
<1>9. d \in DOMAIN DanmEps
  BY <1>1, <1>3, ToldDanmEp DEF SInv
<1>10. PICK u \in Task("danmep") : Become("danmep", u) /\ u = After(t)
  <2>1. PICK u \in Task("danmep") :
           /\ Become("danmep", u)
           /\ \/ u = After(t)
              \/ t.op \in {"del", "touch", "status"}
    BY <1>1, UpdateEndpointsEffect
  <2> QED BY <2>1
<1>11. task'["danmep"] = u
  BY <1>1, <1>10 DEF Become, TypeOK
<1>12. ASSUME NEW s, NEW e \in DOMAIN DanmEps, DelDue(e, s) PROVE DelDue(e, s)'
  <2>1. ~DelTask(t, e, s, svcs[s])
    BY <1>5 DEF DelTask
  <2> QED BY <1>3, <1>12, <2>1 DEF DelDue
<1>13. ASSUME NEW s, NEW e \in DOMAIN DanmEps, AddDue(e, s), ~(e = d /\ s = t.cur) PROVE AddDue(e, s)'
  <2>1. CASE \E j \in DOMAIN queue["danmep"] : queue["danmep"][j].obj = e
    BY <1>3, <2>1 DEF AddDue
  <2>2. CASE AddTask(t, e, s)
    <3>1. e = d /\ \E n \in t.todo : n.svc = s
      BY <1>5, <1>13, <2>2 DEF AddTask
    <3>2. After(t) = Goes(t, "next")
      BY <1>1, <1>5, <3>1, AfterFacts
    <3>3. u.pc = "next" /\ u.ev = t.ev /\ u.todo = t.todo
      BY <1>1, <1>5, <1>10, <3>2, GoesFacts DEF Pcs
    <3>4. AddTask(u, e, s)
      BY <3>1, <3>3 DEF AddTask, Adding
    <3> QED BY <1>11, <3>4 DEF AddDue
  <2> QED BY <1>13, <2>1, <2>2 DEF AddDue
<1> QED BY <1>3, <1>4, <1>6, <1>8, <1>9, <1>12, <1>13

\* The DanmEp it adds is still selected, or a change of it is to be handled.
LEMMA AddPutSelected ==
    ASSUME SInv, Fitting, UpdateEndpoints("danmep"), NEW t, t = task["danmep"], t.op = "add", ~missed',
           NEW d, d = t.ev.obj, NEW s, s = t.cur
    PROVE  d \in SelectDesMatchLabels(svcs[s]) \/ DelDue(d, s)'
<1>1. "danmep" \in Handlers /\ TypeOK /\ EventsTyped /\ Told
  BY DEF Handlers, SInv
<1>2. PICK w : w = t.writes[1]
  OBVIOUS
<1>3. /\ svcs[s] = t.anno /\ d \in DOMAIN DanmEps /\ t.ev.new # {} /\ Selects(t.anno, d, New(t))
      /\ svcs' = svcs /\ queue' = queue
  BY <1>2, AddPutStep
<1>4. At("danmep", "put") /\ ~At("danmep", "idle")
  BY DEF UpdateEndpoints, At
<1>5. t \in Task("danmep") /\ EventOf("danmep", t.ev)
  BY <1>1, <1>4, PutFacts
<1>6. t.ev.new = {New(t)}
  BY <1>1, <1>3, <1>5, EventValues
<1>7. CASE t.ev.new = DanmEpState(d)
  <2>1. d \in DOMAIN danmEps /\ New(t) = danmEps[d]
    BY <1>3, <1>6, <1>7 DEF DanmEpState
  <2> QED BY <1>3, <2>1 DEF SelectDesMatchLabels
<1>8. CASE \E k \in DOMAIN queue["danmep"] : queue["danmep"][k].obj = d /\ queue["danmep"][k].old = t.ev.new
  <2>1. PICK k \in DOMAIN queue["danmep"] : queue["danmep"][k].obj = d /\ queue["danmep"][k].old = t.ev.new
    BY <1>8
  <2>2. New(t) \in queue["danmep"][k].old /\ Selects(svcs[s], d, New(t))
    BY <1>3, <1>6, <2>1
  <2> QED BY <1>3, <2>1, <2>2 DEF DelDue
<1> QED BY <1>1, <1>4, <1>7, <1>8, ToldDanmEp

\* What the write says of the Pod holds, or a change of it is to be handled.
LEMMA ReadyNow ==
    ASSUME NEW h, NEW w, ~Outdated(h, w), NEW v \in w.pods, v.pod \in DOMAIN pods, ~pods[v.pod].deleting,
           queue' = queue, NEW s
    PROVE  pods[v.pod].ready = v.ready \/ StatusDue(v.pod, s)'
<1>1. pods[v.pod].ready = v.ready \/ Announced(v.pod)
  BY DEF Outdated
<1> QED BY <1>1 DEF StatusDue, Announced

\* The address is added to the Endpoints there are.
LEMMA AddPutDerived ==
    ASSUME SInv, Fitting, UpdateEndpoints("danmep"), NEW t, t = task["danmep"], t.op = "add", ~missed',
           NEW w, w = t.writes[1], Derived(t, w), NEW s \in DOMAIN svcs, s = w.svc, Settled(s)'
    PROVE  Fits(s)'
<1>1. PICK x, y, d : x = endpoints[s] /\ y = endpoints'[s] /\ d = t.ev.obj
  OBVIOUS
<1>2. "danmep" \in Handlers /\ "danmep" # "svc" /\ "danmep" # "pod" /\ TypeOK
  BY DEF Handlers, SInv
<1>3. /\ s = t.cur /\ d \in DOMAIN DanmEps /\ svcs[s] = t.anno
      /\ svcs' = svcs /\ queue' = queue /\ objects' = objects
      /\ \A e \in DOMAIN DanmEps : DelDue(e, s) => DelDue(e, s)'
      /\ \A e \in DOMAIN DanmEps : AddDue(e, s) => AddDue(e, s)' \/ e = d
  BY <1>1, AddPutStep
<1>4. d \in SelectDesMatchLabels(svcs[s]) \/ DelDue(d, s)'
  BY <1>1, <1>3, AddPutSelected
<1>5. Fits(s) /\ StatusKept(s)
  BY <1>2, PutFrame
<1>6. /\ x.exists /\ x.anno = svcs[s] /\ (x.anno.early => x.notReady = <<>>)
      /\ \A e \in DOMAIN DanmEps : FitsDanmEp(s, e)
  BY <1>1, <1>5 DEF Fits
<1>7. x \in EndpointsType /\ w.eps.exists = x.exists /\ w.eps.anno = x.anno
  BY <1>1, <1>2, PutDerived
<1>8. AddApplied("danmep", t, w, x)
  <2>1. \/ DelApplied("danmep", t, w, x) \/ AddApplied("danmep", t, w, x)
        \/ TouchApplied("danmep", t, w, x) \/ StatusApplied("danmep", t, w, x)
    BY <1>1, <1>2, PutDerived
  <2> QED BY <2>1 DEF DelApplied, TouchApplied, StatusApplied
<1>9. PICK z, pod, early : z = w.eps /\ pod = t.pod /\ early = t.anno.early
  OBVIOUS
<1>10. pod \in PodState /\ early \in BOOLEAN /\ z = EpCheckUpdate(d, pod, x, early)
  BY <1>1, <1>8, <1>9 DEF AddApplied
<1>11. /\ Ips(x.ready) \subseteq Ips(z.ready) /\ Ips(z.ready) \subseteq Ips(x.ready) \cup {IpOf(d)}
       /\ Ips(x.notReady) \subseteq Ips(z.notReady)
       /\ Ips(z.notReady) \subseteq Ips(x.notReady) \cup {IpOf(d)}
  BY <1>3, <1>7, <1>10, AddFacts
<1>12. IpOf(d) \in Ips(x.ready) => z = x
  BY <1>3, <1>7, <1>10, AddFacts
<1>13. IpOf(d) # NoIp /\ IpOf(d) \notin Ips(x.ready) =>
          IpOf(d) \in Ips(IF pod.ready \/ early THEN z.ready ELSE z.notReady)
  BY <1>3, <1>7, <1>10, AddFacts
<1>14. early => z.notReady = x.notReady
  BY <1>3, <1>7, <1>10, AddFacts
<1>15. y.exists = z.exists /\ y.anno = z.anno /\ y.ready = z.ready /\ y.notReady = z.notReady
  BY <1>1, <1>2, <1>9, PutStep
<1>16. ~Outdated("danmep", w)
  BY <1>2, PutStep
<1>17. w.pods = {[pod |-> PodOf(d), ready |-> pod.ready]}
  BY <1>1, <1>9 DEF Derived
<1>18. y.exists /\ y.anno = svcs[s] /\ (svcs[s].early => y.notReady = <<>>) /\ svcs[s].early = early
  BY <1>3, <1>6, <1>7, <1>9, <1>14, <1>15
<1>19. ASSUME NEW e \in DOMAIN DanmEps, IpOf(e) # NoIp, e \in SelectDesMatchLabels(svcs[s])
       PROVE  IpOf(e) \in Listed(y) \/ AddDue(e, s)'
  <2>1. IpOf(e) \in Listed(x) \/ AddDue(e, s)
    BY <1>1, <1>6, <1>19 DEF FitsDanmEp
  <2>2. CASE IpOf(e) \in Listed(x)
    BY <1>11, <1>15, <2>2 DEF Listed
  <2>3. CASE e = d
    BY <1>11, <1>13, <1>15, <1>19, <2>3 DEF Listed
  <2> QED BY <1>3, <2>1, <2>2, <2>3
<1>20. ASSUME NEW e \in DOMAIN DanmEps, IpOf(e) # NoIp, IpOf(e) \in Listed(y)
       PROVE  e \in SelectDesMatchLabels(svcs[s]) \/ DelDue(e, s)'
  <2>1. CASE e = d
    BY <1>4, <2>1
  <2>2. CASE e # d
    <3>1. IpOf(e) # IpOf(d)
      BY <1>3, <1>20, <2>2, IpFacts
    <3>2. IpOf(e) \in Listed(x)
      BY <1>11, <1>15, <1>20, <3>1 DEF Listed
    <3> QED BY <1>1, <1>3, <1>6, <1>20, <3>2 DEF FitsDanmEp
  <2> QED BY <2>1, <2>2
<1>21. ASSUME NEW e \in DOMAIN DanmEps, IpOf(e) # NoIp, IpOf(e) \in Listed(y),
              PodOf(e) \in DOMAIN pods, ~pods[PodOf(e)].deleting
       PROVE  StatusDue(PodOf(e), s)' \/ IpOf(e) \in Right(y, pods[PodOf(e)].ready)
  <2>1. CASE IpOf(e) \in Listed(x)
    <3>1. StatusDue(PodOf(e), s) \/ IpOf(e) \in Right(x, pods[PodOf(e)].ready)
      BY <1>1, <1>6, <1>21, <2>1 DEF FitsDanmEp
    <3>2. StatusDue(PodOf(e), s) => StatusDue(PodOf(e), s)'
      BY <1>1, <1>5, <1>21, <2>1 DEF StatusKept
    <3>3. IpOf(e) \in Right(x, pods[PodOf(e)].ready) => IpOf(e) \in Right(y, pods[PodOf(e)].ready)
      BY <1>6, <1>11, <1>15, <1>18 DEF Right
    <3> QED BY <3>1, <3>2, <3>3
  <2>2. CASE IpOf(e) \notin Listed(x)
    <3>1. e = d /\ IpOf(d) \notin Ips(x.ready)
      <4>1. IpOf(e) = IpOf(d)
        BY <1>11, <1>15, <1>21, <2>2 DEF Listed
      <4> QED BY <1>3, <1>21, <2>2, <4>1, IpFacts DEF Listed
    <3>2. IpOf(d) \in Right(y, pod.ready)
      BY <1>13, <1>15, <1>18, <1>21, <3>1 DEF Right
    <3>3. PICK v \in w.pods : v = [pod |-> PodOf(d), ready |-> pod.ready]
      BY <1>17
    <3>4. v.pod = PodOf(d) /\ v.ready = pod.ready
      BY <3>3
    <3>5. pods[v.pod].ready = v.ready \/ StatusDue(v.pod, s)'
      BY <1>3, <1>16, <1>21, <3>1, <3>4, ReadyNow
    <3> QED BY <3>1, <3>2, <3>4, <3>5
  <2> QED BY <2>1, <2>2
<1> QED BY <1>1, <1>3, <1>18, <1>19, <1>20, <1>21, FitsWritten

\* The Endpoints had no address: new ones are built.
LEMMA AddPutBuilt ==
    ASSUME SInv, Fitting, UpdateEndpoints("danmep"), NEW t, t = task["danmep"], t.op = "add", ~missed',
           NEW w, w = t.writes[1], NEW s \in DOMAIN svcs, s = w.svc, Settled(s)',
           w.kind \in {"update", "invalid"}, Built(w, t.anno, {t.ev.obj}),
           w.basis = endpoints[w.svc].rv => ~HasSubsets(endpoints[w.svc])
    PROVE  Fits(s)'
<1>1. PICK x, y, d : x = endpoints[s] /\ y = endpoints'[s] /\ d = t.ev.obj
  OBVIOUS
<1>2. "danmep" \in Handlers /\ "danmep" # "svc" /\ "danmep" # "pod" /\ TypeOK
  BY DEF Handlers, SInv
<1>3. /\ s = t.cur /\ d \in DOMAIN DanmEps /\ svcs[s] = t.anno
      /\ svcs' = svcs /\ queue' = queue /\ objects' = objects
      /\ \A e \in DOMAIN DanmEps : AddDue(e, s) => AddDue(e, s)' \/ e = d
  BY <1>1, AddPutStep
<1>4. d \in SelectDesMatchLabels(svcs[s]) \/ DelDue(d, s)'
  BY <1>1, <1>3, AddPutSelected
<1>5. Fits(s) /\ s \in Services
  BY <1>2, PutFrame
<1>6. x.exists /\ \A e \in DOMAIN DanmEps : FitsDanmEp(s, e)
  BY <1>1, <1>5 DEF Fits
<1>7. ~Outdated("danmep", w) /\ Accepted(w)
  BY <1>2, PutStep
<1>8. w.kind = "update"
  BY <1>7 DEF Accepted
<1>9. ~HasSubsets(x)
  BY <1>1, <1>7, <1>8 DEF Outdated
<1>10. Listed(x) = {}
  <2>1. x \in EndpointsType
    BY <1>1, <1>2, <1>5 DEF TypeOK
  <2> QED BY <1>6, <1>9, <2>1, ListedSubsets
<1>11. y.exists = w.eps.exists /\ y.anno = w.eps.anno /\ y.ready = w.eps.ready /\ y.notReady = w.eps.notReady
  BY <1>1, <1>2, PutStep
<1>12. y.exists /\ y.anno = svcs[s] /\ (svcs[s].early => y.notReady = <<>>)
  BY <1>3, <1>11 DEF Built
<1>13. Listed(y) \subseteq {IpOf(d)}
  BY <1>1, <1>11 DEF Built, Listed
<1>14. HasAddress(d) => \E v \in w.pods : v.pod = PodOf(d) /\ IpOf(d) \in Right(y, v.ready)
  BY <1>1, <1>11 DEF Built, Right
<1>15. ASSUME NEW e \in DOMAIN DanmEps, IpOf(e) # NoIp, e \in SelectDesMatchLabels(svcs[s])
       PROVE  IpOf(e) \in Listed(y) \/ AddDue(e, s)'
  <2>1. AddDue(e, s)
    BY <1>1, <1>6, <1>10, <1>15 DEF FitsDanmEp
  <2>2. CASE e = d
    <3>1. d \in DOMAIN danmEps
      BY <1>15, <2>2 DEF SelectDesMatchLabels
    <3>2. HasAddress(d)
      BY <1>15, <2>2, <3>1 DEF HasAddress, SInv, PodsStay, PodOf, IpOf
    <3>3. \A v : Right(y, v) \subseteq Listed(y)
      BY DEF Right, Listed
    <3> QED BY <1>14, <2>2, <3>2, <3>3
  <2> QED BY <1>3, <2>1, <2>2
<1>16. ASSUME NEW e \in DOMAIN DanmEps, IpOf(e) # NoIp, IpOf(e) \in Listed(y) PROVE e = d
  <2>1. IpOf(e) = IpOf(d)
    BY <1>13, <1>16
  <2> QED BY <1>3, <1>16, <2>1, IpFacts
<1>17. ASSUME NEW e \in DOMAIN DanmEps, IpOf(e) # NoIp, IpOf(e) \in Listed(y)
       PROVE  e \in SelectDesMatchLabels(svcs[s]) \/ DelDue(e, s)'
  BY <1>4, <1>16, <1>17
<1>18. ASSUME NEW e \in DOMAIN DanmEps, IpOf(e) # NoIp, IpOf(e) \in Listed(y),
              PodOf(e) \in DOMAIN pods, ~pods[PodOf(e)].deleting
       PROVE  StatusDue(PodOf(e), s)' \/ IpOf(e) \in Right(y, pods[PodOf(e)].ready)
  <2>1. e = d
    BY <1>16, <1>18
  <2>2. HasAddress(d)
    BY <1>18, <2>1 DEF HasAddress, PodOf, IpOf
  <2>3. PICK v \in w.pods : v.pod = PodOf(d) /\ IpOf(d) \in Right(y, v.ready)
    BY <1>14, <2>2
  <2>4. pods[v.pod].ready = v.ready \/ StatusDue(v.pod, s)'
    BY <1>3, <1>7, <1>18, <2>1, <2>3, ReadyNow
  <2> QED BY <2>1, <2>3, <2>4
<1> QED BY <1>1, <1>3, <1>12, <1>15, <1>17, <1>18, FitsWritten

LEMMA AddPutFits ==
    ASSUME SInv, Fitting, UpdateEndpoints("danmep"), task["danmep"].op = "add", ~missed',
           NEW s \in DOMAIN svcs, Settled(s)'
    PROVE  Fits(s)'
<1>1. PICK t, w, d : t = task["danmep"] /\ w = t.writes[1] /\ d = t.ev.obj
  OBVIOUS
<1>2. "danmep" \in Handlers /\ "danmep" # "svc" /\ "danmep" # "pod" /\ TypeOK
  BY DEF Handlers, SInv
<1>3. At("danmep", "put")
  BY DEF UpdateEndpoints
<1>4. CASE s # w.svc
  <2>1. /\ w.svc = t.cur /\ objects' = objects
        /\ \A e \in DOMAIN DanmEps : DelDue(e, s) => DelDue(e, s)'
        /\ \A e \in DOMAIN DanmEps : AddDue(e, s) => AddDue(e, s)' \/ (e = d /\ s = t.cur)
    BY <1>1, AddPutStep
  <2>2. AddKept(s) /\ DelKept(s)
    BY <1>4, <2>1 DEF AddKept, DelKept
  <2>3. Fits(s) /\ StatusKept(s) /\ s \in Services
    BY <1>2, PutFrame
  <2>4. endpoints'[s] = endpoints[s]
    BY <1>1, <1>2, <1>4, <2>3, PutStep
  <2> QED BY <2>1, <2>2, <2>3, <2>4, FitsKept
<1>5. CASE s = w.svc
  <2>1. \/ Derived(t, w)
        \/ /\ w.kind \in {"update", "invalid"} /\ Built(w, t.anno, {t.ev.obj})
           /\ w.basis = endpoints[w.svc].rv => ~HasSubsets(endpoints[w.svc])
    BY <1>1, <1>2, <1>3, WriteMade
  <2> QED BY <1>1, <1>5, <2>1, AddPutDerived, AddPutBuilt
<1> QED BY <1>4, <1>5

LEMMA DanmEpPutFits ==
    ASSUME SInv, Fitting, UpdateEndpoints("danmep")
    PROVE  Fitting'
<1>1. SUFFICES ASSUME ~missed' PROVE Fitting'
  BY DEF Fitting
<1>2. "danmep" \in Handlers /\ TypeOK
  BY DEF Handlers, SInv
<1>3. svcs' = svcs
  BY <1>1, <1>2, PutStep
<1>4. task["danmep"].op \in {"del", "add"}
  <2>1. At("danmep", "put")
    BY DEF UpdateEndpoints
  <2>2. TaskOf("danmep", task["danmep"]) /\ task["danmep"].pc = "put"
    BY <1>2, <2>1, PutFacts
  <2> QED BY <2>2 DEF TaskOf, DanmEpTask
<1> QED BY <1>1, <1>3, <1>4, DelPutFits, AddPutFits DEF Fitting

LEMMA RestIps ==
    ASSUME NEW k \in Seq(Entry), NEW l \in Seq(Entry), NEW p, Rest(k, p) = Rest(l, p),
           NEW e \in DOMAIN DanmEps, PodOf(e) # p, IpOf(e) \in Ips(k)
    PROVE  IpOf(e) \in Ips(l)
<1>1. PICK i \in 1 .. Len(k) : k[i].ip = IpOf(e)
  BY IpsFacts
<1>2. PICK a \in Entry : a = k[i]
  BY <1>1
<1>3. a.pod = PodOf(e)
  BY <1>1, <1>2, IpFacts
<1>4. a \in ToSet(k)
  BY <1>1, <1>2 DEF ToSet
<1>5. a \in Rest(l, p)
  BY <1>3, <1>4 DEF Rest
<1>6. PICK j \in 1 .. Len(l) : l[j] = a
  BY <1>5 DEF Rest, ToSet
<1> QED BY <1>1, <1>2, <1>6, IpsFacts

LEMMA ListedEntry ==
    ASSUME NEW x \in EndpointsType, NEW e \in DOMAIN DanmEps, IpOf(e) \in Listed(x)
    PROVE  \E a \in ToSet(x.ready) \cup ToSet(x.notReady) : a.ip = IpOf(e) /\ a.pod = PodOf(e)
<1>1. PICK l \in Seq(Entry) : IpOf(e) \in Ips(l) /\ ToSet(l) \subseteq ToSet(x.ready) \cup ToSet(x.notReady)
  BY EndpointsFacts DEF Listed
<1>2. PICK i \in 1 .. Len(l) : l[i].ip = IpOf(e)
  BY <1>1, IpsFacts
<1>3. PICK a \in Entry : a = l[i]
  BY <1>2
<1>4. a.pod = PodOf(e)
  BY <1>2, <1>3, IpFacts
<1>5. a \in ToSet(l)
  BY <1>2, <1>3 DEF ToSet
<1> QED BY <1>1, <1>2, <1>3, <1>4, <1>5

\* UpdatePodRv has changed versions only.
LEMMA TouchPutFits ==
    ASSUME SInv, Fitting, UpdateEndpoints("pod"), ~missed',
           NEW t, t = task["pod"], NEW w, w = t.writes[1], NEW s \in DOMAIN svcs, s = w.svc, Settled(s)',
           TouchApplied("pod", t, w, endpoints[w.svc]), t.pc = "put"
    PROVE  Fits(s)'
<1>1. PICK x, y, p, z : x = endpoints[s] /\ y = endpoints'[s] /\ p = t.ev.obj /\ z = w.eps
  OBVIOUS
<1>2. "pod" \in Handlers /\ "pod" # "svc" /\ TypeOK
  BY DEF Handlers, SInv
<1>3. UNCHANGED <<objects, queue>> /\ svcs' = svcs
  BY <1>2, PutStep
<1>4. Fits(s) /\ s \in Services /\ AddKept(s) /\ DelKept(s)
  BY <1>2, PutFrame
<1>5. x \in EndpointsType
  BY <1>1, <1>2, <1>4 DEF TypeOK
<1>6. PICK pod \in PodState : z = UpdatePodRvInEps(x, p, pod)
  BY <1>1 DEF TouchApplied
<1>7. /\ z.exists = x.exists /\ z.anno = x.anno
      /\ Ips(z.ready) = Ips(x.ready) /\ Ips(z.notReady) = Ips(x.notReady)
      /\ x.notReady = <<>> => z.notReady = <<>>
  BY <1>5, <1>6, TouchFacts
<1>8. y.exists = z.exists /\ y.anno = z.anno /\ y.ready = z.ready /\ y.notReady = z.notReady
  BY <1>1, <1>2, PutStep
<1>9. Listed(y) = Listed(x) /\ \A r : Right(y, r) = Right(x, r)
  BY <1>7, <1>8 DEF Listed, Right
<1>10. /\ x.exists /\ x.anno = svcs[s] /\ (x.anno.early => x.notReady = <<>>)
       /\ \A e \in DOMAIN DanmEps : FitsDanmEp(s, e)
  BY <1>1, <1>4 DEF Fits
<1>11. y.exists /\ y.anno = svcs[s] /\ (svcs[s].early => y.notReady = <<>>)
  BY <1>7, <1>8, <1>10
<1>12. \A e \in DOMAIN DanmEps : IpOf(e) # NoIp /\ e \in SelectDesMatchLabels(svcs[s]) =>
          IpOf(e) \in Listed(y) \/ AddDue(e, s)'
  BY <1>1, <1>4, <1>9, <1>10 DEF FitsDanmEp, AddKept
<1>13. \A e \in DOMAIN DanmEps : IpOf(e) # NoIp /\ IpOf(e) \in Listed(y) =>
          e \in SelectDesMatchLabels(svcs[s]) \/ DelDue(e, s)'
  BY <1>1, <1>4, <1>9, <1>10 DEF FitsDanmEp, DelKept
<1>14. ASSUME NEW e \in DOMAIN DanmEps, IpOf(e) # NoIp, IpOf(e) \in Listed(y),
              PodOf(e) \in DOMAIN pods, ~pods[PodOf(e)].deleting
       PROVE  StatusDue(PodOf(e), s)' \/ IpOf(e) \in Right(y, pods[PodOf(e)].ready)
  <2>1. StatusDue(PodOf(e), s) \/ IpOf(e) \in Right(y, pods[PodOf(e)].ready)
    BY <1>1, <1>9, <1>10, <1>14 DEF FitsDanmEp
  <2>2. ~StatusTask(t, PodOf(e), s)
    BY DEF StatusTask, TouchApplied
  <2>3. StatusDue(PodOf(e), s) => Announced(PodOf(e))
    BY <2>2 DEF StatusDue
  <2>4. Announced(PodOf(e)) => StatusDue(PodOf(e), s)'
    BY <1>3 DEF StatusDue, Announced
  <2> QED BY <2>1, <2>3, <2>4
<1> QED BY <1>1, <1>3, <1>11, <1>12, <1>13, <1>14, FitsWritten

\* UpdatePodStatus has moved the addresses of the Pod.
LEMMA StatusPutFits ==
    ASSUME SInv, Fitting, UpdateEndpoints("pod"), ~missed',
           NEW t, t = task["pod"], NEW w, w = t.writes[1], NEW s \in DOMAIN svcs, s = w.svc, Settled(s)',
           StatusApplied("pod", t, w, endpoints[w.svc]), Unique(endpoints[w.svc])
    PROVE  Fits(s)'
<1>1. PICK x, y, p, z : x = endpoints[s] /\ y = endpoints'[s] /\ p = t.ev.obj /\ z = w.eps
  OBVIOUS
<1>2. "pod" \in Handlers /\ "pod" # "svc" /\ TypeOK /\ EventsTyped /\ Told
  BY DEF Handlers, SInv
<1>3. UNCHANGED <<objects, queue>> /\ svcs' = svcs /\ ~Outdated("pod", w)
  BY <1>2, PutStep
<1>4. Fits(s) /\ s \in Services /\ AddKept(s) /\ DelKept(s)
  BY <1>2, PutFrame
<1>5. x \in EndpointsType /\ Unique(x)
  BY <1>1, <1>2, <1>4 DEF TypeOK
<1>6. /\ x.exists /\ x.anno = svcs[s] /\ (x.anno.early => x.notReady = <<>>)
      /\ \A e \in DOMAIN DanmEps : FitsDanmEp(s, e)
  BY <1>1, <1>4 DEF Fits
<1>7. PICK b \in BOOLEAN :
         w.early = {b} /\ z \in UpdatePodStatusInEps(x, p, Old(t).ready, New(t).ready, b)
  BY <1>1 DEF StatusApplied
<1>8. b = svcs[s].early
  BY <1>3, <1>7 DEF Outdated
<1>9. PICK old \in BOOLEAN, new \in BOOLEAN : old = Old(t).ready /\ new = New(t).ready /\ old # new
  BY DEF StatusApplied
<1>10. z \in UpdatePodStatusInEps(x, p, old, new, b)
  BY <1>7, <1>9
<1>11. z \in EndpointsType /\ z.exists = x.exists /\ z.anno = x.anno
  BY <1>5, <1>10, StatusFacts
<1>12. Listed(z) = Listed(x)
  BY <1>5, <1>10, StatusFacts
<1>13. b /\ x.notReady = <<>> => z.notReady = <<>>
  <2> SUFFICES ASSUME b, x.notReady = <<>> PROVE z.notReady = <<>>
    OBVIOUS
  <2> QED BY <1>5, <1>10, StatusEarly
<1>14. Rest(z.ready, p) = Rest(x.ready, p) /\ Rest(z.notReady, p) = Rest(x.notReady, p)
  BY <1>5, <1>10, StatusFacts
<1>15. \A a \in ToSet(x.ready) \cup ToSet(x.notReady) : a.pod = p =>
          /\ new => a.ip \in Ips(z.ready)
          /\ ~new /\ ~b => a.ip \in Ips(z.notReady)
  BY <1>5, <1>9, <1>10, StatusFacts
<1>16. y.exists = z.exists /\ y.anno = z.anno /\ y.ready = z.ready /\ y.notReady = z.notReady
  BY <1>1, <1>2, PutStep
<1>17. Listed(y) = Listed(x) /\ y.exists /\ y.anno = svcs[s] /\ (svcs[s].early => y.notReady = <<>>)
  BY <1>6, <1>8, <1>11, <1>12, <1>13, <1>16 DEF Listed
<1>18. \A e \in DOMAIN DanmEps : IpOf(e) # NoIp /\ e \in SelectDesMatchLabels(svcs[s]) =>
          IpOf(e) \in Listed(y) \/ AddDue(e, s)'
  BY <1>1, <1>4, <1>17, <1>6 DEF FitsDanmEp, AddKept
<1>19. \A e \in DOMAIN DanmEps : IpOf(e) # NoIp /\ IpOf(e) \in Listed(y) =>
          e \in SelectDesMatchLabels(svcs[s]) \/ DelDue(e, s)'
  BY <1>1, <1>4, <1>17, <1>6 DEF FitsDanmEp, DelKept
<1>20. ASSUME NEW e \in DOMAIN DanmEps, IpOf(e) # NoIp, IpOf(e) \in Listed(y),
              PodOf(e) \in DOMAIN pods, ~pods[PodOf(e)].deleting
       PROVE  StatusDue(PodOf(e), s)' \/ IpOf(e) \in Right(y, pods[PodOf(e)].ready)
  <2>1. IpOf(e) \in Listed(x)
    BY <1>17, <1>20
  <2>2. \A r : Announced(r) => StatusDue(r, s)'
    BY <1>3 DEF StatusDue, Announced
  <2>3. CASE PodOf(e) # p
    <3>1. StatusDue(PodOf(e), s) \/ IpOf(e) \in Right(x, pods[PodOf(e)].ready)
      BY <1>1, <1>6, <1>20, <2>1 DEF FitsDanmEp
    <3>2. ~StatusTask(task["pod"], PodOf(e), s)
      BY <1>1, <2>3 DEF StatusTask
    <3>3. StatusDue(PodOf(e), s) => StatusDue(PodOf(e), s)'
      BY <2>2, <3>2 DEF StatusDue
    <3>4. x.ready \in Seq(Entry) /\ x.notReady \in Seq(Entry) /\ z.ready \in Seq(Entry) /\ z.notReady \in Seq(Entry)
      BY <1>5, <1>11, EndpointsFacts
    <3>5. /\ IpOf(e) \in Ips(x.ready) => IpOf(e) \in Ips(z.ready)
          /\ IpOf(e) \in Ips(x.notReady) => IpOf(e) \in Ips(z.notReady)
      BY <1>14, <2>3, <3>4, RestIps
    <3>6. IpOf(e) \in Right(x, pods[PodOf(e)].ready) => IpOf(e) \in Right(y, pods[PodOf(e)].ready)
      BY <1>6, <1>16, <1>17, <3>5 DEF Right
    <3> QED BY <3>1, <3>3, <3>6
  <2>4. CASE PodOf(e) = p
    <3>1. PICK a \in ToSet(x.ready) \cup ToSet(x.notReady) : a.ip = IpOf(e) /\ a.pod = PodOf(e)
      BY <1>5, <2>1, ListedEntry
    <3>2. CASE b
      <4>1. y.notReady = <<>>
        BY <1>8, <1>17, <3>2
      <4>2. IpOf(e) \in Ips(y.ready)
        BY <1>20, <4>1 DEF Listed, Ips
      <4> QED BY <1>8, <1>17, <3>2, <4>2 DEF Right
    <3>3. CASE ~b
      <4>1. IpOf(e) \in Right(y, new)
        BY <1>8, <1>15, <1>16, <1>17, <2>4, <3>1, <3>3 DEF Right
      <4>2. Turns(t.ev) /\ ~At("pod", "idle") /\ t.ev.new = {New(t)}
        <5>1. At("pod", "put")
          BY DEF UpdateEndpoints
        <5>2. t \in Task("pod") /\ TaskOf("pod", t) /\ EventOf("pod", t.ev) /\ ~At("pod", "idle") /\ t.pc = "put"
          BY <1>2, <5>1, PutFacts
        <5>3. t.ev.new = {New(t)} /\ t.ev.old = {Old(t)}
          BY <1>2, <5>2, EventValues DEF EventOf
        <5>4. ~New(t).deleting
          BY <5>2 DEF TaskOf, PodTask
        <5> QED BY <1>9, <5>2, <5>3, <5>4 DEF Turns
      <4>3. (\A n \in t.ev.new : n.ready = pods[p].ready) \/ Announced(p)
        BY <1>1, <1>2, <1>20, <2>4, <4>2, ToldPod
      <4>4. pods[p].ready = new \/ Announced(p)
        BY <1>9, <4>2, <4>3
      <4> QED BY <2>2, <2>4, <4>1, <4>4
    <3> QED BY <3>2, <3>3
  <2> QED BY <2>3, <2>4
<1> QED BY <1>1, <1>3, <1>17, <1>18, <1>19, <1>20, FitsWritten

LEMMA PodPutFits ==
    ASSUME SInv, Fitting, UpdateEndpoints("pod")
    PROVE  Fitting'
<1>1. SUFFICES ASSUME ~missed' PROVE Fitting'
  BY DEF Fitting
<1>2. "pod" \in Handlers /\ "pod" # "svc" /\ TypeOK
  BY DEF Handlers, SInv
<1>3. PICK t, w : t = task["pod"] /\ w = t.writes[1]
  OBVIOUS
<1>4. At("pod", "put") /\ UNCHANGED <<objects, queue>> /\ svcs' = svcs
  BY <1>1, <1>2, PutStep DEF UpdateEndpoints
<1>5. /\ t \in Task("pod") /\ TaskOf("pod", t) /\ t.pc = "put"
      /\ t.writes \in Seq(WriteType) /\ t.writes # <<>>
      /\ Len(t.writes) \in Nat \ {0} /\ DOMAIN t.writes = 1 .. Len(t.writes)
  BY <1>2, <1>3, <1>4, PutFacts
<1>6. Derived(t, w)
  <2>1. 1 \in DOMAIN t.writes
    BY <1>5
  <2> QED BY <1>3, <1>5, <2>1 DEF TaskOf, PodTask
<1>7. /\ Unique(endpoints[w.svc])
      /\ TouchApplied("pod", t, w, endpoints[w.svc]) \/ StatusApplied("pod", t, w, endpoints[w.svc])
  <2>1. Unique(endpoints[w.svc])
    BY <1>1, <1>2, <1>3, <1>6, PutDerived
  <2>2. \/ DelApplied("pod", t, w, endpoints[w.svc]) \/ AddApplied("pod", t, w, endpoints[w.svc])
        \/ TouchApplied("pod", t, w, endpoints[w.svc]) \/ StatusApplied("pod", t, w, endpoints[w.svc])
    BY <1>1, <1>2, <1>3, <1>6, PutDerived
  <2> QED BY <2>1, <2>2 DEF DelApplied, AddApplied
<1>8. PICK u \in Task("pod") :
         /\ Become("pod", u)
         /\ \/ Len(t.writes) = 1
            \/ u.pc = "put" /\ u.op = t.op /\ u.ev = t.ev /\ u.writes = Tail(t.writes)
  BY <1>2, <1>3, UpdateEndpointsEffect
<1>9. task'["pod"] = u
  BY <1>2, <1>8 DEF Become, TypeOK
<1>10. ASSUME NEW s \in DOMAIN svcs, Settled(s)' PROVE Fits(s)'
  <2>1. CASE s = w.svc
    BY <1>1, <1>3, <1>5, <1>7, <1>10, <2>1, TouchPutFits, StatusPutFits
  <2>2. CASE s # w.svc
    <3>1. StatusKept(s)
      <4> SUFFICES ASSUME NEW e \in DOMAIN DanmEps, StatusDue(PodOf(e), s) PROVE StatusDue(PodOf(e), s)'
        BY DEF StatusKept
      <4>1. CASE Announced(PodOf(e))
        BY <1>4, <4>1 DEF StatusDue, Announced
      <4>2. CASE StatusTask(t, PodOf(e), s)
        <5>1. \E i \in DOMAIN t.writes : t.writes[i].svc = s
          BY <1>5, <4>2 DEF StatusTask, Writes
        <5>2. Len(t.writes) # 1 /\ \E i \in DOMAIN Tail(t.writes) : Tail(t.writes)[i].svc = s
          BY <1>3, <1>5, <2>2, <5>1, RestWrites
        <5>3. StatusTask(u, PodOf(e), s)
          BY <1>5, <1>8, <4>2, <5>2 DEF StatusTask, Writes
        <5> QED BY <1>9, <5>3 DEF StatusDue
      <4> QED BY <1>3, <4>1, <4>2 DEF StatusDue
    <3>2. Fits(s) /\ AddKept(s) /\ DelKept(s) /\ s \in Services
      BY <1>1, <1>2, <1>10, PutFrame
    <3>3. endpoints'[s] = endpoints[s]
      BY <1>1, <1>2, <1>3, <2>2, <3>2, PutStep
    <3> QED BY <1>4, <3>1, <3>2, <3>3, FitsKept
  <2> QED BY <2>1, <2>2
<1> QED BY <1>4, <1>10 DEF Fitting

-----------------------------------------------------------------------------
(* What the Endpoints list: changes by others                                *)

Grows(h) == \A j \in DOMAIN queue[h] : j \in DOMAIN queue'[h] /\ queue'[h][j] = queue[h][j]

\* What is due stays due when the queues grow.
LEMMA DuesStay ==
    ASSUME Grows("danmep"), Grows("pod"), task'["danmep"] = task["danmep"], NEW s, svcs'[s] = svcs[s],
           \A p : StatusTask(task["pod"], p, s) => StatusTask(task'["pod"], p, s)
    PROVE  /\ \A e \in DOMAIN DanmEps : AddDue(e, s) => AddDue(e, s)'
           /\ \A e \in DOMAIN DanmEps : DelDue(e, s) => DelDue(e, s)'
           /\ \A p : StatusDue(p, s) => StatusDue(p, s)'
<1>1. ASSUME NEW e \in DOMAIN DanmEps, AddDue(e, s) PROVE AddDue(e, s)'
  <2>1. CASE \E j \in DOMAIN queue["danmep"] : queue["danmep"][j].obj = e
    BY <2>1 DEF AddDue, Grows
  <2>2. CASE AddTask(task["danmep"], e, s)
    BY <2>2 DEF AddDue
  <2> QED BY <1>1, <2>1, <2>2 DEF AddDue
<1>2. ASSUME NEW e \in DOMAIN DanmEps, DelDue(e, s) PROVE DelDue(e, s)'
  <2>1. CASE \E j \in DOMAIN queue["danmep"] :
                /\ queue["danmep"][j].obj = e
                /\ \E l \in queue["danmep"][j].old : Selects(svcs[s], e, l)
    <3>1. PICK j \in DOMAIN queue["danmep"] :
                /\ queue["danmep"][j].obj = e
                /\ \E l \in queue["danmep"][j].old : Selects(svcs[s], e, l)
      BY <2>1
    <3>2. j \in DOMAIN queue'["danmep"] /\ queue'["danmep"][j] = queue["danmep"][j]
      BY DEF Grows
    <3> QED BY <3>1, <3>2 DEF DelDue
  <2>2. CASE DelTask(task["danmep"], e, s, svcs[s])
    BY <2>2 DEF DelDue
  <2> QED BY <1>2, <2>1, <2>2 DEF DelDue
<1>3. ASSUME NEW p, StatusDue(p, s) PROVE StatusDue(p, s)'
  <2>1. CASE Announced(p)
    <3>1. PICK j \in DOMAIN queue["pod"] :
                /\ queue["pod"][j].obj = p
                /\ \E o \in queue["pod"][j].old, n \in queue["pod"][j].new : o.ready # n.ready /\ ~n.deleting
      BY <2>1 DEF Announced
    <3>2. j \in DOMAIN queue'["pod"] /\ queue'["pod"][j] = queue["pod"][j]
      BY DEF Grows
    <3>3. Announced(p)'
      BY <3>1, <3>2 DEF Announced
    <3> QED BY <3>3 DEF StatusDue
  <2>2. CASE StatusTask(task["pod"], p, s)
    BY <2>2 DEF StatusDue
  <2> QED BY <1>3, <2>1, <2>2 DEF StatusDue
<1> QED BY <1>1, <1>2, <1>3

LEMMA FitsAnew ==
    ASSUME NEW s, Fits(s), endpoints'[s] = endpoints[s], svcs'[s] = svcs[s],
           \A e \in DOMAIN DanmEps : IpOf(e) # NoIp /\ e \in SelectDesMatchLabels(svcs[s])' =>
              IpOf(e) \in Listed(endpoints[s]) \/ AddDue(e, s)',
           \A e \in DOMAIN DanmEps : IpOf(e) # NoIp /\ IpOf(e) \in Listed(endpoints[s]) =>
              e \in SelectDesMatchLabels(svcs[s])' \/ DelDue(e, s)',
           \A e \in DOMAIN DanmEps :
              /\ IpOf(e) # NoIp /\ IpOf(e) \in Listed(endpoints[s])
              /\ PodOf(e) \in DOMAIN pods' /\ ~pods'[PodOf(e)].deleting
              => StatusDue(PodOf(e), s)' \/ IpOf(e) \in Right(endpoints[s], pods'[PodOf(e)].ready)
    PROVE  Fits(s)'
<1>1. \A e \in DOMAIN DanmEps : FitsDanmEp(s, e)'
  <2> TAKE e \in DOMAIN DanmEps
  <2> QED BY DEF FitsDanmEp, Listed, Right
<1> QED BY <1>1 DEF Fits

\* What is due, and nothing else, has changed.
LEMMA FitsGrown ==
    ASSUME NEW s, Fits(s), endpoints'[s] = endpoints[s], svcs'[s] = svcs[s],
           danmEps' = danmEps, \A p \in DOMAIN pods' : p \in DOMAIN pods /\ pods'[p] = pods[p],
           \A e \in DOMAIN DanmEps : AddDue(e, s) => AddDue(e, s)',
           \A e \in DOMAIN DanmEps : DelDue(e, s) => DelDue(e, s)',
           \A p : StatusDue(p, s) => StatusDue(p, s)'
    PROVE  Fits(s)'
<1>1. SelectDesMatchLabels(svcs[s])' = SelectDesMatchLabels(svcs[s])
  BY DEF SelectDesMatchLabels
<1>2. \A e \in DOMAIN DanmEps : FitsDanmEp(s, e)
  BY DEF Fits
<1>3. \A e \in DOMAIN DanmEps : IpOf(e) # NoIp /\ e \in SelectDesMatchLabels(svcs[s])' =>
         IpOf(e) \in Listed(endpoints[s]) \/ AddDue(e, s)'
  BY <1>1, <1>2 DEF FitsDanmEp
<1>4. \A e \in DOMAIN DanmEps : IpOf(e) # NoIp /\ IpOf(e) \in Listed(endpoints[s]) =>
         e \in SelectDesMatchLabels(svcs[s])' \/ DelDue(e, s)'
  BY <1>1, <1>2 DEF FitsDanmEp
<1>5. \A e \in DOMAIN DanmEps :
         /\ IpOf(e) # NoIp /\ IpOf(e) \in Listed(endpoints[s])
         /\ PodOf(e) \in DOMAIN pods' /\ ~pods'[PodOf(e)].deleting
         => StatusDue(PodOf(e), s)' \/ IpOf(e) \in Right(endpoints[s], pods'[PodOf(e)].ready)
  BY <1>2 DEF FitsDanmEp
<1> QED BY <1>3, <1>4, <1>5, FitsAnew

LEMMA WriteSvcFits ==
    ASSUME SInv, Fitting, NEW s \in Services, WriteSvc(s)
    PROVE  Fitting'
<1>1. TypeOK /\ EventsTyped /\ "svc" \in Handlers /\ "svc" # "danmep" /\ "svc" # "pod"
      /\ "danmep" \in Handlers /\ "pod" \in Handlers
  BY DEF SInv, Handlers
<1>2. UNCHANGED <<pods, danmEps, endpoints, cached, task, panicked, missed>>
  BY DEF WriteSvc, Others, Change
<1>3. PICK a \in Annotations :
         /\ svcs' = With(svcs, s, a)
         /\ Announce("svc", s, IF s \in DOMAIN svcs THEN {svcs[s]} ELSE {}, {a})
  BY DEF WriteSvc
<1>4. PICK old, new : old = (IF s \in DOMAIN svcs THEN {svcs[s]} ELSE {}) /\ new = {a}
  OBVIOUS
<1>5. PICK ev : /\ EventOf("svc", ev) /\ ev.obj = s /\ ev.old = old /\ ev.new = new
                /\ queue' = [queue EXCEPT !["svc"] = Append(@, ev)]
  <2>1. old \in SUBSET Values["svc"] /\ new \in SUBSET Values["svc"] /\ s \in Objects["svc"]
    BY <1>1, <1>4 DEF TypeOK, Values, Objects
  <2>2. (old = {} \/ One(old)) /\ One(new) /\ new # {}
    BY <1>4 DEF One
  <2>3. PICK ev : ev = NewEvent(s, old, new)
    OBVIOUS
  <2>4. EventOf("svc", ev) /\ ev.obj = s /\ ev.old = old /\ ev.new = new
    BY <1>1, <2>1, <2>2, <2>3, Announcing
  <2>5. queue' = [queue EXCEPT !["svc"] = Append(@, ev)]
    BY <1>3, <1>4, <2>3 DEF Announce, NewEvent
  <2> QED BY <2>4, <2>5
<1>6. task'["svc"] = task["svc"]
  BY <1>2
<1>7. /\ queue'["danmep"] = queue["danmep"] /\ queue'["pod"] = queue["pod"]
      /\ Events("svc")' = Append(Events("svc"), ev)
  <2>1. \A g \in Handlers : g # "svc" => queue'[g] = queue[g]
    BY <1>1, <1>5, <1>6, AnnounceStep
  <2>2. Events("svc")' = Append(Events("svc"), ev)
    BY <1>1, <1>5, <1>6, AnnounceStep
  <2> QED BY <1>1, <2>1, <2>2
<1>8. /\ DOMAIN svcs' = DOMAIN svcs \cup {s} /\ svcs'[s] = a
      /\ \A r \in DOMAIN svcs : r # s => svcs'[r] = svcs[r]
  BY <1>1, <1>3 DEF With, TypeOK
<1>9. PICK q \in Seq(Event("svc") \cup {NoEvent}) : q = Events("svc")
  BY <1>1, EventsFacts
<1>10. ev \in Event("svc") \cup {NoEvent}
  BY <1>5 DEF EventOf
<1>11. ASSUME NEW r \in DOMAIN svcs', Settled(r)'
       PROVE  r \in DOMAIN svcs /\ svcs'[r] = svcs[r] /\ Settled(r)
  <2>1. \A j \in DOMAIN q : j \in DOMAIN Append(q, ev) /\ Append(q, ev)[j] = q[j]
    BY <1>9, <1>10
  <2>2. \E j \in DOMAIN Append(q, ev) : Append(q, ev)[j] = ev
    <3>1. Len(q) + 1 \in DOMAIN Append(q, ev) /\ Append(q, ev)[Len(q) + 1] = ev
      BY <1>9, <1>10
    <3> QED BY <3>1
  <2>3. ~\E j \in DOMAIN Append(q, ev) : Append(q, ev)[j].obj = r /\ Due(Append(q, ev)[j])
    BY <1>7, <1>9, <1>11 DEF Settled, SvcDue
  <2>4. ~SvcDue(r)
    BY <1>9, <2>1, <2>3 DEF SvcDue
  <2>5. r = s => ~Due(ev)
    BY <1>5, <2>2, <2>3
  <2>6. r = s => s \in DOMAIN svcs /\ svcs[s] = a
    BY <1>4, <1>5, <2>5 DEF Due, SvcChanged
  <2>7. r \in DOMAIN svcs /\ svcs'[r] = svcs[r]
    BY <1>8, <1>11, <2>6
  <2> QED BY <1>11, <2>4, <2>7 DEF Settled
<1>12. ASSUME ~missed', NEW r \in DOMAIN svcs', Settled(r)' PROVE Fits(r)'
  <2>1. r \in DOMAIN svcs /\ svcs'[r] = svcs[r] /\ Fits(r)
    BY <1>2, <1>11, <1>12 DEF Fitting
  <2>2. Grows("danmep") /\ Grows("pod")
    BY <1>7 DEF Grows
  <2>3. task'["danmep"] = task["danmep"] /\ task'["pod"] = task["pod"] /\ endpoints'[r] = endpoints[r]
    BY <1>2
  <2>4. /\ \A e \in DOMAIN DanmEps : AddDue(e, r) => AddDue(e, r)'
        /\ \A e \in DOMAIN DanmEps : DelDue(e, r) => DelDue(e, r)'
        /\ \A p : StatusDue(p, r) => StatusDue(p, r)'
    BY <2>1, <2>2, <2>3, DuesStay
  <2> QED BY <1>2, <2>1, <2>3, <2>4, FitsGrown
<1> QED BY <1>12 DEF Fitting

\* Nothing has been announced.
LEMMA QueueQuiet ==
    ASSUME UNCHANGED <<queue, task>>, NEW s, svcs'[s] = svcs[s]
    PROVE  /\ \A e \in DOMAIN DanmEps : AddDue(e, s) => AddDue(e, s)'
           /\ \A e \in DOMAIN DanmEps : DelDue(e, s) => DelDue(e, s)'
           /\ \A p : StatusDue(p, s) => StatusDue(p, s)'
           /\ SvcDue(s)' <=> SvcDue(s)
<1>1. Grows("danmep") /\ Grows("pod") /\ task'["danmep"] = task["danmep"]
  BY DEF Grows
<1>2. \A p : StatusTask(task["pod"], p, s) => StatusTask(task'["pod"], p, s)
  OBVIOUS
<1>3. SvcDue(s)' <=> SvcDue(s)
  BY DEF SvcDue, Events
<1> QED BY <1>1, <1>2, <1>3, DuesStay

LEMMA DeleteSvcFits ==
    ASSUME SInv, Fitting, NEW s \in Services, DeleteSvc(s)
    PROVE  Fitting'
<1>1. UNCHANGED <<pods, danmEps, cached, queue, task, panicked, missed>>
  BY DEF DeleteSvc
<1>2. /\ DOMAIN svcs' = DOMAIN svcs \ {s} /\ \A r \in DOMAIN svcs' : svcs'[r] = svcs[r]
  BY DEF DeleteSvc, Without
<1>3. TypeOK
  BY DEF SInv
<1>4. ASSUME ~missed', NEW r \in DOMAIN svcs', Settled(r)' PROVE Fits(r)'
  <2>1. r \in DOMAIN svcs /\ svcs'[r] = svcs[r] /\ r # s /\ r \in Services
    BY <1>2, <1>3 DEF TypeOK
  <2>2. endpoints'[r] = endpoints[r]
    BY <1>3, <2>1 DEF DeleteSvc, TypeOK
  <2>3. /\ \A e \in DOMAIN DanmEps : AddDue(e, r) => AddDue(e, r)'
        /\ \A e \in DOMAIN DanmEps : DelDue(e, r) => DelDue(e, r)'
        /\ \A p : StatusDue(p, r) => StatusDue(p, r)'
    BY <1>1, <2>1, QueueQuiet
  <2>4. SvcDue(r)' <=> SvcDue(r)
    BY <1>1, <2>1, QueueQuiet
  <2>5. Settled(r)
    BY <1>4, <2>1, <2>4 DEF Settled
  <2>6. Fits(r)
    BY <1>1, <1>4, <2>1, <2>5 DEF Fitting
  <2> QED BY <1>1, <2>1, <2>2, <2>3, <2>6, FitsGrown
<1> QED BY <1>4 DEF Fitting

LEMMA RemovePodFits ==
    ASSUME SInv, Fitting, NEW p \in Pods, RemovePod(p)
    PROVE  Fitting'
<1>1. UNCHANGED <<svcs, danmEps, queue, endpoints, cached, task, panicked, missed>>
  BY DEF RemovePod, Others
<1>2. \A o \in DOMAIN pods' : o \in DOMAIN pods /\ pods'[o] = pods[o]
  BY DEF RemovePod, Without
<1>3. ASSUME ~missed', NEW r \in DOMAIN svcs', Settled(r)' PROVE Fits(r)'
  <2>1. /\ \A e \in DOMAIN DanmEps : AddDue(e, r) => AddDue(e, r)'
        /\ \A e \in DOMAIN DanmEps : DelDue(e, r) => DelDue(e, r)'
        /\ \A o : StatusDue(o, r) => StatusDue(o, r)'
    BY <1>1, QueueQuiet
  <2>2. SvcDue(r)' <=> SvcDue(r)
    BY <1>1, QueueQuiet
  <2>3. Settled(r) /\ r \in DOMAIN svcs
    BY <1>1, <1>3, <2>2 DEF Settled
  <2>4. Fits(r)
    BY <1>1, <1>3, <2>3 DEF Fitting
  <2>5. endpoints'[r] = endpoints[r] /\ svcs'[r] = svcs[r]
    BY <1>1
  <2> QED BY <1>1, <1>2, <2>1, <2>4, <2>5, FitsGrown
<1> QED BY <1>3 DEF Fitting

LEMMA ChangePodFits ==
    ASSUME SInv, Fitting, NEW p \in Pods, ChangePod(p)
    PROVE  Fitting'
<1>1. TypeOK /\ EventsTyped /\ "pod" \in Handlers /\ "svc" \in Handlers /\ "danmep" \in Handlers
      /\ "pod" # "svc" /\ "pod" # "danmep"
  BY DEF SInv, Handlers
<1>2. UNCHANGED <<svcs, danmEps, endpoints, cached, task, panicked, missed>> /\ p \in DOMAIN pods
  BY DEF ChangePod, Others
<1>3. PICK n : /\ n \in PodState /\ n.labels \in Labels /\ (pods[p].deleting => n.deleting)
               /\ pods' = [pods EXCEPT ![p] = n]
               /\ Announce("pod", p, {pods[p]}, {pods'[p]})
  <2>1. PICK r \in BOOLEAN, d \in BOOLEAN, l \in Labels :
           /\ pods[p].deleting => d
           /\ pods' = [pods EXCEPT ![p] = [ready |-> r, labels |-> l, deleting |-> d, rv |-> @.rv + 1]]
    BY DEF ChangePod
  <2>2. PICK n : n = [ready |-> r, labels |-> l, deleting |-> d, rv |-> pods[p].rv + 1]
    OBVIOUS
  <2>3. pods[p].rv \in Nat
    BY <1>1, <1>2 DEF TypeOK, PodState
  <2>4. n \in PodState /\ n.deleting = d /\ n.labels \in Labels
    BY <2>2, <2>3 DEF PodState
  <2>5. Announce("pod", p, {pods[p]}, {pods'[p]})
    BY DEF ChangePod
  <2>6. pods' = [pods EXCEPT ![p] = n]
    BY <2>1, <2>2
  <2> QED BY <2>1, <2>4, <2>5, <2>6
<1>4. DOMAIN pods' = DOMAIN pods /\ pods'[p] = n /\ \A o \in DOMAIN pods : o # p => pods'[o] = pods[o]
  BY <1>1, <1>2, <1>3 DEF TypeOK
<1>5. PICK old, new : old = {pods[p]} /\ new = {n}
  OBVIOUS
<1>6. PICK ev : /\ EventOf("pod", ev) /\ ev.obj = p /\ ev.old = old /\ ev.new = new
                /\ queue' = [queue EXCEPT !["pod"] = Append(@, ev)]
  <2>1. old \in SUBSET Values["pod"] /\ new \in SUBSET Values["pod"] /\ p \in Objects["pod"]
    BY <1>1, <1>2, <1>3, <1>5 DEF TypeOK, Values, Objects
  <2>2. One(old) /\ One(new) /\ old # {} /\ new # {}
    BY <1>5 DEF One
  <2>3. PICK ev : ev = NewEvent(p, old, new)
    OBVIOUS
  <2>4. EventOf("pod", ev) /\ ev.obj = p /\ ev.old = old /\ ev.new = new
    BY <1>1, <2>1, <2>2, <2>3, Announcing
  <2>5. queue' = [queue EXCEPT !["pod"] = Append(@, ev)]
    BY <1>3, <1>4, <1>5, <2>3 DEF Announce, NewEvent
  <2> QED BY <2>4, <2>5
<1>7. task'["pod"] = task["pod"]
  BY <1>2
<1>8. /\ \A g \in Handlers : g # "pod" => queue'[g] = queue[g]
      /\ \A j \in DOMAIN queue["pod"] : j \in DOMAIN queue'["pod"] /\ queue'["pod"][j] = queue["pod"][j]
      /\ \E j \in DOMAIN queue'["pod"] : queue'["pod"][j] = ev
  <2>1. \A g \in Handlers : g # "pod" => queue'[g] = queue[g]
    BY <1>1, <1>6, <1>7, AnnounceStep
  <2>2. \A j \in DOMAIN queue["pod"] : j \in DOMAIN queue'["pod"] /\ queue'["pod"][j] = queue["pod"][j]
    BY <1>1, <1>6, <1>7, AnnounceStep
  <2>3. \E j \in DOMAIN queue'["pod"] : queue'["pod"][j] = ev
    BY <1>1, <1>6, <1>7, AnnounceStep
  <2> QED BY <2>1, <2>2, <2>3
<1>9. Grows("danmep") /\ Grows("pod")
  BY <1>1, <1>8 DEF Grows
<1>10. ASSUME ~n.deleting, pods[p].ready # n.ready PROVE Announced(p)'
  BY <1>5, <1>6, <1>8, <1>10 DEF Announced
<1>11. ASSUME ~missed', NEW s \in DOMAIN svcs', Settled(s)' PROVE Fits(s)'
  <2>1. s \in DOMAIN svcs /\ svcs'[s] = svcs[s] /\ task'["danmep"] = task["danmep"] /\ endpoints'[s] = endpoints[s]
    BY <1>2, <1>11
  <2>2. Settled(s)
    <3>1. Events("svc")' = Events("svc")
      BY <1>1, <1>2, <1>8 DEF Events
    <3> QED BY <1>2, <1>11, <3>1 DEF Settled, SvcDue
  <2>3. Fits(s)
    BY <1>2, <1>11, <2>1, <2>2 DEF Fitting
  <2>4. \A o : StatusTask(task["pod"], o, s) => StatusTask(task'["pod"], o, s)
    BY <1>7
  <2>5. /\ \A e \in DOMAIN DanmEps : AddDue(e, s) => AddDue(e, s)'
        /\ \A e \in DOMAIN DanmEps : DelDue(e, s) => DelDue(e, s)'
        /\ \A o : StatusDue(o, s) => StatusDue(o, s)'
    BY <1>9, <2>1, <2>4, DuesStay
  <2>6. SelectDesMatchLabels(svcs[s])' = SelectDesMatchLabels(svcs[s])
    BY <1>2 DEF SelectDesMatchLabels
  <2>7. \A e \in DOMAIN DanmEps : FitsDanmEp(s, e)
    BY <2>3 DEF Fits
  <2>8. \A e \in DOMAIN DanmEps : IpOf(e) # NoIp /\ e \in SelectDesMatchLabels(svcs[s])' =>
           IpOf(e) \in Listed(endpoints[s]) \/ AddDue(e, s)'
    BY <2>5, <2>6, <2>7 DEF FitsDanmEp
  <2>9. \A e \in DOMAIN DanmEps : IpOf(e) # NoIp /\ IpOf(e) \in Listed(endpoints[s]) =>
           e \in SelectDesMatchLabels(svcs[s])' \/ DelDue(e, s)'
    BY <2>5, <2>6, <2>7 DEF FitsDanmEp
  <2>10. ASSUME NEW e \in DOMAIN DanmEps, IpOf(e) # NoIp, IpOf(e) \in Listed(endpoints[s]),
                PodOf(e) \in DOMAIN pods', ~pods'[PodOf(e)].deleting
         PROVE  StatusDue(PodOf(e), s)' \/ IpOf(e) \in Right(endpoints[s], pods'[PodOf(e)].ready)
    <3>1. CASE PodOf(e) # p
      BY <1>4, <2>5, <2>7, <2>10, <3>1 DEF FitsDanmEp
    <3>2. CASE PodOf(e) = p
      <4>1. ~n.deleting /\ ~pods[p].deleting
        BY <1>2, <1>3, <1>4, <2>10, <3>2 DEF PodState
      <4>2. CASE pods[p].ready # n.ready
        BY <1>10, <3>2, <4>1, <4>2 DEF StatusDue
      <4>3. CASE pods[p].ready = n.ready
        BY <1>2, <1>4, <2>5, <2>7, <2>10, <3>2, <4>1, <4>3 DEF FitsDanmEp
      <4> QED BY <4>2, <4>3
    <3> QED BY <3>1, <3>2
  <2> QED BY <2>1, <2>3, <2>8, <2>9, <2>10, FitsAnew
<1> QED BY <1>11 DEF Fitting

\* A DanmEp that appears, goes or gets other labels is announced.
LEMMA DanmEpChangedFits ==
    ASSUME SInv, Fitting, NEW d \in DOMAIN DanmEps, NEW old, old = DanmEpState(d), NEW new, new = DanmEpState(d)',
           \A e \in DOMAIN DanmEps : e # d => DanmEpState(e)' = DanmEpState(e),
           old # {} \/ new # {}, new \in SUBSET Labels, Announce("danmep", d, old, new),
           UNCHANGED <<pods, svcs, endpoints, missed>>,
           task'["danmep"] = task["danmep"], task'["svc"] = task["svc"],
           \A p, s : StatusTask(task["pod"], p, s) => StatusTask(task'["pod"], p, s)
    PROVE  Fitting'
<1>1. TypeOK /\ EventsTyped /\ "pod" \in Handlers /\ "svc" \in Handlers /\ "danmep" \in Handlers
      /\ "danmep" # "svc" /\ "pod" # "danmep"
  BY DEF SInv, Handlers
<1>2. PICK ev : /\ EventOf("danmep", ev) /\ ev.obj = d /\ ev.old = old /\ ev.new = new
                /\ queue' = [queue EXCEPT !["danmep"] = Append(@, ev)]
  <2>1. old \in SUBSET Values["danmep"] /\ new \in SUBSET Values["danmep"] /\ d \in Objects["danmep"]
    BY <1>1 DEF TypeOK, Values, Objects, DanmEpState
  <2>2. (old = {} \/ One(old)) /\ (new = {} \/ One(new)) /\ ~(old = {} /\ new = {})
    BY DEF One, DanmEpState
  <2>3. PICK ev : ev = NewEvent(d, old, new)
    OBVIOUS
  <2>4. EventOf("danmep", ev) /\ ev.obj = d /\ ev.old = old /\ ev.new = new
    BY <1>1, <2>1, <2>2, <2>3, Announcing
  <2>5. queue' = [queue EXCEPT !["danmep"] = Append(@, ev)]
    BY <2>3 DEF Announce, NewEvent
  <2> QED BY <2>4, <2>5
<1>3. /\ \A g \in Handlers : g # "danmep" => queue'[g] = queue[g]
      /\ \A j \in DOMAIN queue["danmep"] : j \in DOMAIN queue'["danmep"] /\ queue'["danmep"][j] = queue["danmep"][j]
      /\ \E j \in DOMAIN queue'["danmep"] : queue'["danmep"][j] = ev
  <2>1. \A g \in Handlers : g # "danmep" => queue'[g] = queue[g]
    BY <1>1, <1>2, AnnounceStep
  <2>2. \A j \in DOMAIN queue["danmep"] : j \in DOMAIN queue'["danmep"] /\ queue'["danmep"][j] = queue["danmep"][j]
    BY <1>1, <1>2, AnnounceStep
  <2>3. \E j \in DOMAIN queue'["danmep"] : queue'["danmep"][j] = ev
    BY <1>1, <1>2, AnnounceStep
  <2> QED BY <2>1, <2>2, <2>3
<1>4. Grows("danmep") /\ Grows("pod")
  BY <1>1, <1>3 DEF Grows
<1>5. ASSUME ~missed', NEW s \in DOMAIN svcs', Settled(s)' PROVE Fits(s)'
  <2>1. s \in DOMAIN svcs /\ svcs'[s] = svcs[s] /\ endpoints'[s] = endpoints[s] /\ pods' = pods
    BY <1>5
  <2>2. Settled(s)
    <3>1. Events("svc")' = Events("svc")
      BY <1>1, <1>3 DEF Events
    <3> QED BY <1>5, <2>1, <3>1 DEF Settled, SvcDue
  <2>3. Fits(s)
    BY <1>5, <2>1, <2>2 DEF Fitting
  <2>4. /\ \A e \in DOMAIN DanmEps : AddDue(e, s) => AddDue(e, s)'
        /\ \A e \in DOMAIN DanmEps : DelDue(e, s) => DelDue(e, s)'
        /\ \A o : StatusDue(o, s) => StatusDue(o, s)'
    BY <1>4, <2>1, DuesStay
  <2>5. \A e \in DOMAIN DanmEps : FitsDanmEp(s, e)
    BY <2>3 DEF Fits
  <2>6. \A e \in DOMAIN DanmEps : e # d =>
           (e \in SelectDesMatchLabels(svcs[s])' <=> e \in SelectDesMatchLabels(svcs[s]))
    <3> SUFFICES ASSUME NEW e \in DOMAIN DanmEps, e # d
                 PROVE  e \in SelectDesMatchLabels(svcs[s])' <=> e \in SelectDesMatchLabels(svcs[s])
      OBVIOUS
    <3>1. DanmEpState(e)' = DanmEpState(e)
      OBVIOUS
    <3>2. (e \in DOMAIN danmEps' <=> e \in DOMAIN danmEps) /\ (e \in DOMAIN danmEps => danmEps'[e] = danmEps[e])
      BY <3>1 DEF DanmEpState
    <3> QED BY <2>1, <3>2 DEF SelectDesMatchLabels
  <2>7. AddDue(d, s)'
    BY <1>2, <1>3 DEF AddDue
  <2>8. d \in SelectDesMatchLabels(svcs[s]) => DelDue(d, s)'
    <3> SUFFICES ASSUME d \in SelectDesMatchLabels(svcs[s]) PROVE DelDue(d, s)'
      OBVIOUS
    <3>1. d \in DOMAIN danmEps /\ Selects(svcs[s], d, danmEps[d])
      BY DEF SelectDesMatchLabels
    <3>2. danmEps[d] \in ev.old
      BY <1>2, <3>1 DEF DanmEpState
    <3>3. PICK j \in DOMAIN queue'["danmep"] : queue'["danmep"][j] = ev
      BY <1>3
    <3>4. \E l \in queue'["danmep"][j].old : Selects(svcs'[s], d, l)
      BY <2>1, <3>1, <3>2, <3>3
    <3> QED BY <1>2, <3>3, <3>4 DEF DelDue
  <2>9. \A e \in DOMAIN DanmEps : IpOf(e) # NoIp /\ e \in SelectDesMatchLabels(svcs[s])' =>
           IpOf(e) \in Listed(endpoints[s]) \/ AddDue(e, s)'
    BY <2>4, <2>5, <2>6, <2>7 DEF FitsDanmEp
  <2>10. \A e \in DOMAIN DanmEps : IpOf(e) # NoIp /\ IpOf(e) \in Listed(endpoints[s]) =>
           e \in SelectDesMatchLabels(svcs[s])' \/ DelDue(e, s)'
    BY <2>4, <2>5, <2>6, <2>8 DEF FitsDanmEp
  <2>11. \A e \in DOMAIN DanmEps :
            /\ IpOf(e) # NoIp /\ IpOf(e) \in Listed(endpoints[s])
            /\ PodOf(e) \in DOMAIN pods' /\ ~pods'[PodOf(e)].deleting
            => StatusDue(PodOf(e), s)' \/ IpOf(e) \in Right(endpoints[s], pods'[PodOf(e)].ready)
    BY <2>1, <2>4, <2>5 DEF FitsDanmEp
  <2> QED BY <2>1, <2>3, <2>9, <2>10, <2>11, FitsAnew
<1> QED BY <1>5 DEF Fitting

LEMMA CreateDanmEpFits ==
    ASSUME SInv, Fitting, NEW d \in DOMAIN DanmEps, CreateDanmEp(d)
    PROVE  Fitting'
<1>1. TypeOK
  BY DEF SInv
<1>2. UNCHANGED <<pods, svcs, endpoints, missed, task>>
  BY DEF CreateDanmEp, Others
<1>3. PICK l : /\ l = pods[PodOf(d)].labels /\ PodOf(d) \in DOMAIN pods
               /\ danmEps' = With(danmEps, d, l) /\ Announce("danmep", d, {}, {l}) /\ d \notin DOMAIN danmEps
  BY DEF CreateDanmEp, PodOf
<1>4. l \in Labels
  BY <1>1, <1>3 DEF TypeOK, PodState
<1>5. /\ DOMAIN danmEps' = DOMAIN danmEps \cup {d} /\ danmEps'[d] = l
      /\ \A e \in DOMAIN danmEps : e # d => danmEps'[e] = danmEps[e]
  BY <1>1, <1>3 DEF With, TypeOK
<1>6. PICK old, new : old = {} /\ new = {l}
  OBVIOUS
<1>7. /\ old = DanmEpState(d) /\ new = DanmEpState(d)' /\ (old # {} \/ new # {}) /\ new \in SUBSET Labels
      /\ Announce("danmep", d, old, new)
      /\ \A e \in DOMAIN DanmEps : e # d => DanmEpState(e)' = DanmEpState(e)
  BY <1>3, <1>4, <1>5, <1>6 DEF DanmEpState
<1>8. /\ task'["danmep"] = task["danmep"] /\ task'["svc"] = task["svc"]
      /\ \A p, s : StatusTask(task["pod"], p, s) => StatusTask(task'["pod"], p, s)
  BY <1>2
<1> QED BY <1>2, <1>7, <1>8, DanmEpChangedFits

LEMMA DeleteDanmEpFits ==
    ASSUME SInv, Fitting, NEW d \in DOMAIN DanmEps, DeleteDanmEp(d)
    PROVE  Fitting'
<1>1. UNCHANGED <<pods, svcs, endpoints, missed, task>>
  BY DEF DeleteDanmEp, Others
<1>2. d \in DOMAIN danmEps /\ danmEps' = Without(danmEps, d) /\ Announce("danmep", d, {danmEps[d]}, {})
  BY DEF DeleteDanmEp
<1>3. /\ DOMAIN danmEps' = DOMAIN danmEps \ {d}
      /\ \A e \in DOMAIN danmEps : e # d => danmEps'[e] = danmEps[e]
  BY <1>2 DEF Without
<1>4. PICK old, new : old = {danmEps[d]} /\ new = {}
  OBVIOUS
<1>5. /\ old = DanmEpState(d) /\ new = DanmEpState(d)' /\ (old # {} \/ new # {}) /\ new \in SUBSET Labels
      /\ Announce("danmep", d, old, new)
      /\ \A e \in DOMAIN DanmEps : e # d => DanmEpState(e)' = DanmEpState(e)
  BY <1>2, <1>3, <1>4 DEF DanmEpState
<1>6. /\ task'["danmep"] = task["danmep"] /\ task'["svc"] = task["svc"]
      /\ \A p, s : StatusTask(task["pod"], p, s) => StatusTask(task'["pod"], p, s)
  BY <1>1
<1> QED BY <1>1, <1>5, <1>6, DanmEpChangedFits

LEMMA RelabelDanmEpFits ==
    ASSUME SInv, Fitting, RelabelDanmEp
    PROVE  Fitting'
<1>1. TypeOK /\ "pod" \in Handlers /\ "svc" \in Handlers /\ "danmep" \in Handlers
  BY DEF SInv, Handlers
<1>2. PICK u \in Task("pod") : Become("pod", u)
  BY RelabelEffect
<1>3. UNCHANGED <<pods, svcs, endpoints, cached, missed>> /\ task["pod"].pc = "relabel"
  BY DEF RelabelDanmEp, At
<1>4. \A p, s : ~StatusTask(task["pod"], p, s)
  BY <1>3 DEF StatusTask
<1>5. CASE UNCHANGED <<danmEps, queue>>
  BY <1>2, <1>3, <1>4, <1>5, PodGoesOn DEF objects
<1>6. CASE ~UNCHANGED <<danmEps, queue>>
  <2>1. PICK d \in DOMAIN danmEps, l \in Labels :
           danmEps' = [danmEps EXCEPT ![d] = l] /\ Announce("danmep", d, {danmEps[d]}, {l})
    BY <1>6, RelabelEffect
  <2>2. task'["danmep"] = task["danmep"] /\ task'["svc"] = task["svc"]
    BY <1>1, <1>2 DEF Become, TypeOK
  <2>3. /\ DOMAIN danmEps' = DOMAIN danmEps /\ danmEps'[d] = l
        /\ \A e \in DOMAIN danmEps : e # d => danmEps'[e] = danmEps[e]
        /\ d \in DOMAIN DanmEps
    BY <1>1, <2>1 DEF TypeOK
  <2>4. PICK old, new : old = {danmEps[d]} /\ new = {l}
    OBVIOUS
  <2>5. /\ old = DanmEpState(d) /\ new = DanmEpState(d)' /\ (old # {} \/ new # {}) /\ new \in SUBSET Labels
        /\ Announce("danmep", d, old, new)
        /\ \A e \in DOMAIN DanmEps : e # d => DanmEpState(e)' = DanmEpState(e)
    BY <2>1, <2>3, <2>4 DEF DanmEpState
  <2>6. \A p, s : StatusTask(task["pod"], p, s) => StatusTask(task'["pod"], p, s)
    BY <1>4
  <2> QED BY <1>3, <2>2, <2>3, <2>5, <2>6, DanmEpChangedFits
<1> QED BY <1>5, <1>6

LEMMA InitFits == Init => Fitting
<1> SUFFICES ASSUME Init PROVE Fitting
  OBVIOUS
<1>1. PICK S \in SUBSET Services, a \in Annotations, D \in SUBSET DOMAIN DanmEps :
         /\ S # {} => Watched(a)
         /\ svcs = [s \in S |-> a]
         /\ danmEps = [e \in D |-> InitPod.labels]
         /\ endpoints = [s \in Services |->
               IF s \in S THEN CHOOSE x \in MakeNewEps(a, SelectDesMatchLabels(a)) : TRUE
               ELSE NoEndpoints]
  BY DEF Init
<1>2. TypeOK /\ DOMAIN pods = Pods
  BY InitSafe DEF SInv, Init
<1>3. PICK des : des = SelectDesMatchLabels(a)
  OBVIOUS
<1>4. des \in SUBSET DOMAIN DanmEps
  BY <1>1, <1>3 DEF SelectDesMatchLabels
<1>5. PICK n : n = CHOOSE x \in MakeNewEps(a, des) : TRUE
  OBVIOUS
<1>6. n \in MakeNewEps(a, des)
  BY <1>4, <1>5, NewExists
<1>7. /\ n.exists /\ n.anno = a /\ (a.early => n.notReady = <<>>)
      /\ Listed(n) \subseteq {IpOf(e) : e \in des}
      /\ \A e \in des : HasAddress(e) => IpOf(e) \in Right(n, pods[PodOf(e)].ready)
  <2>1. DOMAIN pods \subseteq Pods /\ pods \in [DOMAIN pods -> PodState]
    BY <1>2 DEF TypeOK
  <2>2. n.exists /\ n.anno = a
    BY <1>4, <1>6, <2>1, NewFacts
  <2>3. a.early => n.notReady = <<>>
    BY <1>4, <1>6, <2>1, NewFacts
  <2>4. Listed(n) \subseteq {IpOf(e) : e \in des}
    BY <1>4, <1>6, <2>1, NewFacts
  <2>5. \A e \in des : HasAddress(e) => IpOf(e) \in Right(n, pods[PodOf(e)].ready)
    BY <1>4, <1>6, <2>1, NewFacts
  <2> QED BY <2>2, <2>3, <2>4, <2>5
<1>8. ASSUME NEW s \in DOMAIN svcs PROVE Fits(s)
  <2>1. s \in S /\ s \in Services /\ svcs[s] = a
    BY <1>1
  <2>2. endpoints[s] = n
    BY <1>1, <1>3, <1>5, <2>1
  <2>3. ASSUME NEW e \in DOMAIN DanmEps, IpOf(e) # NoIp
        PROVE  /\ e \in des => IpOf(e) \in Listed(n)
               /\ IpOf(e) \in Listed(n) => e \in des /\ IpOf(e) \in Right(n, pods[PodOf(e)].ready)
    <3>1. HasAddress(e)
      BY <1>2, <2>3, IpFacts DEF HasAddress, PodOf, IpOf
    <3>2. \A r : Right(n, r) \subseteq Listed(n)
      BY DEF Right, Listed
    <3>3. ASSUME IpOf(e) \in Listed(n) PROVE e \in des
      <4>1. PICK f \in des : IpOf(e) = IpOf(f)
        BY <1>7, <3>3
      <4>2. f \in DOMAIN DanmEps
        BY <1>4
      <4> QED BY <2>3, <4>1, <4>2, IpFacts
    <3> QED BY <1>7, <3>1, <3>2, <3>3
  <2>4. \A e \in DOMAIN DanmEps : FitsDanmEp(s, e)
    BY <1>3, <2>1, <2>2, <2>3 DEF FitsDanmEp
  <2> QED BY <1>7, <2>1, <2>2, <2>4 DEF Fits
<1> QED BY <1>8 DEF Fitting

LEMMA HandlerFits ==
    ASSUME SInv, Fitting, ~panicked, NEW h \in Handlers, HandlerStep(h)
    PROVE  Fitting'
<1>1. h \in {"pod", "svc", "danmep"}
  BY DEF Handlers
<1>2. CASE Take(h)
  BY <1>1, <1>2, TakeSvcFits, TakeDanmEpFits, TakePodFits
<1>3. CASE UpdateEndpoints(h)
  BY <1>1, <1>3, SvcPutFits, DanmEpPutFits, PodPutFits
<1>4. CASE UpdateConflicts(h)
  BY <1>1, <1>4, SvcGoesOnFits, DanmEpConflictFits, PodConflictFits
<1>5. CASE UpdateFails(h)
  <2>1. CASE h = "svc"
    BY <1>5, <2>1 DEF UpdateFails, Fitting
  <2>2. CASE h # "svc"
    BY <1>1, <1>5, <2>2, DanmEpFailsFits, PodFailsFits
  <2> QED BY <2>1, <2>2
<1>6. CASE addSvc
  BY <1>6, SvcGoesOnFits
<1>7. CASE delDanmep
  BY <1>7, DelDanmepFits
<1>8. CASE addDanmep
  BY <1>8, AddDanmepFits
<1>9. CASE NextService
  BY <1>9, NextServiceFits
<1>10. CASE AddToService
  BY <1>10, AddToServiceFits
<1>11. CASE UpdatePodRv
  BY <1>11, UpdatePodRvFits
<1>12. CASE UpdatePodStatus
  BY <1>12, UpdatePodStatusFits
<1>13. CASE UpdateLabels
  BY <1>13, UpdateLabelsFits
<1>14. CASE RelabelDanmEp
  BY <1>14, RelabelDanmEpFits
<1> QED
  BY <1>2, <1>3, <1>4, <1>5, <1>6, <1>7, <1>8, <1>9, <1>10, <1>11, <1>12, <1>13, <1>14 DEF HandlerStep

LEMMA NextFits ==
    ASSUME SInv, Fitting, [Next]_vars
    PROVE  Fitting'
<1>1. CASE UNCHANGED vars
  <2>1. UNCHANGED <<objects, endpoints, queue, task, missed>> /\ svcs' = svcs
    BY <1>1 DEF vars, objects
  <2>2. task'["svc"] = task["svc"] /\ task'["danmep"] = task["danmep"] /\ task'["pod"] = task["pod"]
    BY <2>1
  <2>3. queue'["svc"] = queue["svc"] /\ queue'["danmep"] = queue["danmep"] /\ queue'["pod"] = queue["pod"]
    BY <2>1
  <2>4. \A s \in DOMAIN svcs : Settled(s)' => Settled(s)
    BY <2>1, <2>2, <2>3, SvcQuiet
  <2> QED BY <2>1, <2>2, <2>3, <2>4, SvcFits
<1>2. CASE ~panicked /\ \E h \in Handlers : HandlerStep(h)
  BY <1>2, HandlerFits
<1>3. CASE \E s \in Services : CacheSync(s)
  BY <1>3, CacheSyncFits
<1>4. CASE Environment
  <2>1. CASE \E s \in Services : WriteSvc(s) \/ DeleteSvc(s)
    BY <2>1, WriteSvcFits, DeleteSvcFits
  <2>2. CASE \E e \in DOMAIN DanmEps : CreateDanmEp(e) \/ DeleteDanmEp(e)
    BY <2>2, CreateDanmEpFits, DeleteDanmEpFits
  <2>3. CASE \E p \in Pods : ChangePod(p) \/ RemovePod(p)
    BY <2>3, ChangePodFits, RemovePodFits
  <2> QED BY <1>4, <2>1, <2>2, <2>3 DEF Environment
<1> QED BY <1>1, <1>2, <1>3, <1>4 DEF Next

\* Nothing is due once nothing is left to be handled.
LEMMA QuietExact ==
    ASSUME IInv, Quiet, ~missed, NEW s \in DOMAIN svcs, Watched(svcs[s])
    PROVE  ListsExactly(endpoints[s], svcs[s])
<1>1. PICK x, a : x = endpoints[s] /\ a = svcs[s]
  OBVIOUS
<1>2. TypeOK /\ Fitting /\ PodsStay /\ "svc" \in Handlers /\ "danmep" \in Handlers /\ "pod" \in Handlers
  BY DEF IInv, Handlers
<1>3. \A h \in Handlers : queue[h] = <<>> /\ task[h].pc = "idle"
  BY DEF Quiet, At
<1>4. Events("svc") = <<>>
  BY <1>2, <1>3, EventsFacts DEF At
<1>5. Settled(s)
  BY <1>4 DEF Settled, SvcDue
<1>6. Fits(s)
  BY <1>2, <1>5 DEF Fitting
<1>7. \A e : ~AddDue(e, s)
  BY <1>2, <1>3 DEF AddDue, AddTask, Adding, Chosen
<1>8. \A e : ~DelDue(e, s)
  BY <1>2, <1>3 DEF DelDue, DelTask
<1>9. \A p : ~StatusDue(p, s)
  BY <1>2, <1>3 DEF StatusDue, StatusTask, Announced
<1>10. x.exists /\ x.anno = a /\ \A e \in DOMAIN DanmEps : FitsDanmEp(s, e)
  BY <1>1, <1>6 DEF Fits
<1>11. Listed(x) \subseteq {IpOf(e) : e \in DOMAIN DanmEps} /\ NoIp \notin Listed(x)
  <2>1. x \in EndpointsType
    BY <1>1, <1>2 DEF TypeOK
  <2>2. PICK k \in Seq(Entry), l \in Seq(Entry) : k = x.ready /\ l = x.notReady
    BY <2>1, EndpointsFacts
  <2>3. NoIp \notin Ips(k) /\ NoIp \notin Ips(l)
    BY IpsFacts
  <2>4. Ips(k) \subseteq {IpOf(e) : e \in DOMAIN DanmEps} /\ Ips(l) \subseteq {IpOf(e) : e \in DOMAIN DanmEps}
    BY IpsFacts
  <2> QED BY <2>2, <2>3, <2>4 DEF Listed
<1>12. \A e \in Expected(a) :
          e \in DOMAIN DanmEps /\ e \in DOMAIN danmEps /\ e \in SelectDesMatchLabels(a) /\ IpOf(e) # NoIp
  BY <1>2 DEF Expected, SelectDesMatchLabels, IpOf, TypeOK
<1>13. \A e \in Expected(a) : IpOf(e) \in Listed(x)
  BY <1>1, <1>7, <1>10, <1>12 DEF FitsDanmEp
<1>14. ASSUME NEW i \in Listed(x) PROVE \E e \in Expected(a) : i = IpOf(e)
  <2>1. PICK e \in DOMAIN DanmEps : i = IpOf(e) /\ IpOf(e) # NoIp
    BY <1>11
  <2>2. e \in SelectDesMatchLabels(a)
    BY <1>1, <1>8, <1>10, <1>14, <2>1 DEF FitsDanmEp
  <2>3. e \in Expected(a)
    BY <2>1, <2>2 DEF Expected, IpOf
  <2> QED BY <2>1, <2>3
<1>15. Listed(x) = {IpOf(e) : e \in Expected(a)}
  BY <1>13, <1>14
<1>16. ASSUME NEW e \in Expected(a), ~pods[PodOf(e)].deleting
       PROVE  IpOf(e) \in Ips(IF pods[PodOf(e)].ready \/ a.early THEN x.ready ELSE x.notReady)
  <2>1. PodOf(e) \in DOMAIN pods
    BY <1>2, <1>12 DEF PodsStay
  <2>2. IpOf(e) \in Right(x, pods[PodOf(e)].ready)
    BY <1>1, <1>9, <1>10, <1>12, <1>13, <1>16, <2>1 DEF FitsDanmEp
  <2> QED BY <1>10, <2>2 DEF Right
<1> QED BY <1>1, <1>10, <1>15, <1>16 DEF ListsExactly, Listed, IpOf, PodOf

-----------------------------------------------------------------------------
(* Theorems                                                                  *)

\* The inductive invariant: the queues tell what has changed, the tasks and writes fit what
\* they were made from, and what the Endpoints lack is due.
THEOREM IInvHolds == Spec => []IInv
<1>1. Init => IInv
  BY InitSafe, InitFits DEF IInv, SInv
<1>2. IInv /\ [Next]_vars => IInv'
  BY NextSafe, NextFits DEF IInv, SInv
<1> QED BY <1>1, <1>2, PTL DEF Spec

\* Endpoints list addresses of DanmEps only, each with its Pod, whichever handler wrote
\* them and however often an address was added or removed.
THEOREM TypeCorrect == Spec => []TypeOK
<1>1. IInv => TypeOK
  BY DEF IInv
<1> QED BY <1>1, IInvHolds, PTL

\* The removal by index panics only after a handler has worked from outdated input or
\* failed (missed): until then no list has an address twice.
THEOREM PanicsAfterMissAlways == Spec => []PanicsAfterMiss
<1>1. IInv => PanicsAfterMiss
  BY DEF IInv
<1> QED BY <1>1, IInvHolds, PTL

\* A write with a version leaves the addresses of the other Pods as they are, ready or not,
\* as long as no handler has worked from outdated input or failed (missed).
THEOREM OthersKeptAlways == Spec => OthersKept
<1>1. IInv => KeepsOthers
  <2> SUFFICES ASSUME IInv PROVE KeepsOthers
    OBVIOUS
  <2>1. \A h \in Handlers :
           UpdateEndpoints(h) /\ Current(h).kind = "versioned" /\ ~missed =>
              /\ Rest(endpoints'[Current(h).svc].ready, Concerned(h, task[h]))
                    = Rest(endpoints[Current(h).svc].ready, Concerned(h, task[h]))
              /\ Rest(endpoints'[Current(h).svc].notReady, Concerned(h, task[h]))
                    = Rest(endpoints[Current(h).svc].notReady, Concerned(h, task[h]))
    BY OthersKeptStep DEF IInv, SInv
  <2> QED BY <2>1 DEF KeepsOthers, Rest, Concerned, PodOf
<1> QED BY <1>1, IInvHolds, PTL DEF OthersKept

\* Once everything has been handled the Endpoints of every Service with a selector and a
\* network list exactly the addresses they should, as long as no handler wrote something
\* that was computed from outdated input, nor failed.
THEOREM EndpointsExactAlways == Spec => []EndpointsExact
<1>1. IInv => EndpointsExact
  BY QuietExact DEF EndpointsExact
<1> QED BY <1>1, IInvHolds, PTL

=============================================================================
