--------------------------- MODULE SyncherProofs ---------------------------
(***************************************************************************)
(* Proofs about module Syncher, for any set of executors and any time-out:   *)
(* the mutex keeps every result, a success is complete, and eth0 comes first *)
(* in the merged result.                                                     *)
(***************************************************************************)
EXTENDS Syncher, FiniteSetTheorems, TLAPS

-----------------------------------------------------------------------------
\* Induction over the natural numbers, for a set of them.
LEMMA SetInduction ==
    ASSUME NEW S \in SUBSET Nat, 0 \in S, \A n \in S : n + 1 \in S
    PROVE  \A n \in Nat : n \in S
<1> DEFINE R == {ss \in Nat \X Nat : ss[1] < ss[2]}
           T == Nat \ S
<1>1. SUFFICES ASSUME T # {} PROVE FALSE
  OBVIOUS
<1>2. IsWellFoundedOn(R, Nat)
  BY NatLessThanWellFounded DEF OpToRel
<1>3. PICK x \in T : \A y \in T : ~ (<<y, x>> \in R)
  <2>1. T \subseteq Nat
    OBVIOUS
  <2> HIDE DEF R, T
  <2> QED BY <1>1, <1>2, <2>1, WFMin, Zenon
<1>4. x - 1 \in Nat /\ x = (x - 1) + 1
  OBVIOUS
<1>5. <<x - 1, x>> \in R
  BY <1>4
<1> QED BY <1>3, <1>4, <1>5

-----------------------------------------------------------------------------
\* The loop of Collected, as an equation for the results it has after each step.
Loop(f, results, n, set) ==
    \A k \in 0 .. n : f[k] = IF k = 0 THEN <<>>
                             ELSE IF results[k] \in set THEN Append(f[k - 1], results[k])
                             ELSE f[k - 1]

\* The loop has a result.
LEMMA LoopExists ==
    ASSUME NEW S, NEW s \in Seq(S), NEW T, NEW m \in Nat, m <= Len(s)
    PROVE  \E f \in [0 .. m -> Seq(S)] : Loop(f, s, m, T)
<1> DEFINE I == {n \in Nat : n <= m => \E f \in [0 .. n -> Seq(S)] : Loop(f, s, n, T)}
<1>1. 0 \in I
  <2> DEFINE f == [k \in 0 .. 0 |-> <<>>]
  <2>1. f \in [0 .. 0 -> Seq(S)]
    OBVIOUS
  <2>2. Loop(f, s, 0, T)
    BY DEF Loop
  <2> QED BY <2>1, <2>2
<1>2. ASSUME NEW n \in I PROVE n + 1 \in I
  <2>1. SUFFICES ASSUME n + 1 <= m PROVE \E f \in [0 .. n + 1 -> Seq(S)] : Loop(f, s, n + 1, T)
    <3>1. n + 1 \in Nat
      OBVIOUS
    <3> QED BY <3>1
  <2>2. n \in Nat /\ n <= m /\ n + 1 \in 1 .. Len(s)
    BY <2>1
  <2>3. PICK f \in [0 .. n -> Seq(S)] : Loop(f, s, n, T)
    BY <2>2, Zenon
  <2> DEFINE last == IF s[n + 1] \in T THEN Append(f[n], s[n + 1]) ELSE f[n]
             g == [k \in 0 .. n + 1 |-> IF k = n + 1 THEN last ELSE f[k]]
  <2>4. n \in 0 .. n /\ s[n + 1] \in S /\ last \in Seq(S)
    BY <2>2
  <2>5. g \in [0 .. n + 1 -> Seq(S)] /\ g[n + 1] = last /\ \A k \in 0 .. n : g[k] = f[k]
    BY <2>2, <2>4
  <2>6. Loop(g, s, n + 1, T)
    <3> SUFFICES ASSUME NEW k \in 0 .. n + 1
                 PROVE  g[k] = IF k = 0 THEN <<>>
                               ELSE IF s[k] \in T THEN Append(g[k - 1], s[k])
                               ELSE g[k - 1]
      BY DEF Loop
    <3> HIDE DEF g
    <3>1. CASE k = n + 1
      BY <2>2, <2>4, <2>5, <3>1
    <3>2. CASE k # n + 1
      <4>1. k \in 0 .. n /\ (k # 0 => k - 1 \in 0 .. n)
        BY <2>2, <3>2
      <4> QED BY <2>3, <2>5, <4>1 DEF Loop
    <3> QED BY <3>1, <3>2
  <2> QED BY <2>5, <2>6
<1>3. m \in I
  <2>1. I \subseteq Nat
    OBVIOUS
  <2> HIDE DEF I
  <2> QED BY <1>1, <1>2, <2>1, SetInduction
<1> QED BY <1>3

LEMMA CollectedLoop ==
    ASSUME NEW S, NEW s \in Seq(S), NEW T, NEW m \in Nat, m <= Len(s)
    PROVE  \E f : Loop(f, s, m, T) /\ Collected(s, m, T) = f[m]
<1> DEFINE B(f) == [k \in 0 .. m |-> IF k = 0 THEN <<>>
                                     ELSE IF s[k] \in T THEN Append(f[k - 1], s[k])
                                     ELSE f[k - 1]]
           g == CHOOSE f : f = B(f)
<1>1. PICK f \in [0 .. m -> Seq(S)] : Loop(f, s, m, T)
  BY LoopExists
<1>2. f = B(f)
  BY <1>1 DEF Loop
<1>3. g = B(g)
  <2> HIDE DEF B
  <2> QED BY <1>2, Zenon
<1>4. Collected(s, m, T) = g[m]
  BY DEF Collected
<1>5. Loop(g, s, m, T)
  <2>1. \A k \in 0 .. m : B(g)[k] = IF k = 0 THEN <<>>
                                   ELSE IF s[k] \in T THEN Append(g[k - 1], s[k])
                                   ELSE g[k - 1]
    OBVIOUS
  <2> HIDE DEF g, B
  <2> QED BY <1>3, <2>1 DEF Loop
<1> QED BY <1>4, <1>5

\* What the loop collects: results of the set only, every one that is in the slice, and not
\* more than one when not more than one is in the slice.
LEMMA CollectedResult ==
    ASSUME NEW S, NEW s \in Seq(S), NEW T, NEW c, c = Collected(s, Len(s), T)
    PROVE  /\ c \in Seq(S \cap T)
           /\ \A h \in 1 .. Len(c) : \E j \in 1 .. Len(s) : s[j] = c[h]
           /\ \A j \in 1 .. Len(s) : s[j] \in T => \E h \in 1 .. Len(c) : c[h] = s[j]
           /\ (\A j, k \in 1 .. Len(s) : s[j] \in T /\ s[k] \in T => j = k) => Len(c) <= 1
<1>1. PICK m \in Nat : m = Len(s)
  OBVIOUS
<1>2. PICK f : Loop(f, s, m, T) /\ Collected(s, m, T) = f[m]
  BY <1>1, CollectedLoop
<1> DEFINE Once == \A j, k \in 1 .. m : s[j] \in T /\ s[k] \in T => j = k
           Q(r, n) ==
              /\ r \in Seq(S \cap T)
              /\ \A h \in 1 .. Len(r) : \E j \in 1 .. n : s[j] = r[h]
              /\ \A j \in 1 .. n : s[j] \in T => \E h \in 1 .. Len(r) : r[h] = s[j]
              /\ Once => Len(r) <= 1
           I == {n \in Nat : n <= m => Q(f[n], n)}
<1>3. 0 \in I
  <2>1. 0 \in 0 .. m
    OBVIOUS
  <2>2. f[0] = <<>>
    BY <1>2, <2>1 DEF Loop
  <2>3. <<>> \in Seq(S \cap T) /\ Len(<<>>) = 0
    OBVIOUS
  <2>4. Q(<<>>, 0)
    BY <2>3
  <2> HIDE DEF Q
  <2> QED BY <2>2, <2>4
<1>4. ASSUME NEW n \in I PROVE n + 1 \in I
  <2>1. SUFFICES ASSUME n + 1 <= m PROVE Q(f[n + 1], n + 1)
    <3>1. n + 1 \in Nat
      OBVIOUS
    <3> QED BY <3>1
  <2>2. n \in Nat /\ n <= m /\ n + 1 \in 1 .. m /\ n + 1 \in 0 .. m /\ s[n + 1] \in S
    BY <1>1, <2>1
  <2> DEFINE b == f[n]
             d == f[n + 1]
  <2>3. Q(b, n)
    BY <2>2
  <2>4. d = IF s[n + 1] \in T THEN Append(b, s[n + 1]) ELSE b
    BY <1>2, <2>2 DEF Loop
  <2> HIDE DEF b, d
  <2>5. ASSUME s[n + 1] \in T PROVE Q(d, n + 1)
    <3>1. /\ d \in Seq(S \cap T) /\ Len(d) = Len(b) + 1 /\ Len(b) \in Nat
          /\ d[Len(b) + 1] = s[n + 1]
          /\ \A h \in 1 .. Len(b) : d[h] = b[h]
      BY <2>2, <2>3, <2>4, <2>5
    <3>2. \A h \in 1 .. Len(d) : \E j \in 1 .. n + 1 : s[j] = d[h]
      <4> SUFFICES ASSUME NEW h \in 1 .. Len(d) PROVE \E j \in 1 .. n + 1 : s[j] = d[h]
        OBVIOUS
      <4>1. CASE h = Len(b) + 1
        BY <2>2, <3>1, <4>1
      <4>2. CASE h \in 1 .. Len(b)
        <5>1. PICK j \in 1 .. n : s[j] = b[h]
          BY <2>3, <4>2
        <5> QED BY <2>2, <3>1, <4>2, <5>1
      <4> QED BY <3>1, <4>1, <4>2
    <3>3. \A j \in 1 .. n + 1 : s[j] \in T => \E h \in 1 .. Len(d) : d[h] = s[j]
      <4> SUFFICES ASSUME NEW j \in 1 .. n + 1, s[j] \in T PROVE \E h \in 1 .. Len(d) : d[h] = s[j]
        OBVIOUS
      <4>1. CASE j = n + 1
        BY <3>1, <4>1
      <4>2. CASE j \in 1 .. n
        <5>1. PICK h \in 1 .. Len(b) : b[h] = s[j]
          BY <2>3, <4>2
        <5> QED BY <3>1, <5>1
      <4> QED BY <2>2, <4>1, <4>2
    <3>4. Once => Len(d) <= 1
      <4> SUFFICES ASSUME Once, Len(b) # 0 PROVE FALSE
        BY <3>1
      <4>1. 1 \in 1 .. Len(b) /\ b[1] \in T
        BY <2>3, <3>1
      <4>2. PICK j \in 1 .. n : s[j] = b[1]
        BY <2>3, <4>1
      <4>3. j \in 1 .. m /\ j # n + 1
        BY <2>2
      <4> QED BY <2>2, <2>5, <4>1, <4>2, <4>3
    <3> QED BY <3>1, <3>2, <3>3, <3>4
  <2>6. ASSUME s[n + 1] \notin T PROVE Q(d, n + 1)
    <3>1. d = b
      BY <2>4, <2>6
    <3>2. \A j \in 1 .. n + 1 : j \in 1 .. n \/ j = n + 1
      BY <2>2
    <3>3. \A j \in 1 .. n : j \in 1 .. n + 1
      BY <2>2
    <3> QED BY <2>3, <2>6, <3>1, <3>2, <3>3
  <2> QED BY <2>5, <2>6 DEF d
<1>5. m \in I
  <2>1. I \subseteq Nat
    OBVIOUS
  <2> HIDE DEF I
  <2> QED BY <1>3, <1>4, <2>1, SetInduction
<1>6. Q(c, m)
  BY <1>1, <1>2, <1>5
<1> QED BY <1>1, <1>6

-----------------------------------------------------------------------------
\* The inductive invariant.

\* The mutex is held by one executor at most, from when it reads the slice until it has
\* written its element.
Locked ==
    /\ \A e \in Executors : e \in mux <=> pc[e] \in {"append", "write"}
    /\ \A d, e \in mux : d = e

\* The slice an executor appends to is the current one, and the element it writes the last
\* one, which is zero.
Appending ==
    \A e \in Executors :
        /\ pc[e] = "append" => seen[e] = CniResults
        /\ pc[e] = "write" => /\ Len(CniResults) = Len(seen[e]) + 1
                              /\ CniResults[Len(seen[e]) + 1] = Zero

\* Every executor that has pushed has one element, and the others have none.
Slots ==
    /\ \A k \in 1 .. Len(CniResults) : CniResults[k] # Zero => pc[CniResults[k]] = "pushed"
    /\ \A j, k \in 1 .. Len(CniResults) :
          CniResults[j] = CniResults[k] /\ CniResults[k] # Zero => j = k
    /\ \A e \in Executors : pc[e] = "pushed" => \E k \in 1 .. Len(CniResults) : CniResults[k] = e

\* After a success without a torn read everybody has pushed, and nothing has failed.
Aggregated ==
    main # "poll" /\ answer = "ok" /\ ~torn =>
        failing = {} /\ \A e \in Executors : pc[e] = "pushed"

IInv ==
    /\ TypeOK /\ Locked /\ Appending /\ Slots /\ Aggregated
    /\ SuccessIsComplete /\ Eth0First

LEMMA InitIInv == Init => IInv
<1> SUFFICES ASSUME Init PROVE IInv
  OBVIOUS
<1>1. /\ CniResults = <<>> /\ Len(CniResults) = 0 /\ merged = <<>> /\ Len(merged) = 0
      /\ \A e \in Executors : pc[e] = "working"
      /\ mux = {} /\ main = "poll"
  BY DEF Init
<1>2. TypeOK
  <2>1. <<>> \in Seq(Result) /\ <<>> \in Seq(Executors) /\ 0 \in 0 .. MaximumAllowedTime
    BY SyncherAssumption
  <2>2. seen \in [Executors -> Seq(Result)] /\ pc \in [Executors -> {"working", "append", "write", "pushed"}]
    BY <2>1 DEF Init
  <2> QED BY <2>1, <2>2 DEF Init, TypeOK
<1>3. Locked /\ Appending /\ Aggregated
  BY <1>1 DEF Locked, Appending, Aggregated
<1>4. Slots
  BY <1>1 DEF Slots
<1>5. SuccessIsComplete /\ Eth0First
  BY <1>1 DEF SuccessIsComplete, Eth0First
<1> QED BY <1>2, <1>3, <1>4, <1>5 DEF IInv

\* The steps of PushResult leave what the polling goroutine has returned alone, unless
\* everybody has pushed.
LEMMA LockIInv ==
    ASSUME IInv, NEW e \in Executors, Lock(e)
    PROVE  IInv'
<1>1. TypeOK'
  BY DEF IInv, TypeOK, Lock
<1>2. Locked' /\ Appending'
  BY DEF IInv, TypeOK, Locked, Appending, Lock
<1>3. Slots'
  <2>1. \A d \in Executors : pc'[d] = "pushed" <=> pc[d] = "pushed"
    BY DEF IInv, TypeOK, Lock
  <2>2. \A k \in 1 .. Len(CniResults) : CniResults[k] # Zero => CniResults[k] \in Executors
    <3>1. CniResults \in Seq(Result)
      BY DEF IInv, TypeOK
    <3> QED BY <3>1 DEF Result
  <2> QED BY <2>1, <2>2 DEF IInv, Slots, Lock
<1>4. Aggregated' /\ SuccessIsComplete' /\ Eth0First'
  BY DEF IInv, TypeOK, Aggregated, SuccessIsComplete, Eth0First, Lock
<1> QED BY <1>1, <1>2, <1>3, <1>4 DEF IInv

LEMMA GrowIInv ==
    ASSUME IInv, NEW e \in Executors, Grow(e)
    PROVE  IInv'
<1>1. /\ CniResults \in Seq(Result) /\ seen[e] = CniResults /\ Zero \in Result
      /\ CniResults' = Append(CniResults, Zero)
  BY DEF IInv, TypeOK, Appending, Grow, Result
<1>2. /\ CniResults' \in Seq(Result) /\ Len(CniResults') = Len(CniResults) + 1
      /\ CniResults'[Len(CniResults) + 1] = Zero
      /\ \A k \in 1 .. Len(CniResults) : CniResults'[k] = CniResults[k]
      /\ \A k \in 1 .. Len(CniResults') : k \in 1 .. Len(CniResults) \/ CniResults'[k] = Zero
      /\ \A k \in 1 .. Len(CniResults) : k \in 1 .. Len(CniResults')
  BY <1>1
<1>3. TypeOK'
  BY <1>2 DEF IInv, TypeOK, Grow
<1>4. Locked'
  BY DEF IInv, TypeOK, Locked, Grow
<1>5. Appending'
  <2>1. \A d \in Executors : d # e => pc'[d] = pc[d] /\ pc[d] \notin {"append", "write"}
    BY DEF IInv, TypeOK, Locked, Grow
  <2>2. pc'[e] = "write" /\ seen' = seen
    BY DEF IInv, TypeOK, Grow
  <2> QED BY <1>1, <1>2, <2>1, <2>2 DEF Appending
<1>6. Slots'
  <2>1. \A d \in Executors : pc'[d] = "pushed" <=> pc[d] = "pushed"
    BY DEF IInv, TypeOK, Grow
  <2>2. \A k \in 1 .. Len(CniResults) : CniResults[k] # Zero => CniResults[k] \in Executors
    BY <1>1 DEF Result
  <2> QED BY <1>2, <2>1, <2>2 DEF IInv, Slots
<1>7. Aggregated' /\ SuccessIsComplete' /\ Eth0First'
  BY DEF IInv, TypeOK, Aggregated, SuccessIsComplete, Eth0First, Grow
<1> QED BY <1>3, <1>4, <1>5, <1>6, <1>7 DEF IInv

LEMMA WriteIInv ==
    ASSUME IInv, NEW e \in Executors, Write(e)
    PROVE  IInv'
<1> DEFINE last == Len(CniResults)
<1>1. /\ CniResults \in Seq(Result) /\ Len(seen[e]) + 1 = last /\ CniResults[last] = Zero
      /\ e \in Result /\ last \in 1 .. last
      /\ CniResults' = [CniResults EXCEPT ![last] = e]
  <2>1. seen[e] \in Seq(Result) /\ CniResults \in Seq(Result) /\ e \in Result
    BY DEF IInv, TypeOK, Result
  <2>2. Len(seen[e]) + 1 = last /\ CniResults[last] = Zero
    BY DEF IInv, Appending, Write
  <2>3. last \in 1 .. last
    BY <2>1, <2>2
  <2> QED BY <2>1, <2>2, <2>3 DEF Write
<1>2. /\ CniResults' \in Seq(Result) /\ Len(CniResults') = last
      /\ CniResults'[last] = e
      /\ \A k \in 1 .. last : k # last => CniResults'[k] = CniResults[k]
  BY <1>1
<1>3. TypeOK'
  BY <1>2 DEF IInv, TypeOK, Write
<1>4. Locked'
  BY DEF IInv, TypeOK, Locked, Write
<1>5. \A d \in Executors : /\ d # e => pc'[d] = pc[d] /\ pc[d] \notin {"append", "write"}
                           /\ pc'[e] = "pushed" /\ pc[e] = "write"
  BY DEF IInv, TypeOK, Locked, Write
<1>6. Appending'
  BY <1>5 DEF Appending
<1>7. Slots'
  <2>1. e # Zero
    BY SyncherAssumption
  <2>2. \A k \in 1 .. last : CniResults[k] # Zero => CniResults[k] \in Executors /\ CniResults[k] # e
    BY <1>1, <1>5 DEF Result, IInv, Slots
  <2>3. \A k \in 1 .. last : k # last /\ CniResults'[k] # Zero =>
           CniResults'[k] = CniResults[k] /\ CniResults[k] \in Executors /\ CniResults[k] # e
    BY <1>2, <2>2
  <2> HIDE DEF last
  <2>4. \A k \in 1 .. last : CniResults'[k] # Zero => pc'[CniResults'[k]] = "pushed"
    BY <1>2, <1>5, <2>3 DEF IInv, Slots, last
  <2>5. \A j, k \in 1 .. last : CniResults'[j] = CniResults'[k] /\ CniResults'[k] # Zero => j = k
    BY <1>2, <2>1, <2>3 DEF IInv, Slots, last
  <2>6. \A d \in Executors : pc'[d] = "pushed" => \E k \in 1 .. last : CniResults'[k] = d
    <3> SUFFICES ASSUME NEW d \in Executors, pc'[d] = "pushed", d # e
                 PROVE  \E k \in 1 .. last : CniResults'[k] = d
      BY <1>1, <1>2 DEF last
    <3>1. PICK k \in 1 .. last : CniResults[k] = d
      BY <1>5 DEF IInv, Slots, last
    <3>2. k # last
      BY <1>1, <3>1, SyncherAssumption
    <3> QED BY <1>2, <3>1, <3>2
  <2> QED BY <1>2, <2>4, <2>5, <2>6 DEF Slots
<1>8. Aggregated' /\ SuccessIsComplete' /\ Eth0First'
  BY DEF IInv, TypeOK, Aggregated, SuccessIsComplete, Eth0First, Write
<1> QED BY <1>3, <1>4, <1>6, <1>7, <1>8 DEF IInv

LEMMA PollIInv ==
    ASSUME IInv, Poll
    PROVE  IInv'
<1>1. TypeOK'
  <2>1. i \in 0 .. MaximumAllowedTime /\ i < MaximumAllowedTime /\ i' = i + 1
    BY DEF IInv, TypeOK, Poll
  <2>2. i' \in 0 .. MaximumAllowedTime
    BY <2>1, SyncherAssumption
  <2> QED BY <2>2 DEF IInv, TypeOK, Poll
<1>2. Locked' /\ Appending' /\ Slots' /\ Aggregated' /\ SuccessIsComplete' /\ Eth0First'
  BY DEF IInv, Locked, Appending, Slots, Aggregated, SuccessIsComplete, Eth0First, Poll
<1> QED BY <1>1, <1>2 DEF IInv

\* As many results as executors, none of them zero, are the results of all executors.
LEMMA AllResults ==
    ASSUME IInv, ExpectedNumOfResults <= Len(CniResults), Zero \notin Range(CniResults)
    PROVE  Range(CniResults) = Executors /\ \A e \in Executors : pc[e] = "pushed"
<1> DEFINE n == Len(CniResults)
<1>1. CniResults \in Seq(Result) /\ n \in Nat /\ DOMAIN CniResults = 1 .. n
  <2>1. CniResults \in Seq(Result)
    BY DEF IInv, TypeOK
  <2> QED BY <2>1
<1>2. \A k \in 1 .. n : CniResults[k] \in Executors
  BY <1>1 DEF Result, Range
<1>3. CniResults \in [1 .. n -> Executors]
  BY <1>1, <1>2
<1>4. CniResults \in Injection(1 .. n, Executors)
  <2>1. \A j, k \in 1 .. n : CniResults[j] = CniResults[k] => j = k
    BY <1>2, SyncherAssumption DEF IInv, Slots
  <2> HIDE DEF n
  <2> QED BY <1>3, <2>1, Zenon DEF Injection, IsInjective
<1>5. IsFiniteSet(1 .. n) /\ Cardinality(1 .. n) = n
  <2>1. IsFiniteSet(1 .. n) /\ Cardinality(1 .. n) = IF 1 > n THEN 0 ELSE n - 1 + 1
    <3> HIDE DEF n
    <3> QED BY <1>1, FS_Interval
  <2> QED BY <1>1, <2>1
<1>6. /\ Cardinality(1 .. n) <= Cardinality(Executors)
      /\ Cardinality(1 .. n) = Cardinality(Executors) <=> CniResults \in Surjection(1 .. n, Executors)
  BY <1>4, FS_Injection, SyncherAssumption
<1>7. CniResults \in Surjection(1 .. n, Executors)
  <2>1. Cardinality(Executors) \in Nat
    BY FS_CardinalityType, SyncherAssumption
  <2> QED BY <1>1, <1>5, <1>6, <2>1 DEF ExpectedNumOfResults
<1>8. \A e \in Executors : \E k \in 1 .. n : CniResults[k] = e
  BY <1>7 DEF Surjection
<1>9. Range(CniResults) = Executors
  BY <1>1, <1>2, <1>8 DEF Range
<1> QED BY <1>2, <1>8, <1>9, SyncherAssumption DEF IInv, Slots

LEMMA AggregateIInv ==
    ASSUME IInv, Aggregate
    PROVE  IInv'
<1>1. TypeOK'
  <2>1. answer' \in {"ok", "errors"} /\ torn' \in BOOLEAN
    BY DEF Aggregate
  <2> QED BY <2>1 DEF IInv, TypeOK, Aggregate
<1>2. Locked' /\ Appending' /\ Slots' /\ SuccessIsComplete' /\ Eth0First'
  BY DEF IInv, Locked, Appending, Slots, SuccessIsComplete, Eth0First, Aggregate
<1>3. Aggregated'
  <2> SUFFICES ASSUME answer' = "ok", ~torn'
               PROVE  failing = {} /\ \A e \in Executors : pc[e] = "pushed"
    BY DEF Aggregated, Aggregate
  <2>1. Zero \notin Range(CniResults) /\ ~wasAnyOperationErroneous
    BY DEF Aggregate
  <2>2. Range(CniResults) = Executors /\ \A e \in Executors : pc[e] = "pushed"
    BY <2>1, AllResults DEF Aggregate
  <2> QED BY <2>1, <2>2 DEF IInv, TypeOK, wasAnyOperationErroneous
<1> QED BY <1>1, <1>2, <1>3 DEF IInv

LEMMA TimeOutIInv ==
    ASSUME IInv, TimeOut
    PROVE  IInv'
<1>1. TypeOK'
  BY DEF IInv, TypeOK, TimeOut
<1>2. Locked' /\ Appending' /\ Slots' /\ Aggregated' /\ SuccessIsComplete' /\ Eth0First'
  BY DEF IInv, Locked, Appending, Slots, Aggregated, SuccessIsComplete, Eth0First, TimeOut
<1> QED BY <1>1, <1>2 DEF IInv

\* MergeCniResults: eth0 has at most one result, so it is the first; the other loop leaves it
\* out, and the two together have the results of all executors that did not fail.
LEMMA MergeIInv ==
    ASSUME IInv, MergeCniResults
    PROVE  IInv'
<1> DEFINE first == Collected(CniResults, Len(CniResults), Eth0 \ failing)
           rest == Collected(CniResults, Len(CniResults), Executors \ (Eth0 \cup failing))
<1>1. CniResults \in Seq(Result)
  BY DEF IInv, TypeOK
<1> DEFINE T == Eth0 \ failing
           U == Executors \ (Eth0 \cup failing)
<1>2. first = Collected(CniResults, Len(CniResults), T) /\ rest = Collected(CniResults, Len(CniResults), U)
  OBVIOUS
<1> HIDE DEF first, rest, T, U
<1>3. /\ first \in Seq(Result \cap T)
      /\ \A j \in 1 .. Len(CniResults) : CniResults[j] \in T =>
            \E h \in 1 .. Len(first) : first[h] = CniResults[j]
  BY <1>1, <1>2, CollectedResult
<1>4. /\ rest \in Seq(Result \cap U)
      /\ \A j \in 1 .. Len(CniResults) : CniResults[j] \in U =>
            \E h \in 1 .. Len(rest) : rest[h] = CniResults[j]
  BY <1>1, <1>2, CollectedResult
<1>5. Len(first) <= 1
  <2>1. \A d, e \in Eth0 : d = e
    <3>1. IsFiniteSet(Eth0)
      BY FS_Subset, SyncherAssumption
    <3>2. Cardinality(Eth0) \in Nat
      BY <3>1, FS_CardinalityType
    <3>3. Cardinality(Eth0) = 0 => Eth0 = {}
      BY <3>1, FS_EmptySet
    <3>4. Cardinality(Eth0) = 1 => \E x : Eth0 = {x}
      BY <3>1, FS_Singleton
    <3> QED BY <3>2, <3>3, <3>4, SyncherAssumption
  <2>2. \A j, k \in 1 .. Len(CniResults) : CniResults[j] \in T /\ CniResults[k] \in T => j = k
    BY <2>1, SyncherAssumption DEF IInv, Slots, T
  <2> QED BY <1>1, <1>2, <2>2, CollectedResult
<1> USE DEF T, U
<1>6. first \in Seq(Executors) /\ rest \in Seq(Executors)
  <2>1. /\ \A k \in 1 .. Len(first) : first[k] \in Executors
        /\ \A k \in 1 .. Len(rest) : rest[k] \in Executors
    BY <1>3, <1>4, SyncherAssumption
  <2> QED BY <1>3, <1>4, <2>1
<1>7. merged' = first \o rest
  BY DEF MergeCniResults, MergedResults, first, rest
<1>8. /\ merged' \in Seq(Executors) /\ Len(merged') = Len(first) + Len(rest)
      /\ \A k \in 1 .. Len(first) : merged'[k] = first[k] /\ k \in 1 .. Len(merged')
      /\ \A k \in 1 .. Len(rest) : merged'[Len(first) + k] = rest[k]
                                   /\ Len(first) + k \in 1 .. Len(merged')
      /\ \A k \in 1 .. Len(merged') : \/ k \in 1 .. Len(first)
                                      \/ /\ k - Len(first) \in 1 .. Len(rest)
                                         /\ merged'[k] = rest[k - Len(first)]
  BY <1>6, <1>7
<1>9. TypeOK'
  BY <1>8 DEF IInv, TypeOK, MergeCniResults
<1>10. Locked' /\ Appending' /\ Slots' /\ Aggregated'
  BY DEF IInv, Locked, Appending, Slots, Aggregated, MergeCniResults
<1>11. Eth0First'
  <2>1. \A k \in 1 .. Len(rest) : rest[k] \notin Eth0
    BY <1>4
  <2>2. \A k \in 1 .. Len(first) : k = 1
    BY <1>3, <1>5
  <2> QED BY <1>8, <2>1, <2>2 DEF Eth0First
<1>12. SuccessIsComplete'
  <2> SUFFICES ASSUME answer = "ok", ~torn, ~torn' PROVE failing = {} /\ Range(merged') = Executors
    BY DEF SuccessIsComplete, MergeCniResults
  <2>1. failing = {} /\ \A e \in Executors : pc[e] = "pushed"
    BY DEF IInv, Aggregated, MergeCniResults
  <2>2. ASSUME NEW e \in Executors PROVE \E k \in 1 .. Len(merged') : merged'[k] = e
    <3>1. PICK j \in 1 .. Len(CniResults) : CniResults[j] = e
      BY <2>1 DEF IInv, Slots
    <3>2. CASE e \in Eth0
      BY <1>3, <1>8, <2>1, <3>1, <3>2
    <3>3. CASE e \notin Eth0
      <4>1. PICK k \in 1 .. Len(rest) : rest[k] = e
        BY <1>4, <2>1, <3>1, <3>3
      <4> QED BY <1>8, <4>1
    <3> QED BY <3>2, <3>3
  <2>3. DOMAIN merged' = 1 .. Len(merged') /\ \A k \in 1 .. Len(merged') : merged'[k] \in Executors
    BY <1>8
  <2> QED BY <2>1, <2>2, <2>3 DEF Range
<1> QED BY <1>9, <1>10, <1>11, <1>12 DEF IInv

LEMMA NextIInv == IInv /\ [Next]_vars => IInv'
<1> SUFFICES ASSUME IInv, [Next]_vars PROVE IInv'
  OBVIOUS
<1>1. CASE UNCHANGED vars
  BY <1>1 DEF vars, IInv, TypeOK, Locked, Appending, Slots, Aggregated, SuccessIsComplete, Eth0First
<1>2. CASE MainStep
  BY <1>2, PollIInv, AggregateIInv, TimeOutIInv, MergeIInv DEF MainStep
<1>3. CASE \E e \in Executors : PushResult(e)
  BY <1>3, LockIInv, GrowIInv, WriteIInv DEF PushResult
<1> QED BY <1>1, <1>2, <1>3 DEF Next

\* The invariant holds for every interleaving of the executors with the polling goroutine.
THEOREM IInvHolds == Spec => []IInv
  BY InitIInv, NextIInv, PTL DEF Spec

-----------------------------------------------------------------------------
\* The slice and the goroutines have their types.
THEOREM TypeCorrect == Spec => []TypeOK
<1>1. IInv => TypeOK
  BY DEF IInv
<1> QED BY <1>1, IInvHolds, PTL

\* PushResult (syncher.go): the mutex around the append keeps every result; each executor that
\* has returned has exactly one element in the slice.
THEOREM ResultsKeptAlways == Spec => []ResultsKept
<1>1. ASSUME IInv PROVE ResultsKept
  <2> SUFFICES ASSUME NEW e \in Executors, pc[e] = "pushed"
               PROVE  Cardinality({k \in 1 .. Len(CniResults) : CniResults[k] = e}) = 1
    BY DEF ResultsKept
  <2>1. PICK k \in 1 .. Len(CniResults) : CniResults[k] = e
    BY <1>1 DEF IInv, Slots
  <2>2. {j \in 1 .. Len(CniResults) : CniResults[j] = e} = {k}
    BY <1>1, <2>1, SyncherAssumption DEF IInv, Slots
  <2> QED BY <2>2, FS_Singleton
<1> QED BY <1>1, IInvHolds, PTL

\* GetAggregatedResult and MergeCniResults (syncher.go): the interface list of a success is
\* complete and no operation has failed, unless a result was counted before it was written.
THEOREM SuccessIsCompleteAlways == Spec => []SuccessIsComplete
<1>1. IInv => SuccessIsComplete
  BY DEF IInv
<1> QED BY <1>1, IInvHolds, PTL

\* MergeCniResults (syncher.go): eth0 is the first interface of the merged result whenever it
\* is part of it, in whichever order the results came in.
THEOREM Eth0FirstAlways == Spec => []Eth0First
<1>1. IInv => Eth0First
  BY DEF IInv
<1> QED BY <1>1, IInvHolds, PTL

=============================================================================
