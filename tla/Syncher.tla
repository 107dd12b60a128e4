------------------------------ MODULE Syncher ------------------------------
(***************************************************************************)
(* How a CNI process collects the results of its goroutines (pkg/syncher).   *)
(* PushResult appends under a mutex; GetAggregatedResult polls the length of *)
(* the slice, and reads the slice, without the mutex.  An append publishes   *)
(* the new length before it writes the element, so a poll in between counts  *)
(* a result it reads as zero.                                                *)
(***************************************************************************)
EXTENDS Integers, Sequences, FiniteSets, SequencesExt

CONSTANTS
    Executors,           \* the goroutines that push a result, one for each interface
    Eth0,                \* the executors of the default interface: one, or none
    MaximumAllowedTime   \* bound of the code: polls before the time is up

\* An element of the slice that is not written yet is zero, and reads as a result of no
\* executor, without an error and without interfaces.
Zero == "zero"

ASSUME SyncherAssumption ==
    /\ IsFiniteSet(Executors) /\ Zero \notin Executors
    /\ Eth0 \subseteq Executors /\ Cardinality(Eth0) <= 1
    /\ MaximumAllowedTime \in Nat

VARIABLES
    CniResults,  \* the shared slice
    mux,         \* the executors that hold the mutex
    pc,          \* where each executor is
    seen,        \* the slice an executor has read and appends to
    failing,     \* the executors whose operation fails
    i,           \* polls so far
    main,        \* where the polling goroutine is
    answer,      \* what GetAggregatedResult returned: "", "ok", "errors" or "timeout"
    merged,      \* what MergeCniResults returned, a sequence of executors
    torn         \* a result was counted that was not written yet (history)

vars == <<CniResults, mux, pc, seen, failing, i, main, answer, merged, torn>>

ExpectedNumOfResults == Cardinality(Executors)

\* A result is known by its executor.
Result == Executors \cup {Zero}

Init ==
    /\ CniResults = <<>>
    /\ mux = {}
    /\ pc = [e \in Executors |-> "working"]
    /\ seen = [e \in Executors |-> <<>>]
    /\ failing \in SUBSET Executors
    /\ i = 0 /\ main = "poll" /\ answer = "" /\ merged = <<>> /\ torn = FALSE

\* Mutant: the mutex is not taken.
PushUnlocked(e) ==
    /\ pc[e] = "working"
    /\ seen' = [seen EXCEPT ![e] = CniResults]
    /\ pc' = [pc EXCEPT ![e] = "append"]
    /\ UNCHANGED <<CniResults, mux, failing, i, main, answer, merged, torn>>

\* PushResult takes the mutex and reads the slice ...
Lock(e) ==
    /\ pc[e] = "working" /\ mux = {}
    /\ mux' = mux \cup {e}
    /\ seen' = [seen EXCEPT ![e] = CniResults]
    /\ pc' = [pc EXCEPT ![e] = "append"]
    /\ UNCHANGED <<CniResults, failing, i, main, answer, merged, torn>>

\* ... publishes the new length ...
Grow(e) ==
    /\ pc[e] = "append"
    /\ CniResults' = Append(seen[e], Zero)
    /\ pc' = [pc EXCEPT ![e] = "write"]
    /\ UNCHANGED <<mux, seen, failing, i, main, answer, merged, torn>>

\* ... writes the element, and gives the mutex back.
Write(e) ==
    /\ pc[e] = "write"
    /\ CniResults' = [CniResults EXCEPT ![Len(seen[e]) + 1] = e]
    /\ mux' = mux \ {e}
    /\ pc' = [pc EXCEPT ![e] = "pushed"]
    /\ UNCHANGED <<seen, failing, i, main, answer, merged, torn>>

PushResult(e) == Lock(e) \/ Grow(e) \/ Write(e)

\* Mutant: only the first result is looked at.
FirstOperationErroneous == CniResults # <<>> /\ CniResults[1] \in failing

wasAnyOperationErroneous == \E r \in Range(CniResults) : r \in failing

\* Mutant: the seconds are not counted.
PollForever ==
    /\ main = "poll" /\ i < MaximumAllowedTime
    /\ ExpectedNumOfResults > Len(CniResults)
    /\ UNCHANGED vars

\* GetAggregatedResult sleeps and polls again while results are missing, ...
Poll ==
    /\ main = "poll" /\ i < MaximumAllowedTime
    /\ ExpectedNumOfResults > Len(CniResults)
    /\ i' = i + 1
    /\ UNCHANGED <<CniResults, mux, pc, seen, failing, main, answer, merged, torn>>

\* ... returns once their number is right, ...
Aggregate ==
    /\ main = "poll" /\ i < MaximumAllowedTime
    /\ ExpectedNumOfResults <= Len(CniResults)
    /\ answer' = IF wasAnyOperationErroneous THEN "errors" ELSE "ok"
    /\ torn' = (Zero \in Range(CniResults))
    /\ main' = "merge"
    /\ UNCHANGED <<CniResults, mux, pc, seen, failing, i, merged>>

\* ... and returns an error when the time is up.
TimeOut ==
    /\ main = "poll" /\ i >= MaximumAllowedTime
    /\ answer' = "timeout"
    /\ main' = "merge"
    /\ UNCHANGED <<CniResults, mux, pc, seen, failing, i, merged, torn>>

\* The loops of MergeCniResults: the results of a set of executors among the first n of the
\* slice, appended one after the other.
Collected(results, n, set) ==
    LET upto[k \in 0 .. n] ==
            IF k = 0 THEN <<>>
            ELSE IF results[k] \in set THEN Append(upto[k - 1], results[k])
            ELSE upto[k - 1]
    IN upto[n]

\* Mutant: the results stay in the order they were pushed.
ResultsAsPushed == Collected(CniResults, Len(CniResults), Executors \ failing)

\* The results of eth0 come first, then the others in the order they were pushed; an
\* operation that failed has no interfaces.
MergedResults ==
    Collected(CniResults, Len(CniResults), Eth0 \ failing)
    \o Collected(CniResults, Len(CniResults), Executors \ (Eth0 \cup failing))

MergeCniResults ==
    /\ main = "merge"
    /\ merged' = MergedResults
    /\ torn' = (torn \/ (answer = "ok" /\ Zero \in Range(CniResults)))
    /\ main' = "done"
    /\ UNCHANGED <<CniResults, mux, pc, seen, failing, i, answer>>

MainStep == Poll \/ Aggregate \/ TimeOut \/ MergeCniResults

Next == MainStep \/ \E e \in Executors : PushResult(e)

\* The polling goroutine is scheduled; an executor may hang, but not with the mutex.
Spec ==
    /\ Init /\ [][Next]_vars
    /\ WF_vars(MainStep)
    /\ \A e \in Executors : WF_vars(Grow(e) \/ Write(e))

-----------------------------------------------------------------------------
\* The types of the slice and of the goroutines.
TypeOK ==
    /\ CniResults \in Seq(Result)
    /\ mux \subseteq Executors
    /\ pc \in [Executors -> {"working", "append", "write", "pushed"}]
    /\ seen \in [Executors -> Seq(Result)]
    /\ failing \subseteq Executors
    /\ i \in 0 .. MaximumAllowedTime
    /\ main \in {"poll", "merge", "done"}
    /\ answer \in {"", "ok", "errors", "timeout"}
    /\ merged \in Seq(Executors)
    /\ torn \in BOOLEAN

\* No result is lost or overwritten, however the goroutines push: each of them that has
\* returned from PushResult has exactly one element in the slice.
ResultsKept ==
    \A e \in Executors : pc[e] = "pushed" =>
        Cardinality({k \in 1 .. Len(CniResults) : CniResults[k] = e}) = 1

\* The interface list of a success is complete, and no operation has failed, unless a
\* result was counted before it was written.
SuccessIsComplete ==
    main = "done" /\ answer = "ok" /\ ~torn => failing = {} /\ Range(merged) = Executors

\* The first interface in the merged result, which becomes the address of the Pod, is
\* eth0 whenever eth0 is part of it, in whichever order the results came in.
Eth0First == \A k \in 1 .. Len(merged) : merged[k] \in Eth0 => k = 1

\* GetAggregatedResult returns, also when executors never push.
Answers == <>(main = "done")

=============================================================================
