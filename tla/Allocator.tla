----------------------------- MODULE Allocator -----------------------------
(***************************************************************************)
(* What DANM's allocators promise, addresses in pkg/ipam and virtual network *)
(* identifiers in pkg/confman alike: every item is free or held by one owner,*)
(* and changes hands in one step, as if there were a lock around the bitmap  *)
(* in the API object.                                                        *)
(*                                                                           *)
(* The promise ends when the allocator breaks it in one of the ways the      *)
(* detailed specifications name; from then on anything may happen.           *)
(***************************************************************************)
CONSTANTS
    Owners,    \* callers of the allocator
    Items      \* what it allocates

VARIABLES
    free,      \* items that may be handed out
    held,      \* what each owner was given and has not given back
    broken     \* the promise was broken

vars == <<free, held, broken>>

Init ==
    /\ free \subseteq Items
    /\ held = [o \in Owners |-> {}]
    /\ broken = FALSE

\* Only the items of one owner change.
Only(o) == held' = [held EXCEPT ![o] = held'[o]]

\* An owner gets items that were free, all of them in one step ...
Acquire(o) ==
    /\ held[o] = {} /\ Only(o)
    /\ held'[o] \subseteq free
    /\ free' = free \ held'[o]

\* ... gives some back ...
Release(o) ==
    /\ Only(o)
    /\ held'[o] \subseteq held[o]
    /\ free' = free \cup (held[o] \ held'[o])

\* ... or gets an error: it has nothing afterwards.  The items it was about to get may be
\* lost, those it was about to give back may be free or lost.
Fail(o) ==
    /\ held' = [held EXCEPT ![o] = {}]
    /\ \/ held[o] = {} /\ free' \subseteq free
       \/ free \subseteq free' /\ free' \ free \subseteq held[o]

Next ==
    \/ broken' = TRUE
    \/ /\ ~broken /\ broken' = FALSE
       /\ \E o \in Owners : Acquire(o) \/ Release(o) \/ Fail(o)

Spec == Init /\ [][Next]_vars
=============================================================================
