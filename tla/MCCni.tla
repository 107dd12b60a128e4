------------------------------- MODULE MCCni -------------------------------
(* Small clusters for Cni.                                                  *)
EXTENDS Cni, TLC
CONSTANTS c1, c2, c3

\* Containers of different Pods, and two containers of one restarted Pod.
OwnPod == [c \in Cids |-> c]
RestartedPod == [c \in Cids |-> IF c = c2 THEN c1 ELSE c]
Symmetry == Permutations(Procs) \cup Permutations(Ips)
=============================================================================
