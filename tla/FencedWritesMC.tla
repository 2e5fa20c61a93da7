--------------------------- MODULE FencedWritesMC ---------------------------
(* Instances of FencedWrites for TLC: one group, two pods.                 *)
EXTENDS FencedWrites, TLC

OneUserGroupings == {[u \in Users |-> u]}
PodSymmetry == Permutations(Pods)
=============================================================================
