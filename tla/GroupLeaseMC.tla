---------------------------- MODULE GroupLeaseMC ----------------------------
(* Instances of GroupLease for TLC: users 1 and 2, apart or linked through  *)
(* a shared vehicle (the group is then keyed by the smaller id, 1).         *)
EXTENDS GroupLease, TLC

Apart == [u \in Users |-> u]
Linked == [u \in Users |-> 1]

OneUserGroupings == {Apart}
TwoUserGroupings == {Apart, Linked}

PodSymmetry == Permutations(Pods)
=============================================================================
