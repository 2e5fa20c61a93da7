------------------------------ MODULE Ownership ------------------------------
(***************************************************************************)
(* What a lease promises the rest of the program, without the clock, the    *)
(* passes and the faults: a group has at most one holder, under an epoch    *)
(* that grows with every grant; only the holder acts for the group, and     *)
(* only under that epoch; the group changes hands while nobody acts for it. *)
(* GroupLease implements it (GroupLease!OwnershipHolds).                    *)
(***************************************************************************)
EXTENDS Integers

CONSTANTS Pods, NoPod, Groups

VARIABLES
    holder, \* group -> the pod it is granted to, or NoPod
    epoch,  \* group -> epoch of the last grant
    acting  \* group -> who acts for it now, as a set of [pod, epoch]

vars == <<holder, epoch, acting>>

Nobody == {}

\* The one thing that may act for g.
Entitled(g) == {[pod |-> holder[g], epoch |-> epoch[g]]}

Init ==
    /\ holder = [g \in Groups |-> NoPod]
    /\ epoch = [g \in Groups |-> 0]
    /\ acting = [g \in Groups |-> Nobody]

\* A grant, to a new pod or again to the same one: nobody acts, the epoch grows.
Grant(g) ==
    /\ acting[g] = Nobody
    /\ holder'[g] \in Pods /\ epoch'[g] > epoch[g]
    /\ acting'[g] \subseteq Entitled(g)'

\* The holder starts or stops acting.
Hold(g) ==
    /\ holder'[g] = holder[g] /\ epoch'[g] = epoch[g]
    /\ acting'[g] \in {acting[g], Nobody, Entitled(g)}
    /\ holder[g] = NoPod => acting'[g] = Nobody

\* The holder gives the group back and stops with that.
GiveUp(g) ==
    /\ holder'[g] = NoPod /\ epoch'[g] = epoch[g]
    /\ acting'[g] = Nobody

\* One statement may grant, or give up, several groups.
Next == \A g \in Groups : Hold(g) \/ Grant(g) \/ GiveUp(g)

Spec == Init /\ [][Next]_vars
=============================================================================
