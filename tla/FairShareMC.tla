----------------------------- MODULE FairShareMC -----------------------------
(* Instances of FairShare for TLC: a rollout from generation 1 to 2.        *)
EXTENDS FairShare

CONSTANTS old1, new1

RolloutGen == [p \in Pods |-> IF p = old1 THEN 1 ELSE 2]
=============================================================================
