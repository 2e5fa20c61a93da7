\* One group, two pods, every fault: real timings scaled to TTL 2, deadline 1.
CONSTANTS
    Pods = {p1, p2}
    NoPod = NoPod
    Users = {1}
    Groupings <- OneUserGroupings
    TTL = 2
    LocalDeadline = 1
    WarmUp = 1
    MaxEpoch = 2
    Faults = {"shutdown", "crash", "restart", "lost_acquire", "sign_in_out"}
SPECIFICATION Spec
SYMMETRY PodSymmetry
INVARIANT TypeOK
INVARIANT TrustImpliesLease
INVARIANT OneActor
PROPERTY OwnershipHolds
