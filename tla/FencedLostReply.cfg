\* An acquire whose reply is lost: the stolen group is written to without a warm-up.
CONSTANTS
    Pods = {p1, p2}
    NoPod = NoPod
    Users = {1}
    Groupings <- OneUserGroupings
    TTL = 1
    LocalDeadline = 0
    WarmUp = 2
    MaxEpoch = 2
    Faults = {"lost_acquire"}
    Land = 2
    MaxInFlight = 2
SPECIFICATION FWSpec
SYMMETRY PodSymmetry
INVARIANT StealWaits
