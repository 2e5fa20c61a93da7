\* A stolen group that is released before its warm-up is over.
CONSTANTS
    Pods = {p1, p2}
    NoPod = NoPod
    Users = {1}
    Groupings <- OneUserGroupings
    TTL = 1
    LocalDeadline = 0
    WarmUp = 2
    MaxEpoch = 3
    Faults = {"shutdown"}
    Land = 2
    MaxInFlight = 2
SPECIFICATION FWSpec
SYMMETRY PodSymmetry
PROPERTY OrderAcrossSteal
