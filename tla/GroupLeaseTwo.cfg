\* Two users, apart or linked, two pods that may crash: a lease of one tick, trusted for less than one.
CONSTANTS
    Pods = {p1, p2}
    NoPod = NoPod
    Users = {1, 2}
    Groupings <- TwoUserGroupings
    TTL = 1
    LocalDeadline = 0
    WarmUp = 0
    MaxEpoch = 1
    Faults = {"shutdown", "crash", "relink"}
SPECIFICATION Spec
SYMMETRY PodSymmetry
PROPERTY OverlapOnlyByLinking
