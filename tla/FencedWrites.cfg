\* Writes across steals and released groups; pods stall and crash, no reply is lost.
CONSTANTS
    Pods = {p1, p2}
    NoPod = NoPod
    Users = {1}
    Groupings <- OneUserGroupings
    TTL = 1
    LocalDeadline = 0
    WarmUp = 2
    MaxEpoch = 3
    Faults = {"crash"}
    Land = 2
    MaxInFlight = 2
SPECIFICATION FWSpec
SYMMETRY PodSymmetry
INVARIANT FWTypeOK
INVARIANT StealWaits
INVARIANT OldWritesAreOlder
PROPERTY CommitOrder
