\* Two vehicles of one user, whatever leases were there: pods crash, renews and acquires fail or lose their reply.
CONSTANTS
    Pods = {1, 2}
    NoPod = 0
    Vehicles = {v1, v2}
    NoVehicle = NoVehicle
    TTL = 2
    FenceAt = 1
    Faults = {"crash", "lost"}
SPECIFICATION VLSpec
PROPERTY AcquireKeepsTogether
PROPERTY SplitConverges
PROPERTY Streamed
