\* One vehicle: renews and exits may be late, calls fail, pods crash, sessions end and go, subscriptions end slowly.
CONSTANTS
    Pods = {1, 2}
    NoPod = 0
    Vehicles = {v1}
    NoVehicle = NoVehicle
    TTL = 2
    FenceAt = 1
    Faults = {"late", "crash", "fail", "run_ends", "slow_stop", "sign_out"}
SPECIFICATION VLSpec
INVARIANT VLTypeOK
INVARIANT HeldMeansLeased
