\* A user split over two pods is healed; a cancelled subscription takes time to end.
CONSTANTS
    Pods = {1, 2}
    NoPod = 0
    Vehicles = {v1, v2}
    NoVehicle = NoVehicle
    TTL = 2
    FenceAt = 1
    Faults = {"slow_stop"}
SPECIFICATION VLSpec
INVARIANT OneConnection
