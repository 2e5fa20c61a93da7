\* Two pods of two generations share four groups; one group is driven.
CONSTANTS
    old1 = old1
    new1 = new1
    Pods = {old1, new1}
    NoPod = NoPod
    Gen <- RolloutGen
    Groups = {1, 2, 3, 4}
    Signing = {4}
    Driven = {1}
    TTL = 2
    Window = 1
    Grace = 1
    MaxPerTick = 2
SPECIFICATION FSSpec
INVARIANT FSTypeOK
PROPERTY Served
PROPERTY Balanced
