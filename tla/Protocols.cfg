\* Seven protocols, one at a time.
CONSTANTS
\* Archive: a month's samples, writers and every job; one bad upload.
    Times = {1, 2, 3}
    NoRow = 0
    MaxOpen = 2
    Jobs = {"thin", "retention", "restore"}
    MaxBad = 1
    MaxGen = 2
\* Deletion: two months of a vehicle, one before the cutoff; two requests.
    Months = {m1, m2}
    Before = {m1}
    NoMonthId = NoMonthId
    MaxReq = 2
    MaxKey = 2
\* Charge: two charges of a vehicle.
    MaxSoc = 2
    MaxGrant = 3
    MaxId = 2
\* Breaker, in ticks.
    Window = 2
    Cooldown = 1
    MaxCooldown = 3
    ProbeTimeout = 2
    Threshold <- TwoOrThree
    MaxCalls = 3
\* Sends: two senders, three messages, one of them outside a budget of one.
    Senders = {s1, s2}
    Messages = {k1, k2, k3}
    Utility = {k3}
    NoMessage = NoMessage
    Budget = 1
\* Billing: one subscription.
    Subs = {1}
    MaxSec = 1
    MaxEvents = 4
\* Session: two clients and two sign-ins.
    Clients = {c1, c2}
    NoClient = NoClient
    MaxSaves = 2
CHECK_DEADLOCK FALSE
SPECIFICATION PRSpec
INVARIANT ArTypeOK
INVARIANT NothingLost
INVARIANT CleanMeansHeld
INVARIANT GoodCopy
INVARIANT RecordedIsReadable
INVARIANT RowsApart
INVARIANT EnergyCountedOnce
INVARIANT SnapshotKeepsUp
INVARIANT SentAtMostOnce
INVARIANT BudgetHolds
INVARIANT EndedIsEnded
INVARIANT RefundHolds
INVARIANT FlaggedForStored
PROPERTY ThinnedIsArchived
PROPERTY HandoverKeepsEnergy
PROPERTY ProbesBackOff
PROPERTY Heals
PROPERTY ShreddedIsGone
PROPERTY OpenRowsEnd
PROPERTY Recovers
PROPERTY ClosedIsCancelled
