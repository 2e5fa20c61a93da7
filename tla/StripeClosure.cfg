\* One subscription, bought while its account is being deleted.
CONSTANTS
    Subs = {1}
    MaxSec = 0
    MaxEvents = 3
CHECK_DEADLOCK FALSE
SPECIFICATION SBSpec
PROPERTY NeverChargedAgain
