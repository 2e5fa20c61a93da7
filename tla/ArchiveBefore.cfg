\* A user deletes the history before a month and the deleter runs.
CONSTANTS
    Months = {m1, m2}
    Before = {m1}
    NoMonthId = NoMonthId
    MaxReq = 2
    MaxKey = 2
CHECK_DEADLOCK FALSE
SPECIFICATION ADSpec
PROPERTY RequestsAreServed
