SPECIFICATION Spec
CONSTANTS
    NULL = NULL
    Paths = {p1, therm, display}
    Therm = {therm}
    DisplayDevice = display
    Charges = {c1}
    Times = {0}
    CallsMayFail = TRUE
    RemovalsUnheard = TRUE
    MaxOwners = 2
    MaxInbox = 2
INVARIANTS TypeOK QueueIsRefreshed NothingWithoutOwner Announced IgnoredNeverListed
CHECK_DEADLOCK FALSE
