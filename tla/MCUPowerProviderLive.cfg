SPECIFICATION FairSpec
CONSTANTS
    NULL = NULL
    Paths = {p1}
    Therm = {}
    DisplayDevice = display
    Charges = {c1, c2}
    Times = {0}
    CallsMayFail = FALSE
    RemovalsUnheard = FALSE
    MaxOwners = 2
    MaxInbox = 3
INVARIANTS QuietMeansUpToDate NoGhost NoDeviceLost
PROPERTIES DeviceIsListed DeviceIsUnlisted
CHECK_DEADLOCK FALSE
