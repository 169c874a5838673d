SPECIFICATION Spec
CONSTANTS
    Readings <- MCChargedReadings
    Settings <- MCSettings
    TickLength = 15
    MaxClock = 90
INVARIANT LabelFollowsDesign
