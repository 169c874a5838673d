SPECIFICATION Spec
CONSTANTS
    Readings <- MCReadings
    Settings <- MCSettings
    TickLength = 15
    MaxClock = 90
INVARIANTS EstimateAgeIsRight TextsAgree IconsAreHonest
