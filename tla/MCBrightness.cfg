SPECIFICATION Spec
CONSTANTS
    NULL = NULL
    Params <- MCParams
    Scale = 8
    SliderStep = 1
    MaxOwners = 2
INVARIANTS TypeOK ScreenIsRestored PercentageIsCurrent
PROPERTIES RestartKeepsBrightness
CHECK_DEADLOCK FALSE
