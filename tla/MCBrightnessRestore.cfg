SPECIFICATION Spec
CONSTANTS
    NULL = NULL
    Params <- MCParams
    Scale = 8
    SliderStep = 1
    MaxOwners = 2
PROPERTIES PreviousBrightnessIsRestored
CHECK_DEADLOCK FALSE
