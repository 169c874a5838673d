SPECIFICATION Spec
CONSTANTS
    NULL = NULL
    Devices <- MCDevices
    MaxDevices = 2
INVARIANTS ListOrderDoesNotMatter
