SPECIFICATION Spec
CONSTANTS
    NULL = NULL
    Devices <- MCDevices
    MaxDevices = 3
INVARIANTS ChosenByTheCriteria OrderMattersOnlyInTies TotalIsAsDocumented
