SPECIFICATION FairSpec
CONSTANTS
    NULL = NULL
    Batteries = {b1, b2}
    NotificationIds = {n1, n2}
    Kinds = {"battery", "ups"}
    States = {"charging", "discharging"}
    Percentages = {20, 100, 101}
INVARIANTS WarningMatchesScreen WarnsOnlyWhenEndangered MirrorAgrees
PROPERTIES ImplementsLowBatteryWarning NoNagging WarnedWhenItWorsens LateClosedIsIgnored DisposedIsFinal ClosedWarningEnds
