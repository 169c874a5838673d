SPECIFICATION Spec
CONSTANTS
    d1 = d1
    d2 = d2
    mock = mock
    t1 = t1
    t2 = t2
    n1 = n1
    n2 = n2
    NULL = NULL
    UPowerDevices = {d1, d2}
    Mock = mock
    Totals = {t1, t2}
    NotificationIds = {n1, n2}
    Readings <- MCReadings
    MockReadings <- MCMockReadings
    Settings <- MCSettings
    ExportOutcomes <- MCExportOutcomes
    IsLocal = TRUE
    IsLomiri = TRUE
SYMMETRY Symmetry
INVARIANTS ShownIsCurrent PrimaryIsWatched BusShowsPrimary WarningIsDeserved NothingLeftBehind
PROPERTIES NewBatteryIsWarnedOf ImplementsLowBatteryWarning
CHECK_DEADLOCK FALSE
