SPECIFICATION Spec
CONSTANTS
    NULL = NULL
    Batteries = {b1}
    NotificationIds = {n1, n2}
    Kinds = {"battery"}
    States = {"charging", "discharging"}
    Percentages = {50, 100, 101}
INVARIANTS BusDischargingIsTrue
