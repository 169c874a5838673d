---------------------------- MODULE PowerDevice ----------------------------
(***************************************************************************)
(* The enumerations of src/src/device.h that the logic tells apart, the    *)
(* properties of an IndicatorPowerDevice, and the battery power level the  *)
(* notifier derives from them.                                             *)
(*                                                                         *)
(* Percentages are integers in tenths of a percent (20 is 2.0%), so that   *)
(* a value can lie on either side of a threshold of the code without being *)
(* a whole percent.                                                        *)
(***************************************************************************)
EXTENDS Integers

UP_DEVICE_KIND_UNKNOWN    == "unknown"
UP_DEVICE_KIND_LINE_POWER == "line-power"
UP_DEVICE_KIND_BATTERY    == "battery"
UP_DEVICE_KIND_UPS        == "ups"
UP_DEVICE_KIND_MOUSE      == "mouse"

UpDeviceKind == {UP_DEVICE_KIND_UNKNOWN, UP_DEVICE_KIND_LINE_POWER,
                 UP_DEVICE_KIND_BATTERY, UP_DEVICE_KIND_UPS,
                 UP_DEVICE_KIND_MOUSE}

UP_DEVICE_STATE_UNKNOWN       == "unknown"
UP_DEVICE_STATE_CHARGING      == "charging"
UP_DEVICE_STATE_DISCHARGING   == "discharging"
UP_DEVICE_STATE_EMPTY         == "empty"
UP_DEVICE_STATE_FULLY_CHARGED == "fully-charged"

UpDeviceState == {UP_DEVICE_STATE_UNKNOWN, UP_DEVICE_STATE_CHARGING,
                  UP_DEVICE_STATE_DISCHARGING, UP_DEVICE_STATE_EMPTY,
                  UP_DEVICE_STATE_FULLY_CHARGED}

(* The enum's order.                                                         *)
state_number == [s \in UpDeviceState |->
    CASE s = UP_DEVICE_STATE_UNKNOWN       -> 0
      [] s = UP_DEVICE_STATE_CHARGING      -> 1
      [] s = UP_DEVICE_STATE_DISCHARGING   -> 2
      [] s = UP_DEVICE_STATE_EMPTY         -> 3
      [] s = UP_DEVICE_STATE_FULLY_CHARGED -> 4]

Percentage == 0 .. 1000

-----------------------------------------------------------------------------
(* The power level of a battery: notifier.c orders the levels by severity,   *)
(* the worst first, and compares them with the integer order of the enum.    *)

POWER_LEVEL_CRITICAL == 0
POWER_LEVEL_VERY_LOW == 1
POWER_LEVEL_LOW      == 2
POWER_LEVEL_OK       == 3

PowerLevel == POWER_LEVEL_CRITICAL .. POWER_LEVEL_OK

percent_critical == 20
percent_very_low == 50
percent_low      == 100

(* A device of another kind fails the function's precondition, which then    *)
(* returns POWER_LEVEL_OK.                                                   *)
get_battery_power_level(d) ==
    IF d.kind # UP_DEVICE_KIND_BATTERY THEN POWER_LEVEL_OK
    ELSE IF d.percentage <= percent_critical THEN POWER_LEVEL_CRITICAL
    ELSE IF d.percentage <= percent_very_low THEN POWER_LEVEL_VERY_LOW
    ELSE IF d.percentage <= percent_low THEN POWER_LEVEL_LOW
    ELSE POWER_LEVEL_OK

(* The D-Bus property PowerPercentage is an integer: the double is truncated *)
(* to whole percents on its way to the skeleton.                             *)
get_battery_power_percentage(d) ==
    IF d.kind # UP_DEVICE_KIND_BATTERY THEN 0 ELSE d.percentage \div 10

power_level_to_dbus_string(level) ==
    CASE level = POWER_LEVEL_LOW      -> "low"
      [] level = POWER_LEVEL_VERY_LOW -> "very_low"
      [] level = POWER_LEVEL_CRITICAL -> "critical"
      [] OTHER                        -> "ok"

(* The state test of on_battery_property_changed().                          *)
IsDischarging(d) == d.state = UP_DEVICE_STATE_DISCHARGING
=============================================================================
