----------------------- MODULE PowerServiceProperties -----------------------
(***************************************************************************)
(* What the service, its provider and the notifier must achieve together.  *)
(***************************************************************************)
EXTENDS PowerService

(* Is the device one the user has to be warned of?                           *)
Endangered(d) == get_battery_power_level(d) # POWER_LEVEL_OK /\ IsDischarging(d)

(* Between callbacks the list is the one of the provider in use, and the     *)
(* header, the menus and the device-state action are what would be computed  *)
(* from the devices, the settings and the actions as they are now: nothing   *)
(* that is shown is stale.                                                   *)
ShownIsCurrent ==
    Idle =>
        /\ {devices[i] : i \in DOMAIN devices} =
               IF mock_battery_enabled THEN {Mock} ELSE present
        /\ device_state = calculate_device_state_action_state(PrimaryRead)
        /\ header = create_header_state(PrimaryRead, Read(devices), settings, keep_screen_on)
        /\ menu = create_devices_section(Read(devices))

(* Between callbacks the notifier watches the primary device if that is a    *)
(* battery, and nothing otherwise; several charged batteries are watched as  *)
(* one, whose properties are their total.                                    *)
PrimaryIsWatched ==
    Idle =>
        /\ battery = IF PrimaryRead.kind = UP_DEVICE_KIND_BATTERY THEN primary_device ELSE NULL
        /\ IsMerged(Read(devices)) /\ primary_device \in Totals =>
              PrimaryRead = create_totalled_battery_device(Read(devices))

(* Between callbacks D-Bus clients read the level, charge and state of the   *)
(* primary device: also a change of kind, which the notifier does not listen *)
(* to, and one spread over several properties have arrived.                  *)
BusShowsPrimary ==
    Idle /\ battery # NULL =>
        /\ dbus_power_level = power_level_to_dbus_string(get_battery_power_level(PrimaryRead))
        /\ dbus_power_percentage = get_battery_power_percentage(PrimaryRead)
        /\ dbus_is_discharging = IsDischarging(PrimaryRead)

(* Between callbacks a warning is up only if the primary device deserves it, *)
(* whatever warnings a half-applied message raised.                          *)
WarningIsDeserved ==
    Idle /\ notify_notification # NULL => battery # NULL /\ Endangered(PrimaryRead)

(* Nothing of the service, the testing object or the notifier is left on the *)
(* bus or on the screen after them, whichever of their exports failed.       *)
NothingLeftBehind ==
    ~running => exported = {} /\ ~bus /\ screen = {} /\ weak_refs = {}

(* When the service hands the notifier another battery, and that one is in   *)
(* danger and worse off than the notifier remembers of the last (which may   *)
(* have been removed long before), a warning is up at once.                  *)
NewBatteryIsWarnedOf ==
    [][LET d == device'[battery']
       IN  /\ battery' \notin {battery, NULL}
           /\ Endangered(d)
           /\ ~discharging \/ get_battery_power_level(d) < power_level
           => notify_notification' # NULL /\ notify_notification' \in screen']_vars

(* Whatever the service does with its provider's devices, with merged        *)
(* batteries that are new objects each time and with messages that arrive    *)
(* property by property, the user sees no more than LowBatteryWarning        *)
(* allows: a warning appears only because a battery got worse or began to    *)
(* discharge, and none outlives its reason or its battery.                   *)
LBW == INSTANCE LowBatteryWarning WITH
           watching <- battery # NULL,
           level    <- power_level,
           warning  <- dbus_is_warning

ImplementsLowBatteryWarning == LBW!Spec
=============================================================================
