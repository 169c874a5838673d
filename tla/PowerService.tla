---------------------------- MODULE PowerService ----------------------------
(***************************************************************************)
(* IndicatorPowerService (src/src/service.c) between a device provider and *)
(* the notifier: devices change, the service chooses the primary device,   *)
(* gives it to the notifier and shows it in the panel.                     *)
(*                                                                         *)
(* Everything runs in one main loop.  A callback that changes a device and *)
(* then emits "devices-changed" takes several steps here (callback), as    *)
(* the notifier listens to the device itself and acts between them; no     *)
(* other callback runs meanwhile.  The notifier is an instance of Notifier *)
(* and shares its variables; of its environment the user and the "closed"  *)
(* signals are kept, the server does not fail.  Of the providers there are *)
(* UPower's, whose table is filled by UPowerProvider's callbacks, and the  *)
(* mock one of src/src/testing.c; "testing" selects which one is used.     *)
(***************************************************************************)
EXTENDS PrimaryDevice, TLC

CONSTANTS
    UPowerDevices,   \* device objects of the UPower provider
    Mock,            \* the device object of the mock provider
    Totals,          \* objects for merged batteries
    NotificationIds,
    Readings,        \* [kind, state, power_supply, percentage, time] of a device
    MockReadings,    \* those the mock device may be given
    Settings,        \* [policy, time, percentage]: icon-policy, show-time, show-percentage
    ExportOutcomes,  \* sets of what is exported when the bus is acquired; exports may fail
    IsLocal,         \* the session is local: indicator_power_service_init() asks once
    IsLomiri         \* ayatana_common_utils_is_lomiri()

ASSUME IdsAssumption == NULL \notin NotificationIds
ASSUME TotalsAssumption == \E t, u \in Totals : t # u
ASSUME ReadingsAssumption ==
    Readings \cup MockReadings \subseteq
        [kind : UpDeviceKind, state : UpDeviceState, power_supply : BOOLEAN,
         percentage : Percentage, time : Nat]
ASSUME ExportsAssumption == ExportOutcomes \subseteq SUBSET {"Testing", "actions", "menus"}
ASSUME SettingsAssumption ==
    Settings \subseteq [policy : {"present", "charge", "never"}, time : BOOLEAN,
                        percentage : BOOLEAN]

VARIABLES
    \* the providers
    present,             \* the devices in UPower's table
    mock_battery_enabled,
    callback,            \* what the running callback still has to do, or NULL
    \* private state of the service, and what it shows
    devices, primary_device, device_state, header, menu,
    settings, keep_screen_on, exported, running,
    \* the notifier: see Notifier
    battery, power_level, discharging, notify_notification, weak_refs, caps, bus,
    disposed, dbus_power_level, dbus_power_percentage, dbus_is_discharging,
    dbus_is_warning, device, server, screen, persistent, closing, lost

Objects == UPowerDevices \cup {Mock} \cup Totals

(* The properties that a message sets one by one, and what a callback that   *)
(* sets them still has to do.                                                *)
Properties == {"kind", "state", "percentage", "time"}
Callbacks ==
    [source : {"upower", "mock"}, object : UPowerDevices \cup {Mock, NULL},
     reading : Readings \cup MockReadings \cup {NULL}, keys : SUBSET Properties]

(* NULL is neither an object nor a callback, and no object is of two kinds.  *)
ASSUME ObjectsAssumption ==
    /\ NULL \notin Objects \cup Callbacks
    /\ Mock \notin UPowerDevices \cup Totals
    /\ UPowerDevices \cap Totals = {}

N == INSTANCE Notifier WITH
         Batteries <- Objects, Kinds <- UpDeviceKind, States <- UpDeviceState,
         Percentages <- Percentage

provider_vars == <<present, mock_battery_enabled>>
shown_vars    == <<device_state, header, menu>>
service_vars  == <<devices, primary_device, shown_vars, settings, keep_screen_on,
                   exported, running>>
notifier_vars == <<battery, power_level, discharging, notify_notification, weak_refs,
                   caps, dbus_is_warning, screen, persistent, closing, lost,
                   dbus_power_level, dbus_power_percentage, dbus_is_discharging>>
rest_vars     == <<bus, disposed, server>>
vars == <<provider_vars, callback, service_vars, notifier_vars, rest_vars, device>>

-----------------------------------------------------------------------------
(* What is shown                                                             *)

NoDevice == [object_path |-> NULL, kind |-> UP_DEVICE_KIND_UNKNOWN,
             state |-> UP_DEVICE_STATE_UNKNOWN, power_supply |-> FALSE,
             percentage |-> 0, time |-> 0]

(* The mock battery's first properties: 50.0% and half an hour.              *)
MockInit == [kind |-> UP_DEVICE_KIND_BATTERY, state |-> UP_DEVICE_STATE_DISCHARGING,
             power_supply |-> TRUE, percentage |-> 500, time |-> 60 * 30]

(* The device object o with the properties r.                                *)
As(o, r) == [object_path |-> o, kind |-> r.kind, state |-> r.state,
             power_supply |-> r.power_supply, percentage |-> r.percentage, time |-> r.time]

time_is_relevant(d) == IsCharging(d) \/ (IsDischarging(d) /\ d.time < 24 * 60 * 60)

(* The parts of the panel's label: the time (or "estimating", or none) and   *)
(* the charge.  How the label ages without an estimate is left out.          *)
get_readable_title(d, wanted) ==
    [time |-> IF ~wanted.time \/ ~time_is_relevant(d) THEN "none"
              ELSE IF d.time > 0 THEN ToString(d.time)
              ELSE IF d.percentage > 0 THEN "estimating" ELSE "none",
     percentage |-> IF wanted.percentage /\ d.percentage > 0 THEN d.percentage ELSE 0]

HasCharge(d)   == d.kind \in {UP_DEVICE_KIND_BATTERY, UP_DEVICE_KIND_UPS}
IsInUse(d)     == HasCharge(d) /\ (IsCharging(d) \/ IsDischarging(d))

should_be_visible(list, policy) ==
    /\ IsLocal
    /\ IsLomiri => \/ policy = "present" /\ \E i \in DOMAIN list : HasCharge(list[i])
                   \/ policy = "charge" /\ \E i \in DOMAIN list : IsInUse(list[i])

(* From the primary device (NoDevice if there is none), the list of devices, *)
(* the settings and the state of the keep-screen-on action.                  *)
create_header_state(primary, list, wanted, kso) ==
    [visible |-> should_be_visible(list, wanted.policy),
     label   |-> get_readable_title(primary, wanted),
     icon    |-> <<primary.kind, primary.state, primary.percentage>>,
     keep_screen_on |-> kso]

IsNoLinePower(d) == d.kind # UP_DEVICE_KIND_LINE_POWER

create_devices_section(list) == SelectSeq(list, IsNoLinePower)

calculate_device_state_action_state(primary) == primary.state

(* The properties of the listed objects, and of the primary device.          *)
Read(list) == [i \in DOMAIN list |-> device[list[i]]]
PrimaryRead == IF primary_device = NULL THEN NoDevice ELSE device[primary_device]

-----------------------------------------------------------------------------
(* main(): the service starts without a provider; "testing" then gives it    *)
(* the UPower one, which has no devices yet.                                 *)
Init ==
    /\ present = {}
    /\ mock_battery_enabled = FALSE
    /\ callback = NULL
    /\ devices = <<>>
    /\ primary_device = NULL
    /\ settings \in Settings
    /\ keep_screen_on = FALSE
    /\ device_state = calculate_device_state_action_state(NoDevice)
    /\ header = create_header_state(NoDevice, <<>>, settings, FALSE)
    /\ menu = create_devices_section(<<>>)
    /\ exported = {}
    /\ running = TRUE
    /\ battery = NULL
    /\ power_level = POWER_LEVEL_OK
    /\ discharging = FALSE
    /\ notify_notification = NULL
    /\ weak_refs = {}
    /\ caps = "unqueried"
    /\ bus = FALSE
    /\ disposed = FALSE
    /\ dbus_power_level = N!SkeletonDefault
    /\ dbus_power_percentage = 0
    /\ dbus_is_discharging = FALSE
    /\ dbus_is_warning = FALSE
    /\ device = [o \in Objects |-> IF o = Mock THEN As(Mock, MockInit) ELSE NoDevice]
    /\ server = "actions"
    /\ screen = {}
    /\ persistent = {}
    /\ closing = {}
    /\ lost = {}

Idle == running /\ callback = NULL

-----------------------------------------------------------------------------
(* The service                                                               *)

(* Mistake: only the menus are rebuilt.                                      *)
Bug_RebuildsMenuOnly(primary, list) ==
    /\ menu' = create_devices_section(list)
    /\ UNCHANGED header

rebuild_now(primary, list) ==
    /\ header' = create_header_state(primary, list, settings, keep_screen_on)
    /\ menu' = create_devices_section(list)

(* The primary device of a list of devices.                                  *)
PrimaryOf(list) == IF list = <<>> THEN NoDevice ELSE choose_primary_device(list)

(* The object of the primary device: a merged battery is a new object each   *)
(* time.  Mistake: the merged battery is kept and updated.                   *)
Bug_TotalIsReused(list, primary) ==
    IF list = <<>> THEN NULL
    ELSE IF primary.object_path # NULL THEN primary.object_path
    ELSE CHOOSE t \in Totals : TRUE

PrimaryObject(list, primary) ==
    IF list = <<>> THEN NULL
    ELSE IF primary.object_path # NULL THEN primary.object_path
    ELSE CHOOSE t \in Totals : t # battery

(* What the notifier is told to watch.  Mistake: it is told of batteries     *)
(* only.                                                                     *)
Bug_BatteryNeverDropped(object, primary) ==
    IF primary.kind = UP_DEVICE_KIND_BATTERY THEN object ELSE battery

WatchedObject(object, primary) ==
    IF primary.kind = UP_DEVICE_KIND_BATTERY THEN object ELSE NULL

(* on_devices_changed(), for the list that the provider returns.             *)
on_devices_changed(list) ==
    LET primary == PrimaryOf(Read(list))
        object  == PrimaryObject(list, primary)
        watched == WatchedObject(object, primary)
    IN  /\ devices' = list
        /\ primary_device' = object
        /\ device' = [o \in Objects |-> IF o \notin Totals THEN device[o]
                                        ELSE IF o = object THEN primary ELSE NoDevice]
        /\ IF watched # battery THEN N!ReplaceBattery(watched, primary)
                                ELSE UNCHANGED notifier_vars
        /\ device_state' = calculate_device_state_action_state(primary)
        /\ rebuild_now(primary, Read(list))
        /\ UNCHANGED <<settings, keep_screen_on, exported, running>>

(* Lists of the provider's devices: its table has no order.                  *)
Lists(table) == {list \in [1 .. Cardinality(table) -> table] : IsInjective(list)}

(* "devices-changed" is emitted at the end of a callback; the service        *)
(* listens only to the provider in use.                                      *)
EmitDevicesChanged ==
    /\ callback # NULL
    /\ callback.keys = {}
    /\ callback' = NULL
    /\ IF (callback.source = "mock") = mock_battery_enabled
       THEN \E list \in Lists(IF mock_battery_enabled THEN {Mock} ELSE present) :
               on_devices_changed(list)
       ELSE UNCHANGED <<service_vars, notifier_vars, device>>
    /\ UNCHANGED <<provider_vars, rest_vars>>

(* indicator_power_service_set_device_provider(): what the old provider      *)
(* listed is dropped, and the service reads what the new one lists.          *)
set_device_provider(mock) ==
    \E list \in Lists(IF mock THEN {Mock} ELSE present) : on_devices_changed(list)

(* on_mock_battery_enabled_changed() of "testing" switches to the other      *)
(* provider (update_device_provider()).                                      *)
MockBatteryEnabled ==
    /\ Idle
    /\ mock_battery_enabled' = ~mock_battery_enabled
    /\ set_device_provider(mock_battery_enabled')
    /\ UNCHANGED <<present, callback, rest_vars>>

(* "changed" of the settings, and the keep-screen-on action's new state,     *)
(* rebuild the header.                                                       *)
SettingsChange(wanted) ==
    /\ Idle
    /\ settings' = wanted
    /\ header' = create_header_state(PrimaryRead, Read(devices), wanted, keep_screen_on)
    /\ UNCHANGED <<provider_vars, callback, devices, primary_device, device_state, menu,
                   keep_screen_on, exported, running, notifier_vars, rest_vars, device>>

KeepScreenOnToggles ==
    /\ Idle
    /\ keep_screen_on' = ~keep_screen_on
    /\ header' = create_header_state(PrimaryRead, Read(devices), settings, ~keep_screen_on)
    /\ UNCHANGED <<provider_vars, callback, devices, primary_device, device_state, menu,
                   settings, exported, running, notifier_vars, rest_vars, device>>

(* "notify::bus" has the testing object export itself, then the service does *)
(* what it can.                                                              *)
on_bus_acquired ==
    /\ Idle
    /\ ~bus
    /\ exported' \in ExportOutcomes
    /\ N!SetBus(TRUE)
    /\ UNCHANGED <<provider_vars, callback, devices, primary_device, shown_vars, settings,
                   keep_screen_on, running>>

(* on_name_lost() unexports the service's objects and ends the main loop;    *)
(* main() then drops the testing object, which unexports itself, the service *)
(* and the notifier.                                                         *)
on_name_lost ==
    /\ Idle
    /\ exported' = {}
    /\ running' = FALSE
    /\ N!Dispose
    /\ UNCHANGED <<provider_vars, callback, devices, primary_device, shown_vars, settings,
                   keep_screen_on>>

-----------------------------------------------------------------------------
(* The providers                                                             *)

(* A callback that has only the emission left to do.                         *)
Emit(source) == [source |-> source, object |-> NULL, reading |-> NULL, keys |-> {}]

(* The next property of a message is set.  Listeners are called at once; the *)
(* notifier listens to the percentage and the state.                         *)
ApplyProperty ==
    /\ callback # NULL
    /\ \E key \in callback.keys :
          LET o == callback.object
              d == [device[o] EXCEPT ![key] = callback.reading[key]]
          IN  /\ callback' = [callback EXCEPT !.keys = @ \ {key}]
              /\ IF key \in {"percentage", "state"}
                 THEN N!BatteryChanges(o, d)
                 ELSE /\ device' = [device EXCEPT ![o] = d]
                      /\ UNCHANGED <<notifier_vars, rest_vars>>
    /\ UNCHANGED <<provider_vars, service_vars>>

(* on_get_all_response(): a listed device is updated, an unlisted one added. *)
GetAllReply(o, r) ==
    /\ Idle
    /\ present' = present \cup {o}
    /\ N!BatteryChanges(o, As(o, r))
    /\ callback' = Emit("upower")
    /\ UNCHANGED <<mock_battery_enabled, service_vars>>

(* on_device_properties_changed(): the properties of the message, in the     *)
(* order of its dictionary; a time of 0 is ignored.                          *)
PropertiesChanged(o, r) ==
    /\ Idle
    /\ r.power_supply = device[o].power_supply
    /\ LET keys == {k \in Properties :
                        device[o][k] # r[k] /\ (k = "time" => r.time # 0)}
       IN  /\ keys # {}
           /\ callback' = [source |-> "upower", object |-> o, reading |-> r, keys |-> keys]
    /\ UNCHANGED <<provider_vars, service_vars, notifier_vars, rest_vars, device>>

(* DeviceRemoved, for one device, or UPower's name vanishes, for all.  Nobody *)
(* reads the properties of a device that is gone.                            *)
DevicesRemoved(gone) ==
    /\ Idle
    /\ present' = present \ gone
    /\ device' = [o \in Objects |-> IF o \in gone THEN NoDevice ELSE device[o]]
    /\ callback' = Emit("upower")
    /\ UNCHANGED <<mock_battery_enabled, service_vars, notifier_vars, rest_vars>>

(* on_mock_battery_{level,state,minutes_left}_changed().  The mock provider  *)
(* emits for each property that is set.  (It is told of the property before  *)
(* the notifier is; neither reads what the other writes.)                    *)
MockChanges(key, r) ==
    /\ Idle
    /\ callback' = [source |-> "mock", object |-> Mock, reading |-> r, keys |-> {key}]
    /\ UNCHANGED <<provider_vars, service_vars, notifier_vars, rest_vars, device>>

-----------------------------------------------------------------------------
(* The user and libnotify                                                    *)

UserDismisses(n) ==
    /\ N!UserDismisses(n)
    /\ UNCHANGED <<provider_vars, callback, service_vars>>

NotificationClosed(n) ==
    /\ Idle
    /\ N!NotificationClosed(n)
    /\ UNCHANGED <<provider_vars, callback, service_vars>>

-----------------------------------------------------------------------------
Next ==
    \/ EmitDevicesChanged
    \/ ApplyProperty
    \/ MockBatteryEnabled
    \/ \E wanted \in Settings : SettingsChange(wanted)
    \/ KeepScreenOnToggles
    \/ on_bus_acquired
    \/ on_name_lost
    \/ \E o \in UPowerDevices, r \in Readings : GetAllReply(o, r)
    \/ \E o \in present, r \in Readings : PropertiesChanged(o, r)
    \/ \E o \in present : DevicesRemoved({o})
    \/ present # {} /\ DevicesRemoved(present)
    \/ \E key \in {"state", "percentage", "time"}, r \in MockReadings : MockChanges(key, r)
    \/ \E n \in NotificationIds : UserDismisses(n)
    \/ \E n \in NotificationIds : NotificationClosed(n)

Spec == Init /\ [][Next]_vars
=============================================================================
