------------------------- MODULE PowerServiceProofs -------------------------
(***************************************************************************)
(* Proofs about PowerService, for any devices, settings and exports: while *)
(* the service runs, what it shows, watches, publishes and warns of is the *)
(* primary device as it is; when it ends, nothing of it is left on the bus *)
(* or on the screen.                                                       *)
(***************************************************************************)
EXTENDS PowerServiceProperties, PrimaryDeviceLemmas

-----------------------------------------------------------------------------
(* The notification                                                          *)

(* The notifier's callback is registered with the notification it holds, and *)
(* no other is on the screen; one whose end is on its way is not.            *)
HeldInv ==
    /\ notify_notification \in NotificationIds \cup {NULL}
    /\ weak_refs = IF notify_notification = NULL THEN {} ELSE {notify_notification}
    /\ screen \subseteq {notify_notification} \ {NULL}
    /\ screen \cap closing = {}

(* Clearing leaves no notification held.                                     *)
LEMMA ClearKeepsHeld ==
    ASSUME HeldInv, N!notification_clear
    PROVE  HeldInv' /\ notify_notification' = NULL
  BY DEF HeldInv, N!notification_clear, N!ServerClose, N!popup_vars

(* Showing leaves the new notification held and the old one closed.          *)
LEMMA ShowKeepsHeld ==
    ASSUME HeldInv, NEW level, N!notification_show(level)
    PROVE  HeldInv'
  <1>1. CASE level = N!POWER_LEVEL_OK \/ server = "absent"
    BY <1>1 DEF HeldInv, N!notification_show, N!ServerClose
  <1>2. CASE ~(level = N!POWER_LEVEL_OK \/ server = "absent")
    <2>1. PICK n \in N!FreshIds :
              /\ notify_notification' = n
              /\ weak_refs' = (weak_refs \ {notify_notification}) \cup {n}
              /\ screen' = (screen \ {notify_notification}) \cup {n}
              /\ closing' = IF notify_notification \in screen
                            THEN closing \cup {notify_notification} ELSE closing
      BY <1>2 DEF N!notification_show
    <2>2. n \in NotificationIds /\ n \notin screen /\ n \notin closing
      BY DEF N!FreshIds
    <2>3. QED
      BY <2>1, <2>2, IdsAssumption DEF HeldInv
  <1>3. QED
    BY <1>1, <1>2

(* What does not touch the notification keeps it held.                       *)
LEMMA UnchangedKeepsHeld ==
    ASSUME HeldInv, UNCHANGED N!popup_vars PROVE HeldInv'
  BY DEF HeldInv, N!popup_vars

(* The three outcomes of an evaluation.                                      *)
LEMMA EvaluationKeepsHeld ==
    ASSUME HeldInv, NEW d, NEW ACTION otherwise,
           otherwise => UNCHANGED N!popup_vars \/ N!notification_clear,
           N!on_battery_property_changed(d, otherwise)
    PROVE  HeldInv'
  <1>1. \/ N!notification_show(N!get_battery_power_level(d))
        \/ N!notification_clear
        \/ UNCHANGED N!popup_vars
    BY DEF N!on_battery_property_changed
  <1>2. QED
    BY <1>1, ClearKeepsHeld, ShowKeepsHeld, UnchangedKeepsHeld

(* Another battery is evaluated, or the notification cleared.                *)
LEMMA ReplaceKeepsHeld ==
    ASSUME HeldInv, NEW b, NEW d, N!ReplaceBattery(b, d)
    PROVE  HeldInv'
  <1>1. CASE b # NULL
    BY <1>1, EvaluationKeepsHeld DEF N!ReplaceBattery
  <1>2. CASE b = NULL
    BY <1>2, ClearKeepsHeld DEF N!ReplaceBattery
  <1>3. QED
    BY <1>1, <1>2

(* A changed battery is evaluated if it is watched.                          *)
LEMMA ChangeKeepsHeld ==
    ASSUME HeldInv, NEW b, NEW d, N!BatteryChanges(b, d)
    PROVE  HeldInv'
  <1>1. CASE b = battery
    BY <1>1, EvaluationKeepsHeld DEF N!BatteryChanges
  <1>2. CASE b # battery
    BY <1>2, UnchangedKeepsHeld DEF N!BatteryChanges
  <1>3. QED
    BY <1>1, <1>2

(* on_devices_changed() may hand over another battery.                       *)
LEMMA DevicesChangedKeepHeld ==
    ASSUME HeldInv, NEW list, on_devices_changed(list)
    PROVE  HeldInv' /\ running' = running
  <1>1. (\E b, d : N!ReplaceBattery(b, d)) \/ UNCHANGED notifier_vars
    BY DEF on_devices_changed
  <1>2. UNCHANGED notifier_vars => HeldInv'
    BY DEF notifier_vars, HeldInv
  <1>3. QED
    BY <1>1, <1>2, ReplaceKeepsHeld DEF on_devices_changed

-----------------------------------------------------------------------------
(* No callback runs when the service has ended, so nothing comes back.       *)
EndInv ==
    /\ HeldInv
    /\ ~running => callback = NULL /\ exported = {} /\ ~bus /\ notify_notification = NULL

(* There is no notification at first.                                        *)
LEMMA InitEnd == Init => EndInv
  BY DEF Init, EndInv, HeldInv

(* What the running service does keeps it running, but for on_name_lost.     *)
LEMMA RunningKeeps ==
    ASSUME HeldInv', running' = running, running PROVE EndInv'
  BY DEF EndInv

(* Dropping the name takes everything down (on_name_lost, main, my_dispose). *)
LEMMA NameLostEnds ==
    ASSUME EndInv, on_name_lost PROVE EndInv'
  <1>1. N!notification_clear /\ bus' = FALSE /\ exported' = {} /\ callback' = callback
    BY DEF on_name_lost, N!Dispose
  <1>2. callback = NULL
    BY DEF on_name_lost, Idle
  <1>3. QED
    BY <1>1, <1>2, ClearKeepsHeld DEF EndInv

(* The end of a notification is news only if it is the one that is held.     *)
LEMMA ClosedKeeps ==
    ASSUME EndInv, NEW n \in NotificationIds, N!UserDismisses(n) \/ N!NotificationClosed(n),
           UNCHANGED <<callback, running, exported>>
    PROVE  EndInv'
  <1>1. CASE N!UserDismisses(n)
    BY <1>1 DEF EndInv, HeldInv, N!UserDismisses, N!ServerClose
  <1>2. CASE N!NotificationClosed(n) /\ n \notin weak_refs
    BY <1>2 DEF EndInv, HeldInv, N!NotificationClosed
  <1>3. CASE N!NotificationClosed(n) /\ n \in weak_refs
    <2>1. n = notify_notification /\ n # NULL
      BY <1>3, IdsAssumption DEF EndInv, HeldInv
    <2>2. notify_notification' = NULL /\ weak_refs' = {} /\ bus' = bus
          /\ screen' = screen
      BY <1>3, <2>1 DEF N!NotificationClosed, N!on_notify_notification_finalized, EndInv,
         HeldInv
    <2>3. screen = {} /\ closing' \subseteq closing
      BY <1>3, <2>1 DEF EndInv, HeldInv, N!NotificationClosed
    <2>4. HeldInv'
      BY <2>2, <2>3 DEF HeldInv
    <2>5. QED
      BY <2>2, <2>4 DEF EndInv
  <1>4. QED
    BY <1>1, <1>2, <1>3

(* EndInv is inductive.                                                      *)
LEMMA EndInvHolds == Spec => []EndInv
  <1>1. ASSUME EndInv, [Next]_vars PROVE EndInv'
    <2>1. CASE EmitDevicesChanged
      <3>1. running
        BY <1>1, <2>1 DEF EmitDevicesChanged, EndInv
      <3>2. (\E list : on_devices_changed(list)) \/ UNCHANGED <<service_vars, notifier_vars>>
        BY <2>1 DEF EmitDevicesChanged
      <3>3. UNCHANGED <<service_vars, notifier_vars>> => HeldInv' /\ running' = running
        BY <1>1 DEF EndInv, HeldInv, service_vars, notifier_vars
      <3>4. QED
        BY <1>1, <3>1, <3>2, <3>3, DevicesChangedKeepHeld, RunningKeeps DEF EndInv
    <2>2. CASE ApplyProperty
      <3>1. running /\ running' = running
        BY <1>1, <2>2 DEF ApplyProperty, EndInv, service_vars
      <3>2. (\E o, d : N!BatteryChanges(o, d)) \/ UNCHANGED notifier_vars
        BY <2>2 DEF ApplyProperty
      <3>3. HeldInv'
        BY <1>1, <3>2, ChangeKeepsHeld DEF EndInv, HeldInv, notifier_vars
      <3>4. QED
        BY <3>1, <3>3, RunningKeeps
    <2>3. CASE MockBatteryEnabled
      <3>1. running /\ \E list : on_devices_changed(list)
        BY <2>3 DEF MockBatteryEnabled, set_device_provider, Idle
      <3>2. QED
        BY <1>1, <3>1, DevicesChangedKeepHeld, RunningKeeps DEF EndInv
    <2>4. CASE \E o \in UPowerDevices, r \in Readings : GetAllReply(o, r)
      <3>1. running /\ running' = running /\ \E o, d : N!BatteryChanges(o, d)
        BY <2>4 DEF GetAllReply, Idle, service_vars
      <3>2. QED
        BY <1>1, <3>1, ChangeKeepsHeld, RunningKeeps DEF EndInv
    <2>5. CASE on_name_lost
      BY <1>1, <2>5, NameLostEnds
    <2>6. CASE \E n \in NotificationIds : UserDismisses(n) \/ NotificationClosed(n)
      BY <1>1, <2>6, ClosedKeeps DEF UserDismisses, NotificationClosed, service_vars
    <2>7. CASE on_bus_acquired
      BY <1>1, <2>7 DEF on_bus_acquired, Idle, N!SetBus, N!watch_vars, N!popup_vars, EndInv, HeldInv
    <2>8. CASE \/ \E wanted \in Settings : SettingsChange(wanted)
               \/ KeepScreenOnToggles
               \/ \E o \in present, r \in Readings : PropertiesChanged(o, r)
               \/ \E gone \in SUBSET present : DevicesRemoved(gone)
               \/ \E key \in {"state", "percentage", "time"}, r \in MockReadings :
                      MockChanges(key, r)
      <3>1. running /\ running' = running /\ UNCHANGED notifier_vars
        BY <2>8
        DEF SettingsChange, KeepScreenOnToggles, PropertiesChanged, DevicesRemoved,
            MockChanges, Idle, service_vars
      <3>2. QED
        BY <1>1, <3>1, RunningKeeps DEF EndInv, HeldInv, notifier_vars
    <2>9. CASE UNCHANGED vars
      BY <1>1, <2>9 DEF vars, service_vars, notifier_vars, rest_vars, EndInv, HeldInv
    <2>10. QED
      BY <1>1, <2>1, <2>2, <2>3, <2>4, <2>5, <2>6, <2>7, <2>8, <2>9 DEF Next
  <1>2. QED
    BY <1>1, InitEnd, PTL DEF Spec

(* After the service nothing of it is left on the bus or on the screen, and  *)
(* no callback is registered, whatever was up or on its way (on_name_lost).  *)
THEOREM EverythingIsTakenDown == Spec => []NothingLeftBehind
  <1>1. EndInv => NothingLeftBehind
    BY DEF EndInv, HeldInv, NothingLeftBehind
  <1>2. QED
    BY <1>1, EndInvHolds, PTL

-----------------------------------------------------------------------------
(* The service and the notifier                                              *)

InUse == IF mock_battery_enabled THEN {Mock} ELSE present

(* Whatever a callback still has to do is no news of the provider in use.    *)
Settled == callback = NULL \/ (callback.source = "mock") # mock_battery_enabled

(* The devices that a provider lists are what they say they are.             *)
DevicesInv ==
    /\ present \in SUBSET UPowerDevices
    /\ IsFiniteSet(present)
    /\ mock_battery_enabled \in BOOLEAN
    /\ DOMAIN device = Objects
    /\ \A o \in present \cup {Mock} : IsDevice(device[o]) /\ device[o].object_path = o

(* A callback changes a device of its provider.                              *)
CallbackInv ==
    /\ callback \in Callbacks \cup {NULL}
    /\ callback # NULL =>
          /\ running
          /\ callback.keys # {} =>
                /\ callback.object \in (IF callback.source = "mock" THEN {Mock} ELSE present)
                /\ callback.reading \in Readings \cup MockReadings

(* The level and state of d are remembered and on the bus.                   *)
Knows(d) ==
    /\ power_level = get_battery_power_level(d)
    /\ discharging = IsDischarging(d)
    /\ dbus_power_level = power_level_to_dbus_string(get_battery_power_level(d))
    /\ dbus_power_percentage = get_battery_power_percentage(d)
    /\ dbus_is_discharging = IsDischarging(d)

(* The notifier watches one of the service's objects and knows it, as long   *)
(* as it is a battery.                                                       *)
WatchInv ==
    /\ battery \in Objects \cup {NULL}
    /\ power_level \in PowerLevel
    /\ battery # NULL /\ device[battery].kind = UP_DEVICE_KIND_BATTERY => Knows(device[battery])

(* It does not hear of a change of kind, which no battery is one after.      *)
KindInv ==
    callback # NULL /\ "kind" \in callback.keys /\ callback.object = battery =>
        callback.reading.kind # UP_DEVICE_KIND_BATTERY

(* A warning is about a watched battery that was in danger when evaluated.   *)
WarningInv ==
    /\ server = "actions"
    /\ notify_notification # NULL =>
          battery # NULL /\ power_level # POWER_LEVEL_OK /\ discharging

(* The list is that of the provider with the devices in table, and what is   *)
(* shown and watched is current.                                             *)
Current(table) ==
    /\ {devices[i] : i \in DOMAIN devices} = table
    /\ primary_device \in table \cup Totals \cup {NULL}
    /\ device_state = calculate_device_state_action_state(PrimaryRead)
    /\ header = create_header_state(PrimaryRead, Read(devices), settings, keep_screen_on)
    /\ menu = create_devices_section(Read(devices))
    /\ battery = WatchedObject(primary_device, PrimaryRead)
    /\ IsMerged(Read(devices)) /\ primary_device \in Totals =>
          PrimaryRead = create_totalled_battery_device(Read(devices))

(* It is so as long as the provider in use has no news.                      *)
ShownInv == running /\ Settled => Current(InUse)

ServiceInv == DevicesInv /\ CallbackInv /\ WatchInv /\ KindInv /\ WarningInv /\ ShownInv

(* The notifier reads a device as the service does.                          *)
LEMMA SameReading ==
    /\ \A d : N!get_battery_power_level(d) = get_battery_power_level(d)
    /\ \A d : N!get_battery_power_percentage(d) = get_battery_power_percentage(d)
    /\ \A d : N!IsDischarging(d) = IsDischarging(d)
    /\ \A l : N!power_level_to_dbus_string(l) = power_level_to_dbus_string(l)
    /\ N!POWER_LEVEL_OK = POWER_LEVEL_OK
  <1>1. \A d : N!get_battery_power_level(d) = get_battery_power_level(d)
    BY DEF N!get_battery_power_level, get_battery_power_level, N!UP_DEVICE_KIND_BATTERY,
       UP_DEVICE_KIND_BATTERY, N!percent_critical, percent_critical, N!percent_very_low,
       percent_very_low, N!percent_low, percent_low, N!POWER_LEVEL_CRITICAL,
       POWER_LEVEL_CRITICAL, N!POWER_LEVEL_VERY_LOW, POWER_LEVEL_VERY_LOW, N!POWER_LEVEL_LOW,
       POWER_LEVEL_LOW, N!POWER_LEVEL_OK, POWER_LEVEL_OK
  <1>2. \A d : N!get_battery_power_percentage(d) = get_battery_power_percentage(d)
    BY DEF N!get_battery_power_percentage, get_battery_power_percentage,
       N!UP_DEVICE_KIND_BATTERY, UP_DEVICE_KIND_BATTERY
  <1>3. \A d : N!IsDischarging(d) = IsDischarging(d)
    BY DEF N!IsDischarging, IsDischarging, N!UP_DEVICE_STATE_DISCHARGING,
       UP_DEVICE_STATE_DISCHARGING
  <1>4. \A l : N!power_level_to_dbus_string(l) = power_level_to_dbus_string(l)
    BY DEF N!power_level_to_dbus_string, power_level_to_dbus_string,
       N!POWER_LEVEL_CRITICAL, POWER_LEVEL_CRITICAL, N!POWER_LEVEL_VERY_LOW,
       POWER_LEVEL_VERY_LOW, N!POWER_LEVEL_LOW, POWER_LEVEL_LOW
  <1> QED BY <1>1, <1>2, <1>3, <1>4 DEF N!POWER_LEVEL_OK, POWER_LEVEL_OK

(* Every device has one of the four levels.                                  *)
LEMMA LevelType ==
    ASSUME NEW d PROVE get_battery_power_level(d) \in PowerLevel
  BY DEF get_battery_power_level, PowerLevel, POWER_LEVEL_CRITICAL, POWER_LEVEL_VERY_LOW,
     POWER_LEVEL_LOW, POWER_LEVEL_OK

(* An evaluation remembers and publishes what it has read.                   *)
LEMMA EvaluationKnows ==
    ASSUME NEW d, NEW ACTION otherwise, N!on_battery_property_changed(d, otherwise)
    PROVE  /\ power_level' = get_battery_power_level(d)
           /\ discharging' = IsDischarging(d)
           /\ dbus_power_level' = power_level_to_dbus_string(get_battery_power_level(d))
           /\ dbus_power_percentage' = get_battery_power_percentage(d)
           /\ dbus_is_discharging' = IsDischarging(d)
  BY SameReading DEF N!on_battery_property_changed

(* After the notifier has evaluated a battery a warning is up only if that   *)
(* battery deserves it, and one is if it has become worse.                   *)
LEMMA EvaluationWarns ==
    ASSUME NEW d, NEW ACTION otherwise, N!on_battery_property_changed(d, otherwise),
           power_level \in PowerLevel, server = "actions"
    PROVE  /\ notify_notification' # NULL => Endangered(d)
           /\ Endangered(d) /\ (~discharging \/ get_battery_power_level(d) < power_level) =>
                 notify_notification' # NULL /\ notify_notification' \in screen'
  <1> DEFINE level == get_battery_power_level(d)
  <1>1. level \in PowerLevel
    BY LevelType
  <1>2. /\ IF N!PopsUp(level, IsDischarging(d)) THEN N!notification_show(level)
           ELSE IF ~IsDischarging(d) \/ level = POWER_LEVEL_OK THEN N!notification_clear
           ELSE otherwise
    BY SameReading DEF N!on_battery_property_changed
  <1> HIDE DEF level
  <1>3. N!PopsUp(level, IsDischarging(d)) =>
            /\ level # POWER_LEVEL_OK
            /\ IsDischarging(d)
    BY <1>1, SameReading
    DEF N!PopsUp, PowerLevel, POWER_LEVEL_CRITICAL, POWER_LEVEL_OK
  <1>4. N!notification_clear => notify_notification' = NULL
    BY DEF N!notification_clear, N!popup_vars
  <1>5. IsDischarging(d) /\ level # POWER_LEVEL_OK
            /\ (~discharging \/ level < power_level) =>
        N!PopsUp(level, IsDischarging(d))
    BY <1>1, SameReading
    DEF N!PopsUp, PowerLevel, POWER_LEVEL_CRITICAL, POWER_LEVEL_OK
  <1>6. level # POWER_LEVEL_OK /\ N!notification_show(level) =>
            notify_notification' # NULL /\ notify_notification' \in screen'
    BY IdsAssumption, SameReading DEF N!notification_show, N!FreshIds
  <1> QED BY <1>2, <1>3, <1>4, <1>5, <1>6 DEF Endangered, level

(* The lists that a provider may return contain all of its devices.          *)
LEMMA ListsAll ==
    ASSUME NEW table, IsFiniteSet(table), NEW list \in Lists(table)
    PROVE  /\ list \in Seq(table)
           /\ {list[i] : i \in DOMAIN list} = table
           /\ list = <<>> <=> table = {}
  <1> DEFINE n == Cardinality(table)
  <1>1. n \in Nat
    BY FS_CardinalityType
  <1>2. list \in [1 .. n -> table] /\ IsInjective(list)
    BY DEF Lists
  <1>3. list \in Injection(1 .. n, table)
    BY <1>2 DEF Injection
  <1>4. Cardinality(1 .. n) = n
    BY <1>1, FS_Interval
  <1>5. list \in Surjection(1 .. n, table)
    BY <1>3, <1>4, FS_Injection
  <1>6. list \in Seq(table)
    BY <1>1, <1>2 
  <1> HIDE DEF n
  <1>7. {list[i] : i \in DOMAIN list} = table
    BY <1>2, <1>5 DEF Surjection
  <1>8. list = <<>> <=> DOMAIN list = {}
    BY <1>6
  <1> QED BY <1>6, <1>7, <1>8

(* What a provider lists, as the service reads it.                           *)
LEMMA ListReads ==
    ASSUME DevicesInv, NEW table \in SUBSET (present \cup {Mock}), IsFiniteSet(table),
           NEW list \in Lists(table)
    PROVE  /\ list \in Seq(table)
           /\ {list[i] : i \in DOMAIN list} = table
           /\ Read(list) \in Seq({device[o] : o \in table})
           /\ DOMAIN Read(list) = DOMAIN list
           /\ list = <<>> <=> Read(list) = <<>>
           /\ \A d \in {device[o] : o \in table} : IsDevice(d)
           /\ \A o \in table : /\ o \in Objects /\ o \notin Totals /\ o # NULL
                              /\ device[o].object_path = o
  <1>1. list \in Seq(table) /\ {list[i] : i \in DOMAIN list} = table
    BY ListsAll
  <1>2. Read(list) \in Seq({device[o] : o \in table}) /\ DOMAIN Read(list) = DOMAIN list
    BY <1>1 DEF Read
  <1>3. list = <<>> <=> Read(list) = <<>>
    BY <1>1, <1>2
  <1>4. \A o \in table : IsDevice(device[o]) /\ device[o].object_path = o
    BY DEF DevicesInv
  <1>5. \A o \in table : o \in Objects /\ o \notin Totals /\ o # NULL
    BY ObjectsAssumption DEF DevicesInv, Objects
  <1> QED BY <1>1, <1>2, <1>3, <1>4, <1>5

(* The primary device of a provider's list is one of the listed objects, or  *)
(* a merged battery, which has an object of its own.                         *)
LEMMA PrimaryIsAnObject ==
    ASSUME DevicesInv, NEW table \in SUBSET (present \cup {Mock}), IsFiniteSet(table),
           NEW list \in Lists(table)
    PROVE  LET primary == PrimaryOf(Read(list))
               object  == PrimaryObject(list, primary)
           IN  \/ /\ object = NULL /\ primary = NoDevice
                  /\ list = <<>>
               \/ object \in table /\ primary = device[object]
               \/ /\ object \in Totals /\ object # battery /\ object # NULL
                  /\ IsMerged(Read(list))
                  /\ primary = create_totalled_battery_device(Read(list))
                  /\ primary.kind = UP_DEVICE_KIND_BATTERY
  <1> DEFINE primary == PrimaryOf(Read(list))
             object  == PrimaryObject(list, primary)
             D == {device[o] : o \in table}
  <1>0. /\ list \in Seq(table) /\ DOMAIN Read(list) = DOMAIN list
        /\ Read(list) \in Seq(D)
        /\ list = <<>> <=> Read(list) = <<>>
        /\ \A d \in D : IsDevice(d)
        /\ \A o \in table : o # NULL /\ device[o].object_path = o
    BY ListReads
  <1>1. CASE list = <<>>
    <2>1. primary = NoDevice
      BY <1>0, <1>1 DEF PrimaryOf
    <2>2. object = NULL
      BY <1>1 DEF PrimaryObject
    <2> QED BY <1>1, <2>1, <2>2
  <1>2. CASE list # <<>> /\ primary \in ElementsOf(Read(list))
    <2>1. PICK i \in DOMAIN list : primary = device[list[i]]
      BY <1>0, <1>2 DEF ElementsOf, Read
    <2>2. list[i] \in table
      BY <1>0
    <2>3. primary.object_path = list[i] /\ list[i] # NULL
      BY <1>0, <2>1, <2>2
    <2>4. object = list[i]
      BY <1>2, <2>3 DEF PrimaryObject
    <2> QED BY <2>1, <2>2, <2>4
  <1>3. CASE list # <<>> /\ primary \notin ElementsOf(Read(list))
    <2>1. /\ Read(list) \in Seq(D) /\ Read(list) # <<>> /\ \A d \in D : IsDevice(d)
      BY <1>0, <1>3
    <2>2. primary = choose_primary_device(Read(list))
      BY <2>1 DEF PrimaryOf
    <2> HIDE DEF D, primary
    <2>3. IsMerged(Read(list)) /\ primary = create_totalled_battery_device(Read(list))
      BY <1>3, <2>1, <2>2, PrimaryIsListed
    <2>4. primary.object_path = NULL /\ primary.kind = UP_DEVICE_KIND_BATTERY
      BY <2>1, <2>3, TotalIsDevice
    <2>5. \E t \in Totals : t # battery
      BY TotalsAssumption
    <2>6. object \in Totals /\ object # battery
      BY <1>3, <2>4, <2>5 DEF PrimaryObject
    <2>7. object # NULL
      BY <2>6, ObjectsAssumption DEF Objects
    <2> QED BY <2>3, <2>4, <2>6, <2>7 DEF primary
  <1> QED BY <1>1, <1>2, <1>3

(* What on_devices_changed() does to the objects, for every reader.          *)
LEMMA DevicesChangedRead ==
    ASSUME DevicesInv, NEW table \in SUBSET (present \cup {Mock}), IsFiniteSet(table),
           NEW list \in Lists(table), on_devices_changed(list)
    PROVE  LET primary == PrimaryOf(Read(list))
           IN  /\ DOMAIN device' = Objects
               /\ \A o \in Objects \ Totals : device'[o] = device[o]
               /\ Read(devices)' = Read(list)
               /\ PrimaryRead' = primary
               /\ primary_device' = PrimaryObject(list, primary)
  <1> DEFINE primary == PrimaryOf(Read(list))
             object  == PrimaryObject(list, primary)
  <1>1. /\ devices' = list /\ primary_device' = object
        /\ device' = [o \in Objects |-> IF o \notin Totals THEN device[o]
                                        ELSE IF o = object THEN primary ELSE NoDevice]
    BY DEF on_devices_changed
  <1>2. \/ object = NULL /\ primary = NoDevice
        \/ object \in table /\ primary = device[object]
        \/ object \in Totals
    BY PrimaryIsAnObject
  <1>3. list \in Seq(table) /\ \A o \in table : o \in Objects /\ o \notin Totals /\ o # NULL
    BY ListReads
  <1>4. \A t \in Totals : t \in Objects /\ t # NULL
    BY ObjectsAssumption DEF Objects
  <1> HIDE DEF primary, object
  <1>5. Read(devices)' = Read(list)
    <2>1. \A i \in DOMAIN list : device'[list[i]] = device[list[i]]
      BY <1>1, <1>3
    <2> QED BY <1>1, <2>1 DEF Read
  <1>6. PrimaryRead' = primary
    <2>1. PrimaryRead' = IF object = NULL THEN NoDevice ELSE device'[object]
      BY <1>1 DEF PrimaryRead
    <2> QED BY <1>1, <1>2, <1>3, <1>4, <2>1
  <1> QED BY <1>1, <1>5, <1>6 DEF object, primary

(* After on_devices_changed() what is shown and watched is current.          *)
LEMMA DevicesChangedShow ==
    ASSUME DevicesInv, NEW table \in SUBSET (present \cup {Mock}), IsFiniteSet(table),
           NEW list \in Lists(table), on_devices_changed(list)
    PROVE  Current(table)'
  <1> DEFINE primary == PrimaryOf(Read(list))
             object  == PrimaryObject(list, primary)
             watched == WatchedObject(object, primary)
  <1>1. Read(devices)' = Read(list) /\ PrimaryRead' = primary /\ primary_device' = object
    BY DevicesChangedRead
  <1>2. \/ object = NULL /\ primary = NoDevice /\ list = <<>>
        \/ object \in table
        \/ object \in Totals /\ primary = create_totalled_battery_device(Read(list))
    BY PrimaryIsAnObject
  <1>3. {list[i] : i \in DOMAIN list} = table
    BY ListsAll
  <1>4. \A t \in Totals : t \notin table /\ t # NULL
    BY ObjectsAssumption DEF DevicesInv, Objects
  <1>5. /\ devices' = list
        /\ IF watched # battery THEN N!ReplaceBattery(watched, primary)
                                ELSE UNCHANGED notifier_vars
        /\ device_state' = calculate_device_state_action_state(primary)
        /\ header' = create_header_state(primary, Read(list), settings, keep_screen_on)
        /\ menu' = create_devices_section(Read(list))
        /\ settings' = settings /\ keep_screen_on' = keep_screen_on
    BY DEF on_devices_changed, rebuild_now
  <1>6. battery' = watched
    BY <1>5 DEF N!ReplaceBattery, notifier_vars
  <1> HIDE DEF primary, object
  <1>7. watched = WatchedObject(object, primary)
    OBVIOUS
  <1> HIDE DEF watched
  <1>8. IsMerged(Read(list)) /\ object \in Totals =>
           primary = create_totalled_battery_device(Read(list))
    BY <1>2, <1>4
  <1>a. {devices'[i] : i \in DOMAIN devices'} = table
    BY <1>3, <1>5
  <1>b. primary_device' \in table \cup Totals \cup {NULL}
    BY <1>1, <1>2
  <1>c. device_state' = calculate_device_state_action_state(PrimaryRead')
    BY <1>1, <1>5
  <1>d. header' = create_header_state(PrimaryRead', Read(devices)', settings', keep_screen_on')
    BY <1>1, <1>5
  <1>e. menu' = create_devices_section(Read(devices)')
    BY <1>1, <1>5
  <1>f. battery' = WatchedObject(primary_device', PrimaryRead')
    BY <1>1, <1>6, <1>7
  <1>g. IsMerged(Read(devices)') /\ primary_device' \in Totals =>
           PrimaryRead' = create_totalled_battery_device(Read(devices)')
    BY <1>1, <1>8
  <1> QED BY <1>a, <1>b, <1>c, <1>d, <1>e, <1>f, <1>g DEF Current

(* A battery that the service hands over is evaluated at once.               *)
LEMMA ReplacementIsEvaluated ==
    ASSUME NEW b, NEW d, N!ReplaceBattery(b, d), power_level \in PowerLevel, server = "actions"
    PROVE  /\ battery' = b
           /\ power_level' \in PowerLevel
           /\ b = NULL => notify_notification' = NULL
           /\ b # NULL =>
                 /\ power_level' = get_battery_power_level(d)
                 /\ discharging' = IsDischarging(d)
                 /\ dbus_power_level' = power_level_to_dbus_string(get_battery_power_level(d))
                 /\ dbus_power_percentage' = get_battery_power_percentage(d)
                 /\ dbus_is_discharging' = IsDischarging(d)
                 /\ notify_notification' # NULL => Endangered(d)
                 /\ Endangered(d) /\ (~discharging \/ get_battery_power_level(d) < power_level) =>
                       notify_notification' # NULL /\ notify_notification' \in screen'
  <1>1. CASE b = NULL
    BY <1>1 DEF N!ReplaceBattery, N!notification_clear, N!popup_vars
  <1>2. CASE b # NULL
    <2> DEFINE otherwise == IF battery # NULL THEN N!notification_clear
                                              ELSE UNCHANGED N!popup_vars
    <2>1. battery' = b /\ N!on_battery_property_changed(d, otherwise)
      BY <1>2 DEF N!ReplaceBattery
    <2> HIDE DEF otherwise
    <2>2. get_battery_power_level(d) \in PowerLevel
      BY LevelType
    <2> QED BY <1>2, <2>1, <2>2, EvaluationKnows, EvaluationWarns
  <1> QED BY <1>1, <1>2

(* ... and the notifier knows the battery that it watches then.              *)
LEMMA DevicesChangedWatch ==
    ASSUME DevicesInv, WatchInv, WarningInv,
           NEW table \in SUBSET (present \cup {Mock}), IsFiniteSet(table),
           NEW list \in Lists(table), on_devices_changed(list), server' = server
    PROVE  /\ WatchInv'
           /\ WarningInv'
           /\ battery' \notin {battery, NULL} /\ Endangered(device'[battery'])
              /\ (~discharging \/ get_battery_power_level(device'[battery']) < power_level) =>
                 notify_notification' # NULL /\ notify_notification' \in screen'
  <1> DEFINE primary == PrimaryOf(Read(list))
             object  == PrimaryObject(list, primary)
             watched == WatchedObject(object, primary)
  <1>1. PrimaryRead' = primary /\ primary_device' = object
        /\ \A o \in Objects \ Totals : device'[o] = device[o]
    BY DevicesChangedRead
  <1>2. \/ object = NULL /\ primary = NoDevice
        \/ object \in table /\ primary = device[object]
        \/ object \in Totals /\ object # battery
    BY PrimaryIsAnObject
  <1>3. \A o \in table : o \in Objects /\ o \notin Totals /\ o # NULL
    BY ListReads
  <1>4. IF watched # battery THEN N!ReplaceBattery(watched, primary)
                             ELSE UNCHANGED notifier_vars
    BY DEF on_devices_changed
  <1> HIDE DEF primary, object
  <1>5. \/ watched = object /\ primary.kind = UP_DEVICE_KIND_BATTERY
        \/ watched = NULL
    BY DEF WatchedObject
  <1> HIDE DEF watched
  <1>6. object # NULL => device'[object] = primary
    BY <1>1 DEF PrimaryRead
  <1>7. watched \in Objects \cup {NULL}
    BY <1>2, <1>3, <1>5 DEF Objects
  <1>8. CASE watched = battery
    <2>1. /\ UNCHANGED <<battery, power_level, discharging, dbus_power_level,
                         dbus_power_percentage, dbus_is_discharging, notify_notification>>
      BY <1>4, <1>8 DEF notifier_vars
    <2>2. battery # NULL => device'[battery] = device[battery]
      BY <1>1, <1>2, <1>3, <1>5, <1>8
    <2>3. WatchInv'
      BY <2>1, <2>2 DEF WatchInv, Knows
    <2>4. WarningInv'
      BY <2>1 DEF WarningInv
    <2> QED BY <2>1, <2>3, <2>4
  <1>9. CASE watched # battery
    <2>1. /\ N!ReplaceBattery(watched, primary) /\ power_level \in PowerLevel
          /\ server = "actions"
      BY <1>4, <1>9 DEF WatchInv, WarningInv
    <2>2. /\ battery' = watched
          /\ power_level' \in PowerLevel
          /\ watched = NULL => notify_notification' = NULL
      BY <2>1, ReplacementIsEvaluated
    <2>3. CASE watched = NULL
      BY <1>7, <2>2, <2>3, <2>1 DEF WatchInv, WarningInv
    <2>4. CASE watched # NULL
      <3>1. device'[watched] = primary
        BY <1>5, <1>6, <2>4
      <3>2. /\ power_level' = get_battery_power_level(primary)
            /\ discharging' = IsDischarging(primary)
            /\ dbus_power_level' = power_level_to_dbus_string(get_battery_power_level(primary))
            /\ dbus_power_percentage' = get_battery_power_percentage(primary)
            /\ dbus_is_discharging' = IsDischarging(primary)
            /\ notify_notification' # NULL => Endangered(primary)
            /\ /\ Endangered(primary)
               /\ ~discharging \/ get_battery_power_level(primary) < power_level
               => notify_notification' # NULL /\ notify_notification' \in screen'
        BY <2>1, <2>4, ReplacementIsEvaluated
      <3>3. WatchInv'
        BY <1>7, <2>2, <3>1, <3>2 DEF WatchInv, Knows
      <3>4. WarningInv'
        BY <2>1, <2>2, <2>4, <3>2 DEF WarningInv, Endangered
      <3> QED BY <2>2, <3>1, <3>2, <3>3, <3>4
    <2> QED BY <2>3, <2>4
  <1> QED BY <1>8, <1>9

-----------------------------------------------------------------------------
(* The steps                                                                 *)

(* Before there is a provider in use, there is nothing to show.              *)
LEMMA InitServes == Init => ServiceInv
  <1> SUFFICES ASSUME Init PROVE ServiceInv
    OBVIOUS
  <1>1. DevicesInv
    <2>1. IsFiniteSet(present) /\ present \in SUBSET UPowerDevices
      BY FS_EmptySet DEF Init
    <2>2. device[Mock] = As(Mock, MockInit) /\ DOMAIN device = Objects
      BY DEF Init, Objects
    <2>3. IsDevice(As(Mock, MockInit)) /\ As(Mock, MockInit).object_path = Mock
      BY DEF As, MockInit, IsDevice, UpDeviceKind, UpDeviceState, Percentage
    <2> QED BY <2>1, <2>2, <2>3 DEF Init, DevicesInv
  <1>2. WatchInv
    BY DEF Init, WatchInv, PowerLevel, POWER_LEVEL_OK, POWER_LEVEL_CRITICAL
  <1>3. Current({})
    <2>1. Read(devices) = <<>> /\ PrimaryRead = NoDevice
      BY DEF Init, Read, PrimaryRead
    <2>3. {devices[i] : i \in DOMAIN devices} = {}
      BY DEF Init
    <2>4. battery = WatchedObject(primary_device, NoDevice)
      BY DEF Init, WatchedObject
    <2>5. primary_device = NULL /\ primary_device \notin Totals
      BY ObjectsAssumption DEF Init, Objects
    <2> QED BY <2>1, <2>3, <2>4, <2>5 DEF Init, Current
  <1> QED BY <1>1, <1>2, <1>3
          DEF Init, ServiceInv, CallbackInv, KindInv, WarningInv, ShownInv, InUse

(* Nothing happens to what is shown, nor to the devices in use.              *)
LEMMA OthersKeepCurrent ==
    ASSUME NEW table, Current(table), NEW others, others \cap (table \cup Totals) = {},
           \A o \in Objects \ others : device'[o] = device[o], table \in SUBSET Objects,
           UNCHANGED <<devices, primary_device, device_state, header, menu, settings,
                       keep_screen_on, battery>>
    PROVE  Current(table)'
  <1>1. \A i \in DOMAIN devices : devices[i] \in table
    BY DEF Current
  <1>2. \A i \in DOMAIN devices : device'[devices[i]] = device[devices[i]]
    BY <1>1
  <1>3. Read(devices)' = Read(devices)
    BY <1>2 DEF Read
  <1>4. primary_device # NULL => device'[primary_device] = device[primary_device]
    BY DEF Current, Objects
  <1>5. PrimaryRead' = PrimaryRead
    BY <1>4 DEF PrimaryRead
  <1> QED BY <1>3, <1>5 DEF Current

(* The notifier hears of a change of an object.                              *)
LEMMA ChangeIsEvaluated ==
    ASSUME WatchInv, WarningInv, DOMAIN device = Objects, NEW o \in Objects, NEW d,
           N!BatteryChanges(o, d)
    PROVE  /\ WatchInv'
           /\ WarningInv'
           /\ battery' = battery
           /\ device' = [device EXCEPT ![o] = d]
  <1>1. battery' = battery /\ server' = server /\ device' = [device EXCEPT ![o] = d]
    BY DEF N!BatteryChanges
  <1>2. CASE o = battery
    <2> DEFINE otherwise == UNCHANGED N!popup_vars
    <2>1. N!on_battery_property_changed(d, otherwise)
      BY <1>2 DEF N!BatteryChanges
    <2>2. power_level \in PowerLevel /\ server = "actions"
      BY DEF WatchInv, WarningInv
    <2> HIDE DEF otherwise
    <2>3. notify_notification' # NULL => Endangered(d)
      BY <2>1, <2>2, EvaluationWarns
    <2>4. Knows(d)'
      <3>1. /\ power_level' = get_battery_power_level(d)
            /\ discharging' = IsDischarging(d)
            /\ dbus_power_level' = power_level_to_dbus_string(get_battery_power_level(d))
            /\ dbus_power_percentage' = get_battery_power_percentage(d)
            /\ dbus_is_discharging' = IsDischarging(d)
        BY <2>1, EvaluationKnows
      <3> QED BY <3>1 DEF Knows
    <2>5. device'[battery'] = d /\ battery # NULL
      BY <1>1, <1>2, ObjectsAssumption
    <2>6. get_battery_power_level(d) \in PowerLevel
      BY LevelType
    <2>7. WatchInv'
      BY <1>1, <1>2, <2>4, <2>5, <2>6 DEF WatchInv, Knows
    <2>8. WarningInv'
      BY <1>1, <2>2, <2>3, <2>4, <2>5 DEF WarningInv, Endangered, Knows
    <2> QED BY <1>1, <2>7, <2>8
  <1>3. CASE o # battery
    <2>1. /\ UNCHANGED <<power_level, discharging, notify_notification, dbus_power_level,
                         dbus_power_percentage, dbus_is_discharging>>
      BY <1>3 DEF N!BatteryChanges, N!popup_vars, N!mirror_vars
    <2>2. battery # NULL => device'[battery] = device[battery]
      BY <1>1, <1>3 DEF WatchInv
    <2> QED BY <1>1, <2>1, <2>2 DEF WatchInv, WarningInv, Knows
  <1> QED BY <1>2, <1>3

(* The notifier hears of nothing; what has changed is no battery.            *)
LEMMA UnchangedKeepsWatch ==
    ASSUME WatchInv, WarningInv, UNCHANGED <<notifier_vars, server>>,
           \A o \in Objects : device'[o] # device[o] => device'[o].kind # UP_DEVICE_KIND_BATTERY
    PROVE  WatchInv' /\ WarningInv'
  <1>1. WarningInv'
    BY DEF WarningInv, notifier_vars
  <1>2. battery' = battery /\ power_level' = power_level
    BY DEF notifier_vars
  <1>3. ASSUME battery # NULL, device'[battery].kind = UP_DEVICE_KIND_BATTERY
        PROVE  Knows(device[battery])'
    <2>1. device'[battery] = device[battery]
      BY <1>3 DEF WatchInv
    <2> QED BY <1>2, <1>3, <2>1 DEF WatchInv, Knows, notifier_vars
  <1> QED BY <1>1, <1>2, <1>3 DEF WatchInv

(* A provider's devices.                                                     *)
LEMMA TableIsFinite ==
    ASSUME DevicesInv, NEW table, table = {Mock} \/ table = present
    PROVE  /\ table \in SUBSET (present \cup {Mock})
           /\ IsFiniteSet(table)
           /\ table \in SUBSET Objects
           /\ table \cap Totals = {}
  <1>1. IsFiniteSet({Mock}) /\ IsFiniteSet(present)
    BY FS_Singleton DEF DevicesInv
  <1>2. \A o \in present \cup {Mock} : o \in Objects /\ o \notin Totals
    BY ObjectsAssumption DEF DevicesInv, Objects
  <1> QED BY <1>1, <1>2

(* on_devices_changed() changes no device of a provider.                     *)
LEMMA DevicesChangedKeepDevices ==
    ASSUME DevicesInv, NEW table, table = {Mock} \/ table = present,
           NEW list \in Lists(table), on_devices_changed(list),
           present' = present, mock_battery_enabled' \in BOOLEAN
    PROVE  DevicesInv'
  <1>1. DOMAIN device' = Objects /\ \A o \in Objects \ Totals : device'[o] = device[o]
    BY TableIsFinite, DevicesChangedRead
  <1>2. \A o \in present \cup {Mock} : o \in Objects \ Totals
    BY ObjectsAssumption DEF DevicesInv, Objects
  <1> QED BY <1>1, <1>2 DEF DevicesInv

(* The service hears only of the provider in use.                            *)
LEMMA EmitDevicesChangedServes ==
    ASSUME ServiceInv, EmitDevicesChanged PROVE ServiceInv'
  <1>1. /\ callback # NULL /\ callback' = NULL /\ running
        /\ UNCHANGED <<present, mock_battery_enabled, server>>
    BY DEF EmitDevicesChanged, provider_vars, rest_vars, ServiceInv, CallbackInv
  <1>2. CallbackInv' /\ KindInv'
    BY <1>1 DEF CallbackInv, KindInv
  <1>3. CASE (callback.source = "mock") = mock_battery_enabled
    <2>1. PICK list \in Lists(InUse) : on_devices_changed(list)
      BY <1>3 DEF EmitDevicesChanged, InUse
    <2>2. PICK table : table = InUse
      OBVIOUS
    <2>3. table = {Mock} \/ table = present
      BY <2>2 DEF InUse
    <2>4. /\ table \in SUBSET (present \cup {Mock}) /\ IsFiniteSet(table)
          /\ list \in Lists(table)
      BY <2>1, <2>2, <2>3, TableIsFinite DEF ServiceInv
    <2>5. WatchInv' /\ WarningInv'
      BY <1>1, <2>1, <2>4, DevicesChangedWatch DEF ServiceInv
    <2>6. DevicesInv'
      <3>1. mock_battery_enabled' \in BOOLEAN
        BY <1>1 DEF ServiceInv, DevicesInv
      <3> QED BY <1>1, <2>1, <2>3, <2>4, <3>1, DevicesChangedKeepDevices DEF ServiceInv
    <2>7. Current(table)'
      BY <2>1, <2>4, DevicesChangedShow DEF ServiceInv
    <2>8. InUse' = table
      BY <1>1, <2>2 DEF InUse
    <2>9. ShownInv'
      BY <2>7, <2>8 DEF ShownInv
    <2> QED BY <1>2, <2>5, <2>6, <2>9 DEF ServiceInv
  <1>4. CASE (callback.source = "mock") # mock_battery_enabled
    <2>1. UNCHANGED <<service_vars, notifier_vars, device>>
      BY <1>4 DEF EmitDevicesChanged
    <2>2. Current(InUse)
      BY <1>1, <1>4 DEF ServiceInv, ShownInv, Settled
    <2>3. ShownInv'
      BY <1>1, <2>1, <2>2
      DEF ShownInv, Current, InUse, Read, PrimaryRead, service_vars, shown_vars, notifier_vars
    <2>4. DevicesInv' /\ WatchInv' /\ WarningInv'
      BY <1>1, <2>1 DEF ServiceInv, DevicesInv, WatchInv, WarningInv, Knows, notifier_vars
    <2> QED BY <1>2, <2>3, <2>4 DEF ServiceInv
  <1> QED BY <1>3, <1>4

(* It lists the devices of a provider that it is given.                      *)
LEMMA MockBatteryEnabledServes ==
    ASSUME ServiceInv, MockBatteryEnabled PROVE ServiceInv'
  <1>1. /\ callback = NULL /\ callback' = NULL /\ running
        /\ UNCHANGED <<present, server>>
        /\ mock_battery_enabled' = ~mock_battery_enabled
    BY DEF MockBatteryEnabled, Idle, rest_vars
  <1>2. CallbackInv' /\ KindInv'
    BY <1>1 DEF CallbackInv, KindInv
  <1>3. PICK table : table = IF mock_battery_enabled' THEN {Mock} ELSE present
    OBVIOUS
  <1>4. PICK list \in Lists(table) : on_devices_changed(list)
    BY <1>3 DEF MockBatteryEnabled, set_device_provider
  <1>5. /\ table = {Mock} \/ table = present
        /\ table \in SUBSET (present \cup {Mock}) /\ IsFiniteSet(table)
    BY <1>3, TableIsFinite DEF ServiceInv
  <1>6. WatchInv' /\ WarningInv'
    BY <1>1, <1>4, <1>5, DevicesChangedWatch DEF ServiceInv
  <1>7. DevicesInv'
    <2>1. mock_battery_enabled' \in BOOLEAN
      BY <1>1 DEF ServiceInv, DevicesInv
    <2> QED BY <1>1, <1>4, <1>5, <2>1, DevicesChangedKeepDevices DEF ServiceInv
  <1>8. Current(table)'
    BY <1>4, <1>5, DevicesChangedShow DEF ServiceInv
  <1>9. InUse' = table
    BY <1>1, <1>3 DEF InUse
  <1> QED BY <1>2, <1>6, <1>7, <1>8, <1>9 DEF ServiceInv, ShownInv

(* The header is rebuilt when the settings or the actions change.            *)
LEMMA HeaderServes ==
    ASSUME ServiceInv, Idle,
           header' = create_header_state(PrimaryRead, Read(devices), settings', keep_screen_on'),
           UNCHANGED <<provider_vars, callback, devices, primary_device, device_state, menu,
                       running, notifier_vars, rest_vars, device>>
    PROVE  ServiceInv'
  <1>1. Current(InUse)
    BY DEF ServiceInv, ShownInv, Idle, Settled
  <1>2. Read(devices)' = Read(devices) /\ PrimaryRead' = PrimaryRead /\ InUse' = InUse
    BY DEF Read, PrimaryRead, InUse, provider_vars
  <1>3. Current(InUse)'
    <2>1. battery' = battery
      BY DEF notifier_vars
    <2> QED BY <1>1, <1>2, <2>1 DEF Current
  <1>4. DevicesInv' /\ CallbackInv' /\ WatchInv' /\ KindInv' /\ WarningInv'
    BY DEF ServiceInv, DevicesInv, CallbackInv, WatchInv, KindInv, WarningInv, Knows,
       provider_vars, notifier_vars, rest_vars
  <1> QED BY <1>3, <1>4 DEF ServiceInv, ShownInv

(* Nothing that is shown depends on the bus.                                 *)
LEMMA BusAcquiredServes ==
    ASSUME ServiceInv, on_bus_acquired PROVE ServiceInv'
  <1>1. UNCHANGED <<provider_vars, callback, devices, primary_device, shown_vars, settings,
                    keep_screen_on, running, device, server, battery, power_level, discharging,
                    dbus_power_level, dbus_power_percentage, dbus_is_discharging,
                    notify_notification>>
    BY DEF on_bus_acquired, N!SetBus, N!watch_vars, N!popup_vars, N!mirror_vars
  <1>2. ShownInv'
    BY <1>1 DEF ServiceInv, ShownInv, Settled, Current, InUse, Read, PrimaryRead, shown_vars,
       provider_vars
  <1>3. DevicesInv' /\ CallbackInv' /\ WatchInv' /\ KindInv' /\ WarningInv'
    BY <1>1 DEF ServiceInv, DevicesInv, CallbackInv, WatchInv, KindInv, WarningInv, Knows,
       provider_vars
  <1> QED BY <1>2, <1>3 DEF ServiceInv

(* When it ends, nothing is shown or watched.                                *)
LEMMA NameLostServes ==
    ASSUME ServiceInv, on_name_lost PROVE ServiceInv'
  <1>1. /\ UNCHANGED <<provider_vars, callback, device, server, power_level>>
        /\ ~running' /\ battery' = NULL /\ callback = NULL /\ N!notification_clear
    BY DEF on_name_lost, N!Dispose, Idle
  <1>2. notify_notification' = NULL
    BY <1>1 DEF N!notification_clear, N!popup_vars
  <1> QED BY <1>1, <1>2
          DEF ServiceInv, DevicesInv, CallbackInv, WatchInv, KindInv, WarningInv, ShownInv,
              provider_vars

(* What becomes of the notification is of no account to the service.         *)
LEMMA ClosedServes ==
    ASSUME ServiceInv, NEW n, N!UserDismisses(n) \/ N!NotificationClosed(n),
           UNCHANGED <<provider_vars, callback, service_vars>>
    PROVE  ServiceInv'
  <1>1. /\ UNCHANGED <<device, server, battery, power_level, discharging,
                       dbus_power_level, dbus_power_percentage, dbus_is_discharging>>
        /\ notify_notification' \in {notify_notification, NULL}
    BY DEF N!UserDismisses, N!NotificationClosed, N!on_notify_notification_finalized,
       N!watch_vars, N!mirror_vars
  <1>2. ShownInv'
    BY <1>1 DEF ServiceInv, ShownInv, Settled, Current, InUse, Read, PrimaryRead, shown_vars,
       service_vars, provider_vars
  <1>3. DevicesInv' /\ CallbackInv' /\ WatchInv' /\ KindInv' /\ WarningInv'
    BY <1>1 DEF ServiceInv, DevicesInv, CallbackInv, WatchInv, KindInv, WarningInv, Knows,
       provider_vars, service_vars
  <1> QED BY <1>2, <1>3 DEF ServiceInv

(* A property of a reading is one of a device.                               *)
LEMMA ReadingIsDevice ==
    ASSUME NEW r \in Readings \cup MockReadings, NEW o
    PROVE  /\ IsDevice(As(o, r)) /\ As(o, r).object_path = o
           /\ \A d : IsDevice(d) => \A key \in Properties :
                 /\ IsDevice([d EXCEPT ![key] = r[key]])
                 /\ [d EXCEPT ![key] = r[key]].object_path = d.object_path
  <1>1. r \in [kind : UpDeviceKind, state : UpDeviceState, power_supply : BOOLEAN,
               percentage : Percentage, time : Nat]
    BY ReadingsAssumption
  <1>2. IsDevice(As(o, r)) /\ As(o, r).object_path = o
    BY <1>1 DEF As, IsDevice
  <1>3. ASSUME NEW d, IsDevice(d), NEW key \in Properties
        PROVE  /\ IsDevice([d EXCEPT ![key] = r[key]])
               /\ [d EXCEPT ![key] = r[key]].object_path = d.object_path
    <2>1. CASE key = "kind"
      BY <1>1, <1>3, <2>1 DEF IsDevice
    <2>2. CASE key = "state"
      BY <1>1, <1>3, <2>2 DEF IsDevice
    <2>3. CASE key = "percentage"
      BY <1>1, <1>3, <2>3 DEF IsDevice
    <2>4. CASE key = "time"
      BY <1>1, <1>3, <2>4 DEF IsDevice
    <2> QED BY <2>1, <2>2, <2>3, <2>4 DEF Properties
  <1> QED BY <1>2, <1>3

(* A callback of the provider that is not in use changes nothing of what is  *)
(* shown.                                                                    *)
LEMMA OtherProviderServes ==
    ASSUME ServiceInv, running, Settled, NEW changed,
           changed \subseteq (IF mock_battery_enabled THEN UPowerDevices ELSE {Mock}),
           \A o \in Objects \ changed : device'[o] = device[o],
           UNCHANGED <<service_vars, mock_battery_enabled, battery>>,
           ~mock_battery_enabled => present' = present
    PROVE  Current(InUse)'
  <1>1. PICK table : table = InUse
    OBVIOUS
  <1>2. Current(table) /\ InUse' = table
    BY <1>1 DEF ServiceInv, ShownInv, InUse
  <1>3. changed \cap (table \cup Totals) = {} /\ table \in SUBSET Objects
    BY <1>1, ObjectsAssumption DEF ServiceInv, DevicesInv, InUse, Objects
  <1>4. UNCHANGED <<devices, primary_device, device_state, header, menu, settings,
                    keep_screen_on, battery>>
    BY DEF service_vars, shown_vars
  <1>5. Current(table)'
    BY <1>2, <1>3, <1>4, OthersKeepCurrent
  <1> QED BY <1>2, <1>5 DEF Current

(* A callback that says it all in one message.                               *)
LEMMA EmitIsCallback ==
    Emit("upower") \in Callbacks /\ Emit("upower") # NULL /\ Emit("upower").source = "upower"
        /\ Emit("upower").keys = {}
  BY ObjectsAssumption DEF Emit, Callbacks

(* A device that is listed or updated is announced by the same callback.     *)
LEMMA GetAllReplyServes ==
    ASSUME ServiceInv, NEW o \in UPowerDevices, NEW r \in Readings, GetAllReply(o, r)
    PROVE  ServiceInv'
  <1>1. /\ running /\ callback = NULL /\ Settled
        /\ present' = present \cup {o} /\ callback' = Emit("upower")
        /\ N!BatteryChanges(o, As(o, r))
        /\ UNCHANGED <<mock_battery_enabled, service_vars>>
    BY DEF GetAllReply, Idle, Settled
  <1>2. running' = running
    BY <1>1 DEF service_vars
  <1>3. o \in Objects
    BY DEF Objects
  <1>4. WatchInv' /\ WarningInv' /\ battery' = battery
        /\ device' = [device EXCEPT ![o] = As(o, r)]
    BY <1>1, <1>3, ChangeIsEvaluated DEF ServiceInv, DevicesInv
  <1>5. DevicesInv'
    <2>1. IsDevice(As(o, r)) /\ As(o, r).object_path = o
      BY ReadingIsDevice
    <2>2. IsFiniteSet(present')
      BY <1>1, FS_AddElement DEF ServiceInv, DevicesInv
    <2>3. \A p \in present' \cup {Mock} : p \in Objects
      BY <1>1, <1>3 DEF ServiceInv, DevicesInv, Objects
    <2> QED BY <1>1, <1>3, <1>4, <2>1, <2>2, <2>3 DEF ServiceInv, DevicesInv
  <1>6. CallbackInv' /\ KindInv'
    BY <1>1, <1>2, EmitIsCallback DEF CallbackInv, KindInv
  <1>7. ShownInv'
    <2>1. CASE mock_battery_enabled
      <3>1. {o} \subseteq (IF mock_battery_enabled THEN UPowerDevices ELSE {Mock})
        BY <2>1
      <3>2. \A p \in Objects \ {o} : device'[p] = device[p]
        BY <1>4 DEF ServiceInv, DevicesInv
      <3>3. Current(InUse)'
        <4> DEFINE changed == {o}
        <4>1. /\ changed \subseteq (IF mock_battery_enabled THEN UPowerDevices ELSE {Mock})
              /\ \A p \in Objects \ changed : device'[p] = device[p]
          BY <3>1, <3>2
        <4>2. UNCHANGED <<service_vars, mock_battery_enabled, battery>>
          BY <1>1, <1>4
        <4> HIDE DEF changed
        <4> QED BY <1>1, <2>1, <4>1, <4>2, OtherProviderServes
      <3> QED BY <3>3 DEF ShownInv
    <2>2. CASE ~mock_battery_enabled
      BY <1>1, <2>2, EmitIsCallback DEF ShownInv, Settled, ServiceInv, DevicesInv
    <2> QED BY <2>1, <2>2
  <1> QED BY <1>4, <1>5, <1>6, <1>7 DEF ServiceInv

(* Nor does the beginning of a callback, which has all to do yet.            *)
LEMMA BeginningServes ==
    ASSUME ServiceInv, running, Settled,
           UNCHANGED <<provider_vars, service_vars, notifier_vars, rest_vars, device>>
    PROVE  DevicesInv' /\ WatchInv' /\ WarningInv' /\ Current(InUse)'
  <1>1. Current(InUse)
    BY DEF ServiceInv, ShownInv
  <1>2. Current(InUse)'
    BY <1>1 DEF Current, InUse, Read, PrimaryRead, provider_vars, service_vars, shown_vars,
       notifier_vars
  <1>3. DevicesInv' /\ WatchInv' /\ WarningInv'
    BY DEF ServiceInv, DevicesInv, WatchInv, WarningInv, Knows, provider_vars, notifier_vars,
       rest_vars
  <1> QED BY <1>2, <1>3

(* A message with another kind for the watched battery has no battery left.  *)
LEMMA PropertiesChangedServes ==
    ASSUME ServiceInv, NEW o \in present, NEW r \in Readings, PropertiesChanged(o, r)
    PROVE  ServiceInv'
  <1> DEFINE keys == {k \in Properties : device[o][k] # r[k] /\ (k = "time" => r.time # 0)}
  <1>1. /\ running /\ callback = NULL /\ Settled
        /\ callback' = [source |-> "upower", object |-> o, reading |-> r, keys |-> keys]
        /\ UNCHANGED <<provider_vars, service_vars, notifier_vars, rest_vars, device>>
    BY DEF PropertiesChanged, Idle, Settled
  <1>2. UNCHANGED <<present, mock_battery_enabled, running, battery, server>>
    BY <1>1 DEF provider_vars, service_vars, notifier_vars, rest_vars
  <1>3. callback' \in Callbacks
    <2>1. o \in UPowerDevices /\ keys \in SUBSET Properties
      BY DEF ServiceInv, DevicesInv
    <2> HIDE DEF keys
    <2> QED BY <1>1, <2>1 DEF Callbacks
  <1>4. CallbackInv'
    BY <1>1, <1>2, <1>3 DEF CallbackInv
  <1>5. KindInv'
    <2> SUFFICES ASSUME "kind" \in keys, o = battery
                 PROVE  r.kind # UP_DEVICE_KIND_BATTERY
      BY <1>1, <1>2 DEF KindInv
    <2>1. battery = WatchedObject(primary_device, PrimaryRead) /\ battery # NULL
      BY <1>1, ObjectsAssumption DEF ServiceInv, DevicesInv, ShownInv, Current, Objects
    <2>2. PrimaryRead.kind = UP_DEVICE_KIND_BATTERY /\ primary_device = battery
      BY <2>1 DEF WatchedObject
    <2>3. device[o].kind = UP_DEVICE_KIND_BATTERY
      BY <2>1, <2>2 DEF PrimaryRead
    <2> QED BY <2>3
  <1>6. DevicesInv' /\ WatchInv' /\ WarningInv' /\ Current(InUse)'
    BY <1>1, BeginningServes
  <1> QED BY <1>4, <1>5, <1>6 DEF ServiceInv, ShownInv

(* The mock device keeps its kind.                                           *)
LEMMA MockChangesServes ==
    ASSUME ServiceInv, NEW key \in {"state", "percentage", "time"}, NEW r \in MockReadings,
           MockChanges(key, r)
    PROVE  ServiceInv'
  <1>1. /\ running /\ callback = NULL /\ Settled
        /\ callback' = [source |-> "mock", object |-> Mock, reading |-> r, keys |-> {key}]
        /\ UNCHANGED <<provider_vars, service_vars, notifier_vars, rest_vars, device>>
    BY DEF MockChanges, Idle, Settled
  <1>2. callback' \in Callbacks
    BY <1>1 DEF Callbacks, Properties
  <1>3. running' = running
    BY <1>1 DEF service_vars
  <1>4. CallbackInv' /\ KindInv'
    BY <1>1, <1>2, <1>3 DEF CallbackInv, KindInv
  <1>5. DevicesInv' /\ WatchInv' /\ WarningInv' /\ Current(InUse)'
    BY <1>1, BeginningServes
  <1> QED BY <1>4, <1>5 DEF ServiceInv, ShownInv

(* A device that is gone is no battery.                                      *)
LEMMA DevicesRemovedServes ==
    ASSUME ServiceInv, NEW gone \in SUBSET present, DevicesRemoved(gone)
    PROVE  ServiceInv'
  <1>1. /\ running /\ callback = NULL /\ Settled
        /\ present' = present \ gone /\ callback' = Emit("upower")
        /\ device' = [o \in Objects |-> IF o \in gone THEN NoDevice ELSE device[o]]
        /\ UNCHANGED <<mock_battery_enabled, service_vars, notifier_vars, rest_vars>>
    BY DEF DevicesRemoved, Idle, Settled
  <1>2. running' = running /\ server' = server /\ battery' = battery
    BY <1>1 DEF service_vars, rest_vars, notifier_vars
  <1>3. gone \in SUBSET UPowerDevices /\ Mock \notin gone
    BY ObjectsAssumption DEF ServiceInv, DevicesInv
  <1>4. WatchInv' /\ WarningInv'
    <2>1. \A o \in Objects : o \in gone => device'[o].kind # UP_DEVICE_KIND_BATTERY
      BY <1>1 DEF NoDevice, UP_DEVICE_KIND_UNKNOWN, UP_DEVICE_KIND_BATTERY
    <2>2. \A o \in Objects : o \notin gone => device'[o] = device[o]
      BY <1>1
    <2> QED BY <1>1, <1>2, <2>1, <2>2, UnchangedKeepsWatch DEF ServiceInv
  <1>5. DevicesInv'
    <2>1. IsFiniteSet(present')
      BY <1>1, FS_Subset DEF ServiceInv, DevicesInv
    <2>2. \A o \in present' \cup {Mock} : o \in Objects /\ device'[o] = device[o]
      BY <1>1, <1>3 DEF ServiceInv, DevicesInv, Objects
    <2> QED BY <1>1, <2>1, <2>2 DEF ServiceInv, DevicesInv
  <1>6. CallbackInv' /\ KindInv'
    BY <1>1, <1>2, EmitIsCallback DEF CallbackInv, KindInv
  <1>7. ShownInv'
    <2>1. CASE mock_battery_enabled
      <3>1. /\ gone \subseteq (IF mock_battery_enabled THEN UPowerDevices ELSE {Mock})
            /\ \A p \in Objects \ gone : device'[p] = device[p]
        BY <1>1, <1>3, <2>1
      <3>2. UNCHANGED <<service_vars, mock_battery_enabled, battery>>
        BY <1>1, <1>2
      <3>3. Current(InUse)'
        BY <1>1, <2>1, <3>1, <3>2, OtherProviderServes
      <3> QED BY <3>3 DEF ShownInv
    <2>2. CASE ~mock_battery_enabled
      BY <1>1, <2>2, EmitIsCallback DEF ShownInv, Settled, ServiceInv, DevicesInv
    <2> QED BY <2>1, <2>2
  <1> QED BY <1>4, <1>5, <1>6, <1>7 DEF ServiceInv

(* The notifier hears of the percentage and the state of the watched battery *)
(* only; of the others, the time is of no account and a new kind is not that *)
(* of a battery.                                                             *)
LEMMA ApplyPropertyServes ==
    ASSUME ServiceInv, ApplyProperty PROVE ServiceInv'
  <1>0. PICK o, r : o = callback.object /\ r = callback.reading
    OBVIOUS
  <1>1. PICK key \in callback.keys :
           /\ callback' = [callback EXCEPT !.keys = @ \ {key}]
           /\ IF key \in {"percentage", "state"}
              THEN N!BatteryChanges(o, [device[o] EXCEPT ![key] = r[key]])
              ELSE /\ device' = [device EXCEPT ![o] = [device[o] EXCEPT ![key] = r[key]]]
                   /\ UNCHANGED <<notifier_vars, rest_vars>>
    BY <1>0 DEF ApplyProperty
  <1>2. PICK d : d = [device[o] EXCEPT ![key] = r[key]]
    OBVIOUS
  <1>3. /\ callback # NULL /\ callback \in Callbacks /\ running
        /\ o \in (IF callback.source = "mock" THEN {Mock} ELSE present)
        /\ r \in Readings \cup MockReadings
        /\ key \in Properties
        /\ UNCHANGED <<provider_vars, service_vars>>
    BY <1>0, <1>1 DEF ServiceInv, CallbackInv, ApplyProperty, Callbacks
  <1>4. /\ o \in present \cup {Mock} /\ o \in Objects
        /\ IsDevice(device[o]) /\ device[o].object_path = o /\ DOMAIN device = Objects
    BY <1>3 DEF ServiceInv, DevicesInv, Objects
  <1>5. IsDevice(d) /\ d.object_path = o
    <2>1. \A x : IsDevice(x) => \A k \in Properties :
               /\ IsDevice([x EXCEPT ![k] = r[k]])
               /\ [x EXCEPT ![k] = r[k]].object_path = x.object_path
      BY <1>3, ReadingIsDevice
    <2>2. PICK x : x = device[o]
      OBVIOUS
    <2>3. /\ IsDevice([x EXCEPT ![key] = r[key]])
          /\ [x EXCEPT ![key] = r[key]].object_path = x.object_path
      BY <1>3, <1>4, <2>1, <2>2
    <2> QED BY <1>2, <1>4, <2>2, <2>3
  <1>6. /\ callback' \in Callbacks /\ callback' # NULL
        /\ callback'.keys = callback.keys \ {key}
        /\ callback'.object = o /\ callback'.reading = r /\ callback'.source = callback.source
    <2>1. /\ callback' \in Callbacks /\ callback'.keys = callback.keys \ {key}
          /\ callback'.object = o /\ callback'.reading = r
          /\ callback'.source = callback.source
      BY <1>0, <1>1, <1>3 DEF Callbacks
    <2> QED BY <2>1, ObjectsAssumption
  <1>7. /\ device' = [device EXCEPT ![o] = d] /\ battery' = battery
        /\ WatchInv' /\ WarningInv'
    <2>1. CASE key \in {"percentage", "state"}
      BY <1>1, <1>2, <1>4, <2>1, ChangeIsEvaluated DEF ServiceInv
    <2>2. CASE key \notin {"percentage", "state"}
      <3>1. /\ device' = [device EXCEPT ![o] = d]
            /\ UNCHANGED <<notifier_vars, server, battery>>
        BY <1>1, <1>2, <2>2 DEF notifier_vars, rest_vars
      <3>2. /\ d.percentage = device[o].percentage /\ d.state = device[o].state
            /\ d.kind = (IF key = "kind" THEN r.kind ELSE device[o].kind)
        BY <1>2, <1>4, <2>2 DEF IsDevice
      <3>3. key = "kind" /\ o = battery => d.kind # UP_DEVICE_KIND_BATTERY
        BY <1>0, <1>1, <1>3, <3>2 DEF ServiceInv, KindInv
      <3>4. \A p \in Objects : device'[p] # device[p] => p = o /\ device'[p] = d
        BY <1>4, <3>1
      <3>5. ASSUME o = battery PROVE WatchInv'
        <4>1. \/ d.kind # UP_DEVICE_KIND_BATTERY
              \/ d.kind = device[o].kind
          BY <3>2, <3>3, <3>5
        <4>2. device'[battery] = d /\ battery' = battery /\ power_level' = power_level
          BY <1>4, <3>1, <3>5 DEF notifier_vars
        <4>3. d.kind = UP_DEVICE_KIND_BATTERY =>
                 /\ get_battery_power_level(d) = get_battery_power_level(device[o])
                 /\ get_battery_power_percentage(d) = get_battery_power_percentage(device[o])
                 /\ IsDischarging(d) = IsDischarging(device[o])
          BY <3>2, <4>1
          DEF get_battery_power_level, get_battery_power_percentage, IsDischarging
        <4> QED BY <3>1, <3>5, <4>1, <4>2, <4>3 DEF ServiceInv, WatchInv, Knows, notifier_vars
      <3>6. ASSUME o # battery PROVE WatchInv'
        BY <3>1, <3>4, <3>6 DEF ServiceInv, WatchInv, Knows, notifier_vars
      <3>7. WarningInv'
        BY <3>1 DEF ServiceInv, WarningInv, notifier_vars
      <3> QED BY <3>1, <3>5, <3>6, <3>7
    <2> QED BY <2>1, <2>2
  <1>8. DevicesInv'
    <2>1. \A p \in present \cup {Mock} : p \in Objects
      BY DEF ServiceInv, DevicesInv, Objects
    <2>2. present' = present /\ mock_battery_enabled' = mock_battery_enabled
      BY <1>3 DEF provider_vars
    <2> QED BY <1>4, <1>5, <1>7, <2>1, <2>2 DEF ServiceInv, DevicesInv
  <1>9. CallbackInv' /\ KindInv'
    BY <1>0, <1>3, <1>6, <1>7
    DEF ServiceInv, CallbackInv, KindInv, provider_vars, service_vars
  <1>10. ShownInv'
    <2>1. CASE Settled
      <3> DEFINE changed == {o}
      <3>1. /\ changed \subseteq (IF mock_battery_enabled THEN UPowerDevices ELSE {Mock})
            /\ \A p \in Objects \ changed : device'[p] = device[p]
        BY <1>3, <1>4, <1>7, <2>1 DEF Settled, ServiceInv, DevicesInv
      <3>2. /\ UNCHANGED <<service_vars, mock_battery_enabled, battery>>
            /\ present' = present
        BY <1>3, <1>7 DEF provider_vars
      <3> HIDE DEF changed
      <3>3. Current(InUse)'
        BY <1>3, <2>1, <3>1, <3>2, OtherProviderServes
      <3> QED BY <3>3 DEF ShownInv
    <2>2. CASE ~Settled
      BY <1>3, <1>6, <2>2 DEF ShownInv, Settled, provider_vars
    <2> QED BY <2>1, <2>2
  <1> QED BY <1>7, <1>8, <1>9, <1>10 DEF ServiceInv

(* Every step keeps ServiceInv.                                              *)
LEMMA NextServes == ServiceInv /\ [Next]_vars => ServiceInv'
  <1> SUFFICES ASSUME ServiceInv, [Next]_vars PROVE ServiceInv'
    OBVIOUS
  <1>1. CASE EmitDevicesChanged
    BY <1>1, EmitDevicesChangedServes
  <1>2. CASE ApplyProperty
    BY <1>2, ApplyPropertyServes
  <1>3. CASE MockBatteryEnabled
    BY <1>3, MockBatteryEnabledServes
  <1>4. CASE (\E wanted \in Settings : SettingsChange(wanted)) \/ KeepScreenOnToggles
    BY <1>4, HeaderServes DEF SettingsChange, KeepScreenOnToggles
  <1>5. CASE on_bus_acquired
    BY <1>5, BusAcquiredServes
  <1>6. CASE on_name_lost
    BY <1>6, NameLostServes
  <1>7. CASE \E o \in UPowerDevices, r \in Readings : GetAllReply(o, r)
    BY <1>7, GetAllReplyServes
  <1>8. CASE \E o \in present, r \in Readings : PropertiesChanged(o, r)
    <2>1. PICK o \in present, r \in Readings : PropertiesChanged(o, r)
      BY <1>8
    <2> QED BY <2>1, PropertiesChangedServes
  <1>9. CASE \/ \E o \in present : DevicesRemoved({o})
             \/ DevicesRemoved(present)
    <2>1. PICK gone \in SUBSET present : DevicesRemoved(gone)
      BY <1>9
    <2> QED BY <2>1, DevicesRemovedServes
  <1>10. CASE \E key \in {"state", "percentage", "time"}, r \in MockReadings : MockChanges(key, r)
    BY <1>10, MockChangesServes
  <1>11. CASE \E n \in NotificationIds : UserDismisses(n) \/ NotificationClosed(n)
    BY <1>11, ClosedServes DEF UserDismisses, NotificationClosed
  <1>12. CASE UNCHANGED vars
    <2>1. DevicesInv' /\ CallbackInv' /\ WatchInv' /\ KindInv' /\ WarningInv'
      BY <1>12 DEF ServiceInv, DevicesInv, CallbackInv, WatchInv, KindInv, WarningInv, Knows,
         vars, provider_vars, service_vars, notifier_vars, rest_vars
    <2>2. ShownInv'
      BY <1>12 DEF ServiceInv, ShownInv, Settled, Current, InUse, Read, PrimaryRead, vars,
         provider_vars, service_vars, shown_vars, notifier_vars
    <2> QED BY <2>1, <2>2 DEF ServiceInv
  <1> QED BY <1>1, <1>2, <1>3, <1>4, <1>5, <1>6, <1>7, <1>8, <1>9, <1>10, <1>11, <1>12 DEF Next

(* ServiceInv is inductive.                                                  *)
LEMMA ServiceInvHolds == Spec => []ServiceInv
  <1> QED BY InitServes, NextServes, PTL DEF Spec

(* Between callbacks there is no news that is not shown.                     *)
LEMMA IdleIsCurrent == ServiceInv /\ Idle => Current(InUse)
  BY DEF ServiceInv, ShownInv, Idle, Settled

(* Nothing that is shown is stale, whatever the provider tells, in whatever  *)
(* order (on_devices_changed, rebuild_now).                                  *)
THEOREM NothingShownIsStale == Spec => []ShownIsCurrent
  <1>1. ServiceInv => ShownIsCurrent
    BY IdleIsCurrent DEF Current, InUse, ShownIsCurrent
  <1> QED BY <1>1, ServiceInvHolds, PTL

(* The notifier watches the primary device if that is a battery, and nothing *)
(* otherwise; a merged battery is up to date (on_devices_changed).           *)
THEOREM NotifierWatchesPrimary == Spec => []PrimaryIsWatched
  <1>1. ServiceInv => PrimaryIsWatched
    BY IdleIsCurrent DEF Current, WatchedObject, PrimaryIsWatched
  <1> QED BY <1>1, ServiceInvHolds, PTL

(* The watched battery is the primary device as it is now, and is known.     *)
LEMMA WatchedIsKnown ==
    ServiceInv /\ Idle /\ battery # NULL => Knows(PrimaryRead) /\ PrimaryRead = device[battery]
  <1> SUFFICES ASSUME ServiceInv, Idle, battery # NULL
               PROVE  Knows(PrimaryRead) /\ PrimaryRead = device[battery]
    OBVIOUS
  <1>1. battery = WatchedObject(primary_device, PrimaryRead)
    BY IdleIsCurrent DEF Current
  <1>2. primary_device = battery /\ PrimaryRead.kind = UP_DEVICE_KIND_BATTERY
    BY <1>1 DEF WatchedObject
  <1>3. PrimaryRead = device[battery]
    BY <1>2 DEF PrimaryRead
  <1> QED BY <1>2, <1>3 DEF ServiceInv, WatchInv

(* D-Bus clients read the level, charge and state of the primary device,     *)
(* although its kind changes unheard and its other properties one by one     *)
(* (on_battery_property_changed, on_devices_changed).                        *)
THEOREM BusTellsOfPrimary == Spec => []BusShowsPrimary
  <1>1. ServiceInv => BusShowsPrimary
    BY WatchedIsKnown DEF Knows, BusShowsPrimary
  <1> QED BY <1>1, ServiceInvHolds, PTL

(* A warning that is up when the callbacks are done is deserved by the       *)
(* primary device (on_battery_property_changed, set_battery).                *)
THEOREM NoWarningWithoutDanger == Spec => []WarningIsDeserved
  <1>1. ServiceInv => WarningIsDeserved
    BY WatchedIsKnown DEF ServiceInv, WarningInv, Knows, Endangered, WarningIsDeserved
  <1> QED BY <1>1, ServiceInvHolds, PTL

(* Nothing but on_devices_changed() gives the notifier another battery.      *)
LEMMA NewBatteryIsFromTheService ==
    ASSUME ServiceInv, [Next]_vars, battery' \notin {battery, NULL}
    PROVE  \E table \in {{Mock}, present} : \E list \in Lists(table) :
              on_devices_changed(list) /\ server' = server
  <1>1. CASE EmitDevicesChanged
    BY <1>1 DEF EmitDevicesChanged, notifier_vars, rest_vars
  <1>2. CASE MockBatteryEnabled
    BY <1>2 DEF MockBatteryEnabled, set_device_provider, rest_vars
  <1>3. CASE ~EmitDevicesChanged /\ ~MockBatteryEnabled
    BY <1>3
    DEF Next, vars, ApplyProperty, SettingsChange, KeepScreenOnToggles, on_bus_acquired,
        on_name_lost, GetAllReply, PropertiesChanged, DevicesRemoved, MockChanges, UserDismisses,
        NotificationClosed, notifier_vars, N!BatteryChanges, N!SetBus, N!Dispose,
        N!UserDismisses, N!NotificationClosed, N!watch_vars
  <1> QED BY <1>1, <1>2, <1>3

(* A battery that the service hands to the notifier is warned of at once, if *)
(* it is worse off than what the notifier remembers of the last              *)
(* (indicator_power_notifier_set_battery).                                   *)
THEOREM NewBatteryIsEvaluated == Spec => NewBatteryIsWarnedOf
  <1> DEFINE Warned ==
          LET d == device'[battery']
          IN  /\ battery' \notin {battery, NULL}
              /\ Endangered(d)
              /\ ~discharging \/ get_battery_power_level(d) < power_level
              => notify_notification' # NULL /\ notify_notification' \in screen'
  <1>1. ServiceInv /\ [Next]_vars => Warned
    <2> SUFFICES ASSUME ServiceInv, [Next]_vars, battery' \notin {battery, NULL}
                 PROVE  Warned
      OBVIOUS
    <2>1. PICK table \in {{Mock}, present} : \E list \in Lists(table) :
              on_devices_changed(list) /\ server' = server
      BY NewBatteryIsFromTheService
    <2>2. PICK list \in Lists(table) : on_devices_changed(list) /\ server' = server
      BY <2>1
    <2>3. table \in SUBSET (present \cup {Mock}) /\ IsFiniteSet(table)
      BY TableIsFinite DEF ServiceInv
    <2> QED BY <2>2, <2>3, DevicesChangedWatch DEF ServiceInv
  <1>2. ServiceInv /\ [Next]_vars => [Warned]_vars
    BY <1>1
  <1> HIDE DEF Warned
  <1>3. Spec => [][Warned]_vars
    BY <1>2, ServiceInvHolds, PTL DEF Spec
  <1> QED BY <1>3 DEF Warned, NewBatteryIsWarnedOf

-----------------------------------------------------------------------------
(* The service implements LowBatteryWarning                                  *)

(* IsWarning says whether the notifier holds a notification.                 *)
IsWarningInv ==
    /\ dbus_is_warning = (notify_notification # NULL)
    /\ discharging \in BOOLEAN

WarnsInv == ServiceInv /\ IsWarningInv

(* Showing and clearing keep it so.                                          *)
LEMMA PopupKeepsIsWarning ==
    ASSUME IsWarningInv
    PROVE  /\ N!notification_clear =>
                 dbus_is_warning' = FALSE /\ notify_notification' = NULL
           /\ \A level : N!notification_show(level) =>
                 dbus_is_warning' = (notify_notification' # NULL)
           /\ UNCHANGED N!popup_vars =>
                 /\ dbus_is_warning' = dbus_is_warning
                 /\ notify_notification' = notify_notification
  <1>1. N!notification_clear => dbus_is_warning' = FALSE /\ notify_notification' = NULL
    BY DEF IsWarningInv, N!notification_clear, N!popup_vars
  <1>2. ASSUME NEW level, N!notification_show(level)
        PROVE  dbus_is_warning' = (notify_notification' # NULL)
    BY <1>2, IdsAssumption DEF N!notification_show, N!FreshIds
  <1> QED BY <1>1, <1>2 DEF N!popup_vars

(* An evaluation shows the user what LowBatteryWarning allows, given that    *)
(* the warning is "current" when the evaluation neither shows nor clears it. *)
LEMMA EvaluationRefines ==
    ASSUME NEW d, NEW ACTION otherwise, NEW STATE current,
           IsWarningInv, power_level \in PowerLevel,
           otherwise => UNCHANGED N!popup_vars \/ N!notification_clear,
           otherwise => dbus_is_warning' = current,
           N!on_battery_property_changed(d, otherwise)
    PROVE  LBW!See(current) /\ IsWarningInv'
  <1> DEFINE l == get_battery_power_level(d)
             s == IsDischarging(d)
  <1>1. l \in PowerLevel /\ s \in BOOLEAN
    BY LevelType DEF IsDischarging
  <1>2. /\ IF N!PopsUp(l, s) THEN N!notification_show(l)
           ELSE IF ~s \/ l = POWER_LEVEL_OK THEN N!notification_clear
           ELSE otherwise
        /\ power_level' = l
        /\ discharging' = s
    BY SameReading DEF N!on_battery_property_changed
  <1>3. l \in LBW!PowerLevel /\ power_level \in Int /\ l \in Int
    BY <1>1
    DEF PowerLevel, LBW!PowerLevel, POWER_LEVEL_OK, LBW!POWER_LEVEL_OK,
        POWER_LEVEL_CRITICAL, LBW!POWER_LEVEL_CRITICAL
  <1>4. N!PopsUp(l, s) =>
            s /\ l # POWER_LEVEL_OK /\ (l < power_level \/ ~discharging)
    BY <1>1, SameReading DEF N!PopsUp, PowerLevel, POWER_LEVEL_CRITICAL, POWER_LEVEL_OK
  <1>5. ~N!PopsUp(l, s) /\ s /\ l # POWER_LEVEL_OK => ~(l < power_level) /\ discharging
    BY <1>1, <1>3, SameReading DEF N!PopsUp
  <1> HIDE DEF l, s
  <1>6. IsWarningInv'
    BY <1>1, <1>2, PopupKeepsIsWarning DEF IsWarningInv
  <1>7. dbus_is_warning' \in LBW!Outcomes(current, l, s)
    <2>1. CASE N!PopsUp(l, s)
      BY <1>4, <1>6, <2>1 DEF IsWarningInv, LBW!Outcomes, LBW!POWER_LEVEL_OK, POWER_LEVEL_OK
    <2>2. CASE ~N!PopsUp(l, s) /\ (~s \/ l = POWER_LEVEL_OK)
      BY <1>2, <2>2, PopupKeepsIsWarning
      DEF LBW!Outcomes, LBW!POWER_LEVEL_OK, POWER_LEVEL_OK
    <2>3. CASE ~N!PopsUp(l, s) /\ s /\ l # POWER_LEVEL_OK
      BY <1>2, <1>5, <2>3 DEF LBW!Outcomes, LBW!POWER_LEVEL_OK, POWER_LEVEL_OK
    <2> QED BY <2>1, <2>2, <2>3
  <1> QED BY <1>1, <1>2, <1>3, <1>6, <1>7 DEF LBW!See

(* A replaced battery is one that is watched from now on, or none.           *)
LEMMA ReplacementRefines ==
    ASSUME WarnsInv, NEW b, NEW d, N!ReplaceBattery(b, d)
    PROVE  (LBW!Watch \/ LBW!Unwatch) /\ IsWarningInv'
  <1>1. IsWarningInv /\ power_level \in PowerLevel
        /\ (battery = NULL => dbus_is_warning = FALSE)
    BY DEF WarnsInv, ServiceInv, WatchInv, WarningInv, IsWarningInv
  <1>2. CASE b = NULL
    <2>1. N!notification_clear /\ battery' = NULL /\ UNCHANGED <<power_level, discharging>>
      BY <1>2 DEF N!ReplaceBattery
    <2> QED BY <1>1, <2>1, PopupKeepsIsWarning DEF LBW!Unwatch, IsWarningInv
  <1>3. CASE b # NULL
    <2> DEFINE otherwise == IF battery # NULL THEN N!notification_clear
                                              ELSE UNCHANGED N!popup_vars
    <2>1. battery' = b /\ N!on_battery_property_changed(d, otherwise)
      BY <1>3 DEF N!ReplaceBattery
    <2>2. /\ otherwise => UNCHANGED N!popup_vars \/ N!notification_clear
          /\ otherwise => dbus_is_warning' = FALSE
      BY <1>1, PopupKeepsIsWarning
    <2> HIDE DEF otherwise
    <2>3. LBW!See(FALSE) /\ IsWarningInv'
      BY <1>1, <2>1, <2>2, EvaluationRefines
    <2> QED BY <1>3, <2>1, <2>3 DEF LBW!Watch
  <1> QED BY <1>2, <1>3

(* A property that is set is a change of the battery, if it is watched.      *)
LEMMA ChangeRefines ==
    ASSUME WarnsInv, NEW o \in Objects, NEW d, N!BatteryChanges(o, d)
    PROVE  (LBW!Change \/ UNCHANGED LBW!vars) /\ IsWarningInv'
  <1>1. IsWarningInv /\ power_level \in PowerLevel /\ battery' = battery
    BY DEF WarnsInv, ServiceInv, WatchInv, N!BatteryChanges
  <1>2. CASE o # battery
    BY <1>1, <1>2 DEF N!BatteryChanges, N!popup_vars, LBW!vars, IsWarningInv
  <1>3. CASE o = battery
    <2> DEFINE otherwise == UNCHANGED N!popup_vars
    <2>1. N!on_battery_property_changed(d, otherwise) /\ battery # NULL
      BY <1>3, ObjectsAssumption DEF N!BatteryChanges
    <2>2. otherwise => dbus_is_warning' = dbus_is_warning
      BY DEF N!popup_vars
    <2>3. otherwise => UNCHANGED N!popup_vars \/ N!notification_clear
      OBVIOUS
    <2> HIDE DEF otherwise
    <2>4. LBW!See(dbus_is_warning) /\ IsWarningInv'
      BY <1>1, <2>1, <2>2, <2>3, EvaluationRefines
    <2> QED BY <1>1, <2>1, <2>4 DEF LBW!Change
  <1> QED BY <1>2, <1>3

(* The end of a notification is the end of the warning if the notifier holds *)
(* that one.                                                                 *)
LEMMA ClosedRefines ==
    ASSUME WarnsInv, NEW n \in NotificationIds, N!NotificationClosed(n)
    PROVE  (LBW!End \/ UNCHANGED LBW!vars) /\ IsWarningInv'
  <1>1. IsWarningInv /\ UNCHANGED <<battery, power_level, discharging>>
    BY DEF WarnsInv, N!NotificationClosed, N!watch_vars
  <1>2. CASE n = notify_notification /\ n \in weak_refs
    <2>1. dbus_is_warning' = FALSE /\ notify_notification' = NULL
      BY <1>2 DEF N!NotificationClosed, N!on_notify_notification_finalized
    <2>2. n # NULL
      BY IdsAssumption
    <2> QED BY <1>1, <1>2, <2>1, <2>2 DEF LBW!End, IsWarningInv
  <1>3. CASE ~(n = notify_notification /\ n \in weak_refs)
    <2>1. UNCHANGED <<dbus_is_warning, notify_notification>>
      BY <1>3 DEF N!NotificationClosed, N!on_notify_notification_finalized
    <2> QED BY <1>1, <2>1 DEF LBW!vars, IsWarningInv
  <1> QED BY <1>2, <1>3

(* Every step of the service is one of LowBatteryWarning, or leaves what the *)
(* user sees unchanged.                                                      *)
LEMMA StepRefines ==
    ASSUME WarnsInv, [Next]_vars
    PROVE  [LBW!Next]_(LBW!vars) /\ IsWarningInv'
  <1>1. ASSUME UNCHANGED <<battery, power_level, discharging, notify_notification,
                           dbus_is_warning>>
        PROVE  UNCHANGED LBW!vars /\ IsWarningInv'
    BY <1>1 DEF WarnsInv, IsWarningInv, LBW!vars
  <1>2. ASSUME NEW list, on_devices_changed(list)
        PROVE  [LBW!Next]_(LBW!vars) /\ IsWarningInv'
    <2>1. (\E b, d : N!ReplaceBattery(b, d)) \/ UNCHANGED notifier_vars
      BY <1>2 DEF on_devices_changed
    <2> QED BY <1>1, <2>1, ReplacementRefines DEF notifier_vars, LBW!Next
  <1>3. CASE EmitDevicesChanged
    <2>1. (\E list : on_devices_changed(list)) \/ UNCHANGED notifier_vars
      BY <1>3 DEF EmitDevicesChanged
    <2> QED BY <1>1, <1>2, <2>1 DEF notifier_vars
  <1>4. CASE MockBatteryEnabled
    BY <1>2, <1>4 DEF MockBatteryEnabled, set_device_provider
  <1>5. CASE ApplyProperty
    <2>1. callback # NULL /\ callback.keys # {}
      BY <1>5 DEF ApplyProperty
    <2>2. callback.object \in Objects
      BY <2>1 DEF WarnsInv, ServiceInv, CallbackInv, DevicesInv, Objects
    <2>3. (\E d : N!BatteryChanges(callback.object, d)) \/ UNCHANGED notifier_vars
      BY <1>5 DEF ApplyProperty
    <2> QED BY <1>1, <2>2, <2>3, ChangeRefines DEF notifier_vars, LBW!Next
  <1>6. ASSUME NEW o \in UPowerDevices, NEW r \in Readings, GetAllReply(o, r)
        PROVE  [LBW!Next]_(LBW!vars) /\ IsWarningInv'
    <2>1. o \in Objects /\ \E d : N!BatteryChanges(o, d)
      BY <1>6 DEF GetAllReply, Objects
    <2> QED BY <2>1, ChangeRefines DEF LBW!Next
  <1>7. CASE on_name_lost
    <2>1. /\ N!notification_clear
          /\ battery' = NULL
          /\ UNCHANGED <<power_level, discharging>>
      BY <1>7 DEF on_name_lost, N!Dispose
    <2>2. LBW!Unwatch /\ IsWarningInv'
      BY <2>1, PopupKeepsIsWarning DEF LBW!Unwatch, WarnsInv, IsWarningInv
    <2> QED BY <2>2 DEF LBW!Next
  <1>8. ASSUME NEW n \in NotificationIds, NotificationClosed(n)
        PROVE  [LBW!Next]_(LBW!vars) /\ IsWarningInv'
    BY <1>8, ClosedRefines DEF NotificationClosed, LBW!Next
  <1>9. CASE \/ \E wanted \in Settings : SettingsChange(wanted)
             \/ KeepScreenOnToggles
             \/ on_bus_acquired
             \/ \E o \in present, r \in Readings : PropertiesChanged(o, r)
             \/ \E gone \in SUBSET present : DevicesRemoved(gone)
             \/ \E key \in {"state", "percentage", "time"}, r \in MockReadings :
                    MockChanges(key, r)
             \/ \E n \in NotificationIds : UserDismisses(n)
             \/ UNCHANGED vars
    <2>1. UNCHANGED <<battery, power_level, discharging, notify_notification, dbus_is_warning>>
      BY <1>9
      DEF SettingsChange, KeepScreenOnToggles, on_bus_acquired, PropertiesChanged,
          DevicesRemoved, MockChanges, UserDismisses, vars, notifier_vars, N!SetBus,
          N!UserDismisses, N!watch_vars, N!popup_vars
    <2> QED BY <1>1, <2>1
  <1> QED BY <1>3, <1>4, <1>5, <1>6, <1>7, <1>8, <1>9 DEF Next

(* The service, its providers and the notifier together implement the user's *)
(* view of low-battery warnings (on_devices_changed, set_battery,            *)
(* on_battery_property_changed).                                             *)
THEOREM Implementation == Spec => ImplementsLowBatteryWarning
  <1>1. Init => LBW!Init /\ IsWarningInv
    BY DEF Init, LBW!Init, LBW!POWER_LEVEL_OK, POWER_LEVEL_OK, IsWarningInv
  <1>2. ServiceInv /\ IsWarningInv /\ [Next]_vars =>
            [LBW!Next]_(LBW!vars) /\ IsWarningInv'
    BY StepRefines DEF WarnsInv
  <1> QED
    BY <1>1, <1>2, ServiceInvHolds, PTL
    DEF Spec, ImplementsLowBatteryWarning, LBW!Spec
=============================================================================
