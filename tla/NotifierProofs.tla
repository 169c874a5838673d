--------------------------- MODULE NotifierProofs ---------------------------
(***************************************************************************)
(* Proofs about Notifier, for any batteries, notification ids, kinds,      *)
(* states and charge values: its invariants, its action properties and     *)
(* that it implements LowBatteryWarning.                                   *)
(***************************************************************************)
EXTENDS NotifierProperties, TLAPS

USE DEF POWER_LEVEL_OK, POWER_LEVEL_LOW, POWER_LEVEL_VERY_LOW, POWER_LEVEL_CRITICAL

-----------------------------------------------------------------------------
(* The level of a device is one of the four levels.                          *)
LEMMA LevelType ==
    ASSUME NEW d \in Device
    PROVE  /\ get_battery_power_level(d) \in PowerLevel
           /\ get_battery_power_percentage(d) \in 0 .. 100
           /\ IsDischarging(d) \in BOOLEAN
           /\ power_level_to_dbus_string(get_battery_power_level(d))
                 \in {"ok", "low", "very_low", "critical"}
  <1>1. d.percentage \in 0 .. 1000
    BY DeviceAssumption DEF Device, Percentage
  <1>2. get_battery_power_level(d) \in {0, 1, 2, 3}
    BY DEF get_battery_power_level
  <1>3. get_battery_power_percentage(d) \in 0 .. 100
    BY <1>1 DEF get_battery_power_percentage
  <1>4. QED
    BY <1>2, <1>3 DEF PowerLevel, IsDischarging, power_level_to_dbus_string

(* A device with a bad level is a battery at or below the low threshold.     *)
LEMMA BadLevel ==
    ASSUME NEW d \in Device, get_battery_power_level(d) # POWER_LEVEL_OK
    PROVE  /\ d.kind = UP_DEVICE_KIND_BATTERY
           /\ d.percentage <= percent_low
           /\ get_battery_power_percentage(d) = d.percentage \div 10
           /\ AsBattery(d) = d
  <1>1. d.percentage \in 0 .. 1000
    BY DeviceAssumption DEF Device, Percentage
  <1>2. d.kind = UP_DEVICE_KIND_BATTERY /\ d.percentage <= percent_low
    <2>1. d.kind = UP_DEVICE_KIND_BATTERY
      BY Zenon DEF get_battery_power_level
    <2>2. d.percentage <= percent_low
      BY <1>1, <2>1, SMTT(30) DEF get_battery_power_level, percent_low, percent_very_low,
                percent_critical
    <2>3. QED
      BY <2>1, <2>2
  <1>3. QED
    BY <1>2 DEF get_battery_power_percentage, AsBattery, Device

(* Nothing is worse than a level and OK at once.                             *)
LEMMA WorseIsBad ==
    ASSUME NEW old \in PowerLevel, NEW new \in PowerLevel, old > new
    PROVE  new # POWER_LEVEL_OK
  BY DEF PowerLevel

-----------------------------------------------------------------------------
(* The part of the invariant that is about the notification alone.           *)
PopupType ==
    /\ notify_notification \in NotificationIds \cup {NULL}
    /\ weak_refs \in SUBSET NotificationIds
    /\ caps \in ServerKind \cup {"unqueried"}
    /\ server \in ServerKind \cup {"absent"}
    /\ dbus_is_warning \in BOOLEAN
    /\ screen \in SUBSET NotificationIds
    /\ persistent \in SUBSET NotificationIds
    /\ closing \in SUBSET NotificationIds
    /\ lost \in SUBSET NotificationIds

PopupInv == PopupType /\ WarningIsTracked /\ NoOrphanOnScreen /\ WarningIsHonest

(* Taking the notification down leaves no trace of it.                       *)
LEMMA ClearKeepsPopup ==
    ASSUME PopupInv, notification_clear, server' = server
    PROVE  PopupInv' /\ notify_notification' = NULL
  <1>1. CASE notify_notification = NULL
    BY <1>1 DEF PopupInv, PopupType, WarningIsTracked, NoOrphanOnScreen,
                WarningIsHonest, notification_clear, popup_vars
  <1>2. CASE notify_notification # NULL
    BY <1>2 DEF PopupInv, PopupType, WarningIsTracked, NoOrphanOnScreen,
                WarningIsHonest, notification_clear, ServerClose
  <1>3. QED
    BY <1>1, <1>2

(* Showing a notification replaces the one there was, or leaves none.        *)
LEMMA ShowKeepsPopup ==
    ASSUME NEW level, PopupInv, notification_show(level), server' = server
    PROVE  /\ PopupInv'
           /\ server = "absent" => notify_notification' = NULL
           /\ level # POWER_LEVEL_OK /\ server # "absent" => NewWarning
  <1>1. ensure_caps_queried \in ServerKind
    BY DEF ensure_caps_queried, PopupInv, PopupType, ServerKind
  <1>2. CASE level = POWER_LEVEL_OK \/ server = "absent"
    <2>1. PopupType' /\ notify_notification' = NULL
      BY <1>1, <1>2 DEF PopupInv, PopupType, notification_show, ServerClose
    <2>2. WarningIsTracked' /\ NoOrphanOnScreen' /\ WarningIsHonest'
      BY <1>2, <2>1 DEF PopupInv, WarningIsTracked, NoOrphanOnScreen,
                WarningIsHonest, notification_show, ServerClose
    <2>3. QED
      BY <1>2, <2>1, <2>2 DEF PopupInv
  <1>3. CASE ~(level = POWER_LEVEL_OK \/ server = "absent")
    <2>1. PICK n \in FreshIds :
             /\ notify_notification' = n
             /\ weak_refs' = (weak_refs \ {notify_notification}) \cup {n}
             /\ dbus_is_warning' = TRUE
             /\ caps' = ensure_caps_queried
             /\ screen' = (screen \ {notify_notification}) \cup {n}
             /\ persistent' = (persistent \ {notify_notification})
                    \cup (IF ensure_caps_queried = "actions" THEN {n} ELSE {})
             /\ closing' = IF notify_notification \in screen
                           THEN closing \cup {notify_notification} ELSE closing
             /\ lost' = lost \ {n}
      BY <1>3 DEF notification_show
    <2>2. /\ n \in NotificationIds /\ n # NULL
          /\ n \notin weak_refs /\ n \notin screen /\ n \notin closing
      BY IdsAssumption DEF FreshIds
    <2>3. n # notify_notification
      BY <2>2 DEF PopupInv, WarningIsTracked
    <2>4. PopupType'
      BY <1>1, <2>1, <2>2 DEF PopupInv, PopupType, NoOrphanOnScreen
    <2>5. WarningIsTracked' /\ NoOrphanOnScreen' /\ WarningIsHonest'
      BY <2>1, <2>2, <2>3 DEF PopupInv, WarningIsTracked, NoOrphanOnScreen,
                              WarningIsHonest
    <2>6. QED
      BY <1>3, <2>1, <2>2, <2>3, <2>4, <2>5 DEF PopupInv, NewWarning
  <1>4. QED
    BY <1>2, <1>3

-----------------------------------------------------------------------------
(* The remembered and mirrored values are of their types and agree.          *)
MirrorType ==
    /\ power_level \in PowerLevel
    /\ discharging \in BOOLEAN
    /\ dbus_power_level \in {SkeletonDefault, "ok", "low", "very_low", "critical"}
    /\ dbus_power_percentage \in 0 .. 100
    /\ dbus_is_discharging \in BOOLEAN

(* An evaluation of a battery with properties d keeps the notification and   *)
(* the mirror in order, and leaves a warning only if d deserves one.         *)
LEMMA EvaluationKeeps ==
    ASSUME NEW d \in Device, NEW ACTION otherwise,
           PopupInv, MirrorType, server' = server,
           otherwise => UNCHANGED popup_vars \/ notification_clear,
           on_battery_property_changed(d, otherwise)
    PROVE  /\ PopupInv'
           /\ MirrorType'
           /\ power_level' = get_battery_power_level(d)
           /\ discharging' = IsDischarging(d)
           /\ ~Endangered(d) => notify_notification' = NULL
           /\ Endangered(d) /\ PopsUp(power_level', discharging') =>
                 (server # "absent" => NewWarning)
           /\ Endangered(d) /\ ~PopsUp(power_level', discharging') => otherwise
  <1> DEFINE l == get_battery_power_level(d)
             s == IsDischarging(d)
  <1>1. l \in PowerLevel /\ s \in BOOLEAN
    BY LevelType
  <1>2. MirrorType' /\ power_level' = l /\ discharging' = s
    BY LevelType DEF on_battery_property_changed, MirrorType
  <1>3. CASE PopsUp(l, s)
    <2>0. power_level > l => l # POWER_LEVEL_OK
      BY <1>1, WorseIsBad DEF MirrorType
    <2>1. s /\ l # POWER_LEVEL_OK
      BY <1>3, <2>0, Zenon DEF PopsUp
    <2>2. notification_show(l)
      BY <1>3 DEF on_battery_property_changed
    <2>3. PopupInv' /\ (server # "absent" => NewWarning)
      BY <2>1, <2>2, ShowKeepsPopup
    <2>4. QED
      BY <1>2, <1>3, <2>1, <2>3 DEF Endangered
  <1>4. CASE ~PopsUp(l, s) /\ (~s \/ l = POWER_LEVEL_OK)
    <2>1. notification_clear
      BY <1>4 DEF on_battery_property_changed
    <2>2. QED
      BY <1>2, <1>4, <2>1, ClearKeepsPopup DEF Endangered
  <1>5. CASE ~PopsUp(l, s) /\ ~(~s \/ l = POWER_LEVEL_OK)
    <2>1. otherwise
      BY <1>5 DEF on_battery_property_changed
    <2>2. CASE UNCHANGED popup_vars
      BY <1>2, <1>5, <2>1, <2>2 DEF Endangered, popup_vars, PopupInv, PopupType,
         WarningIsTracked, NoOrphanOnScreen, WarningIsHonest
    <2>3. CASE notification_clear
      BY <1>2, <1>5, <2>1, <2>3, ClearKeepsPopup DEF Endangered
    <2>4. QED
      BY <2>1, <2>2, <2>3
  <1>6. QED
    BY <1>3, <1>4, <1>5

-----------------------------------------------------------------------------
(* The invariant, split into what the steps treat separately.                *)
WatchInv ==
    /\ battery \in Batteries \cup {NULL}
    /\ bus \in BOOLEAN
    /\ disposed \in BOOLEAN
    /\ device \in [Batteries -> Device]

LEMMA InvSplit ==
    NotifierInv <=> /\ PopupInv /\ MirrorType /\ WatchInv
                    /\ WarnsOnlyWhenEndangered /\ MirrorAgrees
  BY DEF NotifierInv, WarningMatchesScreen, TypeOK, PopupInv, PopupType, MirrorType, WatchInv

LEMMA InvSplitNext ==
    PopupInv' /\ MirrorType' /\ WatchInv' /\ WarnsOnlyWhenEndangered' /\ MirrorAgrees'
        => NotifierInv'
  BY DEF NotifierInv, WarningMatchesScreen, TypeOK, PopupInv, PopupType, MirrorType, WatchInv

LEMMA InitInv == Init => NotifierInv
  <1> SUFFICES ASSUME Init PROVE NotifierInv
    OBVIOUS
  <1>1. PopupInv
    BY DEF Init, PopupInv, PopupType, WarningIsTracked, NoOrphanOnScreen,
           WarningIsHonest
  <1>2. MirrorType
    <2>1. power_level \in PowerLevel
      BY DEF Init, PowerLevel
    <2>2. dbus_power_percentage \in 0 .. 100
      BY DEF Init
    <2>3. QED
      BY <2>1, <2>2, Zenon DEF Init, MirrorType
  <1>3. WatchInv /\ WarnsOnlyWhenEndangered /\ MirrorAgrees
    BY DEF Init, WatchInv, WarnsOnlyWhenEndangered, MirrorAgrees
  <1>4. QED
    BY <1>1, <1>2, <1>3, InvSplit

(* After an evaluation the mirror agrees with the battery evaluated.         *)
LEMMA EvaluationAgrees ==
    ASSUME NEW d \in Device, NEW ACTION otherwise,
           on_battery_property_changed(d, otherwise)
    PROVE  /\ dbus_is_discharging' = discharging'
           /\ dbus_power_level' = power_level_to_dbus_string(power_level')
           /\ dbus_power_percentage' = get_battery_power_percentage(d)
           /\ discharging' = IsDischarging(d)
           /\ power_level' = get_battery_power_level(d)
  BY Zenon DEF on_battery_property_changed

LEMMA SetBatteryKeeps ==
    ASSUME NotifierInv, NEW b \in Batteries \cup {NULL}, SetBattery(b)
    PROVE  NotifierInv'
  <1>1. PopupInv /\ MirrorType /\ WatchInv
    BY InvSplit
  <1>2. WatchInv' /\ device' = device /\ battery' = b
    BY <1>1 DEF SetBattery, ReplaceBattery, WatchInv
  <1>3. server' = server
    BY DEF SetBattery, ReplaceBattery
  <1>4. CASE b = NULL
    <2>1. notification_clear /\ MirrorType'
      BY <1>1, <1>4 DEF SetBattery, ReplaceBattery, MirrorType, power_level_to_dbus_string
    <2>2. PopupInv' /\ notify_notification' = NULL
      BY <1>1, <1>3, <2>1, ClearKeepsPopup
    <2>3. WarnsOnlyWhenEndangered' /\ MirrorAgrees'
      BY <1>2, <1>4, <2>2 DEF WarnsOnlyWhenEndangered, MirrorAgrees
    <2>4. QED
      BY <1>2, <2>1, <2>2, <2>3, InvSplitNext
  <1>5. CASE b # NULL
    <2> DEFINE otherwise == IF battery # NULL THEN notification_clear
                                              ELSE UNCHANGED popup_vars
    <2>1. device[b] \in Device
      BY <1>1, <1>5 DEF WatchInv
    <2>2. on_battery_property_changed(device[b], otherwise)
      BY <1>5 DEF SetBattery, ReplaceBattery
    <2>3. otherwise => UNCHANGED popup_vars \/ notification_clear
      OBVIOUS
    <2> HIDE DEF otherwise
    <2>4. /\ PopupInv' /\ MirrorType'
          /\ ~Endangered(device[b]) => notify_notification' = NULL
      BY <1>1, <1>3, <2>1, <2>2, <2>3, EvaluationKeeps
    <2>5. WarnsOnlyWhenEndangered'
      BY <1>2, <1>5, <2>1, <2>4, BadLevel
      DEF WarnsOnlyWhenEndangered, Endangered, IsDischarging
    <2>6. MirrorAgrees'
      BY <1>2, <2>1, <2>2, EvaluationAgrees, BadLevel DEF MirrorAgrees, IsDischarging
    <2>7. QED
      BY <1>2, <2>4, <2>5, <2>6, InvSplitNext
  <1>6. QED
    BY <1>4, <1>5

LEMMA BatteryChangesKeeps ==
    ASSUME NotifierInv, NEW b \in Batteries, NEW d \in Device, BatteryChanges(b, d)
    PROVE  NotifierInv'
  <1>1. PopupInv /\ MirrorType /\ WatchInv /\ WarnsOnlyWhenEndangered /\ MirrorAgrees
    BY InvSplit
  <1>2. WatchInv' /\ device' = [device EXCEPT ![b] = d] /\ battery' = battery
        /\ server' = server
    BY <1>1 DEF BatteryChanges, WatchInv
  <1>3. CASE b # battery
    <2>1. UNCHANGED <<power_level, discharging, popup_vars, mirror_vars>>
      BY <1>3 DEF BatteryChanges
    <2>2. PopupInv' /\ MirrorType'
      BY <1>1, <1>2, <2>1 DEF PopupInv, PopupType, MirrorType, popup_vars,
         mirror_vars, WarningIsTracked, NoOrphanOnScreen, WarningIsHonest
    <2>3. battery # NULL => device'[battery'] = device[battery]
      BY <1>1, <1>2, <1>3 DEF WatchInv
    <2>4. WarnsOnlyWhenEndangered' /\ MirrorAgrees'
      BY <1>1, <1>2, <2>1, <2>3
      DEF WarnsOnlyWhenEndangered, MirrorAgrees, popup_vars, mirror_vars
    <2>5. QED
      BY <1>2, <2>2, <2>4, InvSplitNext
  <1>4. CASE b = battery
    <2>1. on_battery_property_changed(d, UNCHANGED popup_vars)
      BY <1>4 DEF BatteryChanges
    <2>2. /\ PopupInv' /\ MirrorType'
          /\ ~Endangered(d) => notify_notification' = NULL
      BY <1>1, <1>2, <2>1, EvaluationKeeps
    <2>3. device'[battery'] = d
      BY <1>1, <1>2, <1>4 DEF WatchInv
    <2>4. WarnsOnlyWhenEndangered'
      BY <1>2, <1>4, <2>2, <2>3, BadLevel, BatteriesAssumption
      DEF WarnsOnlyWhenEndangered, Endangered
    <2>5. MirrorAgrees'
      BY <1>2, <2>1, <2>3, EvaluationAgrees, BadLevel DEF MirrorAgrees
    <2>6. QED
      BY <1>2, <2>2, <2>4, <2>5, InvSplitNext
  <1>5. QED
    BY <1>3, <1>4

LEMMA BatteryKindChangesKeeps ==
    ASSUME NotifierInv, NEW b \in Batteries, NEW k \in Kinds, BatteryKindChanges(b, k)
    PROVE  NotifierInv'
  <1>1. PopupInv /\ MirrorType /\ WatchInv /\ WarnsOnlyWhenEndangered /\ MirrorAgrees
    BY InvSplit
  <1>2. UNCHANGED <<watch_vars, popup_vars, mirror_vars, bus, disposed, server>>
    BY DEF BatteryKindChanges
  <1>3. device' = [device EXCEPT ![b].kind = k]
    BY DEF BatteryKindChanges
  <1>4. WatchInv' /\ PopupInv' /\ MirrorType'
    BY <1>1, <1>2, <1>3 DEF WatchInv, PopupInv, PopupType, MirrorType, watch_vars,
       popup_vars, mirror_vars, WarningIsTracked, NoOrphanOnScreen, WarningIsHonest,
       Device
  <1>5. CASE battery = NULL
    BY <1>1, <1>2, <1>4, <1>5, InvSplitNext
    DEF WarnsOnlyWhenEndangered, MirrorAgrees, watch_vars, popup_vars
  <1>6. CASE battery # NULL
    <2>1. /\ device'[battery].state = device[battery].state
          /\ device'[battery].percentage = device[battery].percentage
          /\ \/ device'[battery] = device[battery]
             \/ battery = b
          /\ AsBattery(device'[battery]) = AsBattery(device[battery])
      BY <1>1, <1>3, <1>6 DEF WatchInv, Device, AsBattery
    <2>2. WarnsOnlyWhenEndangered'
      BY <1>1, <1>2, <2>1
      DEF WarnsOnlyWhenEndangered, IsDischarging, watch_vars, popup_vars
    <2>3. MirrorAgrees'
      BY <1>1, <1>2, <2>1
      DEF MirrorAgrees, IsDischarging, AsBattery, watch_vars, mirror_vars
    <2>4. QED
      BY <1>4, <2>2, <2>3, InvSplitNext
  <1>7. QED
    BY <1>5, <1>6

(* Steps that touch neither the battery nor the mirror need only keep the    *)
(* notification in order and bring up no new one.                            *)
LEMMA QuietStepKeeps ==
    ASSUME NotifierInv, PopupInv', WatchInv',
           UNCHANGED <<watch_vars, mirror_vars, device>>,
           notify_notification' \in {notify_notification, NULL}
    PROVE  NotifierInv'
  <1>1. PopupInv /\ MirrorType /\ WatchInv /\ WarnsOnlyWhenEndangered /\ MirrorAgrees
    BY InvSplit
  <1>2. MirrorType' /\ WarnsOnlyWhenEndangered' /\ MirrorAgrees'
    BY <1>1 DEF MirrorType, WarnsOnlyWhenEndangered, MirrorAgrees, watch_vars, mirror_vars
  <1>3. QED
    BY <1>2, InvSplitNext

LEMMA DisposeKeeps ==
    ASSUME NotifierInv, Dispose
    PROVE  NotifierInv'
  <1>1. PopupInv /\ MirrorType /\ WatchInv
    BY InvSplit
  <1>2. PopupInv' /\ notify_notification' = NULL
    BY <1>1, ClearKeepsPopup DEF Dispose
  <1>3. WatchInv' /\ battery' = NULL
    BY <1>1 DEF Dispose, WatchInv
  <1>4. MirrorType'
    BY <1>1 DEF Dispose, MirrorType, power_level_to_dbus_string
  <1>5. WarnsOnlyWhenEndangered' /\ MirrorAgrees'
    BY <1>2, <1>3 DEF WarnsOnlyWhenEndangered, MirrorAgrees
  <1>6. QED
    BY <1>2, <1>3, <1>4, <1>5, InvSplitNext

LEMMA NotificationClosedKeeps ==
    ASSUME NotifierInv, NEW n \in NotificationIds, NotificationClosed(n)
    PROVE  NotifierInv'
  <1>1. PopupInv /\ WatchInv
    BY InvSplit
  <1>2. PopupInv' /\ notify_notification' \in {notify_notification, NULL}
    <2>1. CASE n \in weak_refs
      <3>1. n = notify_notification
        BY <1>1, <2>1 DEF PopupInv, WarningIsTracked
      <3>2. notify_notification' = NULL /\ dbus_is_warning' = FALSE /\ weak_refs' = {}
        BY <1>1, <2>1, <3>1
        DEF NotificationClosed, on_notify_notification_finalized, PopupInv, WarningIsTracked
      <3>3. QED
        BY <1>1, <3>1, <3>2 DEF NotificationClosed, PopupInv, PopupType,
           WarningIsTracked, NoOrphanOnScreen, WarningIsHonest
    <2>2. CASE n \notin weak_refs
      BY <1>1, <2>2 DEF NotificationClosed, PopupInv, PopupType, WarningIsTracked,
         NoOrphanOnScreen, WarningIsHonest
    <2>3. QED
      BY <2>1, <2>2
  <1>3. WatchInv' /\ UNCHANGED <<watch_vars, mirror_vars, device>>
    BY <1>1 DEF NotificationClosed, WatchInv, watch_vars
  <1>4. QED
    BY <1>2, <1>3, QuietStepKeeps

LEMMA ClosedByOthersKeeps ==
    ASSUME NotifierInv, NEW n \in NotificationIds, UserDismisses(n) \/ ServerExpires(n)
    PROVE  NotifierInv'
  <1>1. PopupInv /\ WatchInv
    BY InvSplit
  <1>2. PopupInv' /\ notify_notification' = notify_notification
    BY <1>1 DEF UserDismisses, ServerExpires, ServerClose, PopupInv, PopupType,
       WarningIsTracked, NoOrphanOnScreen, WarningIsHonest
  <1>3. WatchInv' /\ UNCHANGED <<watch_vars, mirror_vars, device>>
    BY <1>1 DEF UserDismisses, ServerExpires, WatchInv, watch_vars
  <1>4. QED
    BY <1>2, <1>3, QuietStepKeeps

LEMMA ServerStepKeeps ==
    ASSUME NotifierInv, ServerStops \/ \E k \in ServerKind : ServerStarts(k)
    PROVE  NotifierInv'
  <1>1. PopupInv /\ WatchInv
    BY InvSplit
  <1>2. CASE ServerStops
    <2>1. PopupInv' /\ notify_notification' = notify_notification
      BY <1>1, <1>2 DEF ServerStops, PopupInv, PopupType, WarningIsTracked,
         NoOrphanOnScreen, WarningIsHonest
    <2>2. WatchInv' /\ UNCHANGED <<watch_vars, mirror_vars, device>>
      BY <1>1, <1>2 DEF ServerStops, WatchInv, watch_vars
    <2>3. QED
      BY <2>1, <2>2, QuietStepKeeps
  <1>3. CASE \E k \in ServerKind : ServerStarts(k)
    <2>1. PopupInv' /\ notify_notification' = notify_notification
      BY <1>1, <1>3 DEF ServerStarts, PopupInv, PopupType, WarningIsTracked,
         NoOrphanOnScreen, WarningIsHonest, popup_vars
    <2>2. WatchInv' /\ UNCHANGED <<watch_vars, mirror_vars, device>>
      BY <1>1, <1>3 DEF ServerStarts, WatchInv, watch_vars
    <2>3. QED
      BY <2>1, <2>2, QuietStepKeeps
  <1>4. QED
    BY <1>2, <1>3

LEMMA SetBusKeeps ==
    ASSUME NotifierInv, NEW c \in BOOLEAN, SetBus(c)
    PROVE  NotifierInv'
  <1>1. PopupInv /\ WatchInv
    BY InvSplit
  <1>2. PopupInv' /\ notify_notification' = notify_notification
    BY <1>1 DEF SetBus, PopupInv, PopupType, WarningIsTracked,
       NoOrphanOnScreen, WarningIsHonest, popup_vars
  <1>3. WatchInv' /\ UNCHANGED <<watch_vars, mirror_vars, device>>
    BY <1>1 DEF SetBus, WatchInv, watch_vars
  <1>4. QED
    BY <1>2, <1>3, QuietStepKeeps

LEMMA StutterKeeps ==
    ASSUME NotifierInv, UNCHANGED vars
    PROVE  NotifierInv'
  <1>1. PopupInv /\ WatchInv
    BY InvSplit
  <1>2. PopupInv' /\ notify_notification' = notify_notification
    BY <1>1 DEF vars, PopupInv, PopupType, WarningIsTracked,
       NoOrphanOnScreen, WarningIsHonest, popup_vars
  <1>3. WatchInv' /\ UNCHANGED <<watch_vars, mirror_vars, device>>
    BY <1>1 DEF vars, WatchInv, watch_vars
  <1>4. QED
    BY <1>2, <1>3, QuietStepKeeps

LEMMA NextKeeps == NotifierInv /\ [Next]_vars => NotifierInv'
  <1> SUFFICES ASSUME NotifierInv, [Next]_vars PROVE NotifierInv'
    OBVIOUS
  <1>1. CASE \E b \in Batteries \cup {NULL} : SetBattery(b)
    BY <1>1, SetBatteryKeeps
  <1>2. CASE \E b \in Batteries, d \in Device : BatteryChanges(b, d)
    BY <1>2, BatteryChangesKeeps
  <1>3. CASE \E b \in Batteries, k \in Kinds : BatteryKindChanges(b, k)
    BY <1>3, BatteryKindChangesKeeps
  <1>4. CASE \E c \in BOOLEAN : SetBus(c)
    BY <1>4, SetBusKeeps
  <1>5. CASE Dispose
    BY <1>5, DisposeKeeps
  <1>6. CASE \E n \in NotificationIds : UserDismisses(n) \/ ServerExpires(n)
    BY <1>6, ClosedByOthersKeeps
  <1>7. CASE \E n \in NotificationIds : NotificationClosed(n)
    BY <1>7, NotificationClosedKeeps
  <1>8. CASE ServerStops \/ \E k \in ServerKind : ServerStarts(k)
    BY <1>8, ServerStepKeeps
  <1>9. CASE UNCHANGED vars
    BY <1>9, StutterKeeps
  <1>10. QED
    BY <1>1, <1>2, <1>3, <1>4, <1>5, <1>6, <1>7, <1>8, <1>9 DEF Next

-----------------------------------------------------------------------------
(* The invariants hold in every reachable state: the types, and that a       *)
(* warning is tracked, honest, due, and the only one on the screen.          *)
THEOREM Safety == Spec => []NotifierInv
  BY InitInv, NextKeeps, PTL DEF Spec

(* The notifier's state has its types, for any batteries and servers.        *)
THEOREM TypesHold == Spec => []TypeOK
  <1>1. NotifierInv => TypeOK
    BY DEF NotifierInv
  <1>2. QED
    BY <1>1, Safety, PTL

(* IsWarning on the bus, the notification that is held, its callback and the *)
(* screen never come apart, but for a server that died and signals on their  *)
(* way (notification_show, notification_clear,                               *)
(* on_notify_notification_finalized).                                        *)
THEOREM BusAndScreenAgree == Spec => []WarningMatchesScreen
  <1>1. NotifierInv => WarningMatchesScreen
    BY DEF NotifierInv
  <1>2. QED
    BY <1>1, Safety, PTL

(* The bus and what is remembered of the battery agree with it               *)
(* (on_battery_property_changed, set_battery).                               *)
THEOREM BusAndBatteryAgree == Spec => []MirrorAgrees
  <1>1. NotifierInv => MirrorAgrees
    BY DEF NotifierInv
  <1>2. QED
    BY <1>1, Safety, PTL

(* A warning is only ever up for a low battery that is discharging           *)
(* (on_battery_property_changed, set_battery and the closed signal).         *)
THEOREM WarningIsDue == Spec => []WarnsOnlyWhenEndangered
  <1>1. NotifierInv => WarnsOnlyWhenEndangered
    BY DEF NotifierInv
  <1>2. QED
    BY <1>1, Safety, PTL

-----------------------------------------------------------------------------
(* Action properties                                                         *)

(* Only a new battery and a change of the battery can bring up a warning.    *)
LEMMA QuietSteps ==
    ASSUME NotifierInv, NewWarning, Next
    PROVE  \/ \E b \in Batteries : SetBattery(b)
           \/ \E b \in Batteries, d \in Device : b = battery /\ BatteryChanges(b, d)
  <1>1. PopupInv
    BY InvSplit
  <1>2. CASE SetBattery(NULL) \/ Dispose
    <2>1. notification_clear
      BY <1>2 DEF SetBattery, ReplaceBattery, Dispose
    <2>2. QED
      BY <2>1 DEF notification_clear, popup_vars, NewWarning
  <1>3. CASE \E b \in Batteries, d \in Device : b # battery /\ BatteryChanges(b, d)
    BY <1>3 DEF BatteryChanges, popup_vars, NewWarning
  <1>4. CASE \/ \E b \in Batteries, k \in Kinds : BatteryKindChanges(b, k)
             \/ \E c \in BOOLEAN : SetBus(c)
             \/ \E k \in ServerKind : ServerStarts(k)
    BY <1>4 DEF BatteryKindChanges, SetBus, ServerStarts, popup_vars, NewWarning
  <1>5. CASE \/ ServerStops
             \/ \E n \in NotificationIds : UserDismisses(n) \/ ServerExpires(n)
    BY <1>5 DEF ServerStops, UserDismisses, ServerExpires, NewWarning
  <1>6. CASE \E n \in NotificationIds : NotificationClosed(n)
    BY <1>6 DEF NotificationClosed, on_notify_notification_finalized, NewWarning
  <1>7. QED
    BY <1>2, <1>3, <1>4, <1>5, <1>6 DEF Next

(* A new warning about the battery that was already being watched means that *)
(* the evaluation of its new properties called for one.                      *)
LEMMA NewWarningPopsUp ==
    ASSUME NotifierInv, NewWarning, NEW b \in Batteries, NEW d \in Device,
           b = battery, BatteryChanges(b, d)
    PROVE  PopsUp(get_battery_power_level(d), IsDischarging(d))
  <1> SUFFICES ASSUME ~PopsUp(get_battery_power_level(d), IsDischarging(d))
               PROVE  FALSE
    OBVIOUS
  <1>1. on_battery_property_changed(d, UNCHANGED popup_vars)
    BY DEF BatteryChanges
  <1>2. notification_clear \/ UNCHANGED popup_vars
    BY <1>1 DEF on_battery_property_changed
  <1>3. QED
    BY <1>2 DEF notification_clear, popup_vars, NewWarning

(* No nagging: a new warning about the same battery needs a reason in that   *)
(* very step (on_battery_property_changed and set_battery).                  *)
THEOREM WarnsOnlyForAReason == Spec => NoNagging
  <1> DEFINE Reason ==
        NewWarning /\ battery' = battery /\ UpToDate =>
          \/ get_battery_power_level(device'[battery]) < get_battery_power_level(device[battery])
          \/ ~IsDischarging(device[battery]) /\ IsDischarging(device'[battery])
  <1>1. ASSUME NotifierInv, Next PROVE Reason
    <2> SUFFICES ASSUME NewWarning, battery' = battery, UpToDate
                 PROVE  \/ get_battery_power_level(device'[battery])
                              < get_battery_power_level(device[battery])
                        \/ ~IsDischarging(device[battery]) /\ IsDischarging(device'[battery])
      OBVIOUS
    <2>1. PICK b \in Batteries, d \in Device : b = battery /\ BatteryChanges(b, d)
      BY <1>1, QuietSteps DEF SetBattery, ReplaceBattery
    <2>2. PopsUp(get_battery_power_level(d), IsDischarging(d))
      BY <1>1, <2>1, NewWarningPopsUp
    <2>3. WatchInv /\ MirrorType /\ MirrorAgrees
      BY <1>1, InvSplit
    <2>4. device'[battery] = d
      BY <2>1, <2>3 DEF BatteryChanges, WatchInv
    <2>5. battery # NULL
      BY <2>1, BatteriesAssumption
    <2>6. power_level = get_battery_power_level(device[battery])
          /\ discharging = IsDischarging(device[battery])
      BY <2>3, <2>5 DEF UpToDate, MirrorAgrees
    <2>7. CASE power_level > get_battery_power_level(d)
      <3>1. get_battery_power_level(d) \in PowerLevel /\ power_level \in PowerLevel
        BY <2>3, LevelType DEF MirrorType
      <3>2. get_battery_power_level(d) < power_level
        BY <2>7, <3>1 DEF PowerLevel
      <3>3. QED
        BY <2>4, <2>6, <3>2
    <2>8. CASE IsDischarging(d) /\ ~discharging
      BY <2>4, <2>6, <2>8
    <2>9. QED
      BY <2>2, <2>7, <2>8 DEF PopsUp
  <1>2. QED
    BY <1>1, Safety, PTL DEF Spec, NoNagging

(* Every step but a change of the watched battery leaves its state and its   *)
(* charge alone; its kind may change unnoticed.                              *)
LEMMA OthersKeepTheBattery ==
    ASSUME NotifierInv, Next, battery # NULL, battery' = battery,
           ~ \E d \in Device : BatteryChanges(battery, d)
    PROVE  \/ device'[battery] = device[battery]
           \/ device'[battery].kind # device[battery].kind
  <1>1. battery \in Batteries /\ device \in [Batteries -> Device]
    BY InvSplit DEF WatchInv
  <1>2. CASE \E b \in Batteries, d \in Device : BatteryChanges(b, d)
    <2>1. PICK b \in Batteries, d \in Device : BatteryChanges(b, d)
      BY <1>2
    <2>2. b # battery
      BY <2>1
    <2>3. QED
      BY <1>1, <2>1, <2>2 DEF BatteryChanges
  <1>3. CASE \E b \in Batteries, k \in Kinds : BatteryKindChanges(b, k)
    <2>1. PICK b \in Batteries, k \in Kinds : BatteryKindChanges(b, k)
      BY <1>3
    <2>2. CASE b = battery
      BY <1>1, <2>1, <2>2 DEF BatteryKindChanges, Device
    <2>3. CASE b # battery
      BY <1>1, <2>1, <2>3 DEF BatteryKindChanges
    <2>4. QED
      BY <2>2, <2>3
  <1>4. CASE \/ \E b \in Batteries \cup {NULL} : SetBattery(b)
             \/ \E c \in BOOLEAN : SetBus(c)
             \/ Dispose
             \/ \E n \in NotificationIds :
                    UserDismisses(n) \/ ServerExpires(n) \/ NotificationClosed(n)
             \/ ServerStops
             \/ \E k \in ServerKind : ServerStarts(k)
    BY <1>4, Zenon DEF SetBattery, SetBus, Dispose, UserDismisses, ServerExpires,
       NotificationClosed, ServerStops, ServerStarts
  <1>5. QED
    BY <1>2, <1>3, <1>4 DEF Next

(* The user is warned: a battery that gets worse while it discharges, or     *)
(* begins to discharge at a bad level, brings up a new notification, unless  *)
(* there is no server (on_battery_property_changed, notification_show).      *)
THEOREM WarnsWhenItWorsens == Spec => WarnedWhenItWorsens
  <1> DEFINE Due ==
        /\ battery # NULL /\ battery' = battery /\ server # "absent"
        /\ UpToDate /\ device'[battery].kind = device[battery].kind
        /\ Endangered(device'[battery])
        /\ \/ ~IsDischarging(device[battery])
           \/ get_battery_power_level(device'[battery]) < power_level
  <1>1. ASSUME NotifierInv, Next, Due PROVE NewWarning
    <2>1. PopupInv /\ MirrorType /\ WatchInv /\ MirrorAgrees
      BY <1>1, InvSplit
    <2>2. battery \in Batteries /\ device[battery] \in Device
      BY <1>1, <2>1 DEF WatchInv
    <2>3. device'[battery] # device[battery]
      <3>1. get_battery_power_level(device[battery]) \in PowerLevel
        BY <2>2, LevelType
      <3>2. QED
        BY <1>1, <3>1 DEF Endangered, UpToDate, PowerLevel
    <2>4. PICK d \in Device : BatteryChanges(battery, d)
      BY <1>1, <2>3, OthersKeepTheBattery
    <2>5. device'[battery] = d
      BY <2>1, <2>2, <2>4 DEF BatteryChanges, WatchInv
    <2>6. on_battery_property_changed(d, UNCHANGED popup_vars) /\ server' = server
      BY <2>4 DEF BatteryChanges
    <2>7. PopsUp(get_battery_power_level(d), IsDischarging(d))
      <3>1. get_battery_power_level(d) # POWER_LEVEL_OK /\ IsDischarging(d)
        BY <1>1, <2>5 DEF Endangered
      <3>2. CASE ~IsDischarging(device[battery])
        <4>1. ~discharging
          BY <1>1, <2>1, <3>2 DEF MirrorAgrees
        <4>2. QED
          BY <3>1, <4>1 DEF PopsUp
      <3>3. CASE get_battery_power_level(d) < power_level
        <4>1. power_level > get_battery_power_level(d)
          BY <2>1, <3>3, LevelType DEF MirrorType, PowerLevel
        <4>2. QED
          BY <3>1, <4>1 DEF PopsUp
      <3>4. QED
        BY <1>1, <2>5, <3>2, <3>3
    <2>8. power_level' = get_battery_power_level(d) /\ discharging' = IsDischarging(d)
      BY <2>6, EvaluationAgrees
    <2>9. Endangered(d)
      BY <1>1, <2>5
    <2>10. QED
      BY <1>1, <2>1, <2>6, <2>7, <2>8, <2>9, EvaluationKeeps
  <1>2. QED
    BY <1>1, Safety, PTL DEF Spec, WarnedWhenItWorsens

(* A late "closed" signal of a notification that was replaced does not take  *)
(* its successor's warning down (on_notify_notification_finalized).          *)
THEOREM LateClosedHarmsNobody == Spec => LateClosedIsIgnored
  <1> DEFINE Ignored ==
        \A n \in NotificationIds :
            n \in closing /\ n \notin closing' /\ n # notify_notification =>
                UNCHANGED <<notify_notification, dbus_is_warning>>
  <1>1. ASSUME NotifierInv, Next PROVE Ignored
    <2> SUFFICES ASSUME NEW n \in NotificationIds, n \in closing, n \notin closing',
                        n # notify_notification
                 PROVE  UNCHANGED <<notify_notification, dbus_is_warning>>
      OBVIOUS
    <2>1. notification_clear => closing \subseteq closing'
      BY DEF notification_clear, ServerClose, popup_vars
    <2>2. UNCHANGED popup_vars => closing' = closing
      BY DEF popup_vars
    <2>3. \A l : notification_show(l) => closing \subseteq closing'
      BY DEF notification_show, ServerClose
    <2>4. ASSUME NEW d, NEW ACTION otherwise, on_battery_property_changed(d, otherwise),
                 otherwise => closing \subseteq closing'
          PROVE  FALSE
      BY <2>1, <2>3, <2>4 DEF on_battery_property_changed
    <2>5. CASE \E b \in Batteries \cup {NULL} : SetBattery(b)
      <3>1. PICK b \in Batteries \cup {NULL} : SetBattery(b)
        BY <2>5
      <3>2. ~notification_clear
        BY <2>1
      <3>3. on_battery_property_changed(device[b],
                IF battery # NULL THEN notification_clear ELSE UNCHANGED popup_vars)
        BY <3>1, <3>2 DEF SetBattery, ReplaceBattery
      <3>4. QED
        BY <2>1, <2>2, <2>4, <3>3
    <2>6. CASE \E b \in Batteries, d \in Device : BatteryChanges(b, d)
      BY <2>2, <2>4, <2>6 DEF BatteryChanges
    <2>7. CASE \E m \in NotificationIds : NotificationClosed(m)
      <3>1. PICK m \in NotificationIds : NotificationClosed(m)
        BY <2>7
      <3>2. m = n
        BY <3>1 DEF NotificationClosed
      <3>3. QED
        BY <3>1, <3>2 DEF NotificationClosed, on_notify_notification_finalized
    <2>8. CASE \/ \E b \in Batteries, k \in Kinds : BatteryKindChanges(b, k)
               \/ \E c \in BOOLEAN : SetBus(c)
               \/ Dispose
               \/ \E m \in NotificationIds : UserDismisses(m) \/ ServerExpires(m)
               \/ ServerStops
               \/ \E k \in ServerKind : ServerStarts(k)
      BY <2>1, <2>8 DEF BatteryKindChanges, SetBus, Dispose, UserDismisses, ServerExpires,
         ServerStops, ServerStarts, ServerClose, popup_vars
    <2>9. QED
      BY <1>1, <2>5, <2>6, <2>7, <2>8 DEF Next
  <1>2. QED
    BY <1>1, Safety, PTL DEF Spec, LateClosedIsIgnored

(* A notifier that was disposed of has let go of everything.                 *)
DisposedInv == disposed => battery = NULL /\ notify_notification = NULL

(* Nothing changes a notifier that was disposed of (my_dispose).             *)
LEMMA DisposedStaysAlone ==
    ASSUME NotifierInv, DisposedInv, disposed, Next
    PROVE  UNCHANGED <<watch_vars, mirror_vars, notify_notification,
                       dbus_is_warning, weak_refs, bus, disposed>>
  <1>1. battery = NULL /\ notify_notification = NULL /\ weak_refs = {}
    BY InvSplit DEF DisposedInv, PopupInv, WarningIsTracked
  <1>2. CASE \E b \in Batteries, d \in Device : BatteryChanges(b, d)
    BY <1>1, <1>2, BatteriesAssumption DEF BatteryChanges, watch_vars, popup_vars
  <1>3. CASE \E n \in NotificationIds : NotificationClosed(n)
    BY <1>1, <1>3 DEF NotificationClosed
  <1>4. CASE \/ \E b \in Batteries, k \in Kinds : BatteryKindChanges(b, k)
             \/ \E n \in NotificationIds : UserDismisses(n) \/ ServerExpires(n)
             \/ ServerStops
             \/ \E k \in ServerKind : ServerStarts(k)
    BY <1>4 DEF BatteryKindChanges, UserDismisses, ServerExpires, ServerStops,
       ServerStarts, popup_vars
  <1>5. QED
    BY <1>2, <1>3, <1>4 DEF Next, SetBattery, SetBus, Dispose

(* Once disposed of, the notifier is left alone by every signal that was     *)
(* still on its way (my_dispose, notification_clear).                        *)
THEOREM DisposedForGood == Spec => DisposedIsFinal
  <1>1. Init => DisposedInv
    BY DEF Init, DisposedInv
  <1>2. ASSUME NotifierInv, DisposedInv, [Next]_vars PROVE DisposedInv'
    <2>1. CASE disposed /\ Next
      BY <1>2, <2>1, DisposedStaysAlone DEF DisposedInv, watch_vars
    <2>2. CASE Dispose
      BY <2>2 DEF Dispose, DisposedInv, notification_clear, popup_vars
    <2>3. CASE ~disposed /\ Next /\ ~Dispose
      <3>1. disposed' = disposed
        BY <2>3 DEF Next, SetBattery, BatteryChanges, BatteryKindChanges, SetBus,
           UserDismisses, ServerExpires, NotificationClosed, ServerStops, ServerStarts
      <3>2. QED
        BY <2>3, <3>1 DEF DisposedInv
    <2>4. CASE UNCHANGED vars
      BY <1>2, <2>4 DEF DisposedInv, vars, watch_vars, popup_vars
    <2>5. QED
      BY <1>2, <2>1, <2>2, <2>3, <2>4
  <1>3. Spec => []DisposedInv
    BY <1>1, <1>2, Safety, PTL DEF Spec
  <1>4. ASSUME NotifierInv, DisposedInv, Next
        PROVE  disposed => UNCHANGED <<watch_vars, mirror_vars, notify_notification,
                                       dbus_is_warning, weak_refs, bus>>
    BY <1>4, DisposedStaysAlone
  <1>5. QED
    BY <1>3, <1>4, Safety, PTL DEF Spec, DisposedIsFinal

-----------------------------------------------------------------------------
(* The notifier implements LowBatteryWarning                                 *)

(* An evaluation shows the user what LowBatteryWarning allows, given that    *)
(* the warning is "current" when the evaluation neither shows nor clears it. *)
LEMMA EvaluationRefines ==
    ASSUME NEW d \in Device, NEW ACTION otherwise, NEW STATE current,
           NotifierInv, server' = server,
           otherwise => UNCHANGED popup_vars \/ notification_clear,
           otherwise => dbus_is_warning' = current,
           on_battery_property_changed(d, otherwise)
    PROVE  LBW!See(current)
  <1> DEFINE l == get_battery_power_level(d)
             s == IsDischarging(d)
  <1>1. PopupInv /\ MirrorType
    BY InvSplit
  <1>2. /\ PopupInv'
        /\ power_level' = l /\ discharging' = s
        /\ ~Endangered(d) => notify_notification' = NULL
        /\ Endangered(d) /\ ~PopsUp(l, s) => otherwise
    <2>1. power_level' = l /\ discharging' = s
      BY EvaluationAgrees
    <2>2. QED
      BY <1>1, <2>1, EvaluationKeeps
  <1>3. l \in PowerLevel /\ s \in BOOLEAN /\ power_level \in PowerLevel
    BY <1>1, LevelType DEF MirrorType
  <1>4. dbus_is_warning' \in BOOLEAN
        /\ (notify_notification' = NULL => dbus_is_warning' = FALSE)
    BY <1>2 DEF PopupInv, PopupType, WarningIsTracked
  <1>5. dbus_is_warning' \in LBW!Outcomes(current, l, s)
    <2>1. CASE ~Endangered(d)
      BY <1>2, <1>4, <2>1 DEF Endangered, LBW!Outcomes, LBW!POWER_LEVEL_OK
    <2>2. CASE Endangered(d) /\ ~PopsUp(l, s)
      <3>1. dbus_is_warning' = current
        BY <1>2, <2>2
      <3>2. s /\ l # POWER_LEVEL_OK
        BY <2>2 DEF Endangered
      <3>3. ~(power_level > l) /\ discharging
        BY <2>2, <3>2 DEF PopsUp
      <3>4. ~(l < power_level)
        BY <1>3, <3>3 DEF PowerLevel
      <3>5. QED
        BY <3>1, <3>2, <3>3, <3>4 DEF LBW!Outcomes, LBW!POWER_LEVEL_OK
    <2>3. CASE Endangered(d) /\ PopsUp(l, s)
      <3>1. s /\ l # POWER_LEVEL_OK
        BY <2>3 DEF Endangered
      <3>2. power_level > l \/ ~discharging
        BY <2>3 DEF PopsUp
      <3>3. power_level > l => l < power_level
        BY <1>3 DEF PowerLevel
      <3>4. QED
        BY <1>4, <3>1, <3>2, <3>3 DEF LBW!Outcomes, LBW!POWER_LEVEL_OK
    <2>4. QED
      BY <2>1, <2>2, <2>3
  <1>6. l \in LBW!PowerLevel
    BY <1>3 DEF PowerLevel, LBW!PowerLevel, LBW!POWER_LEVEL_OK, LBW!POWER_LEVEL_CRITICAL
  <1>7. QED
    BY <1>2, <1>3, <1>5, <1>6 DEF LBW!See

(* Every step of the notifier is a step of LowBatteryWarning, or leaves what *)
(* the user sees unchanged.                                                  *)
LEMMA StepRefines ==
    ASSUME NotifierInv, Next
    PROVE  [LBW!Next]_(LBW!vars)
  <1>1. PopupInv /\ MirrorType /\ WatchInv /\ WarnsOnlyWhenEndangered
    BY InvSplit
  <1>2. notify_notification = NULL => dbus_is_warning = FALSE
    BY <1>1 DEF PopupInv, PopupType, WarningIsTracked
  <1>3. battery = NULL => dbus_is_warning = FALSE
    BY <1>1, <1>2 DEF WarnsOnlyWhenEndangered
  <1>4. notification_clear => dbus_is_warning' = FALSE
    BY <1>2 DEF notification_clear, popup_vars
  <1>5. ASSUME NEW b \in Batteries, SetBattery(b) PROVE LBW!Watch
    <2> DEFINE otherwise == IF battery # NULL THEN notification_clear
                                              ELSE UNCHANGED popup_vars
    <2>1. b # NULL /\ device[b] \in Device
      BY <1>1, BatteriesAssumption DEF WatchInv
    <2>2. on_battery_property_changed(device[b], otherwise) /\ battery' = b
          /\ server' = server
      BY <1>5, <2>1 DEF SetBattery, ReplaceBattery
    <2>3. otherwise => UNCHANGED popup_vars \/ notification_clear
      OBVIOUS
    <2>4. otherwise => dbus_is_warning' = FALSE
      BY <1>3, <1>4 DEF popup_vars
    <2> HIDE DEF otherwise
    <2>5. LBW!See(FALSE)
      BY <2>1, <2>2, <2>3, <2>4, EvaluationRefines
    <2>6. QED
      BY <2>1, <2>2, <2>5 DEF LBW!Watch
  <1>6. ASSUME NEW b \in Batteries, NEW d \in Device, BatteryChanges(b, d)
        PROVE  LBW!Change \/ UNCHANGED LBW!vars
    <2>1. CASE b # battery
      BY <1>6, <2>1 DEF BatteryChanges, LBW!vars, popup_vars
    <2>2. CASE b = battery
      <3>1. on_battery_property_changed(d, UNCHANGED popup_vars)
            /\ server' = server /\ battery' = battery /\ battery # NULL
        BY <1>6, <2>2, BatteriesAssumption DEF BatteryChanges
      <3>2. UNCHANGED popup_vars => dbus_is_warning' = dbus_is_warning
        BY DEF popup_vars
      <3>3. LBW!See(dbus_is_warning)
        BY <3>1, <3>2, EvaluationRefines
      <3>4. QED
        BY <3>1, <3>3 DEF LBW!Change
    <2>3. QED
      BY <2>1, <2>2
  <1>7. CASE SetBattery(NULL) \/ Dispose
    <2>1. notification_clear /\ battery' = NULL /\ UNCHANGED <<power_level, discharging>>
      BY <1>7 DEF SetBattery, ReplaceBattery, Dispose
    <2>2. QED
      BY <1>4, <2>1 DEF LBW!Next, LBW!Unwatch
  <1>8. ASSUME NEW n \in NotificationIds, NotificationClosed(n)
        PROVE  LBW!End \/ UNCHANGED LBW!vars
    <2>1. UNCHANGED watch_vars
      BY <1>8 DEF NotificationClosed
    <2>2. CASE UNCHANGED dbus_is_warning
      BY <2>1, <2>2 DEF LBW!vars, watch_vars
    <2>3. CASE dbus_is_warning' # dbus_is_warning
      <3>1. dbus_is_warning' = FALSE /\ dbus_is_warning \in BOOLEAN
        BY <1>1, <1>8, <2>3
        DEF NotificationClosed, on_notify_notification_finalized, PopupInv, PopupType
      <3>2. QED
        BY <2>1, <2>3, <3>1 DEF LBW!End, watch_vars
    <2>4. QED
      BY <2>2, <2>3
  <1>9. CASE \/ \E b \in Batteries, k \in Kinds : BatteryKindChanges(b, k)
             \/ \E c \in BOOLEAN : SetBus(c)
             \/ \E n \in NotificationIds : UserDismisses(n) \/ ServerExpires(n)
             \/ ServerStops
             \/ \E k \in ServerKind : ServerStarts(k)
    BY <1>9 DEF BatteryKindChanges, SetBus, UserDismisses, ServerExpires,
       ServerStops, ServerStarts, watch_vars, popup_vars, LBW!vars
  <1>10. QED
    BY <1>5, <1>6, <1>7, <1>8, <1>9 DEF Next, LBW!Next

(* The notifier implements the user's view of low-battery warnings.          *)
THEOREM Implementation == Spec => ImplementsLowBatteryWarning
  <1>1. Init => LBW!Init
    BY DEF Init, LBW!Init, LBW!POWER_LEVEL_OK
  <1>2. NotifierInv /\ [Next]_vars => [LBW!Next]_(LBW!vars)
    <2>1. ASSUME NotifierInv, Next PROVE [LBW!Next]_(LBW!vars)
      BY <2>1, StepRefines
    <2>2. UNCHANGED vars => UNCHANGED LBW!vars
      BY DEF vars, LBW!vars, watch_vars, popup_vars
    <2>3. QED
      BY <2>1, <2>2
  <1>3. QED
    BY <1>1, <1>2, Safety, PTL DEF Spec, ImplementsLowBatteryWarning, LBW!Spec

=============================================================================
