------------------------------ MODULE Notifier ------------------------------
(***************************************************************************)
(* IndicatorPowerNotifier (src/src/notifier.c): pops up and takes down the *)
(* low-battery notification and mirrors the battery on the D-Bus object    *)
(* .../Battery.  The notification server, libnotify's "closed" signal and  *)
(* the battery objects the notifier watches are its environment.           *)
(*                                                                         *)
(* Calls to the notification server are synchronous in libnotify, so a     *)
(* call is answered inside the step that makes it.  NotificationClosed is  *)
(* a signal: it is in flight (closing) until the main loop delivers it.    *)
(* Signals of different notifications may be delivered in any order.       *)
(***************************************************************************)
EXTENDS PowerDevice

CONSTANTS
    Batteries,       \* IndicatorPowerDevice objects the notifier may be given
    NotificationIds, \* ids the notification server hands out
    Kinds, States,   \* kinds and states the battery objects take
    Percentages,     \* and their charge values
    NULL             \* no battery, no notification

ASSUME BatteriesAssumption == NULL \notin Batteries
ASSUME IdsAssumption == NULL \notin NotificationIds
ASSUME DeviceAssumption == /\ Kinds \subseteq UpDeviceKind
                           /\ States \subseteq UpDeviceState
                           /\ Percentages \subseteq Percentage

VARIABLES
    \* private state of the notifier
    battery,             \* the battery being watched, or NULL
    power_level,         \* its level when it was last evaluated
    discharging,         \* whether it was discharging when last evaluated
    notify_notification, \* the notification being shown, or NULL
    weak_refs,           \* notifications whose finalization calls us back
    caps,                \* cached server capabilities
    bus,                 \* whether there is a bus connection
    disposed,            \* my_dispose() has run
    \* properties of the exported skeleton dbus_battery
    dbus_power_level, dbus_power_percentage,
    dbus_is_discharging, dbus_is_warning,
    \* environment
    device,     \* the properties of each battery object
    server,     \* what the notification server supports, or "absent"
    screen,     \* our notifications the server displays
    persistent, \* those of them that were sent with NOTIFY_EXPIRES_NEVER
    closing,    \* notifications with a NotificationClosed signal in flight
    lost        \* notifications displayed by a server that died

watch_vars  == <<battery, power_level, discharging>>
popup_vars  == <<notify_notification, weak_refs, caps, dbus_is_warning,
                 screen, persistent, closing, lost>>
mirror_vars == <<dbus_power_level, dbus_power_percentage, dbus_is_discharging>>
vars == <<watch_vars, popup_vars, mirror_vars, bus, disposed, device, server>>

-----------------------------------------------------------------------------
(* Types                                                                     *)

(* What a string property of a skeleton reads as until it is first set.      *)
SkeletonDefault == ""

Device == [kind : Kinds, state : States, percentage : Percentages]

(* Features of a notification server: with "actions" or without ("plain").   *)
ServerKind == {"actions", "plain"}

TypeOK ==
    /\ battery \in Batteries \cup {NULL}
    /\ power_level \in PowerLevel
    /\ discharging \in BOOLEAN
    /\ notify_notification \in NotificationIds \cup {NULL}
    /\ weak_refs \in SUBSET NotificationIds
    /\ caps \in ServerKind \cup {"unqueried"}
    /\ bus \in BOOLEAN
    /\ disposed \in BOOLEAN
    /\ dbus_power_level \in {SkeletonDefault, "ok", "low", "very_low", "critical"}
    /\ dbus_power_percentage \in 0 .. 100
    /\ dbus_is_discharging \in BOOLEAN
    /\ dbus_is_warning \in BOOLEAN
    /\ device \in [Batteries -> Device]
    /\ server \in ServerKind \cup {"absent"}
    /\ screen \in SUBSET NotificationIds
    /\ persistent \in SUBSET NotificationIds
    /\ closing \in SUBSET NotificationIds
    /\ lost \in SUBSET NotificationIds

(* indicator_power_notifier_init(): the level is initialised, the skeleton's *)
(* own copy of it is not.                                                    *)
Init ==
    /\ battery = NULL
    /\ power_level = POWER_LEVEL_OK
    /\ discharging = FALSE
    /\ notify_notification = NULL
    /\ weak_refs = {}
    /\ caps = "unqueried"
    /\ bus = FALSE
    /\ disposed = FALSE
    /\ dbus_power_level = SkeletonDefault
    /\ dbus_power_percentage = 0
    /\ dbus_is_discharging = FALSE
    /\ dbus_is_warning = FALSE
    /\ device \in [Batteries -> Device]
    /\ server \in ServerKind \cup {"absent"}
    /\ screen = {}
    /\ persistent = {}
    /\ closing = {}
    /\ lost = {}

-----------------------------------------------------------------------------
(* The notification                                                          *)

(* CloseNotification: the server takes the notification off the screen and   *)
(* emits NotificationClosed.  For a notification it no longer displays, and  *)
(* when there is no server, the call fails and the notifier only warns.      *)
ServerClose(n) ==
    /\ screen' = screen \ {n}
    /\ persistent' = persistent \ {n}
    /\ closing' = IF n \in screen THEN closing \cup {n} ELSE closing

(* Mistake: the weak reference is kept.                                      *)
Bug_ClearKeepsWeakRef ==
    IF notify_notification # NULL
    THEN /\ ServerClose(notify_notification)
         /\ notify_notification' = NULL
         /\ dbus_is_warning' = FALSE
         /\ UNCHANGED <<weak_refs, caps, lost>>
    ELSE UNCHANGED popup_vars

notification_clear ==
    IF notify_notification # NULL
    THEN /\ weak_refs' = weak_refs \ {notify_notification}
         /\ ServerClose(notify_notification)
         /\ notify_notification' = NULL
         /\ dbus_is_warning' = FALSE
         /\ UNCHANGED <<caps, lost>>
    ELSE UNCHANGED popup_vars

(* The capabilities are asked for once; a server that is absent at that      *)
(* moment counts as one without actions from then on.                        *)
ensure_caps_queried ==
    IF caps = "unqueried"
    THEN IF server = "absent" THEN "plain" ELSE server
    ELSE caps

FreshIds == NotificationIds \ (screen \cup closing \cup weak_refs)

(* Mistake: the old notification is forgotten instead of closed.             *)
Bug_ShowForgetsOld(level) ==
    IF level = POWER_LEVEL_OK \/ server = "absent" THEN UNCHANGED popup_vars
    ELSE \E n \in FreshIds :
         /\ notify_notification' = n
         /\ weak_refs' = (weak_refs \ {notify_notification}) \cup {n}
         /\ dbus_is_warning' = TRUE
         /\ screen' = screen \cup {n}
         /\ UNCHANGED <<caps, persistent, closing, lost>>

(* Replaces the notification by a new one.  The call fails exactly when      *)
(* there is no server; then nothing is kept.                                 *)
notification_show(level) ==
    IF level = POWER_LEVEL_OK \/ server = "absent"
    THEN /\ weak_refs' = weak_refs \ {notify_notification}
         /\ ServerClose(notify_notification)
         /\ notify_notification' = NULL
         /\ dbus_is_warning' = FALSE
         /\ caps' = IF level = POWER_LEVEL_OK THEN caps ELSE ensure_caps_queried
         /\ UNCHANGED lost
    ELSE \E n \in FreshIds :
         /\ notify_notification' = n
         /\ weak_refs' = (weak_refs \ {notify_notification}) \cup {n}
         /\ dbus_is_warning' = TRUE
         /\ caps' = ensure_caps_queried
         /\ screen' = (screen \ {notify_notification}) \cup {n}
         /\ persistent' = (persistent \ {notify_notification})
                            \cup (IF ensure_caps_queried = "actions" THEN {n} ELSE {})
         /\ closing' = IF notify_notification \in screen
                       THEN closing \cup {notify_notification} ELSE closing
         /\ lost' = lost \ {n}

-----------------------------------------------------------------------------
(* The battery                                                               *)

(* Mistakes: any bad level pops up, charging or not; a level that is merely  *)
(* still bad pops up again; unplugging at a bad level does not pop up.       *)
Bug_PopsUpWhileCharging(new_power_level, new_discharging) ==
    \/ power_level > new_power_level
    \/ new_power_level # POWER_LEVEL_OK /\ new_discharging /\ ~discharging

Bug_PopsUpAtSameLevel(new_power_level, new_discharging) ==
    \/ new_discharging /\ power_level >= new_power_level
    \/ new_power_level # POWER_LEVEL_OK /\ new_discharging /\ ~discharging

Bug_UnplugIgnored(new_power_level, new_discharging) ==
    new_discharging /\ power_level > new_power_level

(* The condition under which a low-battery notification pops up, from the    *)
(* remembered level and state and the new ones.                              *)
PopsUp(new_power_level, new_discharging) ==
    \/ new_discharging /\ power_level > new_power_level
    \/ new_power_level # POWER_LEVEL_OK /\ new_discharging /\ ~discharging

(* The handler of notify::percentage and notify::state, for a battery whose  *)
(* properties are now d.  "otherwise" is what becomes of the notification    *)
(* when this call neither shows nor clears it.                               *)
on_battery_property_changed(d, otherwise) ==
    LET new_power_level == get_battery_power_level(d)
        new_discharging == IsDischarging(d)
    IN  /\ IF PopsUp(new_power_level, new_discharging)
           THEN notification_show(new_power_level)
           ELSE IF ~new_discharging \/ new_power_level = POWER_LEVEL_OK
           THEN notification_clear
           ELSE otherwise
        /\ dbus_power_level' = power_level_to_dbus_string(new_power_level)
        /\ dbus_power_percentage' = get_battery_power_percentage(d)
        /\ dbus_is_discharging' = new_discharging
        /\ power_level' = new_power_level
        /\ discharging' = new_discharging

(* Mistakes: the new battery is not evaluated until it changes; the warning  *)
(* about the old battery is left up.                                         *)
Bug_SetBatteryWithoutEvaluation(b) ==
    /\ ~disposed
    /\ b # battery
    /\ b # NULL => device[b].kind = UP_DEVICE_KIND_BATTERY
    /\ battery' = b
    /\ notification_clear
    /\ dbus_power_level' = power_level_to_dbus_string(POWER_LEVEL_OK)
    /\ UNCHANGED <<power_level, discharging, dbus_power_percentage,
                   dbus_is_discharging, bus, disposed, device, server>>

Bug_SetBatteryKeepsWarning(b) ==
    /\ ~disposed
    /\ b # battery
    /\ b # NULL => device[b].kind = UP_DEVICE_KIND_BATTERY
    /\ battery' = b
    /\ IF b # NULL
       THEN on_battery_property_changed(device[b], UNCHANGED popup_vars)
       ELSE UNCHANGED <<power_level, discharging, popup_vars, mirror_vars>>
    /\ UNCHANGED <<bus, disposed, device, server>>

(* indicator_power_notifier_set_battery(), for a battery whose properties    *)
(* are d.  Dropping the old battery clears the notification and resets the   *)
(* level on the bus; the remembered level and state, and the other bus       *)
(* properties, keep the old battery's values.                                *)
ReplaceBattery(b, d) ==
    /\ battery' = b
    /\ IF b # NULL
       THEN on_battery_property_changed(d,
                IF battery # NULL THEN notification_clear
                                  ELSE UNCHANGED popup_vars)
       ELSE /\ notification_clear
            /\ dbus_power_level' = power_level_to_dbus_string(POWER_LEVEL_OK)
            /\ UNCHANGED <<power_level, discharging,
                           dbus_power_percentage, dbus_is_discharging>>

SetBattery(b) ==
    /\ ~disposed
    /\ b # battery
    /\ b # NULL => device[b].kind = UP_DEVICE_KIND_BATTERY
    /\ ReplaceBattery(b, device[b])
    /\ UNCHANGED <<bus, disposed, device, server>>

(* A battery object gets new properties, of which percentage or state is     *)
(* one.  The notifications of one g_object_set() are frozen until all values *)
(* are stored, and the handler's second call finds nothing new.              *)
BatteryChanges(b, d) ==
    /\ device' = [device EXCEPT ![b] = d]
    /\ IF b = battery
       THEN on_battery_property_changed(d, UNCHANGED popup_vars)
       ELSE UNCHANGED <<power_level, discharging, popup_vars, mirror_vars>>
    /\ UNCHANGED <<battery, bus, disposed, server>>

(* Only the kind of a battery object changes; nothing listens to that.       *)
BatteryKindChanges(b, k) ==
    /\ device[b].kind # k
    /\ device' = [device EXCEPT ![b].kind = k]
    /\ UNCHANGED <<watch_vars, popup_vars, mirror_vars, bus, disposed, server>>

-----------------------------------------------------------------------------
(* The bus and the end                                                       *)

(* indicator_power_notifier_set_bus()                                        *)
SetBus(connected) ==
    /\ ~disposed
    /\ bus # connected
    /\ bus' = connected
    /\ UNCHANGED <<watch_vars, popup_vars, mirror_vars, disposed, device, server>>

(* Mistake: the notification outlives the notifier.                          *)
Bug_DisposeKeepsWarning ==
    /\ ~disposed
    /\ disposed' = TRUE
    /\ bus' = FALSE
    /\ battery' = NULL
    /\ UNCHANGED <<power_level, discharging, popup_vars, mirror_vars, device, server>>

(* my_dispose(): leaves the bus, clears the notification, drops the battery. *)
Dispose ==
    /\ ~disposed
    /\ disposed' = TRUE
    /\ bus' = FALSE
    /\ notification_clear
    /\ battery' = NULL
    /\ dbus_power_level' = IF battery # NULL
                           THEN power_level_to_dbus_string(POWER_LEVEL_OK)
                           ELSE dbus_power_level
    /\ UNCHANGED <<power_level, discharging, dbus_power_percentage,
                   dbus_is_discharging, device, server>>

-----------------------------------------------------------------------------
(* The notification server and libnotify                                     *)

(* The user dismisses a notification, or picks one of its actions.           *)
UserDismisses(n) ==
    /\ n \in screen
    /\ ServerClose(n)
    /\ UNCHANGED <<watch_vars, mirror_vars, notify_notification, weak_refs,
                   caps, dbus_is_warning, lost, bus, disposed, device, server>>

(* A notification sent without NOTIFY_EXPIRES_NEVER expires on its own.      *)
ServerExpires(n) ==
    /\ n \in screen \ persistent
    /\ ServerClose(n)
    /\ UNCHANGED <<watch_vars, mirror_vars, notify_notification, weak_refs,
                   caps, dbus_is_warning, lost, bus, disposed, device, server>>

(* Mistake: the notification that was closed is still taken for shown.       *)
Bug_FinalizedKeepsWarning(n) ==
    /\ weak_refs' = weak_refs \ {n}
    /\ UNCHANGED <<notify_notification, dbus_is_warning>>

(* Mistake: any notification's end counts as the end of the current one.     *)
Bug_ClosedEndsAny(n) ==
    /\ n \in closing
    /\ closing' = closing \ {n}
    /\ notify_notification' = NULL
    /\ dbus_is_warning' = FALSE
    /\ weak_refs' = weak_refs \ {n}
    /\ UNCHANGED <<watch_vars, mirror_vars, caps, screen, persistent, lost,
                   bus, disposed, device, server>>

(* libnotify delivers NotificationClosed: "closed" drops the last reference  *)
(* to the notification, and a weak reference that is still there calls       *)
(* on_notify_notification_finalized().                                       *)
on_notify_notification_finalized(n) ==
    /\ notify_notification' = IF n = notify_notification THEN NULL
                              ELSE notify_notification
    /\ dbus_is_warning' = IF n = notify_notification THEN FALSE
                          ELSE dbus_is_warning
    /\ weak_refs' = weak_refs \ {n}

NotificationClosed(n) ==
    /\ n \in closing
    /\ closing' = closing \ {n}
    /\ IF n \in weak_refs
       THEN on_notify_notification_finalized(n)
       ELSE UNCHANGED <<notify_notification, dbus_is_warning, weak_refs>>
    /\ UNCHANGED <<watch_vars, mirror_vars, caps, screen, persistent, lost,
                   bus, disposed, device, server>>

(* The server exits or crashes; what it displayed is gone and no signal says *)
(* so.                                                                       *)
ServerStops ==
    /\ server # "absent"
    /\ server' = "absent"
    /\ screen' = {}
    /\ persistent' = {}
    /\ lost' = lost \cup screen
    /\ UNCHANGED <<watch_vars, mirror_vars, notify_notification, weak_refs,
                   caps, dbus_is_warning, closing, bus, disposed, device>>

ServerStarts(kind) ==
    /\ server = "absent"
    /\ server' = kind
    /\ UNCHANGED <<watch_vars, popup_vars, mirror_vars, bus, disposed, device>>

-----------------------------------------------------------------------------
Next ==
    \/ \E b \in Batteries \cup {NULL} : SetBattery(b)
    \/ \E b \in Batteries, d \in Device : BatteryChanges(b, d)
    \/ \E b \in Batteries, k \in Kinds : BatteryKindChanges(b, k)
    \/ \E c \in BOOLEAN : SetBus(c)
    \/ Dispose
    \/ \E n \in NotificationIds : UserDismisses(n)
    \/ \E n \in NotificationIds : ServerExpires(n)
    \/ \E n \in NotificationIds : NotificationClosed(n)
    \/ ServerStops
    \/ \E k \in ServerKind : ServerStarts(k)

Spec == Init /\ [][Next]_vars

(* The main loop dispatches every signal it has received.                    *)
Fairness == \A n \in NotificationIds : WF_vars(NotificationClosed(n))

FairSpec == Spec /\ Fairness

=============================================================================
