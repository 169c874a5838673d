------------------------- MODULE NotifierProperties -------------------------
(***************************************************************************)
(* What the notifier must guarantee, whatever the batteries, the user and  *)
(* the notification server do.                                             *)
(***************************************************************************)
EXTENDS Notifier

(* Is the battery one the user has to be warned of?                          *)
Endangered(d) == get_battery_power_level(d) # POWER_LEVEL_OK /\ IsDischarging(d)

-----------------------------------------------------------------------------
(* Invariants                                                                *)

(* IsWarning on the bus, the notification the notifier holds and the         *)
(* callback registered with it go together, across showing, replacing,       *)
(* closing, failed calls and late "closed" signals; in particular the test   *)
(* of on_notify_notification_finalized (notifier.c:227) never fails.         *)
WarningIsTracked ==
    /\ dbus_is_warning <=> notify_notification # NULL
    /\ weak_refs = IF notify_notification = NULL THEN {} ELSE {notify_notification}

(* No notification of ours stays on the screen once the notifier has let go  *)
(* of it: nobody would ever take it down.  And a "closed" signal that is     *)
(* still to be delivered is never about a notification that is displayed.    *)
NoOrphanOnScreen ==
    /\ screen \subseteq {notify_notification}
    /\ screen \cap closing = {}

(* While a warning is up the watched battery is low and discharging.         *)
WarnsOnlyWhenEndangered ==
    notify_notification # NULL =>
        battery # NULL /\ device[battery].percentage <= percent_low
                       /\ IsDischarging(device[battery])

(* The same device, were it a battery.                                       *)
AsBattery(d) == [d EXCEPT !.kind = UP_DEVICE_KIND_BATTERY]

(* The bus and the remembered values, which the next evaluation compares     *)
(* with, agree with the watched battery; a bad level is never out of date.   *)
(* (An OK can be: it is what a device of another kind evaluates to, and      *)
(* nobody listens to a change of kind.)                                      *)
MirrorAgrees ==
    battery # NULL =>
        /\ dbus_is_discharging = discharging
        /\ dbus_power_level = power_level_to_dbus_string(power_level)
        /\ discharging = IsDischarging(device[battery])
        /\ power_level # POWER_LEVEL_OK =>
              /\ power_level = get_battery_power_level(AsBattery(device[battery]))
              /\ dbus_power_percentage = device[battery].percentage \div 10

(* IsWarning is the truth: the warning is on the screen, or the signal that  *)
(* it was closed is on its way, or the server that displayed it died.        *)
WarningIsHonest ==
    notify_notification # NULL =>
        notify_notification \in screen \cup closing \cup lost

(* The three that relate IsWarning to the screen, as one: what D-Bus clients *)
(* read, what the notifier holds and what the user sees never come apart,    *)
(* but for a server that died and signals that are on their way.             *)
WarningMatchesScreen == WarningIsTracked /\ NoOrphanOnScreen /\ WarningIsHonest

(* Together these are inductive: see NotifierProofs.                         *)
NotifierInv ==
    /\ TypeOK
    /\ WarningMatchesScreen
    /\ WarnsOnlyWhenEndangered
    /\ MirrorAgrees

-----------------------------------------------------------------------------
(* Claims of the D-Bus documentation, data/...power.Battery.xml              *)

(* IsDischarging says "Whether or not the battery is discharging" (line 33): *)
(* without a battery none is.                                                *)
BusDischargingIsTrue ==
    bus /\ dbus_is_discharging => battery # NULL /\ IsDischarging(device[battery])

-----------------------------------------------------------------------------
(* Action properties                                                         *)

NewWarning == notify_notification' \notin {NULL, notify_notification}

(* No change of kind since the battery was last evaluated hides its level.   *)
UpToDate == power_level = get_battery_power_level(device[battery])

(* The user is not nagged: a new notification for the watched battery means  *)
(* its level got worse, or it began to discharge, in this very step.  A      *)
(* notification that was dismissed does not come back by itself.             *)
NoNagging ==
    [][NewWarning /\ battery' = battery /\ UpToDate =>
          \/ get_battery_power_level(device'[battery]) < get_battery_power_level(device[battery])
          \/ ~IsDischarging(device[battery]) /\ IsDischarging(device'[battery])]_vars

(* The user is warned: when the watched battery gets worse while discharging *)
(* or starts to discharge at a bad level, a new notification takes the place *)
(* of the old one, unless there is no server.                                *)
WarnedWhenItWorsens ==
    [][/\ battery # NULL /\ battery' = battery /\ server # "absent"
       /\ UpToDate /\ device'[battery].kind = device[battery].kind
       /\ Endangered(device'[battery])
       /\ \/ ~IsDischarging(device[battery])
          \/ get_battery_power_level(device'[battery]) < power_level
       => NewWarning]_vars

(* A late "closed" signal of a notification that has been replaced never     *)
(* takes the warning of its successor down.                                  *)
LateClosedIsIgnored ==
    [][\A n \in NotificationIds :
          n \in closing /\ n \notin closing' /\ n # notify_notification =>
              UNCHANGED <<notify_notification, dbus_is_warning>>]_vars

(* Once disposed of, the notifier is left alone: no signal changes it.       *)
DisposedIsFinal ==
    [][disposed => UNCHANGED <<watch_vars, mirror_vars, notify_notification,
                               dbus_is_warning, weak_refs, bus>>]_vars

-----------------------------------------------------------------------------
(* The notifier implements the user's view of low-battery warnings: every    *)
(* step of it is a step of LowBatteryWarning or invisible to the user.       *)

LBW == INSTANCE LowBatteryWarning WITH
           watching <- battery # NULL,
           level    <- power_level,
           warning  <- dbus_is_warning

ImplementsLowBatteryWarning == LBW!Spec

-----------------------------------------------------------------------------
(* Liveness                                                                  *)

(* A warning whose end is on its way does not stay up on the bus for ever:   *)
(* the notifier ends up with none, or with a new one that the user sees      *)
(* (on_notify_notification_finalized()); one lost with its server sends no   *)
(* signal.                                                                   *)
ClosedWarningEnds ==
    notify_notification \in closing ~> notify_notification \in screen \cup lost \cup {NULL}
=============================================================================
