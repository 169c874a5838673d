-------------------------- MODULE LowBatteryWarning --------------------------
(***************************************************************************)
(* What a user may rely on: when there is a low-battery warning, when one  *)
(* may appear and when it has to go.  No notification server, no signals,  *)
(* no D-Bus object: only the level and state last seen and the warning.    *)
(* Notifier.tla is shown to implement this specification.                  *)
(***************************************************************************)
EXTENDS PowerDevice

VARIABLES
    watching,    \* is there a battery?
    level,       \* its level, as last seen
    discharging, \* whether it was discharging, as last seen
    warning      \* is the user being warned?

vars == <<watching, level, discharging, warning>>

TypeOK ==
    /\ watching \in BOOLEAN
    /\ level \in PowerLevel
    /\ discharging \in BOOLEAN
    /\ warning \in BOOLEAN

Init ==
    /\ watching = FALSE
    /\ level = POWER_LEVEL_OK
    /\ discharging = FALSE
    /\ warning = FALSE

(* What may become of a warning (or none: current) when the battery is now   *)
(* at level l and discharging or not (d).  A warning may appear only because *)
(* the level got worse or the discharging began; showing it may fail.        *)
Outcomes(current, l, d) ==
    IF ~d \/ l = POWER_LEVEL_OK THEN {FALSE}
    ELSE IF l < level \/ ~discharging THEN BOOLEAN
    ELSE {current}

See(current) ==
    \E l \in PowerLevel, d \in BOOLEAN :
        /\ level' = l
        /\ discharging' = d
        /\ warning' \in Outcomes(current, l, d)

(* The battery changes.                                                      *)
Change == watching /\ See(warning) /\ UNCHANGED watching

(* Another battery, or a first one: it is compared with the last one seen,   *)
(* and a warning about the old battery does not carry over.                  *)
Watch == watching' = TRUE /\ See(FALSE)

Unwatch ==
    /\ watching' = FALSE
    /\ warning' = FALSE
    /\ UNCHANGED <<level, discharging>>

(* The user or the notification server ends the warning.                     *)
End ==
    /\ warning
    /\ warning' = FALSE
    /\ UNCHANGED <<watching, level, discharging>>

Next == Change \/ Watch \/ Unwatch \/ End

Spec == Init /\ [][Next]_vars

(* The user is warned only of a low battery that is discharging.             *)
WarningIsDue ==
    warning => watching /\ level # POWER_LEVEL_OK /\ discharging

=============================================================================
