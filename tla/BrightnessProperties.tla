------------------------ MODULE BrightnessProperties ------------------------
(***************************************************************************)
(* What the brightness object must guarantee across sessions, restarts of  *)
(* repowerd and writes of other programs.                                  *)
(***************************************************************************)
EXTENDS Brightness

TypeOK ==
    /\ percentage \in -(Scale * hardware.max) .. Scale
    /\ powerd_params \in Params \cup {NULL}
    /\ powerd_name_owner \in 0 .. MaxOwners
    /\ has_settings \in BOOLEAN /\ need_default \in BOOLEAN
    /\ saved \in 0 .. hardware.max
    /\ powerd_brightness \in 0 .. hardware.max
    /\ sent \in 0 .. hardware.max \cup {NULL}
    /\ previous \in Brightnesses
    /\ chosen \in Brightnesses

(* Once its bounds are known, the repowerd that is running has been asked    *)
(* for the brightness that is saved for the next session, last and by us:    *)
(* each repowerd anew, for it knows nothing of what the last one was asked   *)
(* for, and whatever became of earlier calls.  Only when another program has *)
(* written to the schema since, which does not set the backlight, may the    *)
(* two differ, until the slider is moved or repowerd restarts.               *)
ScreenIsRestored ==
    powerd_params # NULL /\ has_settings /\ ~disposed /\ ~foreign => sent = saved

(* Once the bounds are known, the slider stands at the brightness that is    *)
(* saved or at the one that repowerd reports, never at one computed with     *)
(* other bounds or at one overwritten since; but if nothing was reported     *)
(* since the bounds arrived (restoring what is saved writes the value that   *)
(* the key has, and nothing else updates the slider), it still stands at 0.  *)
PercentageIsCurrent ==
    powerd_params # NULL /\ has_settings /\ ~disposed =>
        percentage \in IF reported
                       THEN {brightness_to_percentage(hardware, b) : b \in {saved, powerd_brightness}}
                       ELSE {0}

(* What repowerd does, starting, stopping, answering or following the light  *)
(* in the room, never changes the brightness saved for the next session; but *)
(* once, in the user's first session, the hardware's default is saved.       *)
RestartKeepsBrightness ==
    [][powerd_vars' # powerd_vars =>
          \/ saved' = saved
          \/ need_default /\ ~need_default' /\ saved' = hardware.default]_vars

(* The claim of the comment brightness.c:256, "not the first time, so        *)
(* restore the previous session's brightness", allowing for what was chosen  *)
(* in this session before the bounds arrived: what is restored is what the   *)
(* previous session saved, or what the user or another program chose since.  *)
PreviousBrightnessIsRestored ==
    [][powerd_params = NULL /\ powerd_params' # NULL /\ has_settings /\ ~need_default =>
          sent' \in {previous, chosen}]_vars
=============================================================================
