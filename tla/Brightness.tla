----------------------------- MODULE Brightness -----------------------------
(***************************************************************************)
(* IndicatorPowerBrightness (src/src/brightness.c): the brightness slider, *)
(* repowerd's bounds for it, the backlight and the brightness that the     *)
(* schema keeps for the next session.                                      *)
(*                                                                         *)
(* repowerd, the D-Bus proxy for it, the schema and other programs that    *)
(* write to the schema are the environment.  repowerd's owner and property *)
(* are modelled as the proxy sees them.  Unity.Screen belongs to repowerd:  *)
(* what it was asked for is lost when repowerd stops, and a call without a *)
(* repowerd fails.  GSettings reports a change inside the call that makes  *)
(* it, and may or may not report a write that changes nothing.  A          *)
(* percentage is an integer, in parts of Scale; the code's doubles are     *)
(* exact where Scale is a multiple of the range.                           *)
(***************************************************************************)
EXTENDS Integers

CONSTANTS
    Params,     \* [min, max, default]: bounds repowerd may have
    Scale,      \* 100%
    SliderStep, \* the slider is moved in steps of this
    NULL,       \* nothing known, nothing sent
    MaxOwners   \* bound: how often repowerd is started

ASSUME ScaleAssumption == Scale \in Nat \ {0} /\ SliderStep \in Nat \ {0}
ASSUME ParamsAssumption ==
    \A h \in Params : /\ h \in [min : Nat, max : Nat, default : Nat]
                      /\ h.min < h.max
                      /\ h.default \in h.min .. h.max
                      /\ Scale % (h.max - h.min) = 0
ASSUME NullAssumption == NULL \notin Params
ASSUME OwnersAssumption == MaxOwners \in Nat

VARIABLES
    \* private state of the object
    percentage,
    powerd_params,     \* NULL: have_powerd_params is FALSE
    powerd_name_owner, \* the repowerd last seen, or 0
    powerd_proxy,      \* is there a proxy, and with it the system bus?
    disposed,
    \* environment
    has_settings,      \* does the schema have the key?
    saved,             \* "brightness" in the schema
    need_default,      \* "brightness-needs-hardware-default" in the schema
    hardware,          \* repowerd's bounds
    owner,             \* the running repowerd, or 0
    owners,            \* how many have been started
    powerd_brightness, \* repowerd's property; 0 if there is none
    params_call,       \* the repowerd that is being asked for its bounds, or 0
    sent,              \* what the running repowerd was last asked for, or NULL
    \* history
    reported,          \* was the percentage computed with bounds that were known?
    previous,          \* the brightness that the previous session saved
    chosen,            \* what the user, or another program, chose last
    foreign            \* has another program written since we did?

object_vars == <<percentage, powerd_params, powerd_name_owner, powerd_proxy, disposed>>
schema_vars == <<has_settings, saved, need_default>>
powerd_vars == <<hardware, owner, owners, powerd_brightness, params_call>>
slider_vars == <<percentage, reported>>
vars == <<object_vars, schema_vars, powerd_vars, sent, reported, previous, chosen, foreign>>

Brightnesses == hardware.min .. hardware.max
Percentages  == {p \in 0 .. Scale : p % SliderStep = 0}

-----------------------------------------------------------------------------
(* Conversions, with the bounds h, or NULL if they are not known             *)

brightness_to_percentage(h, brightness) ==
    IF h = NULL THEN 0 ELSE ((brightness - h.min) * Scale) \div (h.max - h.min)

(* Mistake: the lower bound is counted twice.                                *)
Bug_ScalesByMax(h, p) ==
    IF h = NULL THEN 0 ELSE h.min + (p * h.max) \div Scale

percentage_to_brightness(h, p) ==
    IF h = NULL THEN 0 ELSE h.min + (p * (h.max - h.min)) \div Scale

-----------------------------------------------------------------------------
Init ==
    /\ percentage = 0
    /\ powerd_params = NULL
    /\ powerd_name_owner = 0
    /\ powerd_proxy = FALSE
    /\ disposed = FALSE
    /\ hardware \in Params
    /\ has_settings \in BOOLEAN
    /\ need_default \in BOOLEAN
    /\ saved \in Brightnesses
    /\ owner = 0
    /\ owners = 0
    /\ powerd_brightness = 0
    /\ params_call = 0
    /\ sent = NULL
    /\ reported = FALSE
    /\ previous = saved
    /\ chosen = saved
    /\ foreign = FALSE

(* The bounds known, h, are given: set_brightness_local() is called while    *)
(* they change.                                                              *)
set_brightness_local(h, brightness) ==
    /\ percentage' = brightness_to_percentage(h, brightness)
    /\ reported' = (h # NULL)

(* Writing the schema reports the change, which updates the percentage; a    *)
(* write of the value that is there already may go unreported.               *)
WriteSaved(h, brightness) ==
    /\ saved' = brightness
    /\ \/ set_brightness_local(h, brightness)
       \/ brightness = saved /\ UNCHANGED slider_vars

(* Without the proxy there is no bus, without repowerd the call fails.       *)
set_uscreen_user_brightness(brightness) ==
    sent' = IF powerd_proxy /\ owner # 0 THEN brightness ELSE sent

(* The backlight is set and the brightness is saved.                         *)
set_brightness_global(h, brightness) ==
    /\ set_uscreen_user_brightness(brightness)
    /\ foreign' = FALSE
    /\ IF has_settings THEN WriteSaved(h, brightness)
       ELSE set_brightness_local(h, brightness) /\ UNCHANGED saved

(* on_powerd_name_owner_changed(): another repowerd is asked for its bounds. *)
(* A call to the repowerd that is gone fails.                                *)
NameOwnerChanges(new) ==
    /\ powerd_name_owner' = new
    /\ IF new # powerd_name_owner
       THEN powerd_params' = NULL /\ params_call' = new
       ELSE UNCHANGED <<powerd_params, params_call>>

on_powerd_proxy_ready ==
    /\ ~disposed /\ ~powerd_proxy
    /\ powerd_proxy' = TRUE
    /\ NameOwnerChanges(owner)
    /\ UNCHANGED <<slider_vars, disposed, schema_vars, hardware, owner, owners,
                   powerd_brightness, sent, previous, chosen, foreign>>

(* Mistake: the default is restored each time.                               *)
Bug_RestoresDefault == set_brightness_global(hardware, hardware.default)

(* Mistake: the saved brightness is restored at the start only, not after a  *)
(* restart of repowerd.                                                      *)
Bug_RestoresOnce ==
    IF owners = 1 THEN set_brightness_global(hardware, saved)
    ELSE set_brightness_local(hardware, saved) /\ UNCHANGED <<saved, sent, foreign>>

RestoreSaved == set_brightness_global(hardware, saved)

(* In the user's first session the hardware's default is saved, in others    *)
(* the saved brightness is restored.                                         *)
on_powerd_brightness_params_ready ==
    /\ params_call # 0
    /\ params_call' = 0
    /\ powerd_params' = hardware
    /\ IF ~has_settings THEN UNCHANGED <<slider_vars, saved, need_default, sent, foreign, chosen>>
       ELSE IF need_default
       THEN /\ set_brightness_global(hardware, hardware.default)
            /\ need_default' = FALSE
            /\ chosen' = hardware.default
       ELSE RestoreSaved /\ UNCHANGED <<need_default, chosen>>
    /\ UNCHANGED <<powerd_name_owner, powerd_proxy, disposed, has_settings, hardware, owner,
                   owners, powerd_brightness, previous>>

(* The call fails; it is not repeated.                                       *)
ParamsCallFails ==
    /\ params_call # 0
    /\ params_call' = 0
    /\ UNCHANGED <<object_vars, schema_vars, hardware, owner, owners, powerd_brightness,
                   sent, reported, previous, chosen, foreign>>

(* The user moves the slider; also before the bounds are known.              *)
set_percentage(p) ==
    /\ ~disposed
    /\ set_brightness_global(powerd_params, percentage_to_brightness(powerd_params, p))
    /\ chosen' = percentage_to_brightness(hardware, p)
    /\ UNCHANGED <<powerd_params, powerd_name_owner, powerd_proxy, disposed, has_settings,
                   need_default, powerd_vars, previous>>

(* Mistake: the change is not taken over.                                    *)
Bug_SchemaIgnored(brightness) == UNCHANGED slider_vars

on_brightness_changed_in_schema(brightness) ==
    set_brightness_local(powerd_params, brightness)

Dispose ==
    /\ ~disposed
    /\ disposed' = TRUE
    /\ powerd_proxy' = FALSE
    /\ powerd_name_owner' = 0
    /\ params_call' = 0
    /\ UNCHANGED <<slider_vars, powerd_params, schema_vars, hardware, owner, owners,
                   powerd_brightness, sent, previous, chosen, foreign>>

-----------------------------------------------------------------------------
(* repowerd and other programs                                               *)

(* The proxy reports the property first, then the owner.  Another repowerd   *)
(* knows nothing of what the last one was asked for.                         *)
PowerdChanges(new, brightness) ==
    /\ owner' = new
    /\ powerd_brightness' = brightness
    /\ sent' = IF new = owner THEN sent ELSE NULL
    /\ IF powerd_proxy
       THEN /\ set_brightness_local(powerd_params, brightness)
            /\ NameOwnerChanges(new)
       ELSE UNCHANGED <<slider_vars, powerd_params, powerd_name_owner, params_call>>
    /\ UNCHANGED <<powerd_proxy, disposed, schema_vars, hardware, previous, chosen, foreign>>

PowerdStarts(brightness) ==
    /\ owner = 0 /\ owners < MaxOwners
    /\ owners' = owners + 1
    /\ PowerdChanges(owners + 1, brightness)

PowerdStops ==
    /\ owner # 0
    /\ PowerdChanges(0, 0)
    /\ UNCHANGED owners

(* on_powerd_brightness_changed(): what we sent has arrived, or the light in *)
(* the room has changed.                                                     *)
PowerdBrightnessChanges(brightness) ==
    /\ owner # 0 /\ brightness # powerd_brightness
    /\ PowerdChanges(owner, brightness)
    /\ UNCHANGED owners

SchemaChanges(brightness) ==
    /\ ~disposed /\ has_settings /\ brightness # saved
    /\ saved' = brightness
    /\ chosen' = brightness
    /\ foreign' = TRUE
    /\ on_brightness_changed_in_schema(brightness)
    /\ UNCHANGED <<powerd_params, powerd_name_owner, powerd_proxy, disposed, has_settings,
                   need_default, powerd_vars, sent, previous>>

-----------------------------------------------------------------------------
Next ==
    \/ on_powerd_proxy_ready
    \/ on_powerd_brightness_params_ready
    \/ ParamsCallFails
    \/ \E p \in Percentages : set_percentage(p)
    \/ Dispose
    \/ \E b \in Brightnesses : PowerdStarts(b)
    \/ PowerdStops
    \/ \E b \in Brightnesses : PowerdBrightnessChanges(b)
    \/ \E b \in Brightnesses : SchemaChanges(b)

Spec == Init /\ [][Next]_vars
=============================================================================
