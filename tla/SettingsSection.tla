---------------------------- MODULE SettingsSection ----------------------------
(***************************************************************************)
(* The settings section of the phone's menu (src/src/service.c) and the    *)
(* actions behind its switches: keep-screen-on, flashlight, and            *)
(* auto-brightness, which is bound to a key of the schema by way of a      *)
(* property of the brightness object.  The section is rebuilt when that    *)
(* object learns from repowerd whether the phone can adjust its brightness *)
(* by itself; what else it offers stays as it was.                         *)
(***************************************************************************)
EXTENDS KeepScreenOn, Flashlight

CONSTANT IsLomiri  \* is keep-screen-on supported?

ASSUME LomiriAssumption == IsLomiri \in BOOLEAN

VARIABLES
    auto_brightness,     \* the action's state
    auto_saved,          \* "auto-brightness" in the schema
    has_settings,        \* does the brightness object have the schema?
    powerd_ab_supported, \* what it last heard from repowerd
    section              \* the items of the section that come and go

auto_vars == <<auto_brightness, auto_saved, has_settings, powerd_ab_supported>>
vars == <<kso_vars, flash_vars, torch_vars, auto_vars, section>>

(* The section, given what the brightness object and the flashlight say; the *)
(* greeter's is the same without keep-screen-on.                             *)
create_phone_settings_section(ab_supported, client, active) ==
    [auto_brightness |-> ab_supported,
     flashlight      |-> probe_flashlight(client),
     warning         |-> probe_flashlight(client) /\ active,
     keep_screen_on  |-> IsLomiri]

(* The property of the brightness object: FALSE without the schema.          *)
AutoProperty == has_settings /\ auto_saved

(* The action takes the property over, and the menu is built.                *)
Init ==
    /\ KSOInit
    /\ FlashInit
    /\ has_settings \in BOOLEAN
    /\ auto_saved \in BOOLEAN
    /\ auto_brightness = AutoProperty
    /\ powerd_ab_supported = FALSE
    /\ section = create_phone_settings_section(FALSE, torch_provider, FALSE)

-----------------------------------------------------------------------------
ScreenStep ==
    /\ IsLomiri
    /\ KSONext
    /\ UNCHANGED <<flash_vars, torch_vars, auto_vars, section>>

FlashlightStep ==
    /\ FlashNext
    /\ UNCHANGED <<kso_vars, auto_vars, section>>

(* The user flips the switch: the action's state is written to the schema.   *)
AutoBrightnessSwitched ==
    /\ auto_brightness' = ~auto_brightness
    /\ auto_saved' = IF has_settings THEN auto_brightness' ELSE auto_saved
    /\ UNCHANGED <<has_settings, powerd_ab_supported, kso_vars, flash_vars, torch_vars,
                   section>>

(* Mistake: the change does not reach the action.                            *)
Bug_AutoChangeUnheard == UNCHANGED auto_brightness

on_auto_changed_in_schema == auto_brightness' = auto_saved'

(* Another program, the settings application, writes to the schema.          *)
AutoBrightnessWritten ==
    /\ has_settings
    /\ auto_saved' = ~auto_saved
    /\ on_auto_changed_in_schema
    /\ UNCHANGED <<has_settings, powerd_ab_supported, kso_vars, flash_vars, torch_vars,
                   section>>

(* on_powerd_brightness_params_ready(), the part about auto-brightness: only *)
(* a change is told of, and rebuilds the section.                            *)
PowerdAnswers(ab_supported) ==
    /\ powerd_ab_supported' = ab_supported
    /\ section' = IF ab_supported # powerd_ab_supported
                  THEN create_phone_settings_section(ab_supported, torch_provider, activated)
                  ELSE section
    /\ UNCHANGED <<auto_brightness, auto_saved, has_settings, kso_vars, flash_vars,
                   torch_vars>>

ServiceRestarts ==
    /\ KSORestart
    /\ FlashRestart
    /\ auto_brightness' = AutoProperty
    /\ powerd_ab_supported' = FALSE
    /\ section' = create_phone_settings_section(FALSE, torch_provider', FALSE)
    /\ UNCHANGED <<auto_saved, has_settings>>

-----------------------------------------------------------------------------
Next ==
    \/ ScreenStep
    \/ FlashlightStep
    \/ AutoBrightnessSwitched
    \/ AutoBrightnessWritten
    \/ \E s \in BOOLEAN : PowerdAnswers(s)
    \/ ServiceRestarts

Spec == Init /\ [][Next]_vars
=============================================================================
