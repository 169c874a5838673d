------------------------------ MODULE Flashlight ------------------------------
(***************************************************************************)
(* The action "flashlight" (src/src/flashlight.c, flashlight-binder.c): a  *)
(* torch behind one file in sysfs ("simple"), behind a brightness and      *)
(* perhaps a switch ("qcom"), or behind Android's camera provider          *)
(* ("camera-hal"), which only one of the cameras drives.                   *)
(*                                                                         *)
(* The files, the driver and the provider are the environment.  A file may *)
(* fail to open; a driver that does not obey may ignore a write, which the *)
(* code does not notice.  A client of the provider, or of a camera, is     *)
(* named by the provider process it was made for and dies with it.         *)
(***************************************************************************)
EXTENDS Integers

CONSTANTS
    Torches,      \* kinds of torch, one of which the phone has
    MaxProviders  \* bound: how often the camera provider is started

ASSUME TorchesAssumption ==
    Torches \subseteq {"none", "simple", "qcom", "qcom-switch", "camera-hal"}
ASSUME ProvidersAssumption == MaxProviders \in Nat

VARIABLES
    flashlight,     \* the action's state
    activated,      \* the state before it was last toggled
    torch_provider, \* the provider process of our client and camera ids, or 0
    \* environment
    torch,          \* the kind of torch
    obeys,          \* does its driver do what is written?
    brightness,     \* of the torch; TRUE for 255
    switch,         \* of the torch, if it has one
    provider,       \* the running camera provider, or 0
    providers,      \* how many have been started
    left_on         \* history: has the service left its torch on when it ended?

flash_vars == <<flashlight, activated, torch_provider>>
torch_vars == <<torch, obeys, brightness, switch, provider, providers, left_on>>

(* Is the torch alight?                                                      *)
Lit == brightness /\ (torch = "qcom-switch" => switch)

(* torch_probe(): the provider is looked for and asked for its cameras once, *)
(* when the menu is built.                                                   *)
torch_probe == IF torch = "camera-hal" THEN {0, provider} ELSE {0}

FlashInit ==
    /\ flashlight = FALSE
    /\ activated = FALSE
    /\ torch \in Torches
    /\ obeys \in BOOLEAN
    /\ brightness = FALSE
    /\ switch = FALSE
    /\ providers \in 0 .. MaxProviders
    /\ provider \in {0, providers}
    /\ left_on = FALSE
    /\ torch_provider \in torch_probe

-----------------------------------------------------------------------------
(* probe_flashlight(): sysfs gives the same result each time, and so does    *)
(* the provider that was found, or was not.                                  *)
probe_flashlight(client) == IF torch = "camera-hal" THEN client # 0 ELSE torch # "none"

(* What is written to a file arrives, if the driver obeys.                   *)
Arrives(old, new) == IF obeys THEN {new} ELSE {old, new}

(* The switch's file may fail to open.                                       *)
toggle_flashlight_action_qcom(opened) ==
    /\ brightness' \in IF activated' /\ opened THEN {brightness}
                       ELSE Arrives(brightness, ~activated')
    /\ switch' \in IF opened THEN Arrives(switch, ~activated') ELSE {switch}

toggle_flashlight_action_simple ==
    /\ brightness' \in Arrives(brightness, ~activated')
    /\ UNCHANGED switch

(* A camera answers only to clients of the provider that is running.         *)
Reachable(client) == client # 0 /\ client = provider

(* flashlight_camera_hal_set(): the camera that did it last is tried, then   *)
(* every camera; which one did it is not told apart.                         *)
flashlight_camera_hal_set ==
    /\ Reachable(torch_provider)
    /\ brightness' = ~activated'
    /\ UNCHANGED switch

(* Mistake: a toggle that fails changes the action's state all the same.     *)
Bug_FailedToggleCounts ==
    /\ flashlight' = ~flashlight
    /\ UNCHANGED <<left_on, brightness, switch>>

(* The file does not open, no camera answers, or another program uses it.    *)
ToggleFails == UNCHANGED <<flashlight, left_on, brightness, switch>>

ToggleSucceeds ==
    /\ \/ torch = "camera-hal" /\ flashlight_camera_hal_set
       \/ /\ torch \in {"qcom", "qcom-switch"}
          /\ \E opened \in {FALSE, torch = "qcom-switch"} :
                toggle_flashlight_action_qcom(opened)
       \/ torch = "simple" /\ toggle_flashlight_action_simple
    /\ flashlight' = ~activated'
    /\ left_on' = FALSE

(* Mistake: the state is not read again.                                     *)
Bug_StaleState == UNCHANGED activated

read_action_state == activated' = flashlight

(* Without a torch nothing happens.                                          *)
toggle_flashlight_action ==
    /\ probe_flashlight(torch_provider)
    /\ read_action_state
    /\ ToggleSucceeds \/ ToggleFails
    /\ UNCHANGED <<torch_provider, torch, obeys, provider, providers>>

-----------------------------------------------------------------------------
(* The safety timeout of the flash, the camera application or the driver     *)
(* turns the torch off.                                                      *)
TorchGoesOut ==
    /\ Lit
    /\ brightness' = FALSE
    /\ UNCHANGED <<flash_vars, torch, obeys, switch, provider, providers, left_on>>

CameraProviderStarts ==
    /\ provider = 0 /\ providers < MaxProviders
    /\ providers' = providers + 1
    /\ provider' = providers + 1
    /\ UNCHANGED <<flash_vars, torch, obeys, brightness, switch, left_on>>

CameraProviderStops ==
    /\ provider # 0
    /\ provider' = 0
    /\ brightness' = (brightness /\ torch # "camera-hal")
    /\ UNCHANGED <<flash_vars, torch, obeys, switch, providers, left_on>>

(* The service is started anew; the torch stays as it is.                    *)
FlashRestart ==
    /\ flashlight' = FALSE
    /\ activated' = FALSE
    /\ torch_provider' \in torch_probe
    /\ left_on' = (left_on \/ Lit)
    /\ UNCHANGED <<torch, obeys, brightness, switch, provider, providers>>

FlashNext ==
    \/ toggle_flashlight_action
    \/ TorchGoesOut
    \/ CameraProviderStarts
    \/ CameraProviderStops
=============================================================================
