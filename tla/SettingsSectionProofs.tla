------------------------- MODULE SettingsSectionProofs -------------------------
(***************************************************************************)
(* Proofs about the switches of the settings section, for any cookies,     *)
(* torches and number of starts of the camera provider.                    *)
(***************************************************************************)
EXTENDS SettingsSectionProperties, TLAPS

(* The section is a record of Booleans.                                      *)
LEMMA SectionType ==
    ASSUME TorchTypes, NEW ab \in BOOLEAN, NEW client \in Nat, NEW active \in BOOLEAN
    PROVE  create_phone_settings_section(ab, client, active) \in
               [auto_brightness : BOOLEAN, flashlight : BOOLEAN,
                warning : BOOLEAN, keep_screen_on : BOOLEAN]
<1>1. probe_flashlight(client) \in BOOLEAN
  BY DEF probe_flashlight
<1>2. (probe_flashlight(client) /\ active) \in BOOLEAN
  OBVIOUS
<1> QED BY <1>1, <1>2, LomiriAssumption DEF create_phone_settings_section

LEMMA ScreenTypesHold ==
    /\ Init => ScreenTypes
    /\ ScreenTypes /\ [Next]_vars => ScreenTypes'
<1>1. Init => ScreenTypes
  BY DEF Init, KSOInit, ScreenTypes
<1>2. ASSUME ScreenTypes, [Next]_vars PROVE ScreenTypes'
  <2>1. CASE KSONext
    BY <1>2, <2>1 DEF ScreenTypes, KSONext, keepDisplayOn, removeDisplayOnRequest,
                      RemovalFailed, UnityScreenRestarts
  <2>2. CASE KSORestart
    BY <1>2, <2>2 DEF ScreenTypes, KSORestart
  <2>3. CASE UNCHANGED kso_vars
    BY <1>2, <2>3 DEF ScreenTypes, kso_vars
  <2> QED BY <1>2, <2>1, <2>2, <2>3 DEF Next, vars, ScreenStep, FlashlightStep,
             AutoBrightnessSwitched, AutoBrightnessWritten, PowerdAnswers, ServiceRestarts
<1> QED BY <1>1, <1>2

(* What a step may do to the torch: a toggle, or the service starting anew,  *)
(* or something that happens to it.                                          *)
LEMMA StepsOfTheTorch ==
    ASSUME [Next]_vars
    PROVE  \/ toggle_flashlight_action
           \/ FlashRestart
           \/ TorchGoesOut \/ CameraProviderStarts \/ CameraProviderStops
           \/ UNCHANGED <<flash_vars, torch_vars>>
BY DEF Next, vars, ScreenStep, FlashlightStep, FlashNext, AutoBrightnessSwitched,
       AutoBrightnessWritten, PowerdAnswers, ServiceRestarts

LEMMA TorchTypesHold ==
    /\ Init => TorchTypes
    /\ TorchTypes /\ [Next]_vars => TorchTypes'
<1>1. ASSUME Init PROVE TorchTypes
  <2>1. provider \in Nat /\ providers \in Nat /\ torch_provider \in Nat
    BY <1>1, ProvidersAssumption DEF Init, FlashInit, torch_probe
  <2> QED BY <1>1, <2>1 DEF Init, FlashInit, TorchTypes
<1>2. ASSUME TorchTypes, [Next]_vars PROVE TorchTypes'
  <2> USE <1>2 DEF TorchTypes
  <2>1. CASE toggle_flashlight_action
    <3> USE <2>1 DEF toggle_flashlight_action, read_action_state
    <3>1. CASE ToggleFails
      BY <3>1 DEF ToggleFails
    <3>2. CASE ToggleSucceeds
      <4>1. brightness' \in BOOLEAN /\ switch' \in BOOLEAN
        BY <3>2 DEF ToggleSucceeds, flashlight_camera_hal_set, toggle_flashlight_action_qcom,
                    toggle_flashlight_action_simple, Arrives
      <4> QED BY <3>2, <4>1 DEF ToggleSucceeds
    <3> QED BY <3>1, <3>2
  <2>2. CASE FlashRestart
    <3>1. torch_provider' \in Nat
      BY <2>2 DEF FlashRestart, torch_probe
    <3>2. (left_on \/ Lit) \in BOOLEAN
      OBVIOUS
    <3> QED BY <2>2, <3>1, <3>2 DEF FlashRestart
  <2>3. CASE TorchGoesOut
    BY <2>3 DEF TorchGoesOut, flash_vars
  <2>4. CASE CameraProviderStops
    <3>1. (brightness /\ torch # "camera-hal") \in BOOLEAN
      OBVIOUS
    <3> QED BY <2>4, <3>1 DEF CameraProviderStops, flash_vars
  <2>5. CASE CameraProviderStarts
    <3>1. providers + 1 \in Nat
      OBVIOUS
    <3> QED BY <2>5, <3>1, Zenon DEF CameraProviderStarts, flash_vars
  <2>6. CASE UNCHANGED <<flash_vars, torch_vars>>
    BY <2>6 DEF flash_vars, torch_vars
  <2> QED BY <2>1, <2>2, <2>3, <2>4, <2>5, <2>6, StepsOfTheTorch
<1> QED BY <1>1, <1>2

LEMMA SectionTypesHold ==
    /\ Init => SectionTypes
    /\ TorchTypes /\ TorchTypes' /\ SectionTypes /\ [Next]_vars => SectionTypes'
<1>1. ASSUME Init PROVE SectionTypes
  <2>1. TorchTypes /\ AutoProperty \in BOOLEAN
    BY <1>1, TorchTypesHold DEF Init, AutoProperty
  <2> QED BY <1>1, <2>1, SectionType DEF Init, SectionTypes, TorchTypes
<1>2. ASSUME TorchTypes, TorchTypes', SectionTypes, [Next]_vars PROVE SectionTypes'
  <2> USE <1>2 DEF SectionTypes
  <2>1. CASE ScreenStep \/ FlashlightStep \/ UNCHANGED vars
    BY <2>1 DEF ScreenStep, FlashlightStep, vars, auto_vars
  <2>2. CASE AutoBrightnessSwitched \/ AutoBrightnessWritten
    BY <2>2 DEF AutoBrightnessSwitched, AutoBrightnessWritten, on_auto_changed_in_schema
  <2>3. ASSUME NEW s \in BOOLEAN, PowerdAnswers(s) PROVE SectionTypes'
    BY <2>3, SectionType DEF PowerdAnswers, TorchTypes
  <2>4. CASE ServiceRestarts
    <3>1. create_phone_settings_section(FALSE, torch_provider', FALSE) \in
              [auto_brightness : BOOLEAN, flashlight : BOOLEAN,
               warning : BOOLEAN, keep_screen_on : BOOLEAN]
      BY SectionType DEF TorchTypes
    <3>2. AutoProperty \in BOOLEAN
      BY DEF AutoProperty
    <3> QED BY <2>4, <3>1, <3>2 DEF ServiceRestarts
  <2> QED BY <2>1, <2>2, <2>3, <2>4 DEF Next
<1> QED BY <1>1, <1>2

(* Every variable of the section, the actions and their environment has its  *)
(* type.                                                                     *)
THEOREM TypesHold == Spec => []TypeOK
<1>1. Init => TypeOK
  BY ScreenTypesHold, TorchTypesHold, SectionTypesHold DEF TypeOK
<1>2. TypeOK /\ [Next]_vars => TypeOK'
  BY ScreenTypesHold, TorchTypesHold, SectionTypesHold DEF TypeOK
<1> QED BY <1>1, <1>2, PTL DEF Spec

-----------------------------------------------------------------------------
(* A cookie is never 0, so the switch is on exactly while there is a request *)
(* to take back, and no other request keeps the display on.                  *)
THEOREM RequestIsTakenBack == Spec => []ScreenMaySleep
<1>1. Init => ScreenMaySleep
  BY DEF Init, KSOInit, ScreenMaySleep
<1>2. ScreenTypes /\ ScreenMaySleep /\ [Next]_vars => ScreenMaySleep'
  <2> SUFFICES ASSUME ScreenTypes, ScreenMaySleep, [Next]_vars PROVE ScreenMaySleep'
    OBVIOUS
  <2> USE DEF ScreenMaySleep
  <2>1. ASSUME NEW c \in Cookies, keepDisplayOn(c) PROVE ScreenMaySleep'
    BY <2>1, CookiesAssumption DEF keepDisplayOn
  <2>2. ASSUME removeDisplayOnRequest \/ UnityScreenRestarts \/ KSORestart
        PROVE  ScreenMaySleep'
    BY <2>2 DEF removeDisplayOnRequest, RemovalFailed, UnityScreenRestarts, KSORestart
  <2>3. CASE UNCHANGED kso_vars
    BY <2>3 DEF kso_vars
  <2> QED BY <2>1, <2>2, <2>3 DEF Next, ScreenStep, KSONext, FlashlightStep, ServiceRestarts,
             AutoBrightnessSwitched, AutoBrightnessWritten, PowerdAnswers, vars
<1> QED BY <1>1, <1>2, TypesHold, PTL DEF Spec, TypeOK

-----------------------------------------------------------------------------
(* What a toggle does to the torch.                                          *)
LEMMA ToggleLights ==
    ASSUME TorchTypes, toggle_flashlight_action
    PROVE  /\ ~flashlight' /\ Lit' => \/ ~flashlight /\ Lit /\ left_on' = left_on
                                   \/ ~obeys
           /\ ~Lit /\ Lit' => ~flashlight /\ flashlight'
           /\ obeys' = obeys
<1> USE DEF TorchTypes, toggle_flashlight_action, read_action_state, Lit
<1>1. CASE ToggleFails
  BY <1>1 DEF ToggleFails
<1>2. CASE ToggleSucceeds /\ torch \in {"qcom", "qcom-switch"}
  BY <1>2 DEF ToggleSucceeds, toggle_flashlight_action_qcom, Arrives
<1>3. CASE ToggleSucceeds /\ torch \notin {"qcom", "qcom-switch"}
  BY <1>3 DEF ToggleSucceeds, flashlight_camera_hal_set, toggle_flashlight_action_simple,
              Arrives
<1> QED BY <1>1, <1>2, <1>3

(* The other steps of the flashlight light nothing.                          *)
LEMMA NothingElseLights ==
    ASSUME TorchTypes,
           \/ TorchGoesOut \/ CameraProviderStarts \/ CameraProviderStops
           \/ UNCHANGED <<flash_vars, torch_vars>>
    PROVE  (Lit' => Lit) /\ UNCHANGED <<flashlight, left_on, obeys>>
BY DEF TorchTypes, TorchGoesOut, CameraProviderStarts, CameraProviderStops, flash_vars,
       torch_vars, Lit

(* With the switch off the torch is dark, unless the driver does not obey or *)
(* the service that lit it is gone.                                          *)
THEOREM SwitchIsTrue == Spec => []OffMeansDark
<1>1. Init => OffMeansDark
  BY DEF Init, FlashInit, OffMeansDark, Lit
<1>2. TorchTypes /\ OffMeansDark /\ [Next]_vars => OffMeansDark'
  <2> SUFFICES ASSUME TorchTypes, OffMeansDark, [Next]_vars PROVE OffMeansDark'
    OBVIOUS
  <2>1. CASE toggle_flashlight_action
    BY <2>1, ToggleLights DEF OffMeansDark
  <2>2. CASE FlashRestart
    BY <2>2 DEF FlashRestart, OffMeansDark, Lit
  <2>3. CASE \/ TorchGoesOut \/ CameraProviderStarts \/ CameraProviderStops
             \/ UNCHANGED <<flash_vars, torch_vars>>
    BY <2>3, NothingElseLights DEF OffMeansDark
  <2> QED BY <2>1, <2>2, <2>3, StepsOfTheTorch
<1> QED BY <1>1, <1>2, TypesHold, PTL DEF Spec, TypeOK

(* Nothing but turning the switch on lights the torch.                       *)
THEOREM OnlyTheSwitchLights == Spec => LitOnlyByTurningOn
<1>1. TorchTypes /\ [Next]_vars => [~Lit /\ Lit' => ~flashlight /\ flashlight']_vars
  <2> SUFFICES ASSUME TorchTypes, [Next]_vars, ~Lit, Lit' PROVE ~flashlight /\ flashlight'
    OBVIOUS
  <2>1. CASE FlashRestart
    BY <2>1 DEF FlashRestart, Lit
  <2> QED BY <2>1, ToggleLights, NothingElseLights, StepsOfTheTorch
<1> QED BY <1>1, TypesHold, PTL DEF Spec, TypeOK, LitOnlyByTurningOn

-----------------------------------------------------------------------------
(* The auto-brightness switch and the section agree with what they stand     *)
(* for.                                                                      *)
THEOREM SwitchesFollow == Spec => []SwitchesAreCurrent
<1>1. ASSUME Init PROVE SwitchesAreCurrent
  <2>1. has_settings => auto_brightness = auto_saved
    BY <1>1 DEF Init, AutoProperty
  <2> QED BY <1>1, <2>1 DEF Init, SwitchesAreCurrent, create_phone_settings_section
<1>2. TypeOK /\ SwitchesAreCurrent /\ [Next]_vars => SwitchesAreCurrent'
  <2> SUFFICES ASSUME TypeOK, SwitchesAreCurrent, [Next]_vars PROVE SwitchesAreCurrent'
    OBVIOUS
  <2> USE DEF SwitchesAreCurrent, TypeOK, SectionTypes
  <2>1. CASE UNCHANGED <<auto_vars, section, torch_provider, torch>>
    BY <2>1 DEF auto_vars, probe_flashlight
  <2>2. CASE AutoBrightnessSwitched \/ AutoBrightnessWritten
    BY <2>2 DEF AutoBrightnessSwitched, AutoBrightnessWritten, on_auto_changed_in_schema,
                flash_vars, torch_vars, probe_flashlight
  <2>3. ASSUME NEW s \in BOOLEAN, PowerdAnswers(s) PROVE SwitchesAreCurrent'
    BY <2>3 DEF PowerdAnswers, create_phone_settings_section, probe_flashlight,
                flash_vars, torch_vars
  <2>4. CASE ServiceRestarts
    BY <2>4 DEF ServiceRestarts, FlashRestart, AutoProperty, create_phone_settings_section,
                probe_flashlight
  <2> QED BY <2>1, <2>2, <2>3, <2>4 DEF Next, vars, ScreenStep, FlashlightStep, FlashNext,
             toggle_flashlight_action, TorchGoesOut, CameraProviderStarts,
             CameraProviderStops, flash_vars, torch_vars
<1> QED BY <1>1, <1>2, TypesHold, PTL DEF Spec, TypeOK
=============================================================================
