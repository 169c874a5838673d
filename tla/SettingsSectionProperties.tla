----------------------- MODULE SettingsSectionProperties -----------------------
(***************************************************************************)
(* What the switches must guarantee: the state each shows is the state of  *)
(* what is behind it, through lost replies, failing files and restarts.    *)
(***************************************************************************)
EXTENDS SettingsSection

ScreenTypes ==
    /\ keep_screen_on \in BOOLEAN
    /\ request_id \in Cookies \cup {0}
    /\ held \subseteq Cookies /\ unheard \subseteq Cookies

TorchTypes ==
    /\ torch \in Torches
    /\ provider \in Nat /\ providers \in Nat /\ torch_provider \in Nat
    /\ obeys \in BOOLEAN /\ brightness \in BOOLEAN /\ switch \in BOOLEAN
    /\ flashlight \in BOOLEAN /\ activated \in BOOLEAN /\ left_on \in BOOLEAN

SectionTypes ==
    /\ auto_brightness \in BOOLEAN /\ auto_saved \in BOOLEAN
    /\ has_settings \in BOOLEAN /\ powerd_ab_supported \in BOOLEAN
    /\ section \in [auto_brightness : BOOLEAN, flashlight : BOOLEAN,
                    warning : BOOLEAN, keep_screen_on : BOOLEAN]

TypeOK == ScreenTypes /\ TorchTypes /\ SectionTypes

(* The display stays on only for the request that the switch, which is on,   *)
(* will take back: toggle_keep_screen_on_action() leaves no request behind,  *)
(* unless its reply was lost or its process has gone, and never shows the    *)
(* switch on without a request to take back.                                 *)
ScreenMaySleep ==
    /\ held \ unheard \subseteq (IF keep_screen_on THEN {request_id} ELSE {})
    /\ keep_screen_on = (request_id # 0)

(* With the switch off the torch is dark, also after its switch file failed  *)
(* to open on the way on or off, unless the service that lit it is gone or   *)
(* the driver ignores what is written.                                       *)
OffMeansDark == ~flashlight /\ Lit => left_on \/ ~obeys

(* Nothing lights the torch but turning the switch on: no toggle works from  *)
(* a state of the switch that is out of date.                                *)
LitOnlyByTurningOn == [][~Lit /\ Lit' => ~flashlight /\ flashlight']_vars

(* The auto-brightness switch agrees with the schema, whoever changed it     *)
(* last, and the section offers it, and the flashlight, as they are          *)
(* supported by now.                                                         *)
SwitchesAreCurrent ==
    /\ has_settings => auto_brightness = auto_saved
    /\ section.auto_brightness = powerd_ab_supported
    /\ section.flashlight = probe_flashlight(torch_provider)
=============================================================================
