-------------------------- MODULE BrightnessProofs --------------------------
(***************************************************************************)
(* Proofs about Brightness, for any bounds of repowerd and any number of   *)
(* its restarts: the slider, the backlight and the saved brightness agree  *)
(* once the bounds are known, repowerd does not change what is saved, and  *)
(* no value leaves its range.                                              *)
(***************************************************************************)
EXTENDS BrightnessProperties, TLAPS

-----------------------------------------------------------------------------
(* The bounds known are repowerd's; they are asked for and known only by an  *)
(* object that has its proxy, and with it a bus on which to set the          *)
(* backlight, until it is disposed of, and only while that repowerd runs.    *)
ParamsInv ==
    /\ hardware \in Params
    /\ powerd_params \in {NULL, hardware}
    /\ powerd_proxy => ~disposed
    /\ powerd_proxy => powerd_name_owner = owner
    /\ params_call # 0 => powerd_proxy /\ owner # 0
    /\ powerd_params # NULL /\ ~disposed => powerd_proxy /\ owner # 0

LEMMA ParamsInvHolds == Spec => []ParamsInv
  <1>1. Init => ParamsInv
    BY DEF Init, ParamsInv
  <1>2. ASSUME ParamsInv, [Next]_vars PROVE ParamsInv'
    <2>1. CASE on_powerd_proxy_ready
      BY <1>2, <2>1 DEF ParamsInv, on_powerd_proxy_ready, NameOwnerChanges
    <2>2. CASE on_powerd_brightness_params_ready
      BY <1>2, <2>2 DEF ParamsInv, on_powerd_brightness_params_ready
    <2>3. CASE ParamsCallFails
      BY <1>2, <2>3 DEF ParamsInv, ParamsCallFails, object_vars
    <2>4. CASE \E p \in Percentages : set_percentage(p)
      BY <1>2, <2>4 DEF ParamsInv, set_percentage, powerd_vars
    <2>5. CASE Dispose
      BY <1>2, <2>5 DEF ParamsInv, Dispose
    <2>6. ASSUME NEW new, NEW b, PowerdChanges(new, b) PROVE ParamsInv'
      BY <1>2, <2>6 DEF ParamsInv, PowerdChanges, NameOwnerChanges
    <2>7. CASE PowerdStops \/ \E b \in Brightnesses : PowerdStarts(b)
                                                     \/ PowerdBrightnessChanges(b)
      BY <2>6, <2>7 DEF PowerdStops, PowerdStarts, PowerdBrightnessChanges
    <2>8. CASE \E b \in Brightnesses : SchemaChanges(b)
      BY <1>2, <2>8 DEF ParamsInv, SchemaChanges, powerd_vars
    <2>9. CASE UNCHANGED vars
      BY <1>2, <2>9 DEF ParamsInv, vars, object_vars, powerd_vars
    <2>10. QED
      BY <1>2, <2>1, <2>2, <2>3, <2>4, <2>5, <2>7, <2>8, <2>9 DEF Next
  <1>3. QED
    BY <1>1, <1>2, PTL DEF Spec

-----------------------------------------------------------------------------
(* Once its bounds are known, the repowerd that is running was asked for     *)
(* what is saved, or another program has written since: each restart of      *)
(* repowerd restores it (on_powerd_brightness_params_ready).                 *)
THEOREM BacklightIsRestored == Spec => []ScreenIsRestored
  <1>1. Init => ScreenIsRestored
    BY DEF Init, ScreenIsRestored
  <1>2. ASSUME ParamsInv, ScreenIsRestored, [Next]_vars PROVE ScreenIsRestored'
    <2>1. CASE on_powerd_proxy_ready
      BY <1>2, <2>1
      DEF ParamsInv, ScreenIsRestored, on_powerd_proxy_ready, NameOwnerChanges, schema_vars
    <2>2. CASE on_powerd_brightness_params_ready
      <3> SUFFICES ASSUME has_settings PROVE ScreenIsRestored'
        BY <2>2 DEF on_powerd_brightness_params_ready, ScreenIsRestored
      <3>1. powerd_proxy /\ owner # 0
        BY <1>2, <2>2 DEF ParamsInv, on_powerd_brightness_params_ready
      <3>2. \E b : set_brightness_global(hardware, b)
        BY <2>2 DEF on_powerd_brightness_params_ready, RestoreSaved
      <3>3. QED
        BY <3>1, <3>2
        DEF ScreenIsRestored, set_brightness_global, set_uscreen_user_brightness, WriteSaved
    <2>3. CASE ParamsCallFails
      BY <1>2, <2>3 DEF ScreenIsRestored, ParamsCallFails, object_vars, schema_vars
    <2>4. ASSUME NEW p \in Percentages, set_percentage(p) PROVE ScreenIsRestored'
      <3> SUFFICES ASSUME has_settings, powerd_params # NULL, ~disposed
                   PROVE  ScreenIsRestored'
        BY <2>4 DEF set_percentage, ScreenIsRestored
      <3>1. powerd_proxy /\ owner # 0
        BY <1>2 DEF ParamsInv
      <3>2. \E b : set_brightness_global(powerd_params, b)
        BY <2>4 DEF set_percentage
      <3>3. QED
        BY <3>1, <3>2
        DEF ScreenIsRestored, set_brightness_global, set_uscreen_user_brightness, WriteSaved
    <2>5. CASE Dispose
      BY <2>5 DEF ScreenIsRestored, Dispose
    <2>6. ASSUME NEW new, NEW b, PowerdChanges(new, b) PROVE ScreenIsRestored'
      BY <1>2, <2>6
      DEF ParamsInv, ScreenIsRestored, PowerdChanges, NameOwnerChanges, schema_vars
    <2>7. CASE PowerdStops \/ \E b \in Brightnesses : PowerdStarts(b)
                                                     \/ PowerdBrightnessChanges(b)
      BY <2>6, <2>7 DEF PowerdStops, PowerdStarts, PowerdBrightnessChanges
    <2>8. CASE \E b \in Brightnesses : SchemaChanges(b)
      BY <2>8 DEF ScreenIsRestored, SchemaChanges
    <2>9. CASE UNCHANGED vars
      BY <1>2, <2>9 DEF ScreenIsRestored, vars, object_vars, schema_vars
    <2>10. QED
      BY <1>2, <2>1, <2>2, <2>3, <2>4, <2>5, <2>7, <2>8, <2>9 DEF Next
  <1>3. QED
    BY <1>1, <1>2, ParamsInvHolds, PTL DEF Spec

(* A slider that was not told of anything since the bounds are known stands  *)
(* at 0; that is so while the bounds are asked for, and before the proxy is  *)
(* ready.                                                                    *)
SliderInv ==
    /\ reported \in BOOLEAN
    /\ ~reported => percentage = 0
    /\ params_call # 0 => ~reported /\ powerd_params = NULL
    /\ ~powerd_proxy /\ ~disposed => ~reported /\ powerd_params = NULL

(* What is reported sets the slider, and nothing else does.                  *)
LEMMA LocalSlider ==
    ASSUME NEW h, NEW b, set_brightness_local(h, b), ParamsInv, h \in {NULL, hardware}
    PROVE  /\ reported' = (h # NULL)
           /\ h # NULL => percentage' = brightness_to_percentage(hardware, b)
           /\ h = NULL => percentage' = 0
  BY DEF set_brightness_local, brightness_to_percentage, ParamsInv

LEMMA SliderInvHolds == Spec => []SliderInv
  <1>1. Init => SliderInv
    BY DEF Init, SliderInv
  <1>2. ASSUME ParamsInv, SliderInv, [Next]_vars PROVE SliderInv'
    <2>1. CASE on_powerd_proxy_ready
      BY <1>2, <2>1
      DEF ParamsInv, SliderInv, on_powerd_proxy_ready, NameOwnerChanges, slider_vars
    <2>2. ASSUME NEW h \in {NULL, hardware}, NEW b, set_brightness_global(h, b)
          PROVE  /\ reported' \in BOOLEAN
                 /\ ~reported' => percentage' = 0
                 /\ h = NULL /\ ~reported => ~reported'
      <3>1. CASE set_brightness_local(h, b)
        BY <1>2, <3>1, LocalSlider
      <3>2. CASE UNCHANGED slider_vars
        BY <1>2, <3>2 DEF slider_vars, SliderInv
      <3> QED BY <2>2, <3>1, <3>2 DEF set_brightness_global, WriteSaved
    <2>3. CASE on_powerd_brightness_params_ready
      <3>1. /\ params_call' = 0 /\ powerd_proxy' = powerd_proxy /\ powerd_proxy
            /\ \/ UNCHANGED slider_vars
               \/ \E b : set_brightness_global(hardware, b)
        BY <1>2, <2>3 DEF on_powerd_brightness_params_ready, RestoreSaved, ParamsInv
      <3> QED BY <1>2, <2>2, <3>1 DEF SliderInv, slider_vars
    <2>4. CASE ParamsCallFails
      BY <1>2, <2>4 DEF SliderInv, ParamsCallFails, object_vars
    <2>5. ASSUME NEW p \in Percentages, set_percentage(p) PROVE SliderInv'
      <3>1. /\ UNCHANGED <<powerd_params, powerd_proxy, disposed, params_call>>
            /\ powerd_params \in {NULL, hardware}
            /\ \E b : set_brightness_global(powerd_params, b)
        BY <1>2, <2>5 DEF set_percentage, ParamsInv, powerd_vars
      <3> QED BY <1>2, <2>2, <3>1 DEF SliderInv
    <2>6. CASE Dispose
      BY <1>2, <2>6 DEF SliderInv, Dispose, slider_vars
    <2>7. ASSUME NEW new, NEW b, PowerdChanges(new, b), owner = 0 \/ new \in {0, owner}
          PROVE  SliderInv'
      <3>1. CASE ~powerd_proxy
        BY <1>2, <2>7, <3>1 DEF SliderInv, ParamsInv, PowerdChanges, slider_vars
      <3>2. CASE powerd_proxy
        <4>1. /\ set_brightness_local(powerd_params, b) /\ NameOwnerChanges(new)
              /\ powerd_proxy' /\ powerd_params \in {NULL, hardware}
          BY <1>2, <2>7, <3>2 DEF PowerdChanges, ParamsInv
        <4>2. reported' = (powerd_params # NULL) /\ (~reported' => percentage' = 0)
          BY <1>2, <4>1, LocalSlider
        <4>3. params_call' # 0 => powerd_params = NULL /\ powerd_params' = NULL
          BY <1>2, <2>7, <3>2, <4>1 DEF NameOwnerChanges, ParamsInv, SliderInv
        <4> QED BY <4>1, <4>2, <4>3 DEF SliderInv
      <3> QED BY <3>1, <3>2
    <2>8. CASE PowerdStops \/ \E b \in Brightnesses : PowerdStarts(b)
                                                     \/ PowerdBrightnessChanges(b)
      BY <2>7, <2>8 DEF PowerdStops, PowerdStarts, PowerdBrightnessChanges
    <2>9. ASSUME NEW b \in Brightnesses, SchemaChanges(b) PROVE SliderInv'
      <3>1. /\ UNCHANGED <<powerd_params, powerd_proxy, disposed, params_call>>
            /\ powerd_params \in {NULL, hardware}
            /\ set_brightness_local(powerd_params, b)
        BY <1>2, <2>9
        DEF SchemaChanges, on_brightness_changed_in_schema, ParamsInv, powerd_vars
      <3>2. reported' = (powerd_params # NULL) /\ (~reported' => percentage' = 0)
        BY <1>2, <3>1, LocalSlider
      <3> QED BY <1>2, <3>1, <3>2 DEF SliderInv
    <2>10. CASE UNCHANGED vars
      BY <1>2, <2>10 DEF SliderInv, vars, object_vars, powerd_vars
    <2> QED
      BY <1>2, <2>1, <2>3, <2>4, <2>5, <2>6, <2>8, <2>9, <2>10 DEF Next
  <1>3. QED
    BY <1>1, <1>2, ParamsInvHolds, PTL DEF Spec

(* Once the bounds are known, the slider stands at what is saved or at what  *)
(* repowerd reports, or at 0 until something is reported: GSettings need not *)
(* report that the saved brightness was written again (set_brightness_local, *)
(* set_brightness_global).                                                   *)
THEOREM SliderIsCurrent == Spec => []PercentageIsCurrent
  <1>1. Init => PercentageIsCurrent
    BY DEF Init, PercentageIsCurrent
  <1>2. ASSUME ParamsInv, SliderInv, PercentageIsCurrent, [Next]_vars
        PROVE  PercentageIsCurrent'
    <2>1. CASE on_powerd_proxy_ready
      BY <1>2, <2>1
      DEF ParamsInv, PercentageIsCurrent, on_powerd_proxy_ready, NameOwnerChanges,
          schema_vars, slider_vars, brightness_to_percentage
    <2>2. ASSUME NEW b, has_settings, set_brightness_global(hardware, b)
          PROVE  /\ saved' = b
                 /\ \/ reported' /\ percentage' = brightness_to_percentage(hardware, b)
                    \/ saved' = saved /\ UNCHANGED slider_vars
      <3>1. /\ saved' = b
            /\ \/ set_brightness_local(hardware, b)
               \/ b = saved /\ UNCHANGED slider_vars
        BY <2>2 DEF set_brightness_global, WriteSaved
      <3>2. hardware # NULL
        BY <1>2, NullAssumption DEF ParamsInv
      <3> QED BY <1>2, <3>1, <3>2, LocalSlider
    <2>3. CASE on_powerd_brightness_params_ready
      <3> SUFFICES ASSUME has_settings PROVE PercentageIsCurrent'
        BY <2>3 DEF on_powerd_brightness_params_ready, PercentageIsCurrent
      <3>1. PICK b : set_brightness_global(hardware, b)
        BY <2>3 DEF on_powerd_brightness_params_ready, RestoreSaved
      <3>2. hardware' = hardware /\ ~reported /\ percentage = 0
        BY <1>2, <2>3 DEF on_powerd_brightness_params_ready, SliderInv
      <3>3. /\ saved' = b
            /\ \/ reported' /\ percentage' = brightness_to_percentage(hardware, b)
               \/ reported' = FALSE /\ percentage' = 0
        BY <2>2, <3>1, <3>2 DEF slider_vars
      <3>4. QED
        BY <3>2, <3>3 DEF PercentageIsCurrent, brightness_to_percentage
    <2>4. CASE ParamsCallFails
      BY <1>2, <2>4
      DEF PercentageIsCurrent, ParamsCallFails, object_vars, schema_vars,
          brightness_to_percentage
    <2>5. ASSUME NEW p \in Percentages, set_percentage(p) PROVE PercentageIsCurrent'
      <3> SUFFICES ASSUME has_settings, powerd_params # NULL, ~disposed
                   PROVE  PercentageIsCurrent'
        BY <2>5 DEF set_percentage, PercentageIsCurrent
      <3>1. /\ powerd_params = hardware /\ hardware' = hardware
            /\ UNCHANGED powerd_brightness
        BY <1>2, <2>5 DEF ParamsInv, set_percentage, powerd_vars
      <3>2. PICK b : set_brightness_global(hardware, b)
        BY <2>5, <3>1 DEF set_percentage
      <3>3. CASE reported' /\ percentage' = brightness_to_percentage(hardware, saved')
        BY <3>1, <3>3 DEF PercentageIsCurrent, brightness_to_percentage
      <3>4. CASE saved' = saved /\ UNCHANGED slider_vars
        BY <1>2, <3>1, <3>4 DEF PercentageIsCurrent, brightness_to_percentage, slider_vars
      <3>5. QED
        BY <2>2, <3>2, <3>3, <3>4
    <2>6. CASE Dispose
      BY <2>6 DEF PercentageIsCurrent, Dispose
    <2>7. ASSUME NEW new, NEW b, PowerdChanges(new, b) PROVE PercentageIsCurrent'
      <3> SUFFICES ASSUME powerd_params' # NULL, has_settings, ~disposed
                   PROVE  PercentageIsCurrent'
        BY <2>7 DEF PowerdChanges, PercentageIsCurrent, schema_vars
      <3>1. powerd_params = hardware /\ hardware' = hardware /\ powerd_proxy
        BY <1>2, <2>7 DEF ParamsInv, PowerdChanges, NameOwnerChanges
      <3>2. set_brightness_local(hardware, b) /\ powerd_brightness' = b /\ hardware # NULL
        BY <1>2, <2>7, <3>1, NullAssumption DEF PowerdChanges, ParamsInv
      <3>3. reported' /\ percentage' = brightness_to_percentage(hardware, b)
        BY <1>2, <3>2, LocalSlider
      <3>4. QED
        BY <3>1, <3>2, <3>3 DEF PercentageIsCurrent, brightness_to_percentage
    <2>8. CASE PowerdStops \/ \E b \in Brightnesses : PowerdStarts(b)
                                                     \/ PowerdBrightnessChanges(b)
      BY <2>7, <2>8 DEF PowerdStops, PowerdStarts, PowerdBrightnessChanges
    <2>9. ASSUME NEW b \in Brightnesses, SchemaChanges(b) PROVE PercentageIsCurrent'
      <3> SUFFICES ASSUME powerd_params # NULL, ~disposed PROVE PercentageIsCurrent'
        BY <2>9 DEF SchemaChanges, PercentageIsCurrent
      <3>1. powerd_params = hardware /\ hardware' = hardware
        BY <1>2, <2>9 DEF ParamsInv, SchemaChanges, powerd_vars
      <3>2. saved' = b /\ set_brightness_local(hardware, b) /\ hardware # NULL
        BY <1>2, <2>9, <3>1, NullAssumption
        DEF SchemaChanges, on_brightness_changed_in_schema, ParamsInv
      <3>3. reported' /\ percentage' = brightness_to_percentage(hardware, b)
        BY <1>2, <3>2, LocalSlider
      <3>4. QED
        BY <3>1, <3>2, <3>3 DEF PercentageIsCurrent, brightness_to_percentage
    <2>10. CASE UNCHANGED vars
      BY <1>2, <2>10
      DEF PercentageIsCurrent, vars, object_vars, schema_vars, powerd_vars,
          brightness_to_percentage
    <2> QED
      BY <1>2, <2>1, <2>3, <2>4, <2>5, <2>6, <2>8, <2>9, <2>10 DEF Next
  <1>3. QED
    BY <1>1, <1>2, ParamsInvHolds, SliderInvHolds, PTL DEF Spec

(* Nothing that repowerd does changes the brightness saved for the next      *)
(* session, but once, in the first, when the hardware's default is saved     *)
(* (on_powerd_brightness_params_ready).                                      *)
THEOREM RestartsKeepWhatIsSaved == Spec => RestartKeepsBrightness
  <1> DEFINE Kept ==
        powerd_vars' # powerd_vars =>
            \/ saved' = saved
            \/ need_default /\ ~need_default' /\ saved' = hardware.default
  <1>1. ASSUME Next PROVE Kept
    <2>1. CASE on_powerd_brightness_params_ready
      BY <2>1
      DEF on_powerd_brightness_params_ready, RestoreSaved, set_brightness_global, WriteSaved
    <2>2. CASE \/ \E p \in Percentages : set_percentage(p)
               \/ \E b \in Brightnesses : SchemaChanges(b)
      BY <2>2 DEF set_percentage, SchemaChanges
    <2>3. CASE \/ on_powerd_proxy_ready \/ ParamsCallFails \/ Dispose \/ PowerdStops
               \/ \E b \in Brightnesses : PowerdStarts(b) \/ PowerdBrightnessChanges(b)
      BY <2>3
      DEF on_powerd_proxy_ready, ParamsCallFails, Dispose, PowerdStops, PowerdStarts,
          PowerdBrightnessChanges, PowerdChanges, schema_vars
    <2>4. QED
      BY <1>1, <2>1, <2>2, <2>3 DEF Next
  <1>2. QED
    BY <1>1, PTL DEF Spec, RestartKeepsBrightness

-----------------------------------------------------------------------------
(* Types and ranges                                                          *)

(* A quotient lies between the bounds of its numerator.                      *)
LEMMA QuotientBetween ==
    ASSUME NEW x \in Int, NEW y \in Nat \ {0}, NEW lo \in Int, NEW hi \in Int,
           lo * y <= x, x <= hi * y
    PROVE  x \div y \in lo .. hi
  <1>1. PICK q \in Int : q = x \div y /\ y * q <= x /\ x < y * q + y
    OBVIOUS
  <1>2. q <= hi
    <2> SUFFICES ASSUME q >= hi + 1 PROVE FALSE
      BY <1>1
    <2>1. y * q >= y * (hi + 1)
      OBVIOUS
    <2> QED BY <1>1, <2>1
  <1>3. q >= lo
    <2> SUFFICES ASSUME q + 1 <= lo PROVE FALSE
      BY <1>1
    <2>1. y * (q + 1) <= y * lo
      OBVIOUS
    <2> QED BY <1>1, <2>1
  <1> QED BY <1>1, <1>2, <1>3

(* The slider's end is 100%, but below repowerd's least brightness it shows  *)
(* less than nothing.                                                        *)
LEMMA PercentageType ==
    ASSUME NEW h \in Params, NEW k \in {NULL, h}, NEW b \in 0 .. h.max
    PROVE  brightness_to_percentage(k, b) \in -(Scale * h.max) .. Scale
  <1> DEFINE lo == -(Scale * h.max)
  <1>1. /\ h.min \in Nat /\ h.max \in Nat /\ h.min < h.max /\ Scale \in Nat /\ Scale > 0
        /\ b \in Nat /\ b <= h.max
    BY ParamsAssumption, ScaleAssumption
  <1>2. lo \in Int /\ lo <= 0
    BY <1>1
  <1>3. CASE k = NULL
    BY <1>1, <1>2, <1>3 DEF brightness_to_percentage
  <1>4. CASE k # NULL
    <2> DEFINE x == (b - h.min) * Scale
               y == h.max - h.min
    <2>1. x \in Int /\ y \in Nat \ {0}
      BY <1>1
    <2>2. x <= Scale * y
      <3>1. b - h.min <= y
        BY <1>1
      <3> QED BY <1>1, <2>1, <3>1
    <2>3. lo <= x
      <3>1. -h.max <= b - h.min
        BY <1>1
      <3>2. (-h.max) * Scale <= (b - h.min) * Scale
        BY <1>1, <3>1
      <3> QED BY <1>1, <3>2
    <2>4. lo * y <= lo
      <3> HIDE DEF lo, y
      <3>1. y >= 1
        BY <2>1
      <3> QED BY <1>2, <2>1, <3>1
    <2>5. k = h
      BY <1>4
    <2>6. brightness_to_percentage(k, b) = x \div y
      BY <1>4, <2>5 DEF brightness_to_percentage
    <2>7. lo * y \in Int
      BY <1>2, <2>1
    <2> HIDE DEF lo, x, y
    <2>8. lo * y <= x
      BY <1>2, <2>1, <2>3, <2>4, <2>7
    <2>9. x \div y \in lo .. Scale
      BY <1>1, <1>2, <2>1, <2>2, <2>8, QuotientBetween
    <2> QED BY <2>6, <2>9 DEF lo
  <1> QED BY <1>3, <1>4

(* What the slider asks for is a brightness that repowerd has, or 0 as long  *)
(* as the bounds are not known.                                              *)
LEMMA BrightnessType ==
    ASSUME NEW h \in Params, NEW k \in {NULL, h}, NEW p \in Percentages
    PROVE  /\ percentage_to_brightness(k, p) \in 0 .. h.max
           /\ percentage_to_brightness(h, p) \in h.min .. h.max
  <1>1. /\ h.min \in Nat /\ h.max \in Nat /\ h.min < h.max /\ Scale \in Nat \ {0}
        /\ p \in Nat /\ p <= Scale /\ h # NULL
    BY ParamsAssumption, ScaleAssumption, NullAssumption DEF Percentages
  <1> DEFINE y == h.max - h.min
             x == p * y
  <1>2. y \in Nat /\ x \in Int /\ 0 * Scale <= x
    BY <1>1
  <1>3. x <= y * Scale
    <2> HIDE DEF y
    <2> QED BY <1>1, <1>2
  <1>4. x \div Scale \in 0 .. y
    <2> DEFINE lo == 0
    <2>1. lo \in Int /\ lo * Scale <= x
      BY <1>2
    <2>2. x \in Int /\ y \in Int /\ Scale \in Nat \ {0}
      BY <1>1, <1>2
    <2> HIDE DEF x, y, lo
    <2>3. x \div Scale \in lo .. y
      BY <1>3, <2>1, <2>2, QuotientBetween
    <2> QED BY <2>3 DEF lo
  <1>5. percentage_to_brightness(h, p) = h.min + x \div Scale
    BY <1>1 DEF percentage_to_brightness
  <1>6. percentage_to_brightness(h, p) \in h.min .. h.max
    <2> HIDE DEF x
    <2> QED BY <1>1, <1>4, <1>5
  <1>7. percentage_to_brightness(NULL, p) = 0
    BY DEF percentage_to_brightness
  <1> QED BY <1>1, <1>6, <1>7

(* No repowerd is known that has not been started.                           *)
OwnerInv ==
    /\ owners \in 0 .. MaxOwners
    /\ owner \in 0 .. owners

(* The types of what a change of the brightness assigns.                     *)
LEMMA LocalType ==
    ASSUME NEW k, NEW b, ParamsInv, hardware' = hardware, k \in {NULL, hardware},
           b \in 0 .. hardware.max, set_brightness_local(k, b)
    PROVE  percentage' \in -(Scale * hardware'.max) .. Scale
  BY PercentageType DEF set_brightness_local, ParamsInv

(* The types of what setting the backlight and saving it assign.             *)
LEMMA GlobalType ==
    ASSUME NEW k, NEW b, ParamsInv, TypeOK, hardware' = hardware, k \in {NULL, hardware},
           b \in 0 .. hardware.max, set_brightness_global(k, b)
    PROVE  /\ percentage' \in -(Scale * hardware'.max) .. Scale
           /\ saved' \in 0 .. hardware'.max
           /\ sent' \in 0 .. hardware'.max \cup {NULL}
  <1>1. saved' \in {saved, b} /\ sent' \in {sent, b}
    BY DEF set_brightness_global, set_uscreen_user_brightness, WriteSaved
  <1>2. set_brightness_local(k, b) \/ UNCHANGED percentage
    BY DEF set_brightness_global, WriteSaved, slider_vars
  <1>3. percentage' \in -(Scale * hardware'.max) .. Scale
    BY <1>2, LocalType DEF TypeOK
  <1> QED BY <1>1, <1>3 DEF TypeOK

(* The brightnesses of repowerd are between 0 and the greatest.              *)
LEMMA Bounds ==
    ASSUME ParamsInv
    PROVE  /\ hardware.min \in Nat /\ hardware.max \in Nat
           /\ Brightnesses \subseteq 0 .. hardware.max
           /\ hardware.default \in Brightnesses
           /\ 0 \in 0 .. hardware.max
  <1>1. hardware \in Params
    BY DEF ParamsInv
  <1>2. /\ hardware.min \in Nat /\ hardware.max \in Nat
        /\ hardware.default \in hardware.min .. hardware.max
    BY <1>1, ParamsAssumption
  <1> QED BY <1>2 DEF Brightnesses

(* Nothing is known or asked of repowerd at first.                           *)
LEMMA InitType == Init => TypeOK /\ OwnerInv
  <1> SUFFICES ASSUME Init PROVE TypeOK /\ OwnerInv
    OBVIOUS
  <1>1. ParamsInv
    BY DEF Init, ParamsInv
  <1>2. -(Scale * hardware.max) \in Int /\ -(Scale * hardware.max) <= 0 /\ Scale \in Nat
    BY <1>1, Bounds, ScaleAssumption
  <1>3. percentage \in -(Scale * hardware.max) .. Scale
    BY <1>2 DEF Init
  <1> QED BY <1>1, <1>3, Bounds, OwnersAssumption DEF Init, TypeOK, OwnerInv

(* Every step keeps the types.                                               *)
LEMMA StepType ==
    ASSUME ParamsInv, TypeOK, OwnerInv, [Next]_vars
    PROVE  TypeOK' /\ OwnerInv'
  <1>1. CASE on_powerd_proxy_ready
    <2>1. /\ UNCHANGED <<percentage, schema_vars, hardware, owner, owners, powerd_brightness,
                         sent, previous, chosen>>
          /\ powerd_name_owner' = owner
          /\ powerd_params' \in {powerd_params, NULL}
      BY <1>1 DEF on_powerd_proxy_ready, NameOwnerChanges, slider_vars
    <2>2. owner \in 0 .. MaxOwners
      BY OwnersAssumption DEF OwnerInv
    <2> QED BY <2>1, <2>2 DEF TypeOK, OwnerInv, schema_vars, Brightnesses
  <1>2. CASE on_powerd_brightness_params_ready
    <2>1. /\ UNCHANGED <<powerd_name_owner, has_settings, hardware, owner, owners,
                         powerd_brightness, previous>>
          /\ powerd_params' = hardware /\ need_default' \in BOOLEAN
          /\ chosen' \in {chosen, hardware.default}
          /\ \/ UNCHANGED <<percentage, saved, sent>>
             \/ set_brightness_global(hardware, hardware.default)
             \/ set_brightness_global(hardware, saved)
      BY <1>2 DEF on_powerd_brightness_params_ready, RestoreSaved, TypeOK, slider_vars
    <2>2. /\ percentage' \in -(Scale * hardware'.max) .. Scale
          /\ saved' \in 0 .. hardware'.max
          /\ sent' \in 0 .. hardware'.max \cup {NULL}
      <3>1. saved \in 0 .. hardware.max /\ hardware.default \in 0 .. hardware.max
        BY Bounds DEF TypeOK
      <3>2. CASE UNCHANGED <<percentage, saved, sent>>
        BY <2>1, <3>2 DEF TypeOK
      <3>3. CASE ~UNCHANGED <<percentage, saved, sent>>
        <4>1. PICK b \in 0 .. hardware.max : set_brightness_global(hardware, b)
          BY <2>1, <3>1, <3>3
        <4> QED BY <2>1, <4>1, GlobalType
      <3> QED BY <3>2, <3>3
    <2>3. chosen' \in Brightnesses /\ Brightnesses' = Brightnesses
      BY <2>1, Bounds DEF TypeOK, Brightnesses
    <2> QED BY <2>1, <2>2, <2>3 DEF TypeOK, OwnerInv, ParamsInv
  <1>3. CASE ParamsCallFails
    BY <1>3 DEF ParamsCallFails, object_vars, schema_vars, TypeOK, OwnerInv, Brightnesses
  <1>4. CASE \E p \in Percentages : set_percentage(p)
    <2>1. PICK p \in Percentages : set_percentage(p)
      BY <1>4
    <2>2. /\ UNCHANGED <<powerd_params, powerd_name_owner, has_settings, need_default, hardware,
                         owner, owners, powerd_brightness, previous>>
          /\ chosen' = percentage_to_brightness(hardware, p)
          /\ set_brightness_global(powerd_params, percentage_to_brightness(powerd_params, p))
      BY <2>1 DEF set_percentage, powerd_vars
    <2>3. /\ percentage_to_brightness(powerd_params, p) \in 0 .. hardware.max
          /\ percentage_to_brightness(hardware, p) \in Brightnesses
      BY BrightnessType DEF ParamsInv, Brightnesses
    <2>4. /\ percentage' \in -(Scale * hardware'.max) .. Scale
          /\ saved' \in 0 .. hardware'.max
          /\ sent' \in 0 .. hardware'.max \cup {NULL}
      <3>1. PICK b : b = percentage_to_brightness(powerd_params, p)
        OBVIOUS
      <3> QED BY <2>2, <2>3, <3>1, GlobalType DEF ParamsInv
    <2> QED BY <2>2, <2>3, <2>4 DEF TypeOK, OwnerInv, Brightnesses
  <1>5. CASE Dispose
    <2>1. powerd_name_owner' \in 0 .. MaxOwners
      BY <1>5, OwnersAssumption DEF Dispose
    <2> QED BY <1>5, <2>1 DEF Dispose, schema_vars, slider_vars, TypeOK, OwnerInv, Brightnesses
  <1>6. ASSUME NEW new \in 0 .. MaxOwners, NEW b \in 0 .. hardware.max, PowerdChanges(new, b)
        PROVE  TypeOK'
    <2>1. /\ UNCHANGED <<schema_vars, hardware, previous, chosen>>
          /\ sent' \in {sent, NULL}
          /\ powerd_brightness' = b
          /\ powerd_params' \in {powerd_params, NULL}
          /\ powerd_name_owner' \in {powerd_name_owner, new}
          /\ set_brightness_local(powerd_params, b) \/ UNCHANGED percentage
      BY <1>6 DEF PowerdChanges, NameOwnerChanges, slider_vars
    <2>2. percentage' \in -(Scale * hardware'.max) .. Scale
      BY <1>6, <2>1, LocalType DEF ParamsInv, TypeOK
    <2> QED BY <1>6, <2>1, <2>2 DEF TypeOK, schema_vars, Brightnesses
  <1>7. CASE PowerdStops
    <2>1. PowerdChanges(0, 0) /\ owner' = 0 /\ owners' = owners /\ 0 \in 0 .. MaxOwners
      BY <1>7, OwnersAssumption DEF PowerdStops, PowerdChanges
    <2> QED BY <1>6, <2>1, Bounds DEF OwnerInv
  <1>8. CASE \E b \in Brightnesses : PowerdStarts(b)
    <2>1. PICK b \in 0 .. hardware.max : PowerdStarts(b)
      BY <1>8, Bounds
    <2>2. /\ PowerdChanges(owners + 1, b) /\ owner' = owners + 1 /\ owners' = owners + 1
          /\ owners + 1 \in 0 .. MaxOwners
      BY <2>1, OwnersAssumption DEF PowerdStarts, PowerdChanges, OwnerInv
    <2> QED BY <1>6, <2>2 DEF OwnerInv
  <1>9. CASE \E b \in Brightnesses : PowerdBrightnessChanges(b)
    <2>1. PICK b \in 0 .. hardware.max : PowerdBrightnessChanges(b)
      BY <1>9, Bounds
    <2>2. /\ PowerdChanges(owner, b) /\ owner' = owner /\ owners' = owners
          /\ owner \in 0 .. MaxOwners
      BY <2>1, OwnersAssumption DEF PowerdBrightnessChanges, PowerdChanges, OwnerInv
    <2> QED BY <1>6, <2>2 DEF OwnerInv
  <1>10. CASE \E b \in Brightnesses : SchemaChanges(b)
    <2>1. PICK b \in Brightnesses : SchemaChanges(b)
      BY <1>10
    <2>2. /\ UNCHANGED <<powerd_params, powerd_name_owner, has_settings, need_default, hardware,
                         owner, owners, powerd_brightness, sent, previous>>
          /\ saved' = b /\ chosen' = b /\ set_brightness_local(powerd_params, b)
      BY <2>1 DEF SchemaChanges, on_brightness_changed_in_schema, powerd_vars
    <2>3. b \in 0 .. hardware.max
      BY Bounds
    <2>4. percentage' \in -(Scale * hardware'.max) .. Scale
      BY <2>2, <2>3, LocalType DEF ParamsInv
    <2> QED BY <2>2, <2>3, <2>4 DEF TypeOK, OwnerInv, Brightnesses
  <1>11. CASE UNCHANGED vars
    BY <1>11 DEF vars, object_vars, schema_vars, powerd_vars, TypeOK, OwnerInv, Brightnesses
  <1> QED BY <1>1, <1>2, <1>3, <1>4, <1>5, <1>7, <1>8, <1>9, <1>10, <1>11 DEF Next

(* No brightness leaves the range of repowerd, and no percentage 100%,       *)
(* through any conversions with bounds that are known or not (percentage_to_ *)
(* brightness, brightness_to_percentage).                                    *)
THEOREM BrightnessStaysInRange == Spec => []TypeOK
  <1>1. Init => TypeOK /\ OwnerInv
    BY InitType
  <1>2. ParamsInv /\ TypeOK /\ OwnerInv /\ [Next]_vars => TypeOK' /\ OwnerInv'
    BY StepType
  <1> QED BY <1>1, <1>2, ParamsInvHolds, PTL DEF Spec
=============================================================================
