--------------------------- MODULE DeviceProperties ---------------------------
(***************************************************************************)
(* What the texts and icons of a power device promise (src/src/device.c).  *)
(***************************************************************************)
EXTENDS Device

(* The variables have their types; only a callback that runs has properties  *)
(* left to set.                                                              *)
TypeOK ==
    /\ device \in [kind : Kind, state : State, percentage : Percentage, time : Nat]
    /\ reading \in [kind : Kind, state : State, percentage : Percentage, time : Nat]
    /\ inestimable \in Nat \cup {-1}
    /\ lost_since \in Nat \cup {-1}
    /\ message \in Seq({"kind", "state", "percentage", "time"})
    /\ clock \in Nat
    /\ settings \in [time : BOOLEAN, percentage : BOOLEAN]

(* A device's properties are set one at a time and the timer is looked at    *)
(* after each (set_property()), so it sees devices that UPower never         *)
(* reported, half old and half new.  None of them may make the timer forget  *)
(* how long the estimate has been missing, or count from anything but the    *)
(* message that lost it: between two messages its age is what it would be    *)
(* had every message been taken over at once.                                *)
EstimateAgeIsRight == Idle => inestimable = lost_since

InMinutes(text) == 60 * (IF text.hours = -1 THEN 0 ELSE text.hours) + text.minutes

(* The panel's label, the menu item and the text read aloud are made by      *)
(* three functions from the same device; at any moment they agree on the     *)
(* word or the time they tell, the two of the menu also on what the time is  *)
(* of, and only the one read aloud leaves the hours out, exactly below an    *)
(* hour (device.c:863); they tell a word only of a device whose estimate was *)
(* lost less than a minute ago, and a battery is never said to last for a    *)
(* day or more.                                                              *)
TextsAgree ==
    LET panel == readable_title(device, Elapsed, [time |-> TRUE, percentage |-> TRUE]).time
        menu  == get_menuitem_text(device, Elapsed, FALSE)
        aloud == get_menuitem_text(device, Elapsed, TRUE)
    IN  Idle /\ device.state # UP_DEVICE_STATE_FULLY_CHARGED =>
            /\ menu.word = panel.word /\ aloud.word = panel.word
            /\ InMinutes(menu) = InMinutes(panel) /\ InMinutes(aloud) = InMinutes(panel)
            /\ aloud.suffix = menu.suffix
            /\ menu.hours # -1 /\ panel.hours # -1
            /\ aloud.hours = -1 <=> aloud.suffix # "" /\ InMinutes(aloud) < 60
            /\ \A text \in {panel, menu, aloud} : text.minutes < 60
            /\ panel.word # "" => is_inestimable(device) /\ clock - lost_since < 60
            /\ menu.suffix = "left" => InMinutes(menu) < 24 * 60

(* The icon names offered for a charge (device.c:346 and on) tell the truth  *)
(* about it, whichever of them the theme has: the preferred one is within 5  *)
(* points of it, every other within 20; from 21% on the preferred one shows  *)
(* more than 20 (up to 9 points more), above 20% at least one does; an icon  *)
(* of a charging device is offered only to such a device, and first; and     *)
(* more charge never shows as less.  Said of the device with any charge      *)
(* instead of its own; as time plays no part, before any has passed.  Line   *)
(* power and monitors have no charge to show, whatever their state.          *)
IconsAreHonest ==
    /\ Idle /\ clock = 0
    /\ device.state \in {UP_DEVICE_STATE_CHARGING, UP_DEVICE_STATE_DISCHARGING}
    /\ device.kind \notin {UP_DEVICE_KIND_LINE_POWER, "monitor"}
    =>
        \A p \in Percentage :
            LET d     == [device EXCEPT !.percentage = p]
                more  == [device EXCEPT !.percentage = p + 1]
                names == indicator_power_device_get_icon_names(d)
                shown == {i \in DOMAIN names : names[i].index # -1}
            IN  /\ 10 * names[1].index \in (p - 50) .. (p + IF p \in 210 .. 249 THEN 90 ELSE 50)
                /\ \A i \in shown : 10 * names[i].index \in (p - 199) .. (p + 199)
                /\ p >= 210 => names[1].index > 20
                /\ p > 200 => \E i \in shown : names[i].index > 20
                /\ \A i \in DOMAIN names :
                       names[i].charging => /\ device.state = UP_DEVICE_STATE_CHARGING
                                            /\ \A j \in 1 .. i : names[j].charging
                /\ (device.state = UP_DEVICE_STATE_CHARGING) = names[1].charging
                /\ p < 1000 => names[1].index <= indicator_power_device_get_icon_names(more)[1].index

(* The design quoted above get_brief_time_remaining() (device.c:782): the    *)
(* panel tells the time while it can be told; when it cannot, "estimating"   *)
(* for 30 seconds, "unknown" for 30 more and then nothing.                   *)
LabelFollowsDesign ==
    Idle /\ label.time # NoText =>
        CASE label.time.word = "estimating" -> Elapsed \in 0 .. 29
          [] label.time.word = "unknown"    -> Elapsed \in 30 .. 59
          [] label.time.word = ""           -> reading.time > 0
=============================================================================
