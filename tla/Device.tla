-------------------------------- MODULE Device --------------------------------
(***************************************************************************)
(* IndicatorPowerDevice (src/src/device.c): a device's properties, how long *)
(* its remaining time has been unknown, and the texts and icons made of    *)
(* them.  UPower's messages (src/src/device-provider-upower.c) set the     *)
(* properties one after the other; the panel's label is made anew when all *)
(* of a message has been taken over, and at no other time.                 *)
(***************************************************************************)
EXTENDS PowerDevice, Sequences, FiniteSets

CONSTANTS
    Readings,   \* [kind, state, percentage, time] of a device, time in seconds
    Settings,   \* [time, percentage]: show-time, show-percentage
    TickLength, \* seconds between two looks at the clock
    MaxClock    \* bound: seconds the clock runs for

Kind  == UpDeviceKind \cup {"monitor"}
State == UpDeviceState \cup {"pending-charge", "pending-discharge"}

ASSUME DeviceReadingsAssumption ==
    Readings \subseteq [kind : Kind, state : State, percentage : Percentage, time : Nat]
ASSUME SettingsAssumption == Settings \subseteq [time : BOOLEAN, percentage : BOOLEAN]
ASSUME ClockAssumption == TickLength \in Nat \ {0} /\ MaxClock \in Nat

VARIABLES
    device,      \* its properties
    inestimable, \* when its timer was started, or -1
    message,     \* the properties that the running callback has yet to set
    reading,     \* what UPower last said of the device
    settings,
    label,       \* the panel's label, see readable_title
    clock,
    lost_since   \* history: since when there has been no estimate after a message, or -1

vars == <<device, inestimable, message, reading, settings, label, clock, lost_since>>

NoDevice == [kind |-> UP_DEVICE_KIND_UNKNOWN, state |-> UP_DEVICE_STATE_UNKNOWN,
             percentage |-> 0, time |-> 0]

(* The order in which on_get_all_response() sets the properties.             *)
Properties == <<"kind", "state", "percentage", "time">>

-----------------------------------------------------------------------------
(* Texts: a word, or a time in hours and minutes with what is said of it;   *)
(* hours of -1 are not mentioned.  "elapsed" is the age of the timer in      *)
(* seconds, or -1 if there is none.  Times fit the int and the guint that    *)
(* the code converts them to.                                                *)

Text(word, hours, minutes, suffix) ==
    [word |-> word, hours |-> hours, minutes |-> minutes, suffix |-> suffix]
Word(word) == Text(word, 0, 0, "")
NoText == Word("")

(* "H:MM" with what is said of it.                                           *)
HoursAndMinutes(time, suffix) ==
    LET minutes == time \div 60
    IN  Text("", minutes \div 60, minutes % 60, suffix)

(* "H hours M minutes", or only "M minutes", with what is said of it.        *)
Spoken(time, suffix) ==
    LET minutes == time \div 60
        hours   == minutes \div 60
    IN  Text("", IF hours > 0 THEN hours ELSE -1, minutes % 60, suffix)

(* set_property(): can the remaining time not be told?                       *)
is_inestimable(d) ==
    d.time = 0 /\ d.state # UP_DEVICE_STATE_FULLY_CHARGED /\ d.percentage > 0

get_brief_time_remaining(d, elapsed) ==
    CASE d.time > 0                             -> HoursAndMinutes(d.time, "")
      [] d.time = 0 /\ elapsed \in 0 .. 29       -> Word("estimating")
      [] d.time = 0 /\ elapsed \in 30 .. 59      -> Word("unknown")
      [] d.time = 0 /\ elapsed \notin 0 .. 59    -> NoText

get_expanded_time_remaining(d, elapsed) ==
    CASE d.time > 0 /\ d.state = UP_DEVICE_STATE_CHARGING -> HoursAndMinutes(d.time, "to charge")
      [] d.time > 0 /\ IsDischarging(d)                   -> HoursAndMinutes(d.time, "left")
      [] OTHER                              -> get_brief_time_remaining(d, elapsed)

(* Mistake: above an hour all of the minutes are said, not those left over.  *)
Bug_MinutesTwice(d, elapsed) ==
    LET text == IF d.state = UP_DEVICE_STATE_CHARGING THEN Spoken(d.time, "to charge")
                ELSE Spoken(d.time, "left")
    IN  CASE d.time > 0 /\ (d.state = UP_DEVICE_STATE_CHARGING \/ IsDischarging(d)) ->
                 [text EXCEPT !.minutes = d.time \div 60]
          [] OTHER -> get_brief_time_remaining(d, elapsed)

get_accessible_time_remaining(d, elapsed) ==
    CASE d.time > 0 /\ d.state = UP_DEVICE_STATE_CHARGING -> Spoken(d.time, "to charge")
      [] d.time > 0 /\ IsDischarging(d)                   -> Spoken(d.time, "left")
      [] OTHER                              -> get_brief_time_remaining(d, elapsed)

time_is_relevant(d) ==
    \/ d.state = UP_DEVICE_STATE_CHARGING
    \/ IsDischarging(d) /\ d.time < 24 * 60 * 60

(* What follows the device's name, in the menu item or read aloud.           *)
get_menuitem_text(d, elapsed, accessible) ==
    CASE d.state = UP_DEVICE_STATE_FULLY_CHARGED     -> Word("charged")
      [] time_is_relevant(d) /\ accessible           -> get_accessible_time_remaining(d, elapsed)
      [] time_is_relevant(d) /\ ~accessible          -> get_expanded_time_remaining(d, elapsed)
      [] OTHER                                       -> NoText

(* The panel's label; a charge of 0 is not shown.                            *)
readable_title(d, elapsed, wanted) ==
    [time    |-> IF wanted.time /\ time_is_relevant(d) THEN get_brief_time_remaining(d, elapsed)
                 ELSE NoText,
     percent |-> IF wanted.percentage THEN d.percentage ELSE 0]

-----------------------------------------------------------------------------
(* Icons: the names to be tried, the preferred one first.  A name is made of *)
(* the kind of device, the charge it shows in percent (or -1) and a word,    *)
(* and whether it shows the device charging; the theme's prefixes and the    *)
(* panel's variants of a name are left out.                                  *)

Icon(kind, index, word, charging) ==
    [kind |-> kind, index |-> index, word |-> word, charging |-> charging]

(* The first row whose bound the percentage (in tenths) reaches.             *)
Lookup(table, percentage) ==
    LET reached == {i \in DOMAIN table : percentage >= table[i][1]}
    IN  table[CHOOSE i \in reached : \A j \in reached : i <= j][2]

get_device_icon_suffix(percentage) ==
    Lookup(<<<<600, "full">>, <<300, "good">>, <<100, "low">>, <<0, "caution">>>>, percentage)

(* Mistake: 21% to 25% are rounded down.                                     *)
Bug_RoundsToNearest(percentage) == ((percentage + 50) \div 100) * 10

get_closest_10_percent_percentage(percentage) ==
    Lookup(<<<<950, 100>>, <<850, 90>>, <<750, 80>>, <<650, 70>>, <<550, 60>>, <<450, 50>>,
             <<350, 40>>, <<210, 30>>, <<150, 20>>, <<50, 10>>, <<0, 0>>>>, percentage)

get_fallback_device_icon_index(percentage) ==
    Lookup(<<<<900, 100>>, <<700, 80>>, <<500, 60>>, <<201, 40>>, <<100, 20>>, <<0, 0>>>>,
           percentage)

(* The icons that show a charge.                                             *)
ChargeIcons(d, charging) ==
    LET index   == get_closest_10_percent_percentage(d.percentage)
        index_2 == get_fallback_device_icon_index(d.percentage)
    IN  <<Icon(d.kind, index, "", charging)>>
        \o (IF index # index_2 THEN <<Icon(d.kind, index_2, "", charging)>> ELSE <<>>)
        \o <<Icon(d.kind, -1, get_device_icon_suffix(d.percentage), charging)>>

(* A device that charges falls back to the icons of one that does not.       *)
StateIcons(d) ==
    CASE d.state = UP_DEVICE_STATE_EMPTY ->
             <<Icon(d.kind, -1, "empty", FALSE), Icon(d.kind, 0, "", FALSE)>>
      [] d.state = UP_DEVICE_STATE_FULLY_CHARGED ->
             <<Icon(d.kind, -1, "full", FALSE), Icon(d.kind, 100, "", FALSE),
               Icon(d.kind, -1, "full", TRUE)>>
      [] d.state = UP_DEVICE_STATE_CHARGING -> ChargeIcons(d, TRUE) \o ChargeIcons(d, FALSE)
      [] OTHER -> ChargeIcons(d, FALSE)

indicator_power_device_get_icon_names(d) ==
    CASE d.kind \in {UP_DEVICE_KIND_LINE_POWER, "monitor"} -> <<Icon(d.kind, -1, "", FALSE)>>
      [] OTHER -> StateIcons(d)

-----------------------------------------------------------------------------
Elapsed == IF inestimable = -1 THEN -1 ELSE clock - inestimable

(* A device that the provider's table does not hold yet.                     *)
Init ==
    /\ device = NoDevice
    /\ inestimable = -1
    /\ message = <<>>
    /\ reading = NoDevice
    /\ settings \in Settings
    /\ label = readable_title(NoDevice, -1, settings)
    /\ clock = 0
    /\ lost_since = -1

Idle == message = <<>>

(* on_get_all_response(), for a new device or one that is listed.            *)
GetAllReply(r) ==
    /\ Idle
    /\ reading' = r
    /\ message' = Properties
    /\ UNCHANGED <<device, inestimable, settings, label, clock, lost_since>>

(* on_device_properties_changed(): the changed properties in the order of    *)
(* the message's dictionary.  A time of 0 is passed over, and nothing is     *)
(* done about a message that has no other.                                   *)
Orders(keys) ==
    {order \in [1 .. Cardinality(keys) -> keys] :
        \A k \in keys : \E i \in DOMAIN order : order[i] = k}

PropertiesChanged(r) ==
    /\ Idle
    /\ reading \notin {NoDevice, r}
    /\ reading' = r
    /\ message' \in Orders({k \in DOMAIN r : r[k] # reading[k] /\ (k = "time" => r.time # 0)})
    /\ UNCHANGED <<device, inestimable, settings, label, clock, lost_since>>

(* The timer after a property was set: it runs on when it runs already.      *)
(* Mistake: it is started again.                                             *)
Bug_TimerStartsAgain(d) == IF is_inestimable(d) THEN clock ELSE -1

TimerAfter(d) ==
    CASE ~is_inestimable(d)                        -> -1
      [] is_inestimable(d) /\ inestimable = -1     -> clock
      [] is_inestimable(d) /\ inestimable # -1     -> inestimable

(* set_property(), for the message's next property.  After the last one      *)
(* "devices-changed" is emitted, and the service makes the label anew.       *)
set_property ==
    /\ ~Idle
    /\ LET key == Head(message)
           d   == [device EXCEPT ![key] = reading[key]]
           age == IF TimerAfter(d) = -1 THEN -1 ELSE clock - TimerAfter(d)
       IN  /\ device' = d
           /\ inestimable' = TimerAfter(d)
           /\ message' = Tail(message)
           /\ IF message' = <<>>
              THEN /\ label' = readable_title(d, age, settings)
                   /\ lost_since' = CASE ~is_inestimable(d) -> -1
                                      [] is_inestimable(d) /\ lost_since = -1 -> clock
                                      [] is_inestimable(d) /\ lost_since # -1 -> lost_since
              ELSE UNCHANGED <<label, lost_since>>
    /\ UNCHANGED <<reading, settings, clock>>

(* The device leaves the table; the object is destroyed and nothing is left  *)
(* to be shown.                                                              *)
DeviceRemoved ==
    /\ Idle
    /\ device' = NoDevice
    /\ inestimable' = -1
    /\ lost_since' = -1
    /\ reading' = NoDevice
    /\ label' = readable_title(NoDevice, -1, settings)
    /\ UNCHANGED <<message, settings, clock>>

(* rebuild_header_now() for another reason: settings, another device.        *)
HeaderRebuilt(wanted) ==
    /\ Idle
    /\ settings' = wanted
    /\ label' = readable_title(device, Elapsed, wanted)
    /\ UNCHANGED <<device, inestimable, message, reading, clock, lost_since>>

(* Time passes between two callbacks.                                        *)
Tick ==
    /\ Idle
    /\ clock + TickLength <= MaxClock
    /\ clock' = clock + TickLength
    /\ UNCHANGED <<device, inestimable, message, reading, settings, label, lost_since>>

Next ==
    \/ \E r \in Readings : GetAllReply(r) \/ PropertiesChanged(r)
    \/ set_property
    \/ DeviceRemoved
    \/ \E wanted \in Settings : HeaderRebuilt(wanted)
    \/ Tick

Spec == Init /\ [][Next]_vars
=============================================================================
