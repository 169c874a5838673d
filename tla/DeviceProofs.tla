---------------------------- MODULE DeviceProofs ----------------------------
(***************************************************************************)
(* Proofs about Device, for any readings, settings and clock: the age of a *)
(* lost estimate is right however the properties of a message are ordered, *)
(* the texts made of a device agree, and its icons are honest.             *)
(***************************************************************************)
EXTENDS DeviceProperties, FiniteSetTheorems, TLAPS

Keys == {"kind", "state", "percentage", "time"}
Record == [kind : Kind, state : State, percentage : Percentage, time : Nat]

-----------------------------------------------------------------------------
(* Types                                                                     *)

LEMMA NoDeviceType == NoDevice \in Record
  BY DEF NoDevice, Record, Kind, State, UpDeviceKind, UpDeviceState, Percentage,
     UP_DEVICE_KIND_UNKNOWN, UP_DEVICE_STATE_UNKNOWN

LEMMA ReadingType == Readings \subseteq Record
  BY DeviceReadingsAssumption DEF Record

LEMMA RecordKeys == ASSUME NEW r \in Record PROVE DOMAIN r = Keys
  BY DEF Record, Keys

LEMMA TypeSplit ==
    TypeOK <=> /\ device \in Record
               /\ reading \in Record
               /\ inestimable \in Nat \cup {-1}
               /\ lost_since \in Nat \cup {-1}
               /\ message \in Seq(Keys)
               /\ clock \in Nat
               /\ settings \in [time : BOOLEAN, percentage : BOOLEAN]
  BY DEF TypeOK, Record, Keys

(* An order of some of the properties is a sequence of properties.           *)
LEMMA OrdersType == ASSUME NEW keys \in SUBSET Keys PROVE Orders(keys) \subseteq Seq(Keys)
  <1>1. IsFiniteSet(Keys)
    <2>1. Keys = (({"kind"} \cup {"state"}) \cup {"percentage"}) \cup {"time"}
      BY DEF Keys
    <2>2. IsFiniteSet({"kind"}) /\ IsFiniteSet({"state"}) /\ IsFiniteSet({"percentage"})
          /\ IsFiniteSet({"time"})
      BY FS_Singleton
    <2>3. QED
      BY <2>1, <2>2, FS_Union
  <1>2. Cardinality(keys) \in Nat
    BY <1>1, FS_Subset, FS_CardinalityType
  <1>3. QED
    BY <1>2 DEF Orders

-----------------------------------------------------------------------------
(* The age of a lost estimate                                                *)

Pending(k) == \E i \in 1 .. Len(message) : message[i] = k

(* The device as it will be when the message has been taken over.            *)
TakenOver ==
    [kind       |-> IF Pending("kind") THEN reading.kind ELSE device.kind,
     state      |-> IF Pending("state") THEN reading.state ELSE device.state,
     percentage |-> IF Pending("percentage") THEN reading.percentage ELSE device.percentage,
     time       |-> IF Pending("time") THEN reading.time ELSE device.time]

(* A message that leaves the estimate lost never stops the timer, as all its *)
(* half-way devices lack an estimate too; one that loses the estimate may    *)
(* start and stop it, but always at the present time.                        *)
EstimateInv ==
    /\ lost_since <= clock
    /\ lost_since # -1 /\ is_inestimable(TakenOver) =>
          inestimable = lost_since /\ is_inestimable(device)
    /\ lost_since = -1 => inestimable \in {-1, clock}
    /\ Idle => inestimable = lost_since
    /\ Idle => (lost_since # -1 <=> is_inestimable(device))

(* A property that was set is as it will be; those that wait are one fewer.  *)
LEMMA StepTowards ==
    ASSUME TypeOK, set_property
    PROVE  /\ device' = [device EXCEPT ![Head(message)] = reading[Head(message)]]
           /\ device' \in Record
           /\ Head(message) \in Keys
           /\ Pending(Head(message))
           /\ message' \in Seq(Keys)
           /\ TakenOver' = TakenOver
  <1>1. /\ device' = [device EXCEPT ![Head(message)] = reading[Head(message)]]
        /\ message' = Tail(message) /\ reading' = reading
    BY DEF set_property
  <1>2. message \in Seq(Keys) /\ message # <<>> /\ device \in Record /\ reading \in Record
    BY TypeSplit DEF set_property, Idle
  <1>3. /\ Head(message) \in Keys /\ message' \in Seq(Keys)
        /\ Len(message) \in Nat \ {0} /\ Len(message') = Len(message) - 1
        /\ \A i \in 1 .. Len(message') : message'[i] = message[i + 1]
        /\ Head(message) = message[1]
    BY <1>1, <1>2
  <1>4. Pending(Head(message))
    BY <1>3 DEF Pending
  <1>5. \A k : Pending(k)' => Pending(k)
    BY <1>3 DEF Pending
  <1>6. \A k : Pending(k) /\ k # Head(message) => Pending(k)'
    <2> SUFFICES ASSUME NEW k, Pending(k), k # Head(message) PROVE Pending(k)'
      OBVIOUS
    <2>1. PICK i \in 1 .. Len(message) : message[i] = k
      BY DEF Pending
    <2>2. i - 1 \in 1 .. Len(message') /\ message'[i - 1] = message[(i - 1) + 1]
      BY <1>3, <2>1
    <2>3. QED
      BY <1>3, <2>1, <2>2 DEF Pending
  <1>7. device' \in Record
    BY <1>1, <1>2, <1>3 DEF Record, Keys
  <1>8. TakenOver' = TakenOver
    BY <1>1, <1>2, <1>3, <1>4, <1>5, <1>6 DEF TakenOver, Record, Keys
  <1>9. QED
    BY <1>1, <1>3, <1>4, <1>7, <1>8

(* On the way from one device without an estimate to another, each property  *)
(* is one of the two's.                                                      *)
LEMMA HalfWay ==
    ASSUME TypeOK, set_property, is_inestimable(device), is_inestimable(TakenOver)
    PROVE  is_inestimable(device')
  <1>1. device \in Record /\ reading \in Record
    BY TypeSplit
  <1>2. CASE Head(message) = "kind"
    BY <1>1, <1>2, StepTowards DEF is_inestimable, Record
  <1>3. CASE Head(message) = "state"
    BY <1>1, <1>3, StepTowards DEF is_inestimable, Record, TakenOver
  <1>4. CASE Head(message) = "percentage"
    BY <1>1, <1>4, StepTowards DEF is_inestimable, Record, TakenOver
  <1>5. CASE Head(message) = "time"
    BY <1>1, <1>5, StepTowards DEF is_inestimable, Record, TakenOver
  <1>6. QED
    BY <1>2, <1>3, <1>4, <1>5, StepTowards DEF Keys

LEMMA NothingPending ==
    ASSUME message = <<>>, device \in Record PROVE TakenOver = device
  BY DEF TakenOver, Pending, Record

(* Every step keeps the types.                                               *)
LEMMA TypeKept == TypeOK /\ [Next]_vars => TypeOK'
  <1> SUFFICES ASSUME TypeOK, [Next]_vars PROVE TypeOK'
    OBVIOUS
  <1>1. ASSUME NEW r \in Readings, GetAllReply(r) PROVE TypeOK'
    <2>1. Properties \in Seq(Keys)
      BY DEF Properties, Keys
    <2>2. QED
      BY <1>1, <2>1, ReadingType, TypeSplit DEF GetAllReply, TypeOK, Record, Keys
  <1>2. ASSUME NEW r \in Readings, PropertiesChanged(r) PROVE TypeOK'
    <2>1. DOMAIN r = Keys
      BY ReadingType, RecordKeys
    <2>2. message' \in Seq(Keys)
      BY <1>2, <2>1, OrdersType DEF PropertiesChanged
    <2>3. QED
      BY <1>2, <2>2, ReadingType, TypeSplit DEF PropertiesChanged, TypeOK, Record, Keys
  <1>3. CASE set_property
    <2>1. device' \in Record /\ message' \in Seq(Keys)
      BY <1>3, StepTowards
    <2>2. inestimable' \in Nat \cup {-1}
      BY <1>3 DEF set_property, TimerAfter, TypeOK
    <2>3. lost_since' \in Nat \cup {-1}
      BY <1>3 DEF set_property, TypeOK
    <2>4. reading' = reading /\ clock' = clock /\ settings' = settings
      BY <1>3 DEF set_property
    <2>5. QED
      BY <2>1, <2>2, <2>3, <2>4 DEF TypeOK, Record, Keys
  <1>4. CASE DeviceRemoved
    BY <1>4, NoDeviceType DEF DeviceRemoved, TypeOK, Record
  <1>5. ASSUME NEW wanted \in Settings, HeaderRebuilt(wanted) PROVE TypeOK'
    BY <1>5, SettingsAssumption DEF HeaderRebuilt, TypeOK
  <1>6. CASE Tick
    BY <1>6, ClockAssumption DEF Tick, TypeOK
  <1>7. CASE UNCHANGED vars
    BY <1>7 DEF vars, TypeOK
  <1>8. QED
    BY <1>1, <1>2, <1>3, <1>4, <1>5, <1>6, <1>7 DEF Next

(* A message begins, and with it the way from the old device to the new one. *)
LEMMA MessageBegins ==
    ASSUME TypeOK, EstimateInv, Idle, device' = device, inestimable' = inestimable,
           lost_since' = lost_since, clock' = clock
    PROVE  EstimateInv'
  <1>1. inestimable = lost_since /\ (lost_since # -1 <=> is_inestimable(device))
    BY DEF EstimateInv
  <1>2. QED
    BY <1>1 DEF EstimateInv, Idle

LEMMA PropertyKeepsEstimate ==
    ASSUME TypeOK, EstimateInv, set_property PROVE EstimateInv'
  <1>1. /\ inestimable' = TimerAfter(device')
        /\ clock' = clock
        /\ message' # <<>> => lost_since' = lost_since
        /\ message' = <<>> =>
              lost_since' = CASE ~is_inestimable(device') -> -1
                              [] is_inestimable(device') /\ lost_since = -1 -> clock
                              [] is_inestimable(device') /\ lost_since # -1 -> lost_since
    BY DEF set_property
  <1>2. TakenOver' = TakenOver /\ device' \in Record
    BY StepTowards
  <1>3. clock \in Nat /\ inestimable \in Nat \cup {-1} /\ lost_since \in Nat \cup {-1}
    BY TypeSplit
  <1>4. lost_since # -1 /\ is_inestimable(TakenOver) =>
            inestimable' = lost_since /\ is_inestimable(device')
    <2> SUFFICES ASSUME lost_since # -1, is_inestimable(TakenOver)
                 PROVE  inestimable' = lost_since /\ is_inestimable(device')
      OBVIOUS
    <2>1. inestimable = lost_since /\ is_inestimable(device)
      BY DEF EstimateInv
    <2>2. is_inestimable(device')
      BY <2>1, HalfWay
    <2>3. QED
      BY <1>1, <2>1, <2>2 DEF TimerAfter
  <1>5. lost_since = -1 => inestimable' \in {-1, clock}
    BY <1>1 DEF EstimateInv, TimerAfter
  <1>6. CASE message' # <<>>
    <2>1. lost_since' = lost_since
      BY <1>1, <1>6
    <2>2. is_inestimable(TakenOver)' = is_inestimable(TakenOver)
      BY <1>2 DEF is_inestimable
    <2>3. is_inestimable(device)' = is_inestimable(device')
      BY DEF is_inestimable
    <2>4. QED
      BY <1>1, <1>4, <1>5, <1>6, <2>1, <2>2, <2>3 DEF EstimateInv, Idle
  <1>7. CASE message' = <<>>
    <2>1. TakenOver = device'
      <3>1. (message = <<>> /\ device \in Record => TakenOver = device)'
        BY NothingPending, PTL
      <3>2. QED
        BY <1>2, <1>7, <3>1
    <2>2. is_inestimable(device)' = is_inestimable(device')
      BY DEF is_inestimable
    <2>3. CASE ~is_inestimable(device')
      <3>1. inestimable' = -1 /\ lost_since' = -1
        BY <1>1, <1>7, <2>3 DEF TimerAfter
      <3>2. QED
        BY <1>1, <1>3, <2>2, <2>3, <3>1 DEF EstimateInv
    <2>4. CASE is_inestimable(device') /\ lost_since = -1
      <3>1. inestimable' = clock /\ lost_since' = clock
        BY <1>1, <1>3, <1>5, <1>7, <2>4 DEF TimerAfter, EstimateInv
      <3>2. QED
        BY <1>1, <1>3, <2>2, <2>4, <3>1 DEF EstimateInv
    <2>5. CASE is_inestimable(device') /\ lost_since # -1
      <3>1. inestimable' = lost_since /\ lost_since' = lost_since
        BY <1>1, <1>4, <1>7, <2>1, <2>5
      <3>2. QED
        BY <1>1, <1>3, <2>2, <2>5, <3>1 DEF EstimateInv
    <2>6. QED
      BY <2>3, <2>4, <2>5
  <1>8. QED
    BY <1>6, <1>7

LEMMA EstimateInvHolds == Spec => [](TypeOK /\ EstimateInv)
  <1>1. Init => TypeOK /\ EstimateInv
    <2> SUFFICES ASSUME Init PROVE TypeOK /\ EstimateInv
      OBVIOUS
    <2>1. TypeOK
      BY NoDeviceType, SettingsAssumption DEF Init, TypeOK, Record
    <2>2. ~is_inestimable(NoDevice)
      BY DEF is_inestimable, NoDevice
    <2>3. EstimateInv
      BY <2>2 DEF Init, EstimateInv
    <2>4. QED
      BY <2>1, <2>3
  <1>2. ASSUME TypeOK, EstimateInv, [Next]_vars PROVE EstimateInv'
    <2>1. CASE \E r \in Readings : GetAllReply(r) \/ PropertiesChanged(r)
      BY <1>2, <2>1, MessageBegins DEF GetAllReply, PropertiesChanged
    <2>2. CASE set_property
      BY <1>2, <2>2, PropertyKeepsEstimate
    <2>3. CASE DeviceRemoved
      <3>1. ~is_inestimable(NoDevice)
        BY DEF is_inestimable, NoDevice
      <3>2. QED
        BY <1>2, <2>3, <3>1 DEF DeviceRemoved, EstimateInv, TypeOK, is_inestimable
    <2>4. CASE \E wanted \in Settings : HeaderRebuilt(wanted)
      BY <1>2, <2>4, MessageBegins DEF HeaderRebuilt
    <2>5. CASE Tick
      <3>1. inestimable = lost_since /\ (lost_since # -1 <=> is_inestimable(device))
            /\ lost_since <= clock
        BY <1>2, <2>5 DEF EstimateInv, Tick
      <3>2. clock' \in Nat /\ clock' >= clock /\ clock \in Nat /\ lost_since \in Nat \cup {-1}
        BY <1>2, <2>5, ClockAssumption DEF Tick, TypeOK
      <3>3. UNCHANGED <<device, inestimable, lost_since>>
        BY <2>5 DEF Tick
      <3>4. lost_since' <= clock'
        BY <3>1, <3>2, <3>3
      <3>5. QED
        BY <3>1, <3>3, <3>4 DEF EstimateInv, is_inestimable
    <2>6. CASE UNCHANGED vars
      BY <1>2, <2>6 DEF vars, EstimateInv, Idle, TakenOver, Pending, is_inestimable
    <2>7. QED
      BY <1>2, <2>1, <2>2, <2>3, <2>4, <2>5, <2>6 DEF Next
  <1>3. QED
    BY <1>1, <1>2, TypeKept, PTL DEF Spec

(* Between two messages the timer started when the estimate was lost, or     *)
(* does not run, however the properties came (set_property).                 *)
THEOREM TimerIsRight == Spec => []EstimateAgeIsRight
  <1>1. EstimateInv => EstimateAgeIsRight
    BY DEF EstimateInv, EstimateAgeIsRight
  <1>2. QED
    BY <1>1, EstimateInvHolds, PTL

-----------------------------------------------------------------------------
(* The texts                                                                 *)

LEMMA Words == NoText = Text("", 0, 0, "") /\ \A w : Word(w) = Text(w, 0, 0, "")
  BY DEF NoText, Word

(* Hours and minutes, said or shown, make up the time.                       *)
LEMMA Parts ==
    ASSUME NEW time \in Nat
    PROVE  LET n == time \div 60
           IN  /\ n \in Nat /\ n \div 60 \in Nat /\ n % 60 \in 0 .. 59
               /\ 60 * (n \div 60) + (n % 60) = n
               /\ n \div 60 > 0 <=> n >= 60
               /\ time < 24 * 60 * 60 => n < 24 * 60
  <1> DEFINE n == time \div 60
  <1>1. n \in Nat /\ (time < 24 * 60 * 60 => n < 24 * 60)
    OBVIOUS
  <1> HIDE DEF n
  <1>2. /\ n \div 60 \in Nat /\ n % 60 \in 0 .. 59
        /\ 60 * (n \div 60) + (n % 60) = n
        /\ n \div 60 > 0 <=> n >= 60
    BY <1>1
  <1> QED BY <1>1, <1>2 DEF n

(* What a text tells: a word and what is said of it, a time and its minutes. *)
Says(text, w, s)         == text.word = w /\ text.suffix = s
Counts(text, h, m, total) == text.hours = h /\ text.minutes = m /\ InMinutes(text) = total

Tells(text, w, h, m, s, total) == Says(text, w, s) /\ Counts(text, h, m, total)

LEMMA TextParts ==
    ASSUME NEW w, NEW h \in Int, NEW m \in Int, NEW s
    PROVE  Tells(Text(w, h, m, s), w, h, m, s, 60 * (IF h = -1 THEN 0 ELSE h) + m)
  BY DEF Text, InMinutes, Tells, Says, Counts

LEMMA ShownTime ==
    ASSUME NEW time \in Nat, NEW suffix
    PROVE  \E h \in Nat, m \in 0 .. 59 :
               Tells(HoursAndMinutes(time, suffix), "", h, m, suffix, time \div 60)
  <1> DEFINE n == time \div 60
             h == n \div 60
             m == n % 60
  <1>1. h \in Nat /\ m \in 0 .. 59 /\ 60 * h + m = n
    BY Parts
  <1>2. HoursAndMinutes(time, suffix) = Text("", h, m, suffix)
    BY Zenon DEF HoursAndMinutes
  <1> HIDE DEF n, h, m
  <1>3. h \in Int /\ m \in Int /\ 60 * (IF h = -1 THEN 0 ELSE h) + m = n
    BY <1>1
  <1>4. Tells(Text("", h, m, suffix), "", h, m, suffix, n)
    BY <1>3, TextParts, Zenon
  <1> QED BY <1>1, <1>2, <1>4, Zenon DEF n

LEMMA SpokenTime ==
    ASSUME NEW time \in Nat, NEW suffix
    PROVE  \E h \in Int, m \in 0 .. 59 :
               /\ Tells(Spoken(time, suffix), "", h, m, suffix, time \div 60)
               /\ h = -1 <=> time \div 60 < 60
  <1> DEFINE n == time \div 60
             q == n \div 60
             h == IF q > 0 THEN q ELSE -1
             m == n % 60
  <1>1. n \in Nat /\ q \in Nat /\ m \in 0 .. 59 /\ 60 * q + m = n /\ (q > 0 <=> n >= 60)
    BY Parts
  <1>2. Spoken(time, suffix) = Text("", h, m, suffix)
    BY Zenon DEF Spoken
  <1> HIDE DEF n, q, m
  <1>3. /\ h \in Int /\ m \in Int /\ 60 * (IF h = -1 THEN 0 ELSE h) + m = n
        /\ h = -1 <=> n < 60
    BY <1>1
  <1> HIDE DEF h
  <1>4. Tells(Text("", h, m, suffix), "", h, m, suffix, n)
    BY <1>3, TextParts, Zenon
  <1> QED BY <1>1, <1>2, <1>3, <1>4, Zenon DEF n

(* What TextsAgree speaks of.                                                *)
PanelTime == readable_title(device, Elapsed, [time |-> TRUE, percentage |-> TRUE]).time
MenuText  == get_menuitem_text(device, Elapsed, FALSE)
AloudText == get_menuitem_text(device, Elapsed, TRUE)
BriefTime == get_brief_time_remaining(device, Elapsed)

LEMMA PanelIsBrief == PanelTime = IF time_is_relevant(device) THEN BriefTime ELSE NoText
  BY DEF PanelTime, BriefTime, readable_title

(* There is nothing to tell, or no time, or a time and what it is of.        *)
LEMMA ThreeTexts ==
    ASSUME TypeOK, device.state # UP_DEVICE_STATE_FULLY_CHARGED
    PROVE  \/ PanelTime = NoText /\ MenuText = NoText /\ AloudText = NoText
           \/ /\ device.time = 0
              /\ PanelTime = BriefTime /\ MenuText = BriefTime /\ AloudText = BriefTime
           \/ \E suffix \in {"to charge", "left"} :
                  /\ PanelTime = HoursAndMinutes(device.time, "")
                  /\ MenuText = HoursAndMinutes(device.time, suffix)
                  /\ AloudText = Spoken(device.time, suffix)
                  /\ suffix = "left" => device.time < 24 * 60 * 60
  <1>1. device.time \in Nat
    BY TypeSplit DEF Record
  <1>2. CASE ~time_is_relevant(device)
    <2>1. MenuText = NoText /\ AloudText = NoText
      BY <1>2, Zenon DEF MenuText, AloudText, get_menuitem_text
    <2>2. PanelTime = NoText
      BY <1>2, PanelIsBrief
    <2> QED BY <2>1, <2>2
  <1>3. CASE time_is_relevant(device)
    <2>1. MenuText = get_expanded_time_remaining(device, Elapsed)
      BY <1>3, Zenon DEF MenuText, get_menuitem_text
    <2>2. AloudText = get_accessible_time_remaining(device, Elapsed)
      BY <1>3, Zenon DEF AloudText, get_menuitem_text
    <2>3. PanelTime = BriefTime
      BY <1>3, PanelIsBrief
    <2>4. CASE device.time > 0
      <3>1. ~(device.time = 0)
        BY <1>1, <2>4
      <3>2. PanelTime = HoursAndMinutes(device.time, "")
        BY <2>3, <2>4, <3>1, Zenon DEF BriefTime, get_brief_time_remaining
      <3>3. CASE device.state = UP_DEVICE_STATE_CHARGING
        <4>1. ~IsDischarging(device)
          BY <3>3 DEF IsDischarging, UP_DEVICE_STATE_CHARGING, UP_DEVICE_STATE_DISCHARGING
        <4>2. MenuText = HoursAndMinutes(device.time, "to charge")
          BY <2>1, <2>4, <3>3, <4>1, Zenon DEF get_expanded_time_remaining
        <4>3. AloudText = Spoken(device.time, "to charge")
          BY <2>2, <2>4, <3>3, <4>1, Zenon DEF get_accessible_time_remaining
        <4> QED BY <3>2, <4>2, <4>3
      <3>4. CASE device.state # UP_DEVICE_STATE_CHARGING
        <4>1. IsDischarging(device) /\ device.time < 24 * 60 * 60
          BY <1>3, <3>4, Zenon DEF time_is_relevant
        <4>2. MenuText = HoursAndMinutes(device.time, "left")
          BY <2>1, <2>4, <3>4, <4>1, Zenon DEF get_expanded_time_remaining
        <4>3. AloudText = Spoken(device.time, "left")
          BY <2>2, <2>4, <3>4, <4>1, Zenon DEF get_accessible_time_remaining
        <4> QED BY <3>2, <4>1, <4>2, <4>3
      <3> QED BY <3>3, <3>4
    <2>5. CASE ~(device.time > 0)
      <3>1. device.time = 0
        BY <1>1, <2>5
      <3>2. MenuText = BriefTime
        BY <2>1, <2>5, Zenon DEF BriefTime, get_expanded_time_remaining
      <3>3. AloudText = BriefTime
        BY <2>2, <2>5, Zenon DEF BriefTime, get_accessible_time_remaining
      <3> QED BY <2>3, <3>1, <3>2, <3>3
    <2> QED BY <2>4, <2>5
  <1> QED BY <1>2, <1>3

(* Without a time, what is told depends on the age of the timer.             *)
LEMMA BriefWithoutTime ==
    ASSUME TypeOK, device.time = 0
    PROVE  \E w : BriefTime = Text(w, 0, 0, "") /\ (w # "" => Elapsed \in 0 .. 59)
  <1>1. Elapsed \in Int
    BY TypeSplit DEF Elapsed
  <1>2. ~(device.time > 0)
    OBVIOUS
  <1>3. CASE Elapsed \in 0 .. 29
    <2>1. Elapsed \notin 30 .. 59 /\ Elapsed \in 0 .. 59
      BY <1>3
    <2>2. BriefTime = Text("estimating", 0, 0, "")
      BY <1>2, <1>3, <2>1, Words, Zenon DEF BriefTime, get_brief_time_remaining
    <2> QED BY <2>1, <2>2
  <1>4. CASE Elapsed \in 30 .. 59
    <2>1. Elapsed \notin 0 .. 29 /\ Elapsed \in 0 .. 59
      BY <1>4
    <2>2. BriefTime = Text("unknown", 0, 0, "")
      BY <1>2, <1>4, <2>1, Words, Zenon DEF BriefTime, get_brief_time_remaining
    <2> QED BY <2>1, <2>2
  <1>5. CASE Elapsed \notin 0 .. 59
    <2>1. Elapsed \notin 0 .. 29 /\ Elapsed \notin 30 .. 59
      BY <1>5
    <2>2. BriefTime = Text("", 0, 0, "")
      BY <1>2, <1>5, <2>1, Words, Zenon DEF BriefTime, get_brief_time_remaining
    <2> QED BY <2>2
  <1>6. Elapsed \in 0 .. 29 \/ Elapsed \in 30 .. 59 \/ Elapsed \notin 0 .. 59
    BY <1>1
  <1> QED BY <1>3, <1>4, <1>5, <1>6

Agreeing(panel, menu, aloud) ==
    /\ menu.word = panel.word /\ aloud.word = panel.word
    /\ InMinutes(menu) = InMinutes(panel) /\ InMinutes(aloud) = InMinutes(panel)
    /\ aloud.suffix = menu.suffix
    /\ menu.hours # -1 /\ panel.hours # -1
    /\ aloud.hours = -1 <=> aloud.suffix # "" /\ InMinutes(aloud) < 60
    /\ \A text \in {panel, menu, aloud} : text.minutes < 60
    /\ panel.word # "" => is_inestimable(device) /\ clock - lost_since < 60
    /\ menu.suffix = "left" => InMinutes(menu) < 24 * 60

LEMMA NumbersAgree ==
    ASSUME NEW panel, NEW menu, NEW aloud, NEW n \in Nat,
           NEW h \in Nat, NEW m \in 0 .. 59, NEW k \in Int, NEW l \in 0 .. 59,
           NEW i \in Nat, NEW j \in 0 .. 59,
           Counts(panel, h, m, n), Counts(menu, i, j, n), Counts(aloud, k, l, n),
           k = -1 <=> n < 60
    PROVE  /\ InMinutes(menu) = InMinutes(panel) /\ InMinutes(aloud) = InMinutes(panel)
           /\ menu.hours # -1 /\ panel.hours # -1
           /\ aloud.hours = -1 <=> InMinutes(aloud) < 60
           /\ panel.minutes < 60 /\ menu.minutes < 60 /\ aloud.minutes < 60
           /\ InMinutes(menu) = n
  BY DEF Counts

LEMMA NoNumbers ==
    /\ 0 \in Int
    /\ \A text : Counts(text, 0, 0, 60 * (IF 0 = -1 THEN 0 ELSE 0) + 0) =>
           /\ InMinutes(text) < 60 /\ InMinutes(text) < 24 * 60
           /\ text.hours # -1 /\ text.minutes < 60
  BY DEF Counts

LEMMA AgreeingTimes ==
    ASSUME NEW panel, NEW menu, NEW aloud, NEW suffix, NEW n \in Nat,
           NEW h \in Nat, NEW m \in 0 .. 59, NEW k \in Int, NEW l \in 0 .. 59,
           NEW i \in Nat, NEW j \in 0 .. 59,
           Tells(panel, "", h, m, "", n), Tells(menu, "", i, j, suffix, n),
           Tells(aloud, "", k, l, suffix, n),
           k = -1 <=> n < 60, suffix # "", suffix = "left" => n < 24 * 60
    PROVE  Agreeing(panel, menu, aloud)
  <1>1. /\ menu.word = panel.word /\ aloud.word = panel.word /\ ~(panel.word # "")
        /\ aloud.suffix = menu.suffix /\ menu.suffix = suffix /\ aloud.suffix # ""
    BY Zenon DEF Tells, Says
  <1>2. Counts(panel, h, m, n) /\ Counts(menu, i, j, n) /\ Counts(aloud, k, l, n)
    BY Zenon DEF Tells
  <1>3. /\ InMinutes(menu) = InMinutes(panel) /\ InMinutes(aloud) = InMinutes(panel)
        /\ menu.hours # -1 /\ panel.hours # -1
        /\ aloud.hours = -1 <=> InMinutes(aloud) < 60
        /\ panel.minutes < 60 /\ menu.minutes < 60 /\ aloud.minutes < 60
        /\ InMinutes(menu) = n
    BY <1>2, NumbersAgree, Zenon
  <1>4. \A text \in {panel, menu, aloud} : text.minutes < 60
    BY <1>3, Zenon
  <1>5. menu.suffix = "left" => InMinutes(menu) < 24 * 60
    BY <1>1, <1>3, Zenon
  <1> QED BY <1>1, <1>3, <1>4, <1>5, Zenon DEF Agreeing

LEMMA WordAgrees ==
    ASSUME NEW w, w # "" => is_inestimable(device) /\ clock - lost_since < 60
    PROVE  Agreeing(Text(w, 0, 0, ""), Text(w, 0, 0, ""), Text(w, 0, 0, ""))
  <1> DEFINE text == Text(w, 0, 0, "")
  <1>1. Says(text, w, "") /\ Counts(text, 0, 0, 60 * (IF 0 = -1 THEN 0 ELSE 0) + 0)
    BY NoNumbers, TextParts, Zenon DEF Tells
  <1> HIDE DEF text
  <1>2. /\ InMinutes(text) < 60 /\ InMinutes(text) < 24 * 60
        /\ text.hours # -1 /\ text.minutes < 60
    BY <1>1, NoNumbers, Zenon
  <1>3. text.word = w /\ text.suffix = ""
    BY <1>1, Zenon DEF Says
  <1>4. \A x \in {text, text, text} : x.minutes < 60
    BY <1>2, Zenon
  <1>5. Agreeing(text, text, text)
    BY <1>2, <1>3, <1>4, Zenon DEF Agreeing
  <1> QED BY <1>5, Zenon DEF text

(* The panel, the menu and the text read aloud agree on the remaining time   *)
(* (get_brief_time_remaining, get_expanded_time_remaining,                   *)
(* get_accessible_time_remaining, time_is_relevant).                         *)
THEOREM TextsTellTheSame == Spec => []TextsAgree
  <1>1. ASSUME TypeOK, EstimateInv, Idle, device.state # UP_DEVICE_STATE_FULLY_CHARGED
        PROVE  Agreeing(PanelTime, MenuText, AloudText)
    <2>1. device.time \in Nat /\ clock \in Nat /\ lost_since \in Nat \cup {-1}
          /\ inestimable = lost_since /\ lost_since <= clock
          /\ (lost_since # -1 <=> is_inestimable(device))
      BY <1>1, TypeSplit DEF Record, EstimateInv
    <2>2. CASE PanelTime = NoText /\ MenuText = NoText /\ AloudText = NoText
      <3>1. Agreeing(NoText, NoText, NoText)
        BY Words, WordAgrees
      <3> QED BY <2>2, <3>1, Zenon
    <2>3. CASE /\ device.time = 0
               /\ PanelTime = BriefTime /\ MenuText = BriefTime /\ AloudText = BriefTime
      <3>1. PICK w : BriefTime = Text(w, 0, 0, "") /\ (w # "" => Elapsed \in 0 .. 59)
        BY <1>1, <2>3, BriefWithoutTime
      <3>2. Elapsed \in 0 .. 59 => is_inestimable(device) /\ clock - lost_since < 60
        BY <2>1 DEF Elapsed
      <3>3. Agreeing(BriefTime, BriefTime, BriefTime)
        BY <3>1, <3>2, WordAgrees
      <3> QED BY <2>3, <3>3, Zenon
    <2>4. ASSUME NEW suffix \in {"to charge", "left"},
                 PanelTime = HoursAndMinutes(device.time, ""),
                 MenuText = HoursAndMinutes(device.time, suffix),
                 AloudText = Spoken(device.time, suffix),
                 suffix = "left" => device.time < 24 * 60 * 60
          PROVE  Agreeing(PanelTime, MenuText, AloudText)
      <3> DEFINE n == device.time \div 60
      <3>1. PICK h \in Nat, m \in 0 .. 59 : Tells(PanelTime, "", h, m, "", n)
        BY <2>1, <2>4, ShownTime, Zenon
      <3>2. PICK i \in Nat, j \in 0 .. 59 : Tells(MenuText, "", i, j, suffix, n)
        BY <2>1, <2>4, ShownTime, Zenon
      <3>3. PICK k \in Int, l \in 0 .. 59 :
                Tells(AloudText, "", k, l, suffix, n) /\ (k = -1 <=> n < 60)
        BY <2>1, <2>4, SpokenTime, Zenon
      <3>4. n \in Nat /\ (suffix = "left" => n < 24 * 60)
        BY <2>1, <2>4, Parts
      <3>5. suffix # ""
        OBVIOUS
      <3> HIDE DEF n
      <3> QED BY <3>1, <3>2, <3>3, <3>4, <3>5, AgreeingTimes, Zenon
    <2> QED BY <1>1, <2>2, <2>3, <2>4, ThreeTexts
  <1>2. ASSUME TypeOK, EstimateInv PROVE TextsAgree
    BY <1>1, <1>2 DEF TextsAgree, Agreeing, PanelTime, MenuText, AloudText
  <1>3. QED
    BY <1>2, EstimateInvHolds, PTL

-----------------------------------------------------------------------------
(* The icons                                                                 *)

(* Lookup returns what the first row that is reached says.                   *)
FirstReached(table, p, i) ==
    /\ i \in DOMAIN table
    /\ p >= table[i][1]
    /\ \A j \in DOMAIN table : j < i => ~(p >= table[j][1])

LEMMA LookupFirst ==
    ASSUME NEW table, DOMAIN table \subseteq Int, NEW p, NEW i, FirstReached(table, p, i)
    PROVE  Lookup(table, p) = table[i][2]
  <1> DEFINE reached == {j \in DOMAIN table : p >= table[j][1]}
             first   == CHOOSE j \in reached : \A k \in reached : j <= k
  <1>1. i \in reached /\ \A k \in reached : i <= k
    BY DEF FirstReached
  <1>2. first \in reached /\ \A k \in reached : first <= k
    BY <1>1
  <1>3. first = i
    BY <1>1, <1>2
  <1>4. QED
    BY <1>3 DEF Lookup

(* The two tables, row by row.                                               *)
LEMMA Closest ==
    ASSUME NEW p \in Percentage
    PROVE  get_closest_10_percent_percentage(p) =
               IF p >= 950 THEN 100 ELSE IF p >= 850 THEN 90 ELSE IF p >= 750 THEN 80
               ELSE IF p >= 650 THEN 70 ELSE IF p >= 550 THEN 60 ELSE IF p >= 450 THEN 50
               ELSE IF p >= 350 THEN 40 ELSE IF p >= 210 THEN 30 ELSE IF p >= 150 THEN 20
               ELSE IF p >= 50 THEN 10 ELSE 0
  <1> DEFINE table == <<<<950, 100>>, <<850, 90>>, <<750, 80>>, <<650, 70>>, <<550, 60>>,
                        <<450, 50>>, <<350, 40>>, <<210, 30>>, <<150, 20>>, <<50, 10>>, <<0, 0>>>>
  <1>1. get_closest_10_percent_percentage(p) = Lookup(table, p)
    BY DEF get_closest_10_percent_percentage
  <1>2. /\ DOMAIN table = 1 .. 11
        /\ table[1] = <<950, 100>> /\ table[2] = <<850, 90>> /\ table[3] = <<750, 80>>
        /\ table[4] = <<650, 70>> /\ table[5] = <<550, 60>> /\ table[6] = <<450, 50>>
        /\ table[7] = <<350, 40>> /\ table[8] = <<210, 30>> /\ table[9] = <<150, 20>>
        /\ table[10] = <<50, 10>> /\ table[11] = <<0, 0>>
    OBVIOUS
  <1> HIDE DEF table
  <1>3. p \in 0 .. 1000
    BY DEF Percentage
  <1>4. ASSUME NEW i, FirstReached(table, p, i) PROVE Lookup(table, p) = table[i][2]
    BY <1>2, <1>4, LookupFirst
  <1>5. ASSUME NEW i \in 1 .. 11, p >= table[i][1],
               \A j \in 1 .. 11 : j < i => ~(p >= table[j][1])
        PROVE  FirstReached(table, p, i)
    BY <1>2, <1>5 DEF FirstReached
  <1>6. QED
    BY <1>1, <1>2, <1>3, <1>4, <1>5

LEMMA Fallback ==
    ASSUME NEW p \in Percentage
    PROVE  get_fallback_device_icon_index(p) =
               IF p >= 900 THEN 100 ELSE IF p >= 700 THEN 80 ELSE IF p >= 500 THEN 60
               ELSE IF p >= 201 THEN 40 ELSE IF p >= 100 THEN 20 ELSE 0
  <1> DEFINE table == <<<<900, 100>>, <<700, 80>>, <<500, 60>>, <<201, 40>>, <<100, 20>>, <<0, 0>>>>
  <1>1. get_fallback_device_icon_index(p) = Lookup(table, p)
    BY DEF get_fallback_device_icon_index
  <1>2. /\ DOMAIN table = 1 .. 6
        /\ table[1] = <<900, 100>> /\ table[2] = <<700, 80>> /\ table[3] = <<500, 60>>
        /\ table[4] = <<201, 40>> /\ table[5] = <<100, 20>> /\ table[6] = <<0, 0>>
    OBVIOUS
  <1> HIDE DEF table
  <1>3. p \in 0 .. 1000
    BY DEF Percentage
  <1>4. ASSUME NEW i, FirstReached(table, p, i) PROVE Lookup(table, p) = table[i][2]
    BY <1>2, <1>4, LookupFirst
  <1>5. ASSUME NEW i \in 1 .. 6, p >= table[i][1],
               \A j \in 1 .. 6 : j < i => ~(p >= table[j][1])
        PROVE  FirstReached(table, p, i)
    BY <1>2, <1>5 DEF FirstReached
  <1>6. QED
    BY <1>1, <1>2, <1>3, <1>4, <1>5

(* What the icons of a charge are: the two tables' for it, then one without  *)
(* a number, all of which show the device charging or all of which do not.   *)
IconsFor(names, percentage, charging) ==
    LET index   == get_closest_10_percent_percentage(percentage)
        index_2 == get_fallback_device_icon_index(percentage)
    IN  /\ DOMAIN names = 1 .. Len(names) /\ Len(names) \in {2, 3}
        /\ names[1].index = index
        /\ index # index_2 => Len(names) = 3 /\ names[2].index = index_2
        /\ \A i \in 1 .. Len(names) : /\ names[i].index \in {index, index_2, -1}
                                      /\ names[i].charging = charging

(* The names that can be offered for a device.                              *)
NamesOf(d) ==
    LET index   == get_closest_10_percent_percentage(d.percentage)
        index_2 == get_fallback_device_icon_index(d.percentage)
        word    == get_device_icon_suffix(d.percentage)
    IN  [kind : {d.kind}, index : {index, index_2, -1}, word : {"", word}, charging : BOOLEAN]

(* Concatenation, element by element.                                        *)
LEMMA OneAfterTheOther ==
    ASSUME NEW S, NEW s \in Seq(S), NEW t \in Seq(S)
    PROVE  /\ s \o t \in Seq(S)
           /\ Len(s \o t) = Len(s) + Len(t)
           /\ \A i \in 1 .. Len(s) : (s \o t)[i] = s[i]
           /\ \A i \in 1 .. Len(t) : (s \o t)[Len(s) + i] = t[i]
  OBVIOUS

(* Three names and two, as ChargeIcons puts them together.                   *)
LEMMA ThreeNames ==
    ASSUME NEW S, NEW a \in S, NEW b \in S, NEW c \in S
    PROVE  \E s \in Seq(S) : /\ s = <<a>> \o <<b>> \o <<c>>
                             /\ Len(s) = 3 /\ s[1] = a /\ s[2] = b /\ s[3] = c
  <1> DEFINE one == <<a>>
             two == <<b>>
             three == <<c>>
             t == one \o two
             s == t \o three
  <1>1. /\ one \in Seq(S) /\ two \in Seq(S) /\ three \in Seq(S)
        /\ Len(one) = 1 /\ Len(two) = 1 /\ Len(three) = 1
        /\ one[1] = a /\ two[1] = b /\ three[1] = c
    OBVIOUS
  <1>2. s = <<a>> \o <<b>> \o <<c>>
    OBVIOUS
  <1> HIDE DEF one, two, three
  <1>3. t \in Seq(S) /\ Len(t) = Len(one) + Len(two)
        /\ (\A i \in 1 .. Len(one) : t[i] = one[i])
        /\ \A i \in 1 .. Len(two) : t[Len(one) + i] = two[i]
    <2>1. one \in Seq(S) /\ two \in Seq(S)
      BY <1>1
    <2>2. QED
      BY <2>1, OneAfterTheOther
  <1> HIDE DEF t
  <1>4. Len(t) = 2 /\ t[1] = a /\ t[2] = b
    BY <1>1, <1>3
  <1>5. s \in Seq(S) /\ Len(s) = Len(t) + Len(three)
        /\ (\A i \in 1 .. Len(t) : s[i] = t[i])
        /\ \A i \in 1 .. Len(three) : s[Len(t) + i] = three[i]
    <2>1. t \in Seq(S) /\ three \in Seq(S)
      BY <1>1, <1>3
    <2>2. QED
      BY <2>1, OneAfterTheOther
  <1> HIDE DEF s
  <1>6. Len(s) = 3 /\ s[1] = a /\ s[2] = b /\ s[3] = c
    BY <1>1, <1>4, <1>5
  <1>7. QED
    BY <1>2, <1>5, <1>6

LEMMA TwoNames ==
    ASSUME NEW S, NEW a \in S, NEW c \in S
    PROVE  \E s \in Seq(S) : /\ s = <<a>> \o <<>> \o <<c>>
                             /\ Len(s) = 2 /\ s[1] = a /\ s[2] = c
  <1> DEFINE one == <<a>>
             three == <<c>>
             s == one \o three
  <1>1. /\ one \in Seq(S) /\ three \in Seq(S) /\ Len(one) = 1 /\ Len(three) = 1
        /\ one[1] = a /\ three[1] = c
    OBVIOUS
  <1>2. s = <<a>> \o <<>> \o <<c>>
    <2>1. <<a>> \o <<>> = <<a>>
      BY <1>1
    <2>2. QED
      BY <2>1
  <1> HIDE DEF one, three
  <1>3. s \in Seq(S) /\ Len(s) = Len(one) + Len(three)
        /\ (\A i \in 1 .. Len(one) : s[i] = one[i])
        /\ \A i \in 1 .. Len(three) : s[Len(one) + i] = three[i]
    <2>1. one \in Seq(S) /\ three \in Seq(S)
      BY <1>1
    <2>2. QED
      BY <2>1, OneAfterTheOther
  <1> HIDE DEF s
  <1>4. Len(s) = 2 /\ s[1] = a /\ s[2] = c
    BY <1>1, <1>3
  <1>5. QED
    BY <1>2, <1>3, <1>4

(* The icons of a charge, and so the names of a charging device, which are   *)
(* followed by those of one that does not charge.                            *)
LEMMA ChargeIconsAre ==
    ASSUME NEW d, NEW charging \in BOOLEAN
    PROVE  /\ IconsFor(ChargeIcons(d, charging), d.percentage, charging)
           /\ ChargeIcons(d, charging) \in Seq(NamesOf(d))
  <1> DEFINE index   == get_closest_10_percent_percentage(d.percentage)
             index_2 == get_fallback_device_icon_index(d.percentage)
             word    == get_device_icon_suffix(d.percentage)
             A == Icon(d.kind, index, "", charging)
             B == Icon(d.kind, index_2, "", charging)
             C == Icon(d.kind, -1, word, charging)
  <1>1. /\ A.index = index /\ B.index = index_2 /\ C.index = -1
        /\ A.charging = charging /\ B.charging = charging /\ C.charging = charging
    BY DEF Icon
  <1>2. ChargeIcons(d, charging) =
            <<A>> \o (IF index # index_2 THEN <<B>> ELSE <<>>) \o <<C>>
    BY DEF ChargeIcons
  <1>3. A \in NamesOf(d) /\ B \in NamesOf(d) /\ C \in NamesOf(d)
    BY DEF NamesOf, Icon
  <1> DEFINE names == ChargeIcons(d, charging)
  <1> HIDE DEF A, B, C, index, index_2, word, names
  <1>4. CASE index # index_2
    <2>1. names = <<A>> \o <<B>> \o <<C>>
      BY <1>2, <1>4, Zenon DEF names
    <2>2. names \in Seq(NamesOf(d)) /\ Len(names) = 3
          /\ names[1] = A /\ names[2] = B /\ names[3] = C
      BY <1>3, <2>1, ThreeNames
    <2>3. IconsFor(names, d.percentage, charging)
      BY <1>1, <1>4, <2>2 DEF IconsFor, index, index_2
    <2>4. QED
      BY <2>2, <2>3 DEF names
  <1>5. CASE index = index_2
    <2>1. names = <<A>> \o <<>> \o <<C>>
      BY <1>2, <1>5 DEF names
    <2>2. names \in Seq(NamesOf(d)) /\ Len(names) = 2 /\ names[1] = A /\ names[2] = C
      BY <1>3, <2>1, TwoNames
    <2>3. IconsFor(names, d.percentage, charging)
      BY <1>1, <1>5, <2>2 DEF IconsFor, index, index_2
    <2>4. QED
      BY <2>2, <2>3 DEF names
  <1>6. QED
    BY <1>4, <1>5

(* What is needed of the names for a device that has a charge.               *)
NamesFor(names, percentage, charging) ==
    LET index   == get_closest_10_percent_percentage(percentage)
        index_2 == get_fallback_device_icon_index(percentage)
    IN  /\ 1 \in DOMAIN names
        /\ DOMAIN names \subseteq Nat \ {0}
        /\ names[1].index = index
        /\ \A i \in DOMAIN names : names[i].index \in {index, index_2, -1}
        /\ \E i \in DOMAIN names : names[i].index = index_2
        /\ names[1].charging = charging
        /\ \A i \in DOMAIN names : names[i].charging => charging
        /\ \A i \in DOMAIN names : names[i].charging => \A j \in 1 .. i : names[j].charging

LEMMA NamesAre ==
    ASSUME NEW d,
           d.state \in {UP_DEVICE_STATE_CHARGING, UP_DEVICE_STATE_DISCHARGING},
           d.kind \notin {UP_DEVICE_KIND_LINE_POWER, "monitor"}
    PROVE  NamesFor(indicator_power_device_get_icon_names(d), d.percentage,
                    d.state = UP_DEVICE_STATE_CHARGING)
  <1> DEFINE index   == get_closest_10_percent_percentage(d.percentage)
             index_2 == get_fallback_device_icon_index(d.percentage)
             names   == indicator_power_device_get_icon_names(d)
  <1>1. names = StateIcons(d)
    BY Zenon DEF indicator_power_device_get_icon_names
  <1>2. CASE d.state = UP_DEVICE_STATE_DISCHARGING
    <2>1. d.state \notin {UP_DEVICE_STATE_EMPTY, UP_DEVICE_STATE_FULLY_CHARGED,
                          UP_DEVICE_STATE_CHARGING}
      BY <1>2 DEF UP_DEVICE_STATE_EMPTY, UP_DEVICE_STATE_FULLY_CHARGED,
                  UP_DEVICE_STATE_CHARGING, UP_DEVICE_STATE_DISCHARGING
    <2>2. names = ChargeIcons(d, FALSE)
      BY <1>1, <2>1, Zenon DEF StateIcons
    <2>3. IconsFor(names, d.percentage, FALSE)
      BY <2>2, ChargeIconsAre
    <2> HIDE DEF names
    <2>4. NamesFor(names, d.percentage, FALSE)
      BY <2>3 DEF IconsFor, NamesFor
    <2>5. QED
      BY <2>1, <2>4 DEF names
  <1>3. CASE d.state = UP_DEVICE_STATE_CHARGING
    <2>1. d.state \notin {UP_DEVICE_STATE_EMPTY, UP_DEVICE_STATE_FULLY_CHARGED}
      BY <1>3 DEF UP_DEVICE_STATE_EMPTY, UP_DEVICE_STATE_FULLY_CHARGED,
                  UP_DEVICE_STATE_CHARGING
    <2>2. names = ChargeIcons(d, TRUE) \o ChargeIcons(d, FALSE)
      BY <1>1, <1>3, <2>1, Zenon DEF StateIcons
    <2> DEFINE plugged == ChargeIcons(d, TRUE)
               alone   == ChargeIcons(d, FALSE)
    <2>3. IconsFor(plugged, d.percentage, TRUE) /\ IconsFor(alone, d.percentage, FALSE)
      BY ChargeIconsAre
    <2>4. plugged \in Seq(NamesOf(d)) /\ alone \in Seq(NamesOf(d))
      BY ChargeIconsAre
    <2>5. names = plugged \o alone
      BY <2>2
    <2> HIDE DEF names, plugged, alone
    <2>6. /\ names \in Seq(NamesOf(d))
          /\ Len(names) = Len(plugged) + Len(alone)
          /\ \A i \in 1 .. Len(plugged) : names[i] = plugged[i]
          /\ \A i \in Len(plugged) + 1 .. Len(names) : names[i] = alone[i - Len(plugged)]
      BY <2>4, <2>5
    <2>7. Len(plugged) \in {2, 3} /\ Len(alone) \in {2, 3}
      BY <2>3 DEF IconsFor
    <2>8. \A i \in 1 .. Len(plugged) :
               names[i].index \in {index, index_2, -1} /\ names[i].charging = TRUE
      BY <2>3, <2>6 DEF IconsFor
    <2>9. \A i \in Len(plugged) + 1 .. Len(names) :
               names[i].index \in {index, index_2, -1} /\ names[i].charging = FALSE
      <3> SUFFICES ASSUME NEW i \in Len(plugged) + 1 .. Len(names)
                   PROVE  names[i].index \in {index, index_2, -1} /\ names[i].charging = FALSE
        OBVIOUS
      <3>1. i - Len(plugged) \in 1 .. Len(alone)
        BY <2>6, <2>7
      <3>2. QED
        BY <2>3, <2>6, <3>1 DEF IconsFor
    <2>10. names[1].index = index
      BY <2>3, <2>6, <2>7 DEF IconsFor
    <2>11. \E i \in 1 .. Len(plugged) : names[i].index = index_2
      BY <2>3, <2>6, <2>7 DEF IconsFor
    <2>12. DOMAIN names = 1 .. Len(names)
      BY <2>6
    <2> HIDE DEF index, index_2
    <2>13. NamesFor(names, d.percentage, TRUE)
      BY <2>6, <2>7, <2>8, <2>9, <2>10, <2>11, <2>12 DEF NamesFor, index, index_2
    <2>14. QED
      BY <1>3, <2>13 DEF names
  <1>4. QED
    BY <1>2, <1>3

(* The numbers that are shown, for every charge.                             *)
LEMMA ShownCharge ==
    ASSUME NEW p \in Percentage
    PROVE  LET index   == get_closest_10_percent_percentage(p)
               index_2 == get_fallback_device_icon_index(p)
           IN  /\ index \in 0 .. 100 /\ index_2 \in 0 .. 100
               /\ 10 * index \in (p - 50) .. (p + IF p \in 210 .. 249 THEN 90 ELSE 50)
               /\ 10 * index \in (p - 199) .. (p + 199)
               /\ 10 * index_2 \in (p - 199) .. (p + 199)
               /\ p >= 210 => index > 20
               /\ p > 200 => index_2 > 20
               /\ p < 1000 => index <= get_closest_10_percent_percentage(p + 1)
  <1>1. p \in 0 .. 1000
    BY DEF Percentage
  <1>2. p < 1000 => p + 1 \in Percentage
    BY <1>1 DEF Percentage
  <1>3. QED
    BY <1>1, <1>2, Closest, Fallback

(* What the names show follows from the numbers in them.                     *)
HonestNames(names, percentage, charging) ==
    LET shown == {i \in DOMAIN names : names[i].index # -1}
    IN  /\ 10 * names[1].index \in
               (percentage - 50) .. (percentage + IF percentage \in 210 .. 249 THEN 90 ELSE 50)
        /\ \A i \in shown : 10 * names[i].index \in (percentage - 199) .. (percentage + 199)
        /\ percentage >= 210 => names[1].index > 20
        /\ percentage > 200 => \E i \in shown : names[i].index > 20
        /\ \A i \in DOMAIN names :
               names[i].charging => charging /\ \A j \in 1 .. i : names[j].charging
        /\ charging = names[1].charging

LEMMA NamesAreHonest ==
    ASSUME NEW p \in Percentage, NEW charging \in BOOLEAN, NEW names,
           NamesFor(names, p, charging)
    PROVE  HonestNames(names, p, charging)
  <1> DEFINE index   == get_closest_10_percent_percentage(p)
             index_2 == get_fallback_device_icon_index(p)
  <1>1. /\ index \in 0 .. 100 /\ index_2 \in 0 .. 100
        /\ 10 * index \in (p - 50) .. (p + IF p \in 210 .. 249 THEN 90 ELSE 50)
        /\ 10 * index \in (p - 199) .. (p + 199)
        /\ 10 * index_2 \in (p - 199) .. (p + 199)
        /\ p >= 210 => index > 20
        /\ p > 200 => index_2 > 20
    BY ShownCharge
  <1>2. /\ names[1].index = index
        /\ \A i \in DOMAIN names : names[i].index \in {index, index_2, -1}
        /\ \E i \in DOMAIN names : names[i].index = index_2
    BY DEF NamesFor
  <1>3. /\ names[1].charging = charging
        /\ \A i \in DOMAIN names :
               names[i].charging => charging /\ \A j \in 1 .. i : names[j].charging
    BY DEF NamesFor
  <1> HIDE DEF index, index_2
  <1>4. \A i \in DOMAIN names :
            names[i].index # -1 => 10 * names[i].index \in (p - 199) .. (p + 199)
    BY <1>1, <1>2
  <1>5. p > 200 => \E i \in DOMAIN names : names[i].index # -1 /\ names[i].index > 20
    <2> SUFFICES ASSUME p > 200
                 PROVE  \E i \in DOMAIN names : names[i].index # -1 /\ names[i].index > 20
      OBVIOUS
    <2>1. PICK i \in DOMAIN names : names[i].index = index_2
      BY <1>2
    <2>2. names[i].index # -1 /\ names[i].index > 20
      BY <1>1, <2>1
    <2>3. QED
      BY <2>2
  <1>6. QED
    BY <1>1, <1>2, <1>3, <1>4, <1>5 DEF HonestNames

(* Whatever the charge, the icon names of a device tell the truth about it,  *)
(* and more charge never shows as less                                       *)
(* (indicator_power_device_get_icon_names and the two tables it looks up).   *)
THEOREM IconsTellTheTruth == Spec => []IconsAreHonest
  <1>1. ASSUME TypeOK, device.state \in {UP_DEVICE_STATE_CHARGING, UP_DEVICE_STATE_DISCHARGING},
               device.kind \notin {UP_DEVICE_KIND_LINE_POWER, "monitor"},
               NEW p \in Percentage
        PROVE  LET d     == [device EXCEPT !.percentage = p]
                   more  == [device EXCEPT !.percentage = p + 1]
                   names == indicator_power_device_get_icon_names(d)
               IN  /\ HonestNames(names, p, device.state = UP_DEVICE_STATE_CHARGING)
                   /\ p < 1000 => names[1].index
                                  <= indicator_power_device_get_icon_names(more)[1].index
    <2> DEFINE d    == [device EXCEPT !.percentage = p]
               more == [device EXCEPT !.percentage = p + 1]
               charging == device.state = UP_DEVICE_STATE_CHARGING
               names == indicator_power_device_get_icon_names(d)
               others == indicator_power_device_get_icon_names(more)
    <2>1. device \in Record
      BY <1>1, TypeSplit
    <2>2. /\ d.state = device.state /\ d.kind = device.kind /\ d.percentage = p
          /\ more.state = device.state /\ more.kind = device.kind /\ more.percentage = p + 1
      BY <2>1 DEF Record
    <2> HIDE DEF d, more
    <2>3. NamesFor(names, p, charging) /\ NamesFor(others, p + 1, charging)
      BY <1>1, <2>2, NamesAre
    <2> HIDE DEF names, others, charging
    <2>4. HonestNames(names, p, charging)
      <3>1. charging \in BOOLEAN
        BY DEF charging
      <3>2. QED
        BY <2>3, <3>1, NamesAreHonest
    <2>5. names[1].index = get_closest_10_percent_percentage(p)
          /\ others[1].index = get_closest_10_percent_percentage(p + 1)
      BY <2>3 DEF NamesFor
    <2>6. p < 1000 => names[1].index <= others[1].index
      BY <2>5, ShownCharge
    <2>7. QED
      BY <2>4, <2>6 DEF d, more, names, others, charging
  <1>2. ASSUME TypeOK PROVE IconsAreHonest
    <2> SUFFICES ASSUME device.state \in {UP_DEVICE_STATE_CHARGING, UP_DEVICE_STATE_DISCHARGING},
                        device.kind \notin {UP_DEVICE_KIND_LINE_POWER, "monitor"},
                        NEW p \in Percentage
                 PROVE  LET d     == [device EXCEPT !.percentage = p]
                            more  == [device EXCEPT !.percentage = p + 1]
                            names == indicator_power_device_get_icon_names(d)
                            shown == {i \in DOMAIN names : names[i].index # -1}
                        IN  /\ 10 * names[1].index \in
                                   (p - 50) .. (p + IF p \in 210 .. 249 THEN 90 ELSE 50)
                            /\ \A i \in shown : 10 * names[i].index \in (p - 199) .. (p + 199)
                            /\ p >= 210 => names[1].index > 20
                            /\ p > 200 => \E i \in shown : names[i].index > 20
                            /\ \A i \in DOMAIN names :
                                   names[i].charging =>
                                       /\ device.state = UP_DEVICE_STATE_CHARGING
                                       /\ \A j \in 1 .. i : names[j].charging
                            /\ (device.state = UP_DEVICE_STATE_CHARGING) = names[1].charging
                            /\ p < 1000 => names[1].index
                                           <= indicator_power_device_get_icon_names(more)[1].index
      BY Zenon DEF IconsAreHonest
    <2> DEFINE names  == indicator_power_device_get_icon_names([device EXCEPT !.percentage = p])
               others == indicator_power_device_get_icon_names([device EXCEPT !.percentage = p + 1])
    <2>1. /\ HonestNames(names, p, device.state = UP_DEVICE_STATE_CHARGING)
          /\ p < 1000 => names[1].index <= others[1].index
      BY <1>1, <1>2, Zenon
    <2> HIDE DEF names, others
    <2>2. (device.state = UP_DEVICE_STATE_CHARGING) = names[1].charging
      BY <2>1, Zenon DEF HonestNames
    <2>3. \A i \in DOMAIN names :
              names[i].charging => /\ device.state = UP_DEVICE_STATE_CHARGING
                                   /\ \A j \in 1 .. i : names[j].charging
      BY <2>1, Zenon DEF HonestNames
    <2>4. /\ 10 * names[1].index \in (p - 50) .. (p + IF p \in 210 .. 249 THEN 90 ELSE 50)
          /\ \A i \in {k \in DOMAIN names : names[k].index # -1} :
                 10 * names[i].index \in (p - 199) .. (p + 199)
          /\ p >= 210 => names[1].index > 20
          /\ p > 200 => \E i \in {k \in DOMAIN names : names[k].index # -1} : names[i].index > 20
      BY <2>1, Zenon DEF HonestNames
    <2>5. QED
      BY <2>1, <2>2, <2>3, <2>4, Zenon DEF names, others
  <1>3. QED
    BY <1>2, EstimateInvHolds, PTL
=============================================================================
