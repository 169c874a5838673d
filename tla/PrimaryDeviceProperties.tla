---------------------- MODULE PrimaryDeviceProperties ----------------------
(***************************************************************************)
(* The choice of the primary device, for every list of devices that a      *)
(* provider can come to report: devices appear anywhere in the list (the   *)
(* provider's table has no order) and disappear from it.                   *)
(***************************************************************************)
EXTENDS BatteryTotals

CONSTANTS
    Devices,   \* the devices there may be
    MaxDevices \* bound: the length of the list

ASSUME DevicesAssumption == \A d \in Devices : IsDevice(d)
ASSUME MaxDevicesAssumption == MaxDevices \in Nat

VARIABLE devices \* the list the provider returns

Init == devices = <<>>

Appears(d) ==
    /\ Len(devices) < MaxDevices
    /\ \E i \in 0 .. Len(devices) :
          devices' = SubSeq(devices, 1, i) \o <<d>> \o SubSeq(devices, i + 1, Len(devices))

Disappears(i) ==
    devices' = SubSeq(devices, 1, i - 1) \o SubSeq(devices, i + 1, Len(devices))

Next ==
    \/ \E d \in Devices : Appears(d)
    \/ \E i \in DOMAIN devices : Disappears(i)

Spec == Init /\ [][Next]_devices

-----------------------------------------------------------------------------
(* The criteria of the comment service.c:171-178, as ranks (a lower rank is  *)
(* more interesting) and, within a rank, a measure (lower first); and that   *)
(* of the comment service.c:281-283, "unless there's no other option, don't  *)
(* choose a device with an unknown state".                                   *)

Rank(d) ==
    CASE IsDischarging(d) /\ d.time # 0 -> 2
      [] IsCharging(d) /\ d.time # 0    -> 3
      [] IsCharging(d) /\ d.time = 0    -> 4
      [] IsDischarging(d) /\ d.time = 0 -> 5
      [] ~IsCharging(d) /\ ~IsDischarging(d) /\ ~IsUnknown(d) -> 6
      [] IsUnknown(d) -> 7

Measure(d) ==
    CASE Rank(d) = 2 -> d.time
      [] Rank(d) = 3 -> -d.time
      [] Rank(d) \in {4, 5} -> 0
      [] Rank(d) \in {6, 7} -> IF d.kind = UP_DEVICE_KIND_BATTERY THEN 0
                               ELSE IF d.kind = UP_DEVICE_KIND_LINE_POWER THEN 2 ELSE 1

Preferred(a, b) ==
    IF a.power_supply # b.power_supply THEN a.power_supply
    ELSE \/ Rank(a) < Rank(b)
         \/ Rank(a) = Rank(b) /\ Measure(a) < Measure(b)

(* No device is preferred to the primary one by the documented criteria,     *)
(* whatever the order of the list.                                           *)
ChosenByTheCriteria ==
    devices # <<>> =>
        LET primary == choose_primary_device(devices)
            merged  == merge_batteries_together(devices)
        IN  \A i \in DOMAIN merged : ~Preferred(merged[i], primary)

(* What decides between two devices: of those that charge or discharge the   *)
(* time and then the charge, which is no help between two that charge for an *)
(* unknown time; of the others the kind.                                     *)
Interest(d) ==
    LET active == IsDischarging(d) \/ IsCharging(d) IN
    [supply |-> d.power_supply,
     state  |-> d.state,
     time   |-> IF active THEN d.time ELSE 0,
     charge |-> IF IsDischarging(d) \/ (IsCharging(d) /\ d.time # 0) THEN d.percentage ELSE 0,
     weight |-> IF active THEN 0 ELSE get_device_kind_weight(d)]

Swapped(list, i) == [list EXCEPT ![i] = list[i + 1], ![i + 1] = list[i]]

Reversed(list) == [i \in DOMAIN list |-> list[Len(list) + 1 - i]]

(* The order of the list matters only between devices of the same interest:  *)
(* the comparison, though not a consistent order in ties, sorts a device of  *)
(* the same interest to the front when neighbours swap places.               *)
OrderMattersOnlyInTies ==
    \A i \in 1 .. Len(devices) - 1 :
        Interest(choose_primary_device(Swapped(devices, i)))
            = Interest(choose_primary_device(devices))

(* The loop over the list (service.c:1493-1526) makes of the batteries what  *)
(* the comment above it says of all of them together, in whatever order they *)
(* are listed and however many there are: they are merged if two or more     *)
(* have some charge left, discharge if any battery does, last as long as the *)
(* longest discharging one and all of the idle ones together (else as long   *)
(* as the longest charging one takes), and have the average charge of those  *)
(* that have any.  The comment knows no exception for those that have none;  *)
(* the code leaves them out of the number and the average, though not out of *)
(* the times, and so does this property.                                     *)
TotalIsAsDocumented ==
    /\ IsMerged(devices) <=> Cardinality(Counted(devices)) > 1
    /\ IsMerged(devices) => create_totalled_battery_device(devices) = DocumentedTotal(devices)

-----------------------------------------------------------------------------
(* Claims of comments and tests                                              *)

(* The comment of test-device.cc:1005, which reverses each of its lists "to  *)
(* confirm that list order doesn't matter".  Said only of lists in which no  *)
(* two devices have the same charge, so that there is something to choose    *)
(* by: between equal devices the order has to decide.                        *)
ListOrderDoesNotMatter ==
    devices # <<>> /\ (\A i, j \in DOMAIN devices :
                          devices[i].percentage = devices[j].percentage => i = j) =>
        choose_primary_device(Reversed(devices)) = choose_primary_device(devices)
=============================================================================
