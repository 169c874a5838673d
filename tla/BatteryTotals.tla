---------------------------- MODULE BatteryTotals ----------------------------
(***************************************************************************)
(* What the comment service.c:1472-1479 says of the battery that all       *)
(* batteries are merged into, in terms of the set of batteries: a          *)
(* reference for the loop of create_totalled_battery_device().             *)
(***************************************************************************)
EXTENDS PrimaryDevice

(* The positions in a list of the batteries that are in a state.             *)
BatteriesIn(list, state) ==
    {i \in DOMAIN list : list[i].kind = UP_DEVICE_KIND_BATTERY /\ list[i].state = state}

(* Those whose charges are averaged.  The comment says "their percentages",  *)
(* of all batteries; the code leaves out those at 0%, and the comment is     *)
(* read that way here (see the README).                                      *)
Counted(list) ==
    {i \in DOMAIN list : list[i].kind = UP_DEVICE_KIND_BATTERY /\ list[i].percentage > 0}

MaxTime(list, indices) == Max({0} \cup {list[i].time : i \in indices})

SumOfTimes(list, indices) == SumFunctionOnSet([i \in indices |-> list[i].time], indices)

SumOfCharges(list, indices) ==
    SumFunctionOnSet([i \in indices |-> list[i].percentage], indices)

MeanCharge(list) == SumOfCharges(list, Counted(list)) \div Cardinality(Counted(list))

(* "If any are discharging, the aggregated time remaining should be the      *)
(* maximum of the times for all those that are discharging, plus the sum of  *)
(* the times for all those that are idle.  Otherwise, the aggregated time    *)
(* remaining should be the the maximum of the times for all those that are   *)
(* charging."                                                                *)
AggregatedTime(list) ==
    IF BatteriesIn(list, UP_DEVICE_STATE_DISCHARGING) # {}
    THEN MaxTime(list, BatteriesIn(list, UP_DEVICE_STATE_DISCHARGING))
         + SumOfTimes(list, BatteriesIn(list, UP_DEVICE_STATE_FULLY_CHARGED))
    ELSE MaxTime(list, BatteriesIn(list, UP_DEVICE_STATE_CHARGING))

(* The first of these states that a battery is in.                           *)
AggregatedState(list) ==
    CASE BatteriesIn(list, UP_DEVICE_STATE_DISCHARGING) # {} -> UP_DEVICE_STATE_DISCHARGING
      [] /\ BatteriesIn(list, UP_DEVICE_STATE_DISCHARGING) = {}
         /\ BatteriesIn(list, UP_DEVICE_STATE_CHARGING) # {} -> UP_DEVICE_STATE_CHARGING
      [] /\ BatteriesIn(list, UP_DEVICE_STATE_DISCHARGING) = {}
         /\ BatteriesIn(list, UP_DEVICE_STATE_CHARGING) = {}
         /\ BatteriesIn(list, UP_DEVICE_STATE_FULLY_CHARGED) # {} -> UP_DEVICE_STATE_FULLY_CHARGED
      [] /\ BatteriesIn(list, UP_DEVICE_STATE_DISCHARGING) = {}
         /\ BatteriesIn(list, UP_DEVICE_STATE_CHARGING) = {}
         /\ BatteriesIn(list, UP_DEVICE_STATE_FULLY_CHARGED) = {} -> UP_DEVICE_STATE_UNKNOWN

DocumentedTotal(list) ==
    [object_path  |-> NULL,
     kind         |-> UP_DEVICE_KIND_BATTERY,
     state        |-> AggregatedState(list),
     power_supply |-> TRUE,
     percentage   |-> MeanCharge(list),
     time         |-> AggregatedTime(list)]
=============================================================================
