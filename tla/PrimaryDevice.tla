--------------------------- MODULE PrimaryDevice ---------------------------
(***************************************************************************)
(* The service's choice of the one device that it shows in the panel and   *)
(* whose charge it warns about (src/src/service.c): all batteries are      *)
(* merged into one, and the list is sorted by how interesting a device is. *)
(*                                                                         *)
(* A device is a record [object_path, kind, state, power_supply,           *)
(* percentage, time]; a list of devices is a sequence.  Averages are       *)
(* truncated to tenths of a percent: exact for the percentages of the      *)
(* instances that are checked.                                             *)
(***************************************************************************)
EXTENDS PowerDevice, SequencesExt

CONSTANT NULL \* the object path of a merged battery

(* The properties of a device have their types, whatever its object path.    *)
IsDevice(d) ==
    d \in [object_path : {d.object_path}, kind : UpDeviceKind, state : UpDeviceState,
           power_supply : BOOLEAN, percentage : Percentage, time : Nat]

-----------------------------------------------------------------------------
(* Comparison: negative when a is more interesting than b                    *)

(* The verdict for a if only a has what is interesting, for b if only b has. *)
Favour(a_has, b_has) ==
    IF a_has = b_has THEN 0 ELSE IF a_has THEN -1 ELSE 1

LowerCharge(a, b) == IF a.percentage < b.percentage THEN -1 ELSE 1

(* A known time trumps an unknown one; "sooner" says which of two known      *)
(* times comes first.                                                        *)
ByTime(a, b, sooner) ==
    IF a.time = 0 \/ b.time = 0 THEN IF a.time # 0 THEN -1 ELSE 1
    ELSE IF a.time # b.time THEN IF sooner THEN -1 ELSE 1
    ELSE LowerCharge(a, b)

IsCharging(d) == d.state = UP_DEVICE_STATE_CHARGING
IsUnknown(d)  == d.state = UP_DEVICE_STATE_UNKNOWN
IsTimed(d)    == IsDischarging(d) /\ d.time # 0

get_device_kind_weight(d) ==
    CASE d.kind = UP_DEVICE_KIND_BATTERY    -> 2
      [] d.kind = UP_DEVICE_KIND_LINE_POWER -> 0
      [] OTHER                              -> 1

(* The rules in the order in which they are tried.                           *)
Verdicts(a, b) == <<
    Favour(a.power_supply, b.power_supply),
    IF IsTimed(a) /\ IsTimed(b) THEN ByTime(a, b, a.time < b.time)
                                ELSE Favour(IsTimed(a), IsTimed(b)),
    IF IsCharging(a) /\ IsCharging(b) THEN ByTime(a, b, a.time > b.time)
                                      ELSE Favour(IsCharging(a), IsCharging(b)),
    IF IsDischarging(a) /\ IsDischarging(b) THEN LowerCharge(a, b)
                                            ELSE Favour(IsDischarging(a), IsDischarging(b)),
    Favour(~IsUnknown(a), ~IsUnknown(b)),
    get_device_kind_weight(b) - get_device_kind_weight(a),
    state_number[a.state] - state_number[b.state] >>

(* Mistake: the kind is looked at before the charge.                         *)
Bug_KindFirst(a, b) ==
    LET verdicts == <<get_device_kind_weight(b) - get_device_kind_weight(a)>> \o Verdicts(a, b)
        decided == {i \in DOMAIN verdicts : verdicts[i] # 0}
    IN  IF decided = {} THEN 0 ELSE verdicts[Min(decided)]

(* Mistake: the verdict of a rule depends on the order of its arguments.     *)
Bug_SupplyAsymmetric(a, b) ==
    IF a.power_supply /\ IsDischarging(a) THEN -1
    ELSE LET decided == {i \in 2 .. 7 : Verdicts(a, b)[i] # 0}
         IN  IF decided = {} THEN 0 ELSE Verdicts(a, b)[Min(decided)]

device_compare_func(a, b) ==
    LET decided == {i \in 1 .. 7 : Verdicts(a, b)[i] # 0}
    IN  IF decided = {} THEN 0 ELSE Verdicts(a, b)[Min(decided)]

-----------------------------------------------------------------------------
(* Merging                                                                   *)

IsFullyCharged(d) == d.state = UP_DEVICE_STATE_FULLY_CHARGED

Larger(m, n) == IF m >= n THEN m ELSE n

(* The local variables of create_totalled_battery_device().                  *)
NoBatteries ==
    [n_batteries   |-> 0, sum_percent        |-> 0,
     n_charging    |-> 0, max_charge_time    |-> 0,
     n_discharging |-> 0, max_discharge_time |-> 0,
     n_charged     |-> 0, sum_charged_time   |-> 0]

(* A battery at 0% counts neither for the number nor for the average.        *)
TallyCharge(tally, d) ==
    IF d.percentage > 0
    THEN [tally EXCEPT !.n_batteries = @ + 1, !.sum_percent = @ + d.percentage]
    ELSE tally

(* Mistake: of the idle batteries only the one with most time counts.        *)
Bug_LongestIdle(tally, d) ==
    CASE IsCharging(d) ->
             [tally EXCEPT !.n_charging = @ + 1, !.max_charge_time = Larger(@, d.time)]
      [] IsDischarging(d) ->
             [tally EXCEPT !.n_discharging = @ + 1, !.max_discharge_time = Larger(@, d.time)]
      [] IsFullyCharged(d) ->
             [tally EXCEPT !.n_charged = @ + 1, !.sum_charged_time = Larger(@, d.time)]
      [] OTHER -> tally

TallyTime(tally, d) ==
    CASE IsCharging(d) ->
             [tally EXCEPT !.n_charging = @ + 1, !.max_charge_time = Larger(@, d.time)]
      [] IsDischarging(d) ->
             [tally EXCEPT !.n_discharging = @ + 1, !.max_discharge_time = Larger(@, d.time)]
      [] IsFullyCharged(d) ->
             [tally EXCEPT !.n_charged = @ + 1, !.sum_charged_time = @ + d.time]
      [] OTHER -> tally

(* One turn of its loop, and all of them.                                    *)
Tallied(tally, d) ==
    IF d.kind = UP_DEVICE_KIND_BATTERY THEN TallyTime(TallyCharge(tally, d), d) ELSE tally

Tally(list) == FoldLeft(Tallied, NoBatteries, list)

(* Is there more than one battery to merge?                                  *)
IsMerged(list) == Tally(list).n_batteries > 1

(* create_totalled_battery_device(), if there is.                            *)
create_totalled_battery_device(list) ==
    LET tally == Tally(list)
    IN  [object_path  |-> NULL,
         kind         |-> UP_DEVICE_KIND_BATTERY,
         state        |-> IF tally.n_discharging > 0 THEN UP_DEVICE_STATE_DISCHARGING
                          ELSE IF tally.n_charging > 0 THEN UP_DEVICE_STATE_CHARGING
                          ELSE IF tally.n_charged > 0 THEN UP_DEVICE_STATE_FULLY_CHARGED
                          ELSE UP_DEVICE_STATE_UNKNOWN,
         power_supply |-> TRUE,
         percentage   |-> tally.sum_percent \div tally.n_batteries,
         time         |-> IF tally.n_discharging > 0
                          THEN tally.max_discharge_time + tally.sum_charged_time
                          ELSE IF tally.n_charging > 0 THEN tally.max_charge_time
                          ELSE 0]

(* What is no battery is appended to the new list, in the order of the old.  *)
AppendOther(list, d) ==
    IF d.kind # UP_DEVICE_KIND_BATTERY THEN Append(list, d) ELSE list

merge_batteries_together(list) ==
    IF IsMerged(list)
    THEN FoldLeft(AppendOther, <<create_totalled_battery_device(list)>>, list)
    ELSE list

-----------------------------------------------------------------------------
(* Choice                                                                    *)

(* Ranges of a list, by their first and last positions.                      *)
Ranges(list) == {r \in (DOMAIN list) \X (DOMAIN list) : r[1] <= r[2]}

(* Where the left half of a range of two or more elements ends.              *)
Halfway(r) == r[1] + ((r[2] - r[1] + 1) \div 2) - 1

(* The head of a list that g_list_sort() has sorted: merge sort puts the     *)
(* more interesting of the heads of its two sorted halves first, and the     *)
(* left one if they are equal.                                               *)
HeadOfSorted(list) ==
    LET head[r \in Ranges(list)] ==
            IF r[1] = r[2] THEN list[r[1]]
            ELSE LET left  == head[<<r[1], Halfway(r)>>]
                     right == head[<<Halfway(r) + 1, r[2]>>]
                 IN  IF device_compare_func(left, right) <= 0 THEN left ELSE right
    IN  head[<<1, Len(list)>>]

(* indicator_power_service_choose_primary_device(), for a list with devices. *)
choose_primary_device(list) == HeadOfSorted(merge_batteries_together(list))
=============================================================================
