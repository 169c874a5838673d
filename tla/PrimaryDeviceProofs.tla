------------------------ MODULE PrimaryDeviceProofs ------------------------
(***************************************************************************)
(* Proofs about the choice of the primary device, for lists of any length. *)
(* The comparison is no order (a device can come before itself), so each   *)
(* property first names the order that it keeps to, and the sort's head is *)
(* then the best of the list by that order (HeadIsBest).                   *)
(***************************************************************************)
EXTENDS PrimaryDeviceProperties, PrimaryDeviceLemmas

(* The comparison is the verdict of the first rule that has one.             *)
LEMMA FirstVerdict ==
    ASSUME NEW a, NEW b, IsDevice(a), IsDevice(b)
    PROVE  LET v == Verdicts(a, b)
           IN  /\ \A i \in 1 .. 7 : v[i] \in Int
               /\ device_compare_func(a, b) =
                     IF v[1] # 0 THEN v[1] ELSE IF v[2] # 0 THEN v[2]
                     ELSE IF v[3] # 0 THEN v[3] ELSE IF v[4] # 0 THEN v[4]
                     ELSE IF v[5] # 0 THEN v[5] ELSE IF v[6] # 0 THEN v[6] ELSE v[7]
  <1> DEFINE v == Verdicts(a, b)
             decided == {i \in 1 .. 7 : v[i] # 0}
  <1>1. \A i \in 1 .. 7 : v[i] \in Int
    <2>1. v[1] \in Int /\ v[2] \in Int /\ v[3] \in Int /\ v[4] \in Int /\ v[5] \in Int
      BY DEF Verdicts, Favour, ByTime, LowerCharge
    <2>2. v[6] \in Int
      BY DEF Verdicts, get_device_kind_weight
    <2>3. v[7] \in Int
      BY DEF Verdicts, IsDevice, state_number, UpDeviceState, UP_DEVICE_STATE_UNKNOWN,
             UP_DEVICE_STATE_CHARGING, UP_DEVICE_STATE_DISCHARGING, UP_DEVICE_STATE_EMPTY,
             UP_DEVICE_STATE_FULLY_CHARGED
    <2>4. \A i \in 1 .. 7 : i \in {1, 2, 3, 4, 5, 6, 7}
      OBVIOUS
    <2> HIDE DEF v
    <2> QED BY <2>1, <2>2, <2>3, <2>4
  <1>2. device_compare_func(a, b) = IF decided = {} THEN 0 ELSE v[Min(decided)]
    BY DEF device_compare_func
  <1> HIDE DEF v
  <1>3. device_compare_func(a, b) =
           IF v[1] # 0 THEN v[1] ELSE IF v[2] # 0 THEN v[2]
           ELSE IF v[3] # 0 THEN v[3] ELSE IF v[4] # 0 THEN v[4]
           ELSE IF v[5] # 0 THEN v[5] ELSE IF v[6] # 0 THEN v[6] ELSE v[7]
    <2>1. CASE decided = {}
      BY <1>2, <2>1
    <2>2. CASE decided # {}
      <3> DEFINE m == Min(decided)
      <3>1. m \in decided /\ \A k \in decided : m <= k
        BY <2>2, LeastElement
      <3>2. m \in 1 .. 7 /\ v[m] # 0 /\ \A k \in 1 .. 7 : k < m => v[k] = 0
        <4> HIDE DEF m
        <4> QED BY <3>1
      <3>3. device_compare_func(a, b) = v[m]
        BY <1>2, <2>2
      <3> HIDE DEF m
      <3>4. m \in {1, 2, 3, 4, 5, 6, 7}
        BY <3>2
      <3> QED BY <3>2, <3>3, <3>4
    <2> QED BY <2>1, <2>2
  <1> QED BY <1>1, <1>3 DEF v

(* The documented criteria compare numbers.                                  *)
LEMMA RanksAndMeasures ==
    ASSUME NEW d, IsDevice(d)
    PROVE  Rank(d) \in 2 .. 7 /\ Measure(d) \in Int
  BY DEF IsDevice, Rank, Measure, IsDischarging, IsCharging, IsUnknown,
         UP_DEVICE_STATE_UNKNOWN, UP_DEVICE_STATE_CHARGING, UP_DEVICE_STATE_DISCHARGING

(* The comparison never goes against the documented criteria: a device that  *)
(* it does not put after another is not one that the other is preferred to.  *)
LEMMA CompareKeepsPreference ==
    ASSUME NEW a, NEW b, IsDevice(a), IsDevice(b)
    PROVE  /\ device_compare_func(a, b) <= 0 => ~Preferred(b, a)
           /\ ~(device_compare_func(a, b) <= 0) => ~Preferred(a, b)
  <1> DEFINE v == Verdicts(a, b)
  <1>1. /\ \A i \in 1 .. 7 : v[i] \in Int
        /\ device_compare_func(a, b) =
                     IF v[1] # 0 THEN v[1] ELSE IF v[2] # 0 THEN v[2]
                     ELSE IF v[3] # 0 THEN v[3] ELSE IF v[4] # 0 THEN v[4]
                     ELSE IF v[5] # 0 THEN v[5] ELSE IF v[6] # 0 THEN v[6] ELSE v[7]
    BY FirstVerdict
  <1> QED BY <1>1 DEF Verdicts, IsDevice, Preferred, Rank, Measure, IsDischarging, IsCharging, IsUnknown,
         IsTimed, Favour, ByTime, LowerCharge, get_device_kind_weight, UpDeviceState, UpDeviceKind, 
         UP_DEVICE_KIND_BATTERY, UP_DEVICE_KIND_LINE_POWER, UP_DEVICE_STATE_EMPTY, UP_DEVICE_STATE_FULLY_CHARGED,
         UP_DEVICE_STATE_UNKNOWN, UP_DEVICE_STATE_CHARGING, UP_DEVICE_STATE_DISCHARGING

(* Not being preferred is transitive: the criteria order the devices into    *)
(* classes.                                                                  *)
LEMMA PreferenceIsAnOrder ==
    ASSUME NEW a, NEW b, NEW c, IsDevice(a), IsDevice(b), IsDevice(c),
           ~Preferred(a, b), ~Preferred(b, c)
    PROVE  ~Preferred(a, c)
  <1>1. a.power_supply \in BOOLEAN /\ b.power_supply \in BOOLEAN /\ c.power_supply \in BOOLEAN
    BY DEF IsDevice
  <1> QED BY <1>1, RanksAndMeasures DEF Preferred

(* Whatever the list, no device of the merged list is preferred to the       *)
(* chosen one.                                                               *)
LEMMA ChosenFromAnyList ==
    ASSUME NEW D, \A d \in D : IsDevice(d), NEW list \in Seq(D), list # <<>>
    PROVE  LET primary == choose_primary_device(list)
               merged  == merge_batteries_together(list)
           IN  \A i \in DOMAIN merged : ~Preferred(merged[i], primary)
  <1> DEFINE merged == merge_batteries_together(list)
             E == D \cup (IF IsMerged(list) THEN {create_totalled_battery_device(list)} ELSE {})
             Better == {p \in E \X E : Preferred(p[1], p[2])}
  <1>1. merged \in Seq(E) /\ merged # <<>>
    BY MergedDevices DEF merge_batteries_together
  <1>2. \A d \in E : IsDevice(d)
    BY TotalIsDevice
  <1>3. Better \in SUBSET (E \X E)
    OBVIOUS
  <1>4. \A a, b \in E : <<a, b>> \in Better <=> Preferred(a, b)
    OBVIOUS
  <1>5. \A a, b \in E : /\ device_compare_func(a, b) <= 0 => <<b, a>> \notin Better
                        /\ ~(device_compare_func(a, b) <= 0) => <<a, b>> \notin Better
    <2> HIDE DEF E, Better
    <2> QED BY <1>2, <1>4, CompareKeepsPreference
  <1>6. \A a, b, c \in E : <<a, b>> \notin Better /\ <<b, c>> \notin Better => <<a, c>> \notin Better
    <2> HIDE DEF E, Better
    <2> QED BY <1>2, <1>4, PreferenceIsAnOrder
  <1>7. /\ HeadOfSorted(merged) \in ElementsOf(merged)
        /\ \A a \in ElementsOf(merged) : <<a, HeadOfSorted(merged)>> \notin Better
    <2> HIDE DEF E, Better, merged
    <2> QED BY <1>1, <1>3, <1>5, <1>6, HeadIsBest
  <1>8. \A a \in ElementsOf(merged) : a \in E
    <2> HIDE DEF E, merged
    <2> QED BY <1>1 DEF ElementsOf
  <1>9. \A a \in ElementsOf(merged) : ~Preferred(a, HeadOfSorted(merged))
    <2> HIDE DEF E, Better, merged
    <2> QED BY <1>4, <1>7, <1>8
  <1> QED BY <1>9 DEF ElementsOf, choose_primary_device

-----------------------------------------------------------------------------
(* The order that the comparison sorts by: the criteria and, within them,    *)
(* the rest of what the rules look at.                                       *)
Ahead(a, b) ==
    IF a.power_supply # b.power_supply THEN a.power_supply
    ELSE \/ Rank(a) < Rank(b)
         \/ /\ Rank(a) = Rank(b)
            /\ \/ Rank(a) = 2 /\ a.time < b.time
               \/ Rank(a) = 3 /\ a.time > b.time
               \/ Rank(a) \in {2, 3} /\ a.time = b.time /\ a.percentage < b.percentage
               \/ Rank(a) = 5 /\ a.percentage < b.percentage
               \/ Rank(a) \in {6, 7} /\ get_device_kind_weight(a) > get_device_kind_weight(b)
               \/ /\ Rank(a) \in {6, 7} /\ get_device_kind_weight(a) = get_device_kind_weight(b)
                  /\ state_number[a.state] < state_number[b.state]

(* What the order compares are numbers.                                      *)
LEMMA KeysAreNumbers ==
    ASSUME NEW d, IsDevice(d)
    PROVE  /\ Rank(d) \in 2 .. 7 /\ d.time \in Int /\ d.percentage \in Int
           /\ d.power_supply \in BOOLEAN /\ get_device_kind_weight(d) \in 0 .. 2
           /\ state_number[d.state] \in 0 .. 4
  BY DEF IsDevice, Rank, IsDischarging, IsCharging, IsUnknown, Percentage,
         get_device_kind_weight, UpDeviceState, state_number, UP_DEVICE_STATE_UNKNOWN,
         UP_DEVICE_STATE_CHARGING, UP_DEVICE_STATE_DISCHARGING, UP_DEVICE_STATE_EMPTY,
         UP_DEVICE_STATE_FULLY_CHARGED

(* The comparison never goes against that order.                             *)
LEMMA CompareKeepsAhead ==
    ASSUME NEW a, NEW b, IsDevice(a), IsDevice(b)
    PROVE  /\ device_compare_func(a, b) <= 0 => ~Ahead(b, a)
           /\ ~(device_compare_func(a, b) <= 0) => ~Ahead(a, b)
  <1> DEFINE v == Verdicts(a, b)
  <1>1. /\ \A i \in 1 .. 7 : v[i] \in Int
        /\ device_compare_func(a, b) =
              IF v[1] # 0 THEN v[1] ELSE IF v[2] # 0 THEN v[2]
              ELSE IF v[3] # 0 THEN v[3] ELSE IF v[4] # 0 THEN v[4]
              ELSE IF v[5] # 0 THEN v[5] ELSE IF v[6] # 0 THEN v[6] ELSE v[7]
    BY FirstVerdict
  <1> USE DEF Verdicts, Rank, IsDischarging, IsCharging, IsUnknown, IsTimed, Favour, ByTime,
              LowerCharge, UP_DEVICE_STATE_UNKNOWN, UP_DEVICE_STATE_CHARGING,
              UP_DEVICE_STATE_DISCHARGING
  <1>2. CASE a.power_supply # b.power_supply
    BY <1>1, <1>2 DEF Ahead, IsDevice
  <1>3. CASE a.power_supply = b.power_supply /\ Rank(a) # Rank(b)
    BY <1>1, <1>3 DEF Ahead
  <1>4. CASE a.power_supply = b.power_supply /\ Rank(a) = Rank(b) /\ Rank(a) \in {2, 3}
    BY <1>1, <1>4, KeysAreNumbers DEF Ahead
  <1>5. CASE a.power_supply = b.power_supply /\ Rank(a) = Rank(b) /\ Rank(a) \in {4, 5}
    BY <1>1, <1>5, KeysAreNumbers DEF Ahead
  <1>6. CASE a.power_supply = b.power_supply /\ Rank(a) = Rank(b) /\ Rank(a) \in {6, 7}
    BY <1>1, <1>6, KeysAreNumbers DEF Ahead
  <1>7. Rank(a) \in 2 .. 7
    BY KeysAreNumbers
  <1> HIDE DEF Rank
  <1> QED BY <1>2, <1>3, <1>4, <1>5, <1>6, <1>7

(* That order sorts the devices into classes.                                *)
LEMMA AheadIsAnOrder ==
    ASSUME NEW a, NEW b, NEW c, IsDevice(a), IsDevice(b), IsDevice(c),
           ~Ahead(a, b), ~Ahead(b, c)
    PROVE  ~Ahead(a, c)
  BY KeysAreNumbers DEF Ahead

(* Two devices of a class are of the same interest.                          *)
LEMMA TiesAreOfTheSameInterest ==
    ASSUME NEW a, NEW b, IsDevice(a), IsDevice(b), ~Ahead(a, b), ~Ahead(b, a)
    PROVE  Interest(a) = Interest(b)
  <1>1. a.power_supply = b.power_supply /\ Rank(a) = Rank(b)
    BY KeysAreNumbers DEF Ahead
  <1>2. CASE Rank(a) \in 2 .. 5
    <2>1. /\ Rank(a) \in {2, 3} => a.time = b.time /\ a.percentage = b.percentage
          /\ Rank(a) = 5 => a.percentage = b.percentage
      BY <1>1, KeysAreNumbers DEF Ahead
    <2> QED BY <1>1, <1>2, <2>1
         DEF Rank, Interest, IsDischarging, IsCharging, IsUnknown, UP_DEVICE_STATE_UNKNOWN,
             UP_DEVICE_STATE_CHARGING, UP_DEVICE_STATE_DISCHARGING
  <1>3. CASE Rank(a) \in {6, 7}
    <2>1. /\ get_device_kind_weight(a) = get_device_kind_weight(b)
          /\ state_number[a.state] = state_number[b.state]
      BY <1>1, <1>3, KeysAreNumbers DEF Ahead
    <2>2. a.state = b.state
      BY <2>1 DEF IsDevice, state_number, UpDeviceState, UP_DEVICE_STATE_UNKNOWN,
         UP_DEVICE_STATE_CHARGING, UP_DEVICE_STATE_DISCHARGING, UP_DEVICE_STATE_EMPTY,
         UP_DEVICE_STATE_FULLY_CHARGED
    <2> QED BY <1>1, <1>3, <2>1, <2>2
         DEF Rank, Interest, IsDischarging, IsCharging, IsUnknown, UP_DEVICE_STATE_UNKNOWN,
             UP_DEVICE_STATE_CHARGING, UP_DEVICE_STATE_DISCHARGING
  <1> QED BY <1>2, <1>3, KeysAreNumbers

(* Two lists of the same devices have heads of the same interest, however    *)
(* g_list_sort meets the devices.                                            *)
LEMMA BestAreOfTheSameInterest ==
    ASSUME NEW E, \A d \in E : IsDevice(d), NEW l \in Seq(E), NEW m \in Seq(E), l # <<>>, m # <<>>,
           ElementsOf(l) = ElementsOf(m)
    PROVE  Interest(HeadOfSorted(l)) = Interest(HeadOfSorted(m))
  <1> DEFINE Better == {p \in E \X E : Ahead(p[1], p[2])}
  <1>1. Better \in SUBSET (E \X E) /\ \A a, b \in E : <<a, b>> \in Better <=> Ahead(a, b)
    OBVIOUS
  <1> HIDE DEF Better
  <1>2. \A a, b \in E : /\ device_compare_func(a, b) <= 0 => <<b, a>> \notin Better
                        /\ ~(device_compare_func(a, b) <= 0) => <<a, b>> \notin Better
    BY <1>1, CompareKeepsAhead
  <1>3. \A a, b, c \in E : <<a, b>> \notin Better /\ <<b, c>> \notin Better => <<a, c>> \notin Better
    BY <1>1, AheadIsAnOrder
  <1>4. /\ HeadOfSorted(l) \in ElementsOf(l)
        /\ \A a \in ElementsOf(l) : <<a, HeadOfSorted(l)>> \notin Better
    BY <1>1, <1>2, <1>3, HeadIsBest
  <1>5. /\ HeadOfSorted(m) \in ElementsOf(m)
        /\ \A a \in ElementsOf(m) : <<a, HeadOfSorted(m)>> \notin Better
    BY <1>1, <1>2, <1>3, HeadIsBest
  <1>6. HeadOfSorted(l) \in E /\ HeadOfSorted(m) \in E
    BY <1>4, <1>5 DEF ElementsOf
  <1>7. ~Ahead(HeadOfSorted(l), HeadOfSorted(m)) /\ ~Ahead(HeadOfSorted(m), HeadOfSorted(l))
    BY <1>1, <1>4, <1>5, <1>6
  <1> QED BY <1>6, <1>7, TiesAreOfTheSameInterest

(* "other" is "list" in another order: position i of it shows position       *)
(* from[i].                                                                  *)
IsReordering(list, other, from) ==
    /\ DOMAIN other = DOMAIN list
    /\ from \in [DOMAIN list -> DOMAIN list]
    /\ \A i, j \in DOMAIN list : from[i] = from[j] => i = j
    /\ \A j \in DOMAIN list : \E i \in DOMAIN list : from[i] = j
    /\ \A i \in DOMAIN list : other[i] = list[from[i]]

(* A reordering takes the positions S with values f to the positions T with  *)
(* values h.                                                                 *)
Carries(list, from, f, S, h, T) ==
    /\ S \in SUBSET DOMAIN list /\ T \in SUBSET DOMAIN list
    /\ \A i \in DOMAIN list : i \in S <=> from[i] \in T
    /\ f \in [S -> Int] /\ h \in [T -> Int] /\ \A i \in S : f[i] = h[from[i]]

(* Sums and counts do not depend on the order of the list.                   *)
LEMMA ReorderedSum ==
    ASSUME NEW D, NEW list \in Seq(D), NEW other, NEW from, IsReordering(list, other, from),
           NEW f, NEW S, NEW h, NEW T, Carries(list, from, f, S, h, T)
    PROVE  SumFunctionOnSet(f, S) = SumFunctionOnSet(h, T) /\ Cardinality(S) = Cardinality(T)
  <1> DEFINE swap == [i \in S |-> from[i]]
  <1>1. IsFiniteSet(S) /\ IsFiniteSet(T)
    <2>1. IsFiniteSet(DOMAIN list)
      BY FS_Interval
    <2> QED BY <2>1, FS_Subset DEF Carries
  <1>2. Matches(f, S, h, T, swap)
    BY DEF IsReordering, Carries, Matches
  <1> HIDE DEF swap
  <1> QED BY <1>1, <1>2, SameSum

(* The merged battery does not depend on the order of the list.              *)
LEMMA ReorderedTotal ==
    ASSUME NEW D, \A d \in D : IsDevice(d), NEW list \in Seq(D), NEW other \in Seq(D), NEW from,
           IsReordering(list, other, from)
    PROVE  /\ IsMerged(other) <=> IsMerged(list)
           /\ IsMerged(list) =>
                 create_totalled_battery_device(other) = create_totalled_battery_device(list)
  <1>1. \A i \in DOMAIN list : from[i] \in DOMAIN list /\ other[i] = list[from[i]]
    BY DEF IsReordering
  <1>2. \A j \in DOMAIN list : \E i \in DOMAIN list : from[i] = j
    BY DEF IsReordering
  <1>3. DOMAIN other = DOMAIN list
    BY DEF IsReordering
  <1>4. ASSUME NEW s
        PROVE  /\ BatteriesIn(other, s) = {} <=> BatteriesIn(list, s) = {}
               /\ MaxTime(other, BatteriesIn(other, s)) = MaxTime(list, BatteriesIn(list, s))
               /\ SumOfTimes(other, BatteriesIn(other, s)) = SumOfTimes(list, BatteriesIn(list, s))
    <2> DEFINE S == BatteriesIn(other, s)
               T == BatteriesIn(list, s)
               f == [i \in S |-> other[i].time]
               h == [i \in T |-> list[i].time]
    <2>1. S \in SUBSET DOMAIN other /\ T \in SUBSET DOMAIN list
      BY DEF BatteriesIn
    <2>2. \A i \in DOMAIN list : i \in S <=> from[i] \in T
      BY <1>1, <1>3 DEF BatteriesIn
    <2>3. f \in [S -> Int] /\ h \in [T -> Int]
      BY <2>1, DeviceFields
    <2>4. \A i \in S : f[i] = h[from[i]]
      BY <1>1, <1>3, <2>1, <2>2
    <2>5. SumFunctionOnSet(f, S) = SumFunctionOnSet(h, T)
      <3>1. Carries(list, from, f, S, h, T)
        BY <1>3, <2>1, <2>2, <2>3, <2>4 DEF Carries
      <3> HIDE DEF f, h, S, T
      <3> QED BY <3>1, ReorderedSum
    <2>6. {other[i].time : i \in S} = {list[i].time : i \in T}
      <3>1. \A i \in S : from[i] \in T /\ other[i].time = list[from[i]].time
        BY <1>1, <1>3, <2>1, <2>2
      <3>2. ASSUME NEW j \in T
            PROVE  \E i \in S : other[i].time = list[j].time
        <4>1. PICK i \in DOMAIN list : from[i] = j
          BY <1>2, <2>1
        <4>2. i \in S /\ other[i] = list[j]
          BY <1>1, <2>2, <4>1
        <4> HIDE DEF S, T
        <4> QED BY <4>2
      <3> HIDE DEF S, T
      <3> QED BY <3>1, <3>2
    <2>7. S = {} <=> T = {}
      <3> HIDE DEF S, T
      <3> QED BY <1>1, <1>2, <1>3, <2>1, <2>2
    <2> QED BY <2>5, <2>6, <2>7 DEF MaxTime, SumOfTimes
  <1>5. /\ Cardinality(Counted(other)) = Cardinality(Counted(list))
        /\ MeanCharge(other) = MeanCharge(list)
    <2> DEFINE S == Counted(other)
               T == Counted(list)
               f == [i \in S |-> other[i].percentage]
               h == [i \in T |-> list[i].percentage]
    <2>1. S \in SUBSET DOMAIN other /\ T \in SUBSET DOMAIN list
      BY DEF Counted
    <2>2. \A i \in DOMAIN list : i \in S <=> from[i] \in T
      BY <1>1, <1>3 DEF Counted
    <2>3. f \in [S -> Int] /\ h \in [T -> Int]
      BY <2>1, DeviceFields
    <2>4. \A i \in S : f[i] = h[from[i]]
      BY <1>1, <1>3, <2>1, <2>2
    <2>5. SumFunctionOnSet(f, S) = SumFunctionOnSet(h, T) /\ Cardinality(S) = Cardinality(T)
      <3>1. Carries(list, from, f, S, h, T)
        BY <1>3, <2>1, <2>2, <2>3, <2>4 DEF Carries
      <3> HIDE DEF f, h, S, T
      <3> QED BY <3>1, ReorderedSum
    <2> QED BY <2>5 DEF MeanCharge, SumOfCharges
  <1>6. AggregatedState(other) = AggregatedState(list)
    <2>1. \A s : BatteriesIn(other, s) = {} <=> BatteriesIn(list, s) = {}
      BY <1>4
    <2> QED BY <2>1, Zenon DEF AggregatedState
  <1>7. AggregatedTime(other) = AggregatedTime(list)
    BY <1>4, Zenon DEF AggregatedTime
  <1>8. DocumentedTotal(other) = DocumentedTotal(list)
    BY <1>5, <1>6, <1>7, Zenon DEF DocumentedTotal
  <1>9. /\ IsMerged(list) <=> Cardinality(Counted(list)) > 1
        /\ IsMerged(list) => create_totalled_battery_device(list) = DocumentedTotal(list)
        /\ IsMerged(other) <=> Cardinality(Counted(other)) > 1
        /\ IsMerged(other) => create_totalled_battery_device(other) = DocumentedTotal(other)
    BY TotalIsDocumented
  <1> QED BY <1>5, <1>8, <1>9

(* Whatever the list, two neighbours that swap places do not change the      *)
(* interest of the device that is chosen.                                    *)
LEMMA OrderInAnyList ==
    ASSUME NEW D, \A d \in D : IsDevice(d), NEW list \in Seq(D), NEW i \in 1 .. Len(list) - 1
    PROVE  Interest(choose_primary_device(Swapped(list, i))) = Interest(choose_primary_device(list))
  <1> DEFINE other == Swapped(list, i)
             from == [j \in DOMAIN list |-> IF j = i THEN i + 1 ELSE IF j = i + 1 THEN i ELSE j]
             E == D \cup (IF IsMerged(list) THEN {create_totalled_battery_device(list)} ELSE {})
             l == merge_batteries_together(list)
             m == merge_batteries_together(other)
  <1>1. other \in Seq(D) /\ list # <<>> /\ other # <<>> /\ i \in DOMAIN list /\ i + 1 \in DOMAIN list
    BY DEF Swapped
  <1>2. IsReordering(list, other, from)
    BY <1>1 DEF IsReordering, Swapped
  <1> HIDE DEF other, from
  <1>3. /\ IsMerged(other) <=> IsMerged(list)
        /\ IsMerged(list) =>
              create_totalled_battery_device(other) = create_totalled_battery_device(list)
    BY <1>1, <1>2, ReorderedTotal
  <1>4. \A d \in E : IsDevice(d)
    BY TotalIsDevice
  <1>5. /\ l \in Seq(E) /\ l # <<>>
        /\ m \in Seq(E) /\ m # <<>>
        /\ ElementsOf(l) = ElementsOf(m)
    <2>1. CASE IsMerged(list)
      <3> DEFINE others(s) == {s[j] : j \in {k \in DOMAIN s : s[k].kind # UP_DEVICE_KIND_BATTERY}}
      <3>1. others(list) = others(other)
        BY <1>2 DEF IsReordering
      <3>2. /\ l \in Seq(E) /\ l # <<>>
            /\ ElementsOf(l) = {create_totalled_battery_device(list)} \cup others(list)
        BY <2>1, MergedDevices
      <3>3. /\ m \in Seq(E) /\ m # <<>>
            /\ ElementsOf(m) = {create_totalled_battery_device(list)} \cup others(other)
        BY <1>1, <1>3, <2>1, MergedDevices
      <3> HIDE DEF E, l, m, others
      <3> QED BY <3>1, <3>2, <3>3
    <2>2. CASE ~IsMerged(list)
      <3>1. l = list /\ m = other
        BY <1>3, <2>2 DEF merge_batteries_together
      <3>2. ElementsOf(list) = ElementsOf(other)
        BY <1>2 DEF IsReordering, ElementsOf
      <3> HIDE DEF l, m
      <3> QED BY <1>1, <3>1, <3>2
    <2> QED BY <2>1, <2>2
  <1>6. Interest(HeadOfSorted(m)) = Interest(HeadOfSorted(l))
    <2> HIDE DEF E, l, m
    <2> QED BY <1>4, <1>5, BestAreOfTheSameInterest
  <1> QED BY <1>6 DEF choose_primary_device, other

-----------------------------------------------------------------------------
ListOK == devices \in Seq(Devices)

(* The list holds devices.                                                   *)
LEMMA ListOfDevices == Spec => []ListOK
  <1>1. Init => ListOK
    BY DEF Init, ListOK
  <1>2. ListOK /\ [Next]_devices => ListOK'
    <2> SUFFICES ASSUME ListOK, [Next]_devices
                 PROVE  ListOK'
      OBVIOUS
    <2> USE DEF ListOK
    <2>1. ASSUME NEW d \in Devices, Appears(d)
          PROVE  ListOK'
      BY <2>1 DEF Appears
    <2>2. ASSUME NEW i \in DOMAIN devices, Disappears(i)
          PROVE  ListOK'
      BY <2>2 DEF Disappears
    <2> QED BY <2>1, <2>2 DEF Next
  <1> QED BY <1>1, <1>2, PTL DEF Spec

(* However many devices appear and disappear, in whatever order the provider *)
(* lists them, none is preferred to the primary one by the criteria of the   *)
(* comment service.c:171-178.                                                *)
THEOREM PrimaryIsChosenByTheCriteria == Spec => []ChosenByTheCriteria
  <1>1. ListOK => ChosenByTheCriteria
    BY DevicesAssumption, ChosenFromAnyList DEF ListOK, ChosenByTheCriteria
  <1> QED BY <1>1, ListOfDevices, PTL

(* For any number of batteries, listed in whatever order, the loop of        *)
(* create_totalled_battery_device() makes of them what the comment above it  *)
(* says: the battery discharges if one of them does, lasts as long as the    *)
(* longest discharging one and the sum of the idle ones (or as the longest   *)
(* charging one takes), and shows the average charge of those with any left, *)
(* of which there have to be two or more.                                    *)
THEOREM MergedAsDocumented == Spec => []TotalIsAsDocumented
  <1>1. ListOK => TotalIsAsDocumented
    BY DevicesAssumption, TotalIsDocumented DEF ListOK, TotalIsAsDocumented
  <1> QED BY <1>1, ListOfDevices, PTL

(* For any number of devices, the order in which the provider lists them     *)
(* decides only between devices of the same interest.                        *)
THEOREM OrderOfTheListOnlyBreaksTies == Spec => []OrderMattersOnlyInTies
  <1>1. ListOK => OrderMattersOnlyInTies
    BY DevicesAssumption, OrderInAnyList DEF ListOK, OrderMattersOnlyInTies
  <1> QED BY <1>1, ListOfDevices, PTL
=============================================================================
