------------------------ MODULE PrimaryDeviceLemmas ------------------------
(***************************************************************************)
(* Lemmas about the operators of PrimaryDevice, for lists of any length.   *)
(*                                                                         *)
(* They are proved by induction over numbers and over finite sets, which   *)
(* is stated here for sets instead of predicates: a set that would not be  *)
(* everything has a least element outside it.                              *)
(***************************************************************************)
EXTENDS BatteryTotals, FiniteSetTheorems, WellFoundedInduction, TLAPS

(* A set of numbers has a least one.                                         *)
LEMMA LeastNumber ==
    ASSUME NEW S \in SUBSET Nat, S # {}
    PROVE  \E m \in S : \A k \in S : m <= k
  <1> DEFINE Segments == {0 .. k : k \in S}
  <1>1. Segments \subseteq FiniteSubsetsOf(Nat)
    <2>1. \A k \in Nat : IsFiniteSet(0 .. k) /\ 0 .. k \in SUBSET Nat
      BY FS_Interval
    <2> QED BY <2>1 DEF FiniteSubsetsOf
  <1>2. Segments # {}
    OBVIOUS
  <1>3. IsWellFoundedOn(StrictSubsetOrdering(Nat), FiniteSubsetsOf(Nat))
    BY FS_StrictSubsetOrderingWellFounded
  <1> HIDE DEF Segments
  <1>4. PICK x \in Segments : \A y \in Segments : ~(<<y, x>> \in StrictSubsetOrdering(Nat))
    BY <1>1, <1>2, <1>3, WFMin
  <1>5. \A y \in Segments : y \subseteq x => y = x
    BY <1>1, <1>4 DEF StrictSubsetOrdering, FiniteSubsetsOf
  <1>6. PICK m \in S : x = 0 .. m
    BY DEF Segments
  <1>7. ASSUME NEW k \in S, k < m
        PROVE  FALSE
    <2>1. 0 .. k \in Segments
      BY DEF Segments
    <2>2. 0 .. k = 0 .. m
      BY <2>1, <1>5, <1>6, <1>7
    <2> QED BY <2>2, <1>7
  <1> QED BY <1>7

(* Induction over numbers, for the set of those that have a property.        *)
LEMMA NumberInduction ==
    ASSUME NEW P \in SUBSET Nat, 0 \in P, \A n \in P : n + 1 \in P
    PROVE  P = Nat
  <1> SUFFICES ASSUME P # Nat PROVE FALSE
    OBVIOUS
  <1>1. PICK m \in Nat \ P : \A k \in Nat \ P : m <= k
    BY LeastNumber
  <1>2. m - 1 \in P
    BY <1>1
  <1> QED BY <1>1, <1>2

(* Induction over the subsets of a finite set, likewise.                     *)
LEMMA SubsetInduction ==
    ASSUME NEW S, IsFiniteSet(S), NEW P \in SUBSET (SUBSET S),
           \A T \in SUBSET S : (\A x \in T : T \ {x} \in P) => T \in P
    PROVE  P = SUBSET S
  <1> SUFFICES ASSUME P # SUBSET S PROVE FALSE
    OBVIOUS
  <1> DEFINE Rest == (SUBSET S) \ P
  <1>1. Rest \subseteq FiniteSubsetsOf(S) /\ Rest # {}
    BY FS_FiniteSubsetsOfFinite
  <1>2. IsWellFoundedOn(StrictSubsetOrdering(S), FiniteSubsetsOf(S))
    BY FS_StrictSubsetOrderingWellFounded
  <1>3. PICK T \in Rest : \A y \in Rest : ~(<<y, T>> \in StrictSubsetOrdering(S))
    <2> HIDE DEF Rest
    <2> QED BY <1>1, <1>2, WFMin
  <1>4. \A y \in Rest : y \subseteq T => y = T
    BY <1>3 DEF StrictSubsetOrdering
  <1>5. \A x \in T : T \ {x} \in P
    BY <1>4
  <1> QED BY <1>3, <1>5

(* What a fold over the subsets of S that takes its elements in the order    *)
(* "pick" satisfies.                                                         *)
IsFold(S, base, op, pick, g) ==
    \A T \in SUBSET S : g[T] = IF T = {} THEN base ELSE op[<<pick[T], g[T \ {pick[T]}]>>]

(* Such a fold exists, and its values stay where "op" keeps them.            *)
LEMMA FoldExists ==
    ASSUME NEW S, IsFiniteSet(S), NEW V, NEW base \in V, NEW op \in [S \X V -> V],
           NEW pick \in [(SUBSET S) \ {{}} -> S],
           \A T \in (SUBSET S) \ {{}} : pick[T] \in T
    PROVE  \E g \in [SUBSET S -> V] : IsFold(S, base, op, pick, g)
  <1> DEFINE Small(k) == {T \in SUBSET S : Cardinality(T) <= k}
             Value(g, T) == IF T = {} THEN base ELSE op[<<pick[T], g[T \ {pick[T]}]>>]
             P == {k \in Nat : \E g \in [Small(k) -> V] : \A T \in Small(k) : g[T] = Value(g, T)}
  <1>1. \A T \in SUBSET S : IsFiniteSet(T) /\ Cardinality(T) \in Nat
    BY FS_Subset, FS_CardinalityType
  <1>2. \A T \in SUBSET S : Cardinality(T) = 0 <=> T = {}
    BY <1>1, FS_EmptySet
  <1>3. \A T \in (SUBSET S) \ {{}} : /\ pick[T] \in T
                                     /\ Cardinality(T \ {pick[T]}) = Cardinality(T) - 1
    BY <1>1, FS_RemoveElement
  <1>4. 0 \in P
    <2> DEFINE g == [T \in Small(0) |-> base]
    <2>1. \A T \in Small(0) : T = {}
      BY <1>1, <1>2
    <2>2. g \in [Small(0) -> V]
      OBVIOUS
    <2>3. \A T \in Small(0) : g[T] = Value(g, T)
      BY <2>1
    <2> QED BY <2>2, <2>3
  <1>5. ASSUME NEW k \in P
        PROVE  k + 1 \in P
    <2>1. PICK g \in [Small(k) -> V] : \A T \in Small(k) : g[T] = Value(g, T)
      OBVIOUS
    <2> DEFINE h == [T \in Small(k + 1) |-> Value(g, T)]
    <2>2. ASSUME NEW T \in Small(k + 1), T # {}
          PROVE  T \ {pick[T]} \in Small(k)
      BY <2>2, <1>1, <1>3
    <2>3. \A T \in Small(k + 1) : Value(g, T) \in V
      BY <2>2, <1>3
    <2>4. h \in [Small(k + 1) -> V]
      BY <2>3
    <2>5. \A T \in Small(k) : T \in Small(k + 1) /\ h[T] = g[T]
      BY <1>1, <2>1
    <2>6. \A T \in Small(k + 1) : Value(g, T) = Value(h, T)
      BY <2>2, <2>5
    <2>7. \A T \in Small(k + 1) : h[T] = Value(h, T)
      BY <2>6
    <2>8. \E f \in [Small(k + 1) -> V] : \A T \in Small(k + 1) : f[T] = Value(f, T)
      <3> HIDE DEF h, Value, Small
      <3> QED BY <2>4, <2>7
    <2>9. k + 1 \in Nat
      OBVIOUS
    <2> HIDE DEF h, Value, Small
    <2> QED BY <2>8, <2>9
  <1>6. P = Nat
    <2> HIDE DEF P
    <2>1. P \in SUBSET Nat
      BY DEF P
    <2> QED BY <1>4, <1>5, <2>1, NumberInduction
  <1>7. Small(Cardinality(S)) = SUBSET S
    BY FS_Subset
  <1>8. PICK g \in [SUBSET S -> V] : \A T \in SUBSET S : g[T] = Value(g, T)
    <2>1. Cardinality(S) \in P
      BY <1>6, FS_CardinalityType
    <2> HIDE DEF Value, Small
    <2> QED BY <2>1, <1>7
  <1> QED BY <1>8 DEF IsFold

(* A finite set of numbers has a greatest one.                               *)
LEMMA GreatestElement ==
    ASSUME NEW S \in SUBSET Int, IsFiniteSet(S), S # {}
    PROVE  Max(S) \in S /\ \A k \in S : k <= Max(S)
  <1> DEFINE P == {T \in SUBSET S : T = {} \/ \E m \in T : \A k \in T : k <= m}
  <1>1. ASSUME NEW T \in SUBSET S, \A x \in T : T \ {x} \in P
        PROVE  T \in P
    <2>1. CASE \E x \in T : T \ {x} = {}
      <3>1. PICK x \in T : T \ {x} = {}
        BY <2>1
      <3>2. \A k \in T : k <= x
        BY <3>1
      <3> QED BY <3>2
    <2>2. CASE T # {} /\ \A x \in T : T \ {x} # {}
      <3>1. PICK x \in T : TRUE
        BY <2>2
      <3>2. PICK m \in T \ {x} : \A k \in T \ {x} : k <= m
        BY <1>1, <2>2
      <3>3. \/ \A k \in T : k <= m
            \/ \A k \in T : k <= x
        BY <3>2
      <3> QED BY <3>3
    <2> QED BY <2>1, <2>2
  <1>2. P = SUBSET S
    <2> HIDE DEF P
    <2>1. P \in SUBSET SUBSET S
      BY DEF P
    <2> QED BY <1>1, <2>1, SubsetInduction
  <1>3. \E m \in S : \A k \in S : k <= m
    BY <1>2
  <1>4. \E m \in S : \A k \in S : m >= k
    BY <1>3
  <1> QED BY <1>4 DEF Max

(* The operator Min takes the least number.                                  *)
LEMMA LeastElement ==
    ASSUME NEW S \in SUBSET Nat, S # {}
    PROVE  Min(S) \in S /\ \A k \in S : Min(S) <= k
  BY LeastNumber DEF Min

-----------------------------------------------------------------------------
(* g is the recursive function that SumFunctionOnSet is defined by.          *)
IsSumOf(f, S, g) ==
    g = [T \in SUBSET S |-> IF T = {} THEN 0
                            ELSE f[CHOOSE x \in T : TRUE] + g[T \ {CHOOSE x \in T : TRUE}]]

(* SumFunctionOnSet can be unfolded.                                         *)
LEMMA SumUnfolds ==
    ASSUME NEW S, IsFiniteSet(S), NEW f \in [S -> Int]
    PROVE  \E g : IsSumOf(f, S, g) /\ SumFunctionOnSet(f, S) = g[S]
  <1> DEFINE pick == [T \in (SUBSET S) \ {{}} |-> CHOOSE x \in T : TRUE]
             plus == [p \in S \X Int |-> f[p[1]] + p[2]]
  <1>1. pick \in [(SUBSET S) \ {{}} -> S] /\ \A T \in (SUBSET S) \ {{}} : pick[T] \in T
    <2>1. \A T \in (SUBSET S) \ {{}} : (CHOOSE x \in T : TRUE) \in T
      OBVIOUS
    <2> QED BY <2>1
  <1>2. plus \in [S \X Int -> Int]
    OBVIOUS
  <1>3. PICK g \in [SUBSET S -> Int] :
           IsFold(S, 0, plus, pick, g)
    <2>1. 0 \in Int
      OBVIOUS
    <2> HIDE DEF pick, plus
    <2> QED BY <1>1, <1>2, <2>1, FoldExists
  <1>4. IsSumOf(f, S, g)
    <2>1. \A T \in (SUBSET S) \ {{}} :
             plus[<<pick[T], g[T \ {pick[T]}]>>]
                = f[CHOOSE x \in T : TRUE] + g[T \ {CHOOSE x \in T : TRUE}]
      <3> SUFFICES ASSUME NEW T \in (SUBSET S) \ {{}}
                   PROVE  plus[<<pick[T], g[T \ {pick[T]}]>>] = f[pick[T]] + g[T \ {pick[T]}]
        OBVIOUS
      <3>1. pick[T] \in S /\ g[T \ {pick[T]}] \in Int
        BY <1>1
      <3> HIDE DEF pick
      <3> QED BY <3>1
    <2> HIDE DEF plus
    <2> QED BY <1>3, <2>1 DEF IsSumOf, IsFold
  <1> DEFINE h == CHOOSE h : IsSumOf(f, S, h)
  <1>5. IsSumOf(f, S, h)
    BY <1>4
  <1>6. SumFunctionOnSet(f, S) = h[S]
    BY DEF SumFunctionOnSet, FoldFunctionOnSet, MapThenFoldSet, IsSumOf
  <1> QED BY <1>5, <1>6

(* g is the recursive function that merge_batteries_together() is defined    *)
(* by.                                                                       *)
IsMergeOf(list, g) ==
    g = [T \in SUBSET DOMAIN list |->
            IF T = {} THEN <<create_totalled_battery_device(list)>>
            ELSE AppendOther(g[T \ {Max(T)}], list[Max(T)])]

(* The loop of merge_batteries_together() can be unfolded.                   *)
LEMMA MergeUnfolds ==
    ASSUME NEW D, NEW list \in Seq(D), IsMerged(list)
    PROVE  \E g : IsMergeOf(list, g) /\ merge_batteries_together(list) = g[DOMAIN list]
  <1> DEFINE S == DOMAIN list
             total == create_totalled_battery_device(list)
             V == Seq(D \cup {total})
             pick == [T \in (SUBSET S) \ {{}} |-> Max(T)]
             append == [p \in S \X V |-> AppendOther(p[2], list[p[1]])]
  <1>1. IsFiniteSet(S) /\ S \subseteq Int
    BY FS_Interval
  <1>2. pick \in [(SUBSET S) \ {{}} -> S] /\ \A T \in (SUBSET S) \ {{}} : pick[T] \in T
    <2>1. \A T \in (SUBSET S) \ {{}} : Max(T) \in T
      BY <1>1, FS_Subset, GreatestElement
    <2> QED BY <2>1
  <1>3. append \in [S \X V -> V]
    BY DEF AppendOther
  <1>4. <<total>> \in V
    OBVIOUS
  <1>5. PICK g \in [SUBSET S -> V] :
           IsFold(S, <<total>>, append, pick, g)
    <2> HIDE DEF S, pick, append, V, total
    <2> QED BY <1>1, <1>2, <1>3, <1>4, FoldExists
  <1>6. IsMergeOf(list, g)
    <2>1. \A T \in (SUBSET S) \ {{}} :
             append[<<pick[T], g[T \ {pick[T]}]>>] = AppendOther(g[T \ {Max(T)}], list[Max(T)])
      <3> HIDE DEF V, total
      <3> QED BY <1>2
    <2> HIDE DEF append
    <2> QED BY <1>5, <2>1 DEF IsMergeOf, IsFold
  <1> DEFINE h == CHOOSE h : IsMergeOf(list, h)
  <1>7. IsMergeOf(list, h)
    BY <1>6
  <1>8. merge_batteries_together(list) = h[DOMAIN list]
    BY DEF merge_batteries_together, FoldLeft, MapThenFoldSet, IsMergeOf
  <1> QED BY <1>7, <1>8

(* g is the recursive function that HeadOfSorted is defined by.              *)
IsHeadOf(list, g) ==
    g = [r \in Ranges(list) |->
            IF r[1] = r[2] THEN list[r[1]]
            ELSE LET left  == g[<<r[1], Halfway(r)>>]
                     right == g[<<Halfway(r) + 1, r[2]>>]
                 IN  IF device_compare_func(left, right) <= 0 THEN left ELSE right]

(* g_list_sort() splits a list of two or more devices into two shorter ones. *)
LEMMA HalfwayIsInside ==
    ASSUME NEW D, NEW list \in Seq(D), NEW r \in Ranges(list), r[1] # r[2]
    PROVE  /\ r[1] \in Nat /\ r[2] \in Nat /\ Halfway(r) \in Nat
           /\ <<r[1], Halfway(r)>> \in Ranges(list)
           /\ <<Halfway(r) + 1, r[2]>> \in Ranges(list)
           /\ r[1] <= Halfway(r) /\ Halfway(r) < r[2]
  <1>1. /\ r[1] \in 1 .. Len(list) /\ r[2] \in 1 .. Len(list) /\ r[1] < r[2]
        /\ DOMAIN list = 1 .. Len(list) /\ Len(list) \in Nat
    BY DEF Ranges
  <1>2. Halfway(r) \in r[1] .. r[2] - 1
    <2>1. \A n \in Nat : n >= 2 => n \div 2 \in 1 .. n - 1
      OBVIOUS
    <2>2. (r[2] - r[1] + 1) \div 2 \in 1 .. r[2] - r[1]
      BY <1>1, <2>1
    <2> QED BY <1>1, <2>2 DEF Halfway
  <1>3. Halfway(r) \in DOMAIN list /\ Halfway(r) + 1 \in DOMAIN list
    BY <1>1, <1>2
  <1> QED BY <1>1, <1>2, <1>3 DEF Ranges

(* The recursion of the merge sort can be unfolded.                          *)
LEMMA HeadUnfolds ==
    ASSUME NEW D, NEW list \in Seq(D)
    PROVE  \E g : IsHeadOf(list, g) /\ HeadOfSorted(list) = g[<<1, Len(list)>>]
  <1> DEFINE Value(g, r) ==
                IF r[1] = r[2] THEN list[r[1]]
                ELSE LET left  == g[<<r[1], Halfway(r)>>]
                         right == g[<<Halfway(r) + 1, r[2]>>]
                     IN  IF device_compare_func(left, right) <= 0 THEN left ELSE right
             Short(k) == {r \in Ranges(list) : r[2] - r[1] < k}
             P == {k \in Nat : \E g : /\ DOMAIN g = Short(k)
                                      /\ \A r \in Short(k) : g[r] = Value(g, r)}
  <1>0. \A r \in Ranges(list) : r[1] \in Nat /\ r[2] \in Nat /\ r[1] <= r[2] /\ r[1] >= 1 /\ r[2] <= Len(list)
    BY DEF Ranges
  <1>1. 0 \in P
    <2> DEFINE g == [r \in Short(0) |-> 0]
    <2>1. Short(0) = {}
      BY <1>0
    <2>2. DOMAIN g = Short(0) /\ \A r \in Short(0) : g[r] = Value(g, r)
      BY <2>1
    <2> HIDE DEF g, Short, Value
    <2> QED BY <2>2
  <1>2. ASSUME NEW k \in P
        PROVE  k + 1 \in P
    <2>1. PICK g : DOMAIN g = Short(k) /\ \A r \in Short(k) : g[r] = Value(g, r)
      <3> HIDE DEF Value, Short
      <3> QED OBVIOUS
    <2> DEFINE h == [r \in Short(k + 1) |-> Value(g, r)]
    <2>2. ASSUME NEW r \in Short(k + 1), r[1] # r[2]
          PROVE  <<r[1], Halfway(r)>> \in Short(k) /\ <<Halfway(r) + 1, r[2]>> \in Short(k)
      BY <2>2, HalfwayIsInside
    <2>3. \A r \in Short(k) : r \in Short(k + 1) /\ h[r] = g[r]
      <3>1. \A r \in Short(k) : r \in Short(k + 1)
        BY <1>0
      <3> HIDE DEF Short, Value
      <3> QED BY <2>1, <3>1
    <2>4. \A r \in Short(k + 1) : Value(h, r) = Value(g, r)
      <3> HIDE DEF h, Short
      <3> QED BY <2>2, <2>3
    <2>5. DOMAIN h = Short(k + 1) /\ \A r \in Short(k + 1) : h[r] = Value(h, r)
      <3> HIDE DEF Short, Value
      <3> QED BY <2>4
    <2>6. k + 1 \in Nat
      OBVIOUS
    <2> HIDE DEF h, Value, Short
    <2> QED BY <2>5, <2>6
  <1>3. P = Nat
    <2> HIDE DEF P
    <2>1. P \in SUBSET Nat
      BY DEF P
    <2> QED BY <1>1, <1>2, <2>1, NumberInduction
  <1>4. Short(Len(list)) = Ranges(list)
    BY <1>0
  <1>5. \E g : IsHeadOf(list, g)
    <2>1. Len(list) \in P
      <3> HIDE DEF P
      <3> QED BY <1>3
    <2>2. PICK g : DOMAIN g = Ranges(list) /\ \A r \in Ranges(list) : g[r] = Value(g, r)
      <3> HIDE DEF Value, Short
      <3> QED BY <2>1, <1>4
    <2> DEFINE h == [r \in Ranges(list) |-> Value(g, r)]
    <2>3. \A r \in Ranges(list) : Value(h, r) = Value(g, r)
      <3>1. \A r \in Ranges(list) : h[r] = g[r]
        BY <2>2
      <3> HIDE DEF h
      <3> QED BY <3>1, HalfwayIsInside
    <2>4. h = [r \in Ranges(list) |-> Value(h, r)]
      <3> HIDE DEF Value
      <3> QED BY <2>3
    <2> QED BY <2>4 DEF IsHeadOf
  <1> DEFINE h == CHOOSE h : IsHeadOf(list, h)
  <1>6. IsHeadOf(list, h)
    BY <1>5
  <1>7. HeadOfSorted(list) = h[<<1, Len(list)>>]
    BY DEF HeadOfSorted, IsHeadOf
  <1> QED BY <1>6, <1>7

-----------------------------------------------------------------------------
ElementsOf(list) == {list[i] : i \in DOMAIN list}

(* merge_batteries_together() leaves the merged battery and what is no       *)
(* battery.                                                                  *)
LEMMA MergedDevices ==
    ASSUME NEW D, NEW list \in Seq(D), IsMerged(list)
    PROVE  LET merged == merge_batteries_together(list)
               total  == create_totalled_battery_device(list)
               others == {list[i] : i \in {j \in DOMAIN list : list[j].kind # UP_DEVICE_KIND_BATTERY}}
           IN  /\ merged \in Seq(D \cup {total})
               /\ merged # <<>>
               /\ ElementsOf(merged) = {total} \cup others
  <1> DEFINE S == DOMAIN list
             total == create_totalled_battery_device(list)
             others(T) == {list[i] : i \in {j \in T : list[j].kind # UP_DEVICE_KIND_BATTERY}}
             Merged(T) == {m \in Seq(D \cup {total}) :
                              m # <<>> /\ ElementsOf(m) = {total} \cup others(T)}
  <1>1. PICK g : IsMergeOf(list, g) /\ merge_batteries_together(list) = g[S]
    BY MergeUnfolds
  <1>2. IsFiniteSet(S) /\ S \subseteq Int
    BY FS_Interval
  <1> DEFINE P == {T \in SUBSET S : g[T] \in Merged(T)}
  <1>3. ASSUME NEW T \in SUBSET S, \A x \in T : T \ {x} \in P
        PROVE  T \in P
    <2>1. CASE T = {}
      <3>1. g[T] = <<total>>
        BY <1>1, <2>1 DEF IsMergeOf
      <3>2. ElementsOf(<<total>>) = {total}
        BY DEF ElementsOf
      <3>3. <<total>> \in Seq(D \cup {total}) /\ <<total>> # <<>>
        OBVIOUS
      <3>4. g[T] \in Merged(T)
        <4> HIDE DEF total
        <4> QED BY <2>1, <3>1, <3>2, <3>3
      <3> QED BY <3>4
    <2>2. CASE T # {}
      <3> DEFINE x == Max(T)
                 old == g[T \ {x}]
      <3>1. x \in T
        BY <1>2, <2>2, FS_Subset, GreatestElement
      <3>2. old \in Merged(T \ {x})
        BY <3>1, <1>3
      <3>3. g[T] = AppendOther(old, list[x])
        BY <1>1, <2>2 DEF IsMergeOf
      <3>4. list[x] \in D
        BY <3>1
      <3> HIDE DEF x, old, total
      <3>5. CASE list[x].kind # UP_DEVICE_KIND_BATTERY
        <4>1. g[T] = Append(old, list[x])
          BY <3>3, <3>5 DEF AppendOther
        <4>2. /\ g[T] \in Seq(D \cup {total}) /\ g[T] # <<>>
              /\ ElementsOf(g[T]) = ElementsOf(old) \cup {list[x]}
          BY <3>2, <3>4, <4>1 DEF ElementsOf
        <4>3. others(T) = others(T \ {x}) \cup {list[x]}
          BY <3>1, <3>5
        <4> QED BY <3>2, <4>2, <4>3
      <3>6. CASE list[x].kind = UP_DEVICE_KIND_BATTERY
        <4>1. g[T] = old
          BY <3>3, <3>6 DEF AppendOther
        <4>2. others(T) = others(T \ {x})
          BY <3>6
        <4> QED BY <3>2, <4>1, <4>2
      <3> QED BY <3>5, <3>6
    <2> QED BY <2>1, <2>2
  <1>4. P = SUBSET S
    <2> HIDE DEF P
    <2>1. P \in SUBSET SUBSET S
      BY DEF P
    <2> QED BY <1>2, <1>3, <2>1, SubsetInduction
  <1>5. g[S] \in Merged(S)
    BY <1>4
  <1> QED BY <1>1, <1>5

(* The merge sort finds a device that no other is better than, for every way *)
(* of being better that the comparison keeps to and that sorts the devices   *)
(* into classes. The comparison itself need not be an order.                 *)
LEMMA HeadIsBest ==
    ASSUME NEW D, NEW list \in Seq(D), list # <<>>, NEW Better \in SUBSET (D \X D),
           \A a, b \in D : device_compare_func(a, b) <= 0 => <<b, a>> \notin Better,
           \A a, b \in D : ~(device_compare_func(a, b) <= 0) => <<a, b>> \notin Better,
           \A a, b, c \in D : <<a, b>> \notin Better /\ <<b, c>> \notin Better
                                  => <<a, c>> \notin Better
    PROVE  /\ HeadOfSorted(list) \in ElementsOf(list)
           /\ \A a \in ElementsOf(list) : <<a, HeadOfSorted(list)>> \notin Better
  <1>1. PICK g : IsHeadOf(list, g) /\ HeadOfSorted(list) = g[<<1, Len(list)>>]
    BY HeadUnfolds
  <1> DEFINE Best(r) == \E j \in r[1] .. r[2] :
                           /\ g[r] = list[j]
                           /\ \A i \in r[1] .. r[2] : <<list[i], g[r]>> \notin Better
             P == {k \in Nat : \A r \in Ranges(list) : r[2] - r[1] < k => Best(r)}
  <1>2. \A r \in Ranges(list) :
           /\ r[1] \in Nat /\ r[2] \in Nat /\ r[1] <= r[2] /\ r[1] >= 1 /\ r[2] <= Len(list)
           /\ \A i \in r[1] .. r[2] : list[i] \in D
    BY DEF Ranges
  <1>3. 0 \in P
    BY <1>2
  <1>4. ASSUME NEW k \in P
        PROVE  k + 1 \in P
    <2> SUFFICES ASSUME NEW r \in Ranges(list), r[2] - r[1] < k + 1
                 PROVE  Best(r)
      OBVIOUS
    <2>1. CASE r[1] = r[2]
      <3>1. g[r] = list[r[1]]
        BY <1>1, <2>1 DEF IsHeadOf
      <3>2. device_compare_func(g[r], g[r]) <= 0 \/ ~(device_compare_func(g[r], g[r]) <= 0)
        OBVIOUS
      <3>3. <<g[r], g[r]>> \notin Better
        BY <1>2, <2>1, <3>1, <3>2
      <3> QED BY <1>2, <2>1, <3>1, <3>3
    <2>2. CASE r[1] # r[2]
      <3> DEFINE h == Halfway(r)
                 l == <<r[1], h>>
                 m == <<h + 1, r[2]>>
      <3>1. l \in Ranges(list) /\ m \in Ranges(list) /\ h \in Nat /\ r[1] <= h /\ h < r[2]
        BY <2>2, HalfwayIsInside
      <3>2. Best(l) /\ Best(m)
        <4>1. \A s \in Ranges(list) : s[2] - s[1] < k => Best(s)
          <5> HIDE DEF Best
          <5> QED OBVIOUS
        <4>2. l[2] - l[1] < k /\ m[2] - m[1] < k /\ k \in Nat
          <5> HIDE DEF Best, h
          <5> QED BY <1>2, <3>1
        <4> HIDE DEF Best
        <4> QED BY <3>1, <4>1, <4>2
      <3>3. g[r] = IF device_compare_func(g[l], g[m]) <= 0 THEN g[l] ELSE g[m]
        BY <1>1, <2>2 DEF IsHeadOf
      <3> HIDE DEF h
      <3>4. g[l] \in D /\ g[m] \in D
        BY <1>2, <3>1, <3>2
      <3>5. \A i \in r[1] .. r[2] : i \in r[1] .. h \/ i \in h + 1 .. r[2]
        BY <1>2, <3>1
      <3>6. CASE device_compare_func(g[l], g[m]) <= 0
        <4>1. g[r] = g[l] /\ <<g[m], g[l]>> \notin Better
          BY <3>3, <3>4, <3>6
        <4>2. \A i \in r[1] .. h : <<list[i], g[r]>> \notin Better
          BY <3>2, <4>1
        <4>3. \A i \in h + 1 .. r[2] : <<list[i], g[r]>> \notin Better
          BY <3>1, <3>2, <3>4, <4>1, <1>2
        <4> QED BY <1>2, <3>1, <3>2, <3>5, <4>1, <4>2, <4>3
      <3>7. CASE ~(device_compare_func(g[l], g[m]) <= 0)
        <4>1. g[r] = g[m] /\ <<g[l], g[m]>> \notin Better
          BY <3>3, <3>4, <3>7
        <4>2. \A i \in r[1] .. h : <<list[i], g[r]>> \notin Better
          BY <3>1, <3>2, <3>4, <4>1, <1>2
        <4>3. \A i \in h + 1 .. r[2] : <<list[i], g[r]>> \notin Better
          BY <3>2, <4>1
        <4>4. \A i \in r[1] .. r[2] : <<list[i], g[r]>> \notin Better
          BY <3>5, <4>2, <4>3
        <4>5. PICK j \in h + 1 .. r[2] : g[m] = list[j]
          BY <3>2
        <4>6. j \in r[1] .. r[2]
          BY <1>2, <3>1
        <4> QED BY <4>1, <4>4, <4>5, <4>6
      <3> QED BY <3>6, <3>7
    <2> QED BY <2>1, <2>2
  <1>5. P = Nat
    <2> HIDE DEF P
    <2>1. P \in SUBSET Nat
      BY DEF P
    <2> QED BY <1>3, <1>4, <2>1, NumberInduction
  <1>6. Best(<<1, Len(list)>>)
    <2>1. <<1, Len(list)>> \in Ranges(list) /\ Len(list) \in Nat
      BY DEF Ranges
    <2>2. Len(list) \in P
      <3> HIDE DEF P
      <3> QED BY <1>5, <2>1
    <2> QED BY <2>1, <2>2
  <1> QED BY <1>1, <1>6 DEF ElementsOf

(* The primary device is the merged battery or one that the provider lists.  *)
LEMMA PrimaryIsListed ==
    ASSUME NEW D, NEW list \in Seq(D), list # <<>>
    PROVE  \/ IsMerged(list) /\ choose_primary_device(list) = create_totalled_battery_device(list)
           \/ choose_primary_device(list) \in ElementsOf(list)
  <1> DEFINE merged == merge_batteries_together(list)
             total == create_totalled_battery_device(list)
  <1>1. merged \in Seq(D \cup {total}) /\ merged # <<>>
    BY MergedDevices DEF merge_batteries_together
  <1>2. ElementsOf(merged) \subseteq ElementsOf(list) \cup (IF IsMerged(list) THEN {total} ELSE {})
    <2>1. CASE IsMerged(list)
      <3> HIDE DEF total, merged
      <3>1. ElementsOf(merged) =
               {total} \cup {list[i] : i \in {j \in DOMAIN list : list[j].kind # UP_DEVICE_KIND_BATTERY}}
        BY <2>1, MergedDevices DEF merged, total
      <3> QED BY <2>1, <3>1 DEF ElementsOf
    <2>2. CASE ~IsMerged(list)
      BY <2>2 DEF merge_batteries_together
    <2> QED BY <2>1, <2>2
  <1>3. HeadOfSorted(merged) \in ElementsOf(merged)
    <2> HIDE DEF merged, total
    <2> DEFINE E == D \cup {total}
               none == {}
    <2>1. none \in SUBSET (E \X E) /\ merged \in Seq(E) /\ \A p : p \notin none
      BY <1>1
    <2> HIDE DEF E, none
    <2> QED BY <1>1, <2>1, HeadIsBest
  <1> HIDE DEF merged, total
  <1> QED BY <1>2, <1>3 DEF choose_primary_device, merged, total

-----------------------------------------------------------------------------
(* A sum lies between its bounds.                                            *)
LEMMA SumWithin ==
    ASSUME NEW S, IsFiniteSet(S), NEW f \in [S -> Int], NEW lo \in Int, NEW hi \in Int,
           \A x \in S : lo <= f[x] /\ f[x] <= hi
    PROVE  /\ SumFunctionOnSet(f, S) \in Int
           /\ lo * Cardinality(S) <= SumFunctionOnSet(f, S)
           /\ SumFunctionOnSet(f, S) <= hi * Cardinality(S)
  <1>1. PICK g : IsSumOf(f, S, g) /\ SumFunctionOnSet(f, S) = g[S]
    BY SumUnfolds
  <1> DEFINE Within(T) == /\ g[T] \in Int
                          /\ lo * Cardinality(T) <= g[T]
                          /\ g[T] <= hi * Cardinality(T)
             P == {T \in SUBSET S : Within(T)}
  <1>2. ASSUME NEW T \in SUBSET S, \A x \in T : T \ {x} \in P
        PROVE  T \in P
    <2>1. CASE T = {}
      <3>1. g[T] = 0
        BY <1>1, <2>1 DEF IsSumOf
      <3>2. Cardinality(T) = 0
        BY <2>1, FS_EmptySet
      <3> QED BY <3>1, <3>2
    <2>2. CASE T # {}
      <3> DEFINE x == CHOOSE x \in T : TRUE
      <3>1. x \in T
        BY <2>2
      <3>2. g[T] = f[x] + g[T \ {x}]
        BY <1>1, <2>2 DEF IsSumOf
      <3> HIDE DEF x
      <3>3. IsFiniteSet(T) /\ Cardinality(T) \in Nat /\ Cardinality(T \ {x}) = Cardinality(T) - 1
        BY <3>1, FS_Subset, FS_CardinalityType, FS_RemoveElement
      <3>4. Within(T \ {x})
        BY <1>2, <3>1
      <3>5. \A k \in Int : k * (Cardinality(T) - 1) + k = k * Cardinality(T)
        BY <3>3
      <3>6. lo * (Cardinality(T) - 1) + lo = lo * Cardinality(T)
        BY <3>5
      <3>7. hi * (Cardinality(T) - 1) + hi = hi * Cardinality(T)
        BY <3>5
      <3>8. f[x] \in Int /\ lo <= f[x] /\ f[x] <= hi
        BY <3>1
      <3>9. Within(T)
        BY <3>2, <3>3, <3>4, <3>6, <3>7, <3>8
      <3> QED BY <3>9
    <2> QED BY <2>1, <2>2
  <1>3. P = SUBSET S
    <2> HIDE DEF P
    <2>1. P \in SUBSET SUBSET S
      BY DEF P
    <2> QED BY <1>2, <2>1, SubsetInduction
  <1>4. Within(S)
    BY <1>3
  <1> QED BY <1>1, <1>4

(* g can be unfolded at any element of a set.                                *)
TakesAny(f, S, g) ==
    \A T \in SUBSET S : g[T] \in Int /\ \A x \in T : g[T] = f[x] + g[T \ {x}]

(* The order in which a sum takes its elements does not matter.              *)
LEMMA TakeOneFromSum ==
    ASSUME NEW S, IsFiniteSet(S), NEW f \in [S -> Int], NEW g, IsSumOf(f, S, g)
    PROVE  TakesAny(f, S, g)
  <1> DEFINE P == {T \in SUBSET S :
                     g[T] \in Int /\ \A x \in T : g[T \ {x}] \in Int /\ g[T] = f[x] + g[T \ {x}]}
  <1>1. ASSUME NEW T \in SUBSET S, \A x \in T : T \ {x} \in P
        PROVE  T \in P
    <2>1. CASE T = {}
      <3>1. g[T] = 0
        BY <2>1 DEF IsSumOf
      <3> QED BY <2>1, <3>1
    <2>2. CASE T # {}
      <3> DEFINE y == CHOOSE y \in T : TRUE
      <3>1. y \in T
        BY <2>2
      <3>2. g[T] = f[y] + g[T \ {y}]
        BY <2>2 DEF IsSumOf
      <3> HIDE DEF y
      <3>3. f[y] \in Int /\ g[T \ {y}] \in Int
        BY <1>1, <3>1
      <3>4. ASSUME NEW x \in T, x # y
            PROVE  g[T] = f[x] + g[T \ {x}]
        <4>1. x \in T \ {y} /\ y \in T \ {x}
          BY <3>1, <3>4
        <4>2. g[T \ {y}] = f[x] + g[(T \ {y}) \ {x}]
          BY <1>1, <3>1, <4>1
        <4>3. g[T \ {x}] = f[y] + g[(T \ {x}) \ {y}]
          BY <1>1, <4>1
        <4>4. (T \ {y}) \ {x} = (T \ {x}) \ {y}
          OBVIOUS
        <4>5. f[x] \in Int /\ g[(T \ {x}) \ {y}] \in Int
          BY <1>1, <4>1
        <4>6. g[T \ {y}] = f[x] + g[(T \ {x}) \ {y}]
          BY <4>2, <4>4
        <4> DEFINE rest == g[(T \ {x}) \ {y}]
        <4> HIDE DEF rest
        <4> QED BY <3>2, <3>3, <4>3, <4>5, <4>6 DEF rest
      <3>5. \A x \in T : g[T \ {x}] \in Int
        BY <1>1
      <3>6. g[T] \in Int
        BY <3>2, <3>3
      <3> QED BY <3>2, <3>4, <3>5, <3>6
    <2> QED BY <2>1, <2>2
  <1>2. P = SUBSET S
    <2> HIDE DEF P
    <2>1. P \in SUBSET SUBSET S
      BY DEF P
    <2> QED BY <1>1, <2>1, SubsetInduction
  <1> QED BY <1>2 DEF TakesAny

(* "swap" pairs the elements of S and T, and f and h agree on every pair.    *)
Matches(f, S, h, T, swap) ==
    /\ f \in [S -> Int] /\ h \in [T -> Int] /\ swap \in [S -> T]
    /\ \A x \in S : h[swap[x]] = f[x]
    /\ \A x, y \in S : swap[x] = swap[y] => x = y
    /\ \A y \in T : \E x \in S : swap[x] = y

(* Paired elements have the same sum and number.                             *)
LEMMA SameSum ==
    ASSUME NEW S, IsFiniteSet(S), NEW T, IsFiniteSet(T), NEW f, NEW h, NEW swap,
           Matches(f, S, h, T, swap)
    PROVE  /\ SumFunctionOnSet(f, S) = SumFunctionOnSet(h, T)
           /\ Cardinality(S) = Cardinality(T)
  <1>0. /\ f \in [S -> Int] /\ h \in [T -> Int] /\ swap \in [S -> T]
        /\ \A x \in S : h[swap[x]] = f[x]
        /\ \A x, y \in S : swap[x] = swap[y] => x = y
        /\ \A y \in T : \E x \in S : swap[x] = y
    BY DEF Matches
  <1>1. PICK F : IsSumOf(f, S, F) /\ SumFunctionOnSet(f, S) = F[S]
    BY <1>0, SumUnfolds
  <1>2. PICK H : IsSumOf(h, T, H) /\ SumFunctionOnSet(h, T) = H[T]
    BY <1>0, SumUnfolds
  <1>3. \A U \in SUBSET S : F[U] \in Int /\ \A x \in U : F[U] = f[x] + F[U \ {x}]
    <2>1. TakesAny(f, S, F)
      BY <1>0, <1>1, TakeOneFromSum
    <2> QED BY <2>1 DEF TakesAny
  <1>4. \A U \in SUBSET T : H[U] \in Int /\ \A x \in U : H[U] = h[x] + H[U \ {x}]
    BY <1>0, <1>2, TakeOneFromSum DEF TakesAny
  <1> DEFINE Image(U) == {swap[x] : x \in U}
             P == {U \in SUBSET S : F[U] = H[Image(U)]}
  <1>5. ASSUME NEW U \in SUBSET S, \A x \in U : U \ {x} \in P
        PROVE  U \in P
    <2>1. CASE U = {}
      <3>1. F[U] = 0
        BY <1>1, <2>1 DEF IsSumOf
      <3>2. Image(U) = {}
        BY <2>1
      <3>3. H[Image(U)] = 0
        BY <1>2, <3>2 DEF IsSumOf
      <3> QED BY <3>1, <3>3
    <2>2. CASE U # {}
      <3>1. PICK x \in U : TRUE
        BY <2>2
      <3>2. F[U] = f[x] + F[U \ {x}]
        BY <1>3
      <3>3. Image(U) \in SUBSET T /\ swap[x] \in Image(U)
        BY <1>0
      <3>4. H[Image(U)] = h[swap[x]] + H[Image(U) \ {swap[x]}]
        BY <1>4, <3>3
      <3>5. Image(U) \ {swap[x]} = Image(U \ {x})
        BY <1>0
      <3>6. F[U \ {x}] = H[Image(U \ {x})]
        BY <1>5
      <3> HIDE DEF Image
      <3> QED BY <1>0, <3>2, <3>4, <3>5, <3>6
    <2> QED BY <2>1, <2>2
  <1>6. P = SUBSET S
    <2> HIDE DEF P
    <2>1. P \in SUBSET SUBSET S
      BY DEF P
    <2> QED BY <1>5, <2>1, SubsetInduction
  <1>7. Image(S) = T
    BY <1>0
  <1>8. SumFunctionOnSet(f, S) = SumFunctionOnSet(h, T)
    BY <1>1, <1>2, <1>6, <1>7
  <1>9. swap \in Injection(S, T) /\ swap \in Surjection(S, T)
    BY <1>0 DEF Injection, IsInjective, Surjection
  <1>10. ExistsBijection(S, T)
    BY <1>9 DEF Bijection, ExistsBijection
  <1> QED BY <1>8, <1>10, FS_Bijection

(* A function of a finite set has finitely many values.                      *)
LEMMA ImageIsFinite ==
    ASSUME NEW S, IsFiniteSet(S), NEW f, DOMAIN f = S
    PROVE  IsFiniteSet({f[x] : x \in S})
  <1> DEFINE T == {f[x] : x \in S}
             g == [x \in S |-> f[x]]
  <1>1. g \in Surjection(S, T)
    BY DEF Surjection
  <1> HIDE DEF g, T
  <1> QED BY <1>1, FS_Surjection DEF T

-----------------------------------------------------------------------------
(* The types of a device's properties.                                       *)
LEMMA DeviceFields ==
    ASSUME NEW d, IsDevice(d)
    PROVE  /\ d.kind \in UpDeviceKind /\ d.state \in UpDeviceState /\ d.power_supply \in BOOLEAN
           /\ d.percentage \in Int /\ d.percentage >= 0 /\ d.percentage <= 1000
           /\ d.time \in Nat
  BY DEF IsDevice, Percentage

(* The charges of a set of devices.                                          *)
LEMMA ChargesInRange ==
    ASSUME NEW D, \A d \in D : IsDevice(d)
    PROVE  \A d \in D : d.percentage \in 0 .. 1000
  BY DEF IsDevice, Percentage

(* MaxTime is zero or one of the times, and none is greater.                 *)
LEMMA MaxTimeIsGreatest ==
    ASSUME NEW D, \A d \in D : IsDevice(d), NEW list \in Seq(D), NEW T \in SUBSET DOMAIN list
    PROVE  /\ MaxTime(list, T) \in {0} \cup {list[i].time : i \in T}
           /\ \A i \in T : list[i].time <= MaxTime(list, T)
           /\ MaxTime(list, T) \in Nat
  <1> DEFINE times == [i \in T |-> list[i].time]
             all == {0} \cup {times[i] : i \in T}
  <1>1. IsFiniteSet(T)
    BY FS_Interval, FS_Subset
  <1>2. IsFiniteSet({times[i] : i \in T})
    <2> HIDE DEF times
    <2>1. DOMAIN times = T
      BY DEF times
    <2> QED BY <1>1, <2>1, ImageIsFinite
  <1>3. IsFiniteSet(all)
    BY <1>2, FS_Singleton, FS_Union
  <1>4. \A i \in T : times[i] \in Nat
    BY DEF IsDevice
  <1>5. all \in SUBSET Int /\ all # {} /\ all \subseteq Nat
    BY <1>4
  <1>6. Max(all) \in all /\ \A k \in all : k <= Max(all)
    <2> HIDE DEF all
    <2> QED BY <1>3, <1>5, GreatestElement
  <1>7. all = {0} \cup {list[i].time : i \in T}
    OBVIOUS
  <1> HIDE DEF all
  <1> QED BY <1>5, <1>6, <1>7 DEF MaxTime

(* The mean charge is between any bounds of the charges, although it is      *)
(* truncated.                                                                *)
LEMMA MeanChargeIsBetween ==
    ASSUME NEW D, \A d \in D : IsDevice(d), NEW list \in Seq(D), Cardinality(Counted(list)) > 1,
           NEW lo \in Int, NEW hi \in Int,
           \A i \in Counted(list) : list[i].percentage \in lo .. hi
    PROVE  MeanCharge(list) \in lo .. hi
  <1> DEFINE S == Counted(list)
             f == [i \in S |-> list[i].percentage]
  <1>1. IsFiniteSet(S) /\ Cardinality(S) \in Nat
    <2>1. S \subseteq DOMAIN list
      BY DEF Counted
    <2>2. IsFiniteSet(DOMAIN list)
      BY FS_Interval
    <2> HIDE DEF S
    <2> QED BY <2>1, <2>2, FS_Subset, FS_CardinalityType
  <1>2. f \in [S -> Int]
    <2>1. \A i \in S : list[i] \in D
      BY DEF Counted
    <2>2. \A d \in D : d.percentage \in Int
      BY DeviceFields
    <2>3. ASSUME NEW i \in S
          PROVE  list[i].percentage \in Int
      <3> HIDE DEF S
      <3> QED BY <2>1, <2>2
    <2> HIDE DEF S
    <2> QED BY <2>3
  <1>3. /\ SumFunctionOnSet(f, S) \in Int
        /\ lo * Cardinality(S) <= SumFunctionOnSet(f, S)
        /\ SumFunctionOnSet(f, S) <= hi * Cardinality(S)
    <2>1. \A i \in S : lo <= f[i] /\ f[i] <= hi
      OBVIOUS
    <2> HIDE DEF f, S
    <2> QED BY <1>1, <1>2, <2>1, SumWithin
  <1>4. MeanCharge(list) = SumFunctionOnSet(f, S) \div Cardinality(S)
    BY DEF MeanCharge, SumOfCharges
  <1>5. Cardinality(S) > 1
    OBVIOUS
  <1> HIDE DEF f, S
  <1>6. \A s, n \in Int : n > 0 /\ lo * n <= s /\ s <= hi * n => s \div n \in lo .. hi
    OBVIOUS
  <1> QED BY <1>1, <1>3, <1>4, <1>5, <1>6

(* No time is longer than the sum of the times.                              *)
LEMMA SumOfTimesIsEnough ==
    ASSUME NEW D, \A d \in D : IsDevice(d), NEW list \in Seq(D), NEW T \in SUBSET DOMAIN list
    PROVE  SumOfTimes(list, T) \in Nat /\ \A i \in T : list[i].time <= SumOfTimes(list, T)
  <1> DEFINE f == [i \in T |-> list[i].time]
  <1>1. f \in [T -> Nat]
    BY DEF IsDevice
  <1>2. IsFiniteSet(T)
    BY FS_Interval, FS_Subset
  <1>3. PICK F : IsSumOf(f, T, F) /\ SumFunctionOnSet(f, T) = F[T]
    <2>1. f \in [T -> Int]
      BY <1>1
    <2> HIDE DEF f
    <2> QED BY <1>2, <2>1, SumUnfolds
  <1> DEFINE P == {U \in SUBSET T : F[U] \in Nat}
  <1>4. \A U \in SUBSET T : F[U] \in Int /\ \A x \in U : F[U] = f[x] + F[U \ {x}]
    <2>1. f \in [T -> Int]
      BY <1>1
    <2> HIDE DEF f
    <2> QED BY <1>2, <1>3, <2>1, TakeOneFromSum DEF TakesAny
  <1>5. P = SUBSET T
    <2>1. ASSUME NEW U \in SUBSET T, \A x \in U : U \ {x} \in P
          PROVE  U \in P
      <3> HIDE DEF f
      <3>1. U = {} => F[U] = 0
        BY <1>3 DEF IsSumOf
      <3>2. \A x \in U : F[U \ {x}] \in Nat /\ F[U] = f[x] + F[U \ {x}] /\ f[x] \in Nat
        BY <1>1, <1>4, <2>1
      <3>3. F[U] \in Nat
        <4>1. CASE U = {}
          BY <3>1, <4>1
        <4>2. ASSUME NEW x \in U
              PROVE  F[U] \in Nat
          <5>1. F[U \ {x}] \in Nat /\ F[U] = f[x] + F[U \ {x}] /\ f[x] \in Nat
            BY <3>2
          <5> DEFINE rest == F[U \ {x}]
                     one == f[x]
          <5> HIDE DEF rest, one
          <5>2. rest + one \in Nat
            BY <5>1 DEF rest, one
          <5> QED BY <5>1, <5>2 DEF rest, one
        <4> QED BY <4>1, <4>2
      <3> QED BY <3>3
    <2>2. P \in SUBSET SUBSET T
      OBVIOUS
    <2> HIDE DEF P
    <2> QED BY <1>2, <2>1, <2>2, SubsetInduction
  <1>6. ASSUME NEW i \in T
        PROVE  f[i] <= F[T]
    <2> HIDE DEF f
    <2>1. F[T \ {i}] \in Nat /\ f[i] \in Nat /\ F[T] = f[i] + F[T \ {i}]
      BY <1>1, <1>4, <1>5
    <2> QED BY <2>1
  <1>7. F[T] \in Nat
    BY <1>5
  <1> QED BY <1>3, <1>6, <1>7 DEF SumOfTimes

(* A sum over a set is one over the rest of it and one element more.         *)
LEMMA SumGrows ==
    ASSUME NEW S, IsFiniteSet(S), NEW f, \A i \in S : f[i] \in Int, NEW x \in S
    PROVE  /\ SumFunctionOnSet([i \in S \ {x} |-> f[i]], S \ {x}) \in Int
           /\ SumFunctionOnSet([i \in S |-> f[i]], S)
                 = f[x] + SumFunctionOnSet([i \in S \ {x} |-> f[i]], S \ {x})
  <1> DEFINE R == S \ {x}
             a == [i \in S |-> f[i]]
             b == [i \in R |-> f[i]]
  <1>1. a \in [S -> Int] /\ b \in [R -> Int] /\ IsFiniteSet(R)
    BY FS_RemoveElement
  <1>2. a[x] = f[x] /\ \A i \in R : a[i] = b[i]
    OBVIOUS
  <1> HIDE DEF a, b
  <1>3. PICK A : IsSumOf(a, S, A) /\ SumFunctionOnSet(a, S) = A[S]
    BY <1>1, SumUnfolds
  <1>4. PICK B : IsSumOf(b, R, B) /\ SumFunctionOnSet(b, R) = B[R]
    BY <1>1, SumUnfolds
  <1>5. TakesAny(a, S, A) /\ TakesAny(b, R, B)
    BY <1>1, <1>3, <1>4, TakeOneFromSum
  <1> DEFINE P == {U \in SUBSET R : A[U] = B[U]}
  <1>6. ASSUME NEW U \in SUBSET R, \A i \in U : U \ {i} \in P
        PROVE  U \in P
    <2>1. CASE U = {}
      <3>1. A[U] = 0 /\ B[U] = 0
        BY <1>3, <1>4, <2>1 DEF IsSumOf
      <3> QED BY <3>1
    <2>2. CASE U # {}
      <3>1. PICK i \in U : TRUE
        BY <2>2
      <3>2. A[U] = a[i] + A[U \ {i}] /\ B[U] = b[i] + B[U \ {i}]
        BY <1>5 DEF TakesAny
      <3>3. A[U \ {i}] = B[U \ {i}] /\ a[i] = b[i]
        BY <1>2, <1>6
      <3> QED BY <3>2, <3>3
    <2> QED BY <2>1, <2>2
  <1>7. P = SUBSET R
    <2> HIDE DEF P
    <2> HIDE DEF R
    <2>1. P \in SUBSET SUBSET R
      BY DEF P
    <2> QED BY <1>1, <1>6, <2>1, SubsetInduction
  <1>8. A[R] = B[R]
    BY <1>7
  <1>9. A[S] = a[x] + A[R] /\ B[R] \in Int
    BY <1>5 DEF TakesAny
  <1>10. SumFunctionOnSet(b, R) \in Int
         /\ SumFunctionOnSet(a, S) = f[x] + SumFunctionOnSet(b, R)
    BY <1>2, <1>3, <1>4, <1>8, <1>9
  <1> QED BY <1>10, Zenon DEF a, b

(* What is said of a set of devices when the device at x joins them.         *)
Joins(list, old, new, x) ==
    /\ Cardinality(old) \in Nat /\ Cardinality(new) = Cardinality(old) + 1
    /\ MaxTime(list, old) \in Nat /\ MaxTime(list, new) = Larger(MaxTime(list, old), list[x].time)
    /\ SumOfTimes(list, new) = SumOfTimes(list, old) + list[x].time
    /\ SumOfCharges(list, new) = SumOfCharges(list, old) + list[x].percentage

(* A device that joins a set of others.                                      *)
LEMMA SetGrows ==
    ASSUME NEW D, \A d \in D : IsDevice(d), NEW list \in Seq(D), NEW new \in SUBSET DOMAIN list,
           NEW x \in new
    PROVE  Joins(list, new \ {x}, new, x)
  <1> DEFINE old == new \ {x}
             times == [i \in DOMAIN list |-> list[i].time]
             charges == [i \in DOMAIN list |-> list[i].percentage]
  <1>1. IsFiniteSet(new) /\ x \in DOMAIN list
    BY FS_Interval, FS_Subset
  <1>2. Cardinality(new) \in Nat /\ Cardinality(old) \in Nat /\ Cardinality(new) = Cardinality(old) + 1
    <2>1. IsFiniteSet(old) /\ Cardinality(old) = Cardinality(new) - 1
      BY <1>1, FS_RemoveElement
    <2> HIDE DEF old
    <2> QED BY <1>1, <2>1, FS_CardinalityType
  <1>3. \A i \in DOMAIN list : list[i].time \in Nat /\ list[i].percentage \in Int
    BY DeviceFields
  <1>4. MaxTime(list, old) \in Nat /\ MaxTime(list, new) = Larger(MaxTime(list, old), list[x].time)
    <2> DEFINE m == MaxTime(list, old)
               n == MaxTime(list, new)
    <2>1. /\ m \in {0} \cup {list[i].time : i \in old} /\ m \in Nat
          /\ \A i \in old : list[i].time <= m
      BY MaxTimeIsGreatest
    <2>2. /\ n \in {0} \cup {list[i].time : i \in new} /\ n \in Nat
          /\ \A i \in new : list[i].time <= n
      BY MaxTimeIsGreatest
    <2> HIDE DEF m, n
    <2>3. m <= n /\ list[x].time <= n
      BY <2>1, <2>2
    <2>4. n = m \/ n = list[x].time \/ n <= m
      BY <2>1, <2>2
    <2>5. n = Larger(m, list[x].time)
      BY <1>1, <1>3, <2>1, <2>2, <2>3, <2>4 DEF Larger
    <2> QED BY <2>1, <2>5 DEF m, n
  <1>5. SumOfTimes(list, new) = SumOfTimes(list, old) + list[x].time
    <2>1. \A i \in DOMAIN list : times[i] \in Int /\ times[i] = list[i].time
      BY <1>3
    <2>2. /\ [i \in new |-> list[i].time] = [i \in new |-> times[i]]
          /\ [i \in old |-> list[i].time] = [i \in old |-> times[i]]
      BY <2>1
    <2> HIDE DEF times
    <2>3. \A i \in new : times[i] \in Int
      BY <2>1
    <2>4. /\ SumFunctionOnSet([i \in old |-> times[i]], old) \in Int
          /\ SumFunctionOnSet([i \in new |-> times[i]], new)
                = times[x] + SumFunctionOnSet([i \in old |-> times[i]], old)
      BY <1>1, <2>3, SumGrows, Zenon
    <2>5. times[x] \in Int /\ times[x] = list[x].time
      BY <1>1, <2>1
    <2> HIDE DEF old
    <2>6. /\ SumOfTimes(list, old) = SumFunctionOnSet([i \in old |-> times[i]], old)
          /\ SumOfTimes(list, new) = SumFunctionOnSet([i \in new |-> times[i]], new)
      BY <2>2 DEF SumOfTimes
    <2> QED BY <2>4, <2>5, <2>6
  <1>6. SumOfCharges(list, new) = SumOfCharges(list, old) + list[x].percentage
    <2>1. \A i \in DOMAIN list : charges[i] \in Int /\ charges[i] = list[i].percentage
      BY <1>3
    <2>2. /\ [i \in new |-> list[i].percentage] = [i \in new |-> charges[i]]
          /\ [i \in old |-> list[i].percentage] = [i \in old |-> charges[i]]
      BY <2>1
    <2> HIDE DEF charges
    <2>3. \A i \in new : charges[i] \in Int
      BY <2>1
    <2>4. /\ SumFunctionOnSet([i \in old |-> charges[i]], old) \in Int
          /\ SumFunctionOnSet([i \in new |-> charges[i]], new)
                = charges[x] + SumFunctionOnSet([i \in old |-> charges[i]], old)
      BY <1>1, <2>3, SumGrows, Zenon
    <2>5. charges[x] \in Int /\ charges[x] = list[x].percentage
      BY <1>1, <2>1
    <2> HIDE DEF old
    <2>6. /\ SumOfCharges(list, old) = SumFunctionOnSet([i \in old |-> charges[i]], old)
          /\ SumOfCharges(list, new) = SumFunctionOnSet([i \in new |-> charges[i]], new)
      BY <2>2 DEF SumOfCharges
    <2> QED BY <2>4, <2>5, <2>6
  <1> QED BY <1>2, <1>4, <1>5, <1>6 DEF Joins

-----------------------------------------------------------------------------
(* The loop of create_totalled_battery_device()                              *)

Tallies == [n_batteries   : Nat, sum_percent        : Nat,
            n_charging    : Nat, max_charge_time    : Nat,
            n_discharging : Nat, max_discharge_time : Nat,
            n_charged     : Nat, sum_charged_time   : Nat]

(* A battery is in one state at most.                                        *)
LEMMA OneState ==
    ASSUME NEW d
    PROVE  /\ IsCharging(d) => ~IsDischarging(d) /\ ~IsFullyCharged(d)
           /\ IsDischarging(d) => ~IsFullyCharged(d)
  BY DEF IsCharging, IsDischarging, IsFullyCharged, UP_DEVICE_STATE_CHARGING,
         UP_DEVICE_STATE_DISCHARGING, UP_DEVICE_STATE_FULLY_CHARGED

(* What one turn of the loop does to the variables.                          *)
Charges(t, d, u) ==
    /\ u \in Tallies
    /\ d.percentage > 0 => /\ u.n_batteries = t.n_batteries + 1
                           /\ u.sum_percent = t.sum_percent + d.percentage
    /\ ~(d.percentage > 0) => u.n_batteries = t.n_batteries /\ u.sum_percent = t.sum_percent
    /\ u.n_charging = t.n_charging /\ u.max_charge_time = t.max_charge_time
    /\ u.n_discharging = t.n_discharging /\ u.max_discharge_time = t.max_discharge_time
    /\ u.n_charged = t.n_charged /\ u.sum_charged_time = t.sum_charged_time

Times(t, d, u) ==
    /\ u \in Tallies
    /\ u.n_batteries = t.n_batteries /\ u.sum_percent = t.sum_percent
    /\ IsCharging(d) => /\ u.n_charging = t.n_charging + 1
                        /\ u.max_charge_time = Larger(t.max_charge_time, d.time)
    /\ ~IsCharging(d) => u.n_charging = t.n_charging /\ u.max_charge_time = t.max_charge_time
    /\ IsDischarging(d) => /\ u.n_discharging = t.n_discharging + 1
                           /\ u.max_discharge_time = Larger(t.max_discharge_time, d.time)
    /\ ~IsDischarging(d) => /\ u.n_discharging = t.n_discharging
                            /\ u.max_discharge_time = t.max_discharge_time
    /\ IsFullyCharged(d) => /\ u.n_charged = t.n_charged + 1
                            /\ u.sum_charged_time = t.sum_charged_time + d.time
    /\ ~IsFullyCharged(d) => u.n_charged = t.n_charged /\ u.sum_charged_time = t.sum_charged_time

(* TallyTime does the one part of it.                                        *)
LEMMA TimesTallied ==
    ASSUME NEW d, d.time \in Nat, NEW t \in Tallies
    PROVE  Times(t, d, TallyTime(t, d))
  <1> DEFINE u == TallyTime(t, d)
  <1>1. CASE IsCharging(d)
    <2> DEFINE time == Larger(t.max_charge_time, d.time)
    <2>1. time \in Nat
      BY DEF Larger, Tallies
    <2>2. ~IsDischarging(d) /\ ~IsFullyCharged(d)
      BY <1>1, OneState, Zenon
    <2>3. PICK m \in Nat : m = t.n_charging + 1
      BY DEF Tallies
    <2>4. u = [t EXCEPT !.n_charging = m, !.max_charge_time = time]
      BY <2>3, <1>1, <2>2, Zenon DEF TallyTime
    <2> HIDE DEF time, u
    <2>5. /\ u \in Tallies
          /\ u.n_batteries = t.n_batteries /\ u.sum_percent = t.sum_percent
          /\ u.n_charging = m /\ u.max_charge_time = time
          /\ u.n_discharging = t.n_discharging /\ u.max_discharge_time = t.max_discharge_time
          /\ u.n_charged = t.n_charged /\ u.sum_charged_time = t.sum_charged_time
      BY <2>1, <2>4 DEF Tallies
    <2> QED BY <1>1, <2>1, <2>2, <2>3, <2>5, Zenon DEF Times, time, u
  <1>2. CASE IsDischarging(d)
    <2> DEFINE time == Larger(t.max_discharge_time, d.time)
    <2>1. time \in Nat
      BY DEF Larger, Tallies
    <2>2. ~IsCharging(d) /\ ~IsFullyCharged(d)
      BY <1>2, OneState, Zenon
    <2>3. PICK m \in Nat : m = t.n_discharging + 1
      BY DEF Tallies
    <2>4. u = [t EXCEPT !.n_discharging = m, !.max_discharge_time = time]
      BY <2>3, <1>2, <2>2, Zenon DEF TallyTime
    <2> HIDE DEF time, u
    <2>5. /\ u \in Tallies
          /\ u.n_batteries = t.n_batteries /\ u.sum_percent = t.sum_percent
          /\ u.n_charging = t.n_charging /\ u.max_charge_time = t.max_charge_time
          /\ u.n_discharging = m /\ u.max_discharge_time = time
          /\ u.n_charged = t.n_charged /\ u.sum_charged_time = t.sum_charged_time
      BY <2>1, <2>4 DEF Tallies
    <2> QED BY <1>2, <2>1, <2>2, <2>3, <2>5, Zenon DEF Times, time, u
  <1>3. CASE IsFullyCharged(d)
    <2> DEFINE time == d.time
    <2>2. ~IsCharging(d) /\ ~IsDischarging(d)
      BY <1>3, OneState, Zenon
    <2>1. PICK sum \in Nat : sum = t.sum_charged_time + time
      BY DEF Tallies
    <2>3. PICK m \in Nat : m = t.n_charged + 1
      BY DEF Tallies
    <2>4. u = [t EXCEPT !.n_charged = m, !.sum_charged_time = sum]
      BY <2>1, <2>3, <1>3, <2>2, Zenon DEF TallyTime
    <2> HIDE DEF time, u
    <2>5. /\ u \in Tallies
          /\ u.n_batteries = t.n_batteries /\ u.sum_percent = t.sum_percent
          /\ u.n_charging = t.n_charging /\ u.max_charge_time = t.max_charge_time
          /\ u.n_discharging = t.n_discharging /\ u.max_discharge_time = t.max_discharge_time
          /\ u.n_charged = m /\ u.sum_charged_time = sum
      BY <2>1, <2>4 DEF Tallies
    <2> QED BY <1>3, <2>1, <2>2, <2>3, <2>5, Zenon DEF Times, time, u
  <1>4. CASE ~IsCharging(d) /\ ~IsDischarging(d) /\ ~IsFullyCharged(d)
    <2>1. u = t
      BY <1>4, Zenon DEF TallyTime
    <2> QED BY <1>4, <2>1, Zenon DEF Times
  <1> QED BY <1>1, <1>2, <1>3, <1>4

(* TallyCharge does the other.                                               *)
LEMMA ChargesTallied ==
    ASSUME NEW d, d.percentage \in Nat, NEW t \in Tallies
    PROVE  Charges(t, d, TallyCharge(t, d))
  <1> DEFINE u == TallyCharge(t, d)
             p == d.percentage
  <1>1. CASE p > 0
    <2>1. PICK m \in Nat : m = t.n_batteries + 1
      BY DEF Tallies
    <2>2. PICK sum \in Nat : sum = t.sum_percent + p
      BY DEF Tallies
    <2>3. u = [t EXCEPT !.n_batteries = m, !.sum_percent = sum]
      BY <1>1, <2>1, <2>2, Zenon DEF TallyCharge
    <2> HIDE DEF p, u
    <2>4. /\ u \in Tallies
          /\ u.n_batteries = m /\ u.sum_percent = sum
          /\ u.n_charging = t.n_charging /\ u.max_charge_time = t.max_charge_time
          /\ u.n_discharging = t.n_discharging /\ u.max_discharge_time = t.max_discharge_time
          /\ u.n_charged = t.n_charged /\ u.sum_charged_time = t.sum_charged_time
      BY <2>3 DEF Tallies
    <2> QED BY <1>1, <2>1, <2>2, <2>4, Zenon DEF Charges, p, u
  <1>2. CASE ~(p > 0)
    <2>1. u = t
      BY <1>2, Zenon DEF TallyCharge
    <2> QED BY <1>2, <2>1, Zenon DEF Charges
  <1> QED BY <1>1, <1>2

(* What one turn of the loop makes of its variables.                         *)
LEMMA TalliedTallies ==
    ASSUME NEW d, IsDevice(d), NEW t \in Tallies
    PROVE  /\ Tallied(t, d) \in Tallies
           /\ d.kind # UP_DEVICE_KIND_BATTERY => Tallied(t, d) = t
           /\ d.kind = UP_DEVICE_KIND_BATTERY =>
                 \E c \in Tallies : Charges(t, d, c) /\ Times(c, d, Tallied(t, d))
  <1>1. d.time \in Nat /\ d.percentage \in Nat
    BY DEF IsDevice, Percentage
  <1>2. CASE d.kind = UP_DEVICE_KIND_BATTERY
    <2> DEFINE c == TallyCharge(t, d)
    <2>1. Charges(t, d, c)
      BY <1>1, ChargesTallied
    <2>2. c \in Tallies
      BY <2>1, Zenon DEF Charges
    <2> HIDE DEF c
    <2>3. Times(c, d, TallyTime(c, d))
      BY <1>1, <2>2, TimesTallied
    <2>4. Tallied(t, d) = TallyTime(c, d)
      BY <1>2, Zenon DEF Tallied, c
    <2>5. Times(c, d, Tallied(t, d))
      BY <2>3, <2>4, Zenon
    <2>6. Tallied(t, d) \in Tallies
      BY <2>5, Zenon DEF Times
    <2> QED BY <1>2, <2>1, <2>2, <2>5, <2>6, Zenon
  <1>3. CASE d.kind # UP_DEVICE_KIND_BATTERY
    <2>1. Tallied(t, d) = t
      BY <1>3, Zenon DEF Tallied
    <2> QED BY <1>3, <2>1, Zenon
  <1> QED BY <1>2, <1>3

(* g is the recursive function that Tally is defined by.                     *)
IsTallyOf(list, g) ==
    g = [T \in SUBSET DOMAIN list |->
            IF T = {} THEN NoBatteries ELSE Tallied(g[T \ {Max(T)}], list[Max(T)])]

(* The loop of create_totalled_battery_device() can be unfolded.             *)
LEMMA TallyUnfolds ==
    ASSUME NEW D, \A d \in D : IsDevice(d), NEW list \in Seq(D)
    PROVE  \E g : IsTallyOf(list, g) /\ Tally(list) = g[DOMAIN list]
  <1> DEFINE S == DOMAIN list
             pick == [T \in (SUBSET S) \ {{}} |-> Max(T)]
             turn == [p \in S \X Tallies |-> Tallied(p[2], list[p[1]])]
  <1>1. IsFiniteSet(S) /\ S \subseteq Int
    BY FS_Interval
  <1>2. pick \in [(SUBSET S) \ {{}} -> S] /\ \A T \in (SUBSET S) \ {{}} : pick[T] \in T
    <2>1. \A T \in (SUBSET S) \ {{}} : Max(T) \in T
      BY <1>1, FS_Subset, GreatestElement
    <2> QED BY <2>1
  <1>3. turn \in [S \X Tallies -> Tallies]
    <2>1. \A i \in S : IsDevice(list[i])
      OBVIOUS
    <2>2. \A i \in S, t \in Tallies : Tallied(t, list[i]) \in Tallies
      <3> HIDE DEF S
      <3> QED BY <2>1, TalliedTallies
    <2> HIDE DEF S
    <2> QED BY <2>2
  <1>4. NoBatteries \in Tallies
    BY DEF NoBatteries, Tallies
  <1>5. PICK g \in [SUBSET S -> Tallies] : IsFold(S, NoBatteries, turn, pick, g)
    <2> HIDE DEF S, pick, turn
    <2> QED BY <1>1, <1>2, <1>3, <1>4, FoldExists
  <1>6. IsTallyOf(list, g)
    <2>1. \A T \in (SUBSET S) \ {{}} :
             turn[<<pick[T], g[T \ {pick[T]}]>>] = Tallied(g[T \ {Max(T)}], list[Max(T)])
      <3>1. \A T \in (SUBSET S) \ {{}} : pick[T] = Max(T)
        OBVIOUS
      <3>2. \A T \in (SUBSET S) \ {{}} : pick[T] \in S /\ g[T \ {pick[T]}] \in Tallies
        BY <1>2
      <3>3. \A i \in S, t \in Tallies : turn[<<i, t>>] = Tallied(t, list[i])
        OBVIOUS
      <3> HIDE DEF turn, pick, S
      <3> QED BY <3>1, <3>2, <3>3
    <2> HIDE DEF turn
    <2> QED BY <1>5, <2>1 DEF IsTallyOf, IsFold
  <1> DEFINE h == CHOOSE h : IsTallyOf(list, h)
  <1>7. IsTallyOf(list, h)
    BY <1>6
  <1>8. Tally(list) = h[DOMAIN list]
    BY DEF Tally, FoldLeft, MapThenFoldSet, IsTallyOf
  <1> QED BY <1>7, <1>8

(* How the part of a set C of devices that a loop has seen grows when it     *)
(* comes to the device at x.                                                 *)
Grows(list, C, old, new, x) ==
    /\ x \in C => Joins(list, C \cap old, C \cap new, x)
    /\ x \notin C => C \cap new = C \cap old

(* Whatever that set is.                                                     *)
LEMMA PartGrows ==
    ASSUME NEW D, \A d \in D : IsDevice(d), NEW list \in Seq(D), NEW T \in SUBSET DOMAIN list,
           NEW x \in T, NEW C \in SUBSET DOMAIN list
    PROVE  Grows(list, C, T \ {x}, T, x)
  <1>1. CASE x \in C
    <2>1. (C \cap T) \ {x} = C \cap (T \ {x})
      OBVIOUS
    <2>2. x \in C \cap T /\ C \cap T \in SUBSET DOMAIN list
      BY <1>1
    <2>3. Joins(list, (C \cap T) \ {x}, C \cap T, x)
      BY <2>2, SetGrows
    <2> QED BY <1>1, <2>1, <2>3 DEF Grows
  <1>2. CASE x \notin C
    BY <1>2 DEF Grows
  <1> QED BY <1>1, <1>2

(* What the variables of the loop hold when it has seen the batteries of T.  *)
IsTally(list, T, t) ==
    LET counted     == Counted(list) \cap T
        charging    == BatteriesIn(list, UP_DEVICE_STATE_CHARGING) \cap T
        discharging == BatteriesIn(list, UP_DEVICE_STATE_DISCHARGING) \cap T
        charged     == BatteriesIn(list, UP_DEVICE_STATE_FULLY_CHARGED) \cap T
    IN  /\ t \in Tallies
        /\ t.n_batteries = Cardinality(counted)
        /\ t.sum_percent = SumOfCharges(list, counted)
        /\ t.n_charging = Cardinality(charging)
        /\ t.max_charge_time = MaxTime(list, charging)
        /\ t.n_discharging = Cardinality(discharging)
        /\ t.max_discharge_time = MaxTime(list, discharging)
        /\ t.n_charged = Cardinality(charged)
        /\ t.sum_charged_time = SumOfTimes(list, charged)

(* Before the loop, it has seen none.                                        *)
LEMMA TallyBegins ==
    ASSUME NEW list
    PROVE  IsTally(list, {}, NoBatteries)
  <1>1. \A C : C \cap {} = {}
    OBVIOUS
  <1>2. Cardinality({}) = 0
    BY FS_EmptySet
  <1>3. MaxTime(list, {}) = 0
    <2>1. {0} \cup {list[i].time : i \in {}} = {0}
      OBVIOUS
    <2>2. Max({0}) = 0
      BY DEF Max
    <2> QED BY <2>1, <2>2 DEF MaxTime
  <1>4. SumOfTimes(list, {}) = 0 /\ SumOfCharges(list, {}) = 0
    <2>1. ASSUME NEW f \in [{} -> Int]
          PROVE  SumFunctionOnSet(f, {}) = 0
      <3>1. PICK g : IsSumOf(f, {}, g) /\ SumFunctionOnSet(f, {}) = g[{}]
        BY FS_EmptySet, SumUnfolds
      <3> QED BY <3>1 DEF IsSumOf
    <2>2. [i \in {} |-> list[i].time] \in [{} -> Int] /\ [i \in {} |-> list[i].percentage] \in [{} -> Int]
      OBVIOUS
    <2> QED BY <2>1, <2>2 DEF SumOfTimes, SumOfCharges
  <1>5. /\ NoBatteries \in Tallies
        /\ NoBatteries.n_batteries = 0 /\ NoBatteries.sum_percent = 0
        /\ NoBatteries.n_charging = 0 /\ NoBatteries.max_charge_time = 0
        /\ NoBatteries.n_discharging = 0 /\ NoBatteries.max_discharge_time = 0
        /\ NoBatteries.n_charged = 0 /\ NoBatteries.sum_charged_time = 0
    BY DEF NoBatteries, Tallies
  <1> QED BY <1>1, <1>2, <1>3, <1>4, <1>5, Zenon DEF IsTally

(* A turn of the loop adds the device that it comes to.                      *)
LEMMA TallyContinues ==
    ASSUME NEW D, \A d \in D : IsDevice(d), NEW list \in Seq(D), NEW T \in SUBSET DOMAIN list,
           NEW x \in T, NEW t, IsTally(list, T \ {x}, t)
    PROVE  IsTally(list, T, Tallied(t, list[x]))
  <1> DEFINE d == list[x]
             R == T \ {x}
             u == Tallied(t, d)
             counted     == Counted(list)
             charging    == BatteriesIn(list, UP_DEVICE_STATE_CHARGING)
             discharging == BatteriesIn(list, UP_DEVICE_STATE_DISCHARGING)
             charged     == BatteriesIn(list, UP_DEVICE_STATE_FULLY_CHARGED)
  <1>1. IsDevice(d) /\ t \in Tallies
    <2>1. d \in D
      OBVIOUS
    <2>2. t \in Tallies
      BY Zenon DEF IsTally
    <2> QED BY <2>1, <2>2
  <1>2. /\ Grows(list, counted, R, T, x) /\ Grows(list, charging, R, T, x)
        /\ Grows(list, discharging, R, T, x) /\ Grows(list, charged, R, T, x)
    <2>1. /\ counted \in SUBSET DOMAIN list /\ charging \in SUBSET DOMAIN list
          /\ discharging \in SUBSET DOMAIN list /\ charged \in SUBSET DOMAIN list
      BY DEF Counted, BatteriesIn
    <2> HIDE DEF counted, charging, discharging, charged
    <2> QED BY <2>1, PartGrows
  <1>3. CASE d.kind # UP_DEVICE_KIND_BATTERY
    <2>1. x \notin counted /\ x \notin charging /\ x \notin discharging /\ x \notin charged
      BY <1>3 DEF Counted, BatteriesIn
    <2>2. u = t
      BY <1>1, <1>3, TalliedTallies, Zenon
    <2>3. /\ counted \cap T = counted \cap R /\ charging \cap T = charging \cap R
          /\ discharging \cap T = discharging \cap R /\ charged \cap T = charged \cap R
      BY <1>2, <2>1, Zenon DEF Grows
    <2> QED BY <2>2, <2>3, Zenon DEF IsTally
  <1>4. CASE d.kind = UP_DEVICE_KIND_BATTERY
    <2>1. /\ x \in counted <=> d.percentage > 0
          /\ x \in charging <=> IsCharging(d)
          /\ x \in discharging <=> IsDischarging(d)
          /\ x \in charged <=> IsFullyCharged(d)
      BY <1>4 DEF Counted, BatteriesIn, IsCharging, IsDischarging, IsFullyCharged
    <2>2. PICK c \in Tallies : Charges(t, d, c) /\ Times(c, d, u)
      BY <1>1, <1>4, TalliedTallies, Zenon
    <2> HIDE DEF d, u, R, counted, charging, discharging, charged
    <2>3. u.n_batteries = Cardinality(counted \cap T) /\ u.sum_percent = SumOfCharges(list, counted \cap T)
      <3>1. u.n_batteries = c.n_batteries /\ u.sum_percent = c.sum_percent
        BY <2>2, Zenon DEF Times
      <3>2. /\ t.n_batteries = Cardinality(counted \cap R)
            /\ t.sum_percent = SumOfCharges(list, counted \cap R)
        BY Zenon DEF IsTally, R, counted
      <3>3. CASE x \in counted
        <4>1. c.n_batteries = t.n_batteries + 1 /\ c.sum_percent = t.sum_percent + d.percentage
          BY <2>1, <2>2, <3>3, Zenon DEF Charges
        <4>2. /\ Cardinality(counted \cap T) = Cardinality(counted \cap R) + 1
              /\ SumOfCharges(list, counted \cap T) = SumOfCharges(list, counted \cap R) + d.percentage
          BY <1>2, <3>3, Zenon DEF Grows, Joins, d
        <4> QED BY <3>1, <3>2, <4>1, <4>2, Zenon
      <3>4. CASE x \notin counted
        <4>1. c.n_batteries = t.n_batteries /\ c.sum_percent = t.sum_percent
          BY <2>1, <2>2, <3>4, Zenon DEF Charges
        <4>2. counted \cap T = counted \cap R
          BY <1>2, <3>4, Zenon DEF Grows
        <4> QED BY <3>1, <3>2, <4>1, <4>2, Zenon
      <3> QED BY <3>3, <3>4
    <2>4. u.n_charging = Cardinality(charging \cap T) /\ u.max_charge_time = MaxTime(list, charging \cap T)
      <3>1. c.n_charging = t.n_charging /\ c.max_charge_time = t.max_charge_time
        BY <2>2, Zenon DEF Charges
      <3>2. /\ t.n_charging = Cardinality(charging \cap R)
            /\ t.max_charge_time = MaxTime(list, charging \cap R)
        BY Zenon DEF IsTally, R, charging
      <3>3. CASE x \in charging
        <4>1. /\ u.n_charging = c.n_charging + 1
              /\ u.max_charge_time = Larger(c.max_charge_time, d.time)
          BY <2>1, <2>2, <3>3, Zenon DEF Times
        <4>2. /\ Cardinality(charging \cap T) = Cardinality(charging \cap R) + 1
              /\ MaxTime(list, charging \cap T) = Larger(MaxTime(list, charging \cap R), d.time)
          BY <1>2, <3>3, Zenon DEF Grows, Joins, d
        <4> QED BY <3>1, <3>2, <4>1, <4>2, Zenon
      <3>4. CASE x \notin charging
        <4>1. u.n_charging = c.n_charging /\ u.max_charge_time = c.max_charge_time
          BY <2>1, <2>2, <3>4, Zenon DEF Times
        <4>2. charging \cap T = charging \cap R
          BY <1>2, <3>4, Zenon DEF Grows
        <4> QED BY <3>1, <3>2, <4>1, <4>2, Zenon
      <3> QED BY <3>3, <3>4
    <2>5. /\ u.n_discharging = Cardinality(discharging \cap T)
          /\ u.max_discharge_time = MaxTime(list, discharging \cap T)
      <3>1. c.n_discharging = t.n_discharging /\ c.max_discharge_time = t.max_discharge_time
        BY <2>2, Zenon DEF Charges
      <3>2. /\ t.n_discharging = Cardinality(discharging \cap R)
            /\ t.max_discharge_time = MaxTime(list, discharging \cap R)
        BY Zenon DEF IsTally, R, discharging
      <3>3. CASE x \in discharging
        <4>1. /\ u.n_discharging = c.n_discharging + 1
              /\ u.max_discharge_time = Larger(c.max_discharge_time, d.time)
          BY <2>1, <2>2, <3>3, Zenon DEF Times
        <4>2. /\ Cardinality(discharging \cap T) = Cardinality(discharging \cap R) + 1
              /\ MaxTime(list, discharging \cap T) = Larger(MaxTime(list, discharging \cap R), d.time)
          BY <1>2, <3>3, Zenon DEF Grows, Joins, d
        <4> QED BY <3>1, <3>2, <4>1, <4>2, Zenon
      <3>4. CASE x \notin discharging
        <4>1. u.n_discharging = c.n_discharging /\ u.max_discharge_time = c.max_discharge_time
          BY <2>1, <2>2, <3>4, Zenon DEF Times
        <4>2. discharging \cap T = discharging \cap R
          BY <1>2, <3>4, Zenon DEF Grows
        <4> QED BY <3>1, <3>2, <4>1, <4>2, Zenon
      <3> QED BY <3>3, <3>4
    <2>6. u.n_charged = Cardinality(charged \cap T) /\ u.sum_charged_time = SumOfTimes(list, charged \cap T)
      <3>1. c.n_charged = t.n_charged /\ c.sum_charged_time = t.sum_charged_time
        BY <2>2, Zenon DEF Charges
      <3>2. /\ t.n_charged = Cardinality(charged \cap R)
            /\ t.sum_charged_time = SumOfTimes(list, charged \cap R)
        BY Zenon DEF IsTally, R, charged
      <3>3. CASE x \in charged
        <4>1. u.n_charged = c.n_charged + 1 /\ u.sum_charged_time = c.sum_charged_time + d.time
          BY <2>1, <2>2, <3>3, Zenon DEF Times
        <4>2. /\ Cardinality(charged \cap T) = Cardinality(charged \cap R) + 1
              /\ SumOfTimes(list, charged \cap T) = SumOfTimes(list, charged \cap R) + d.time
          BY <1>2, <3>3, Zenon DEF Grows, Joins, d
        <4> QED BY <3>1, <3>2, <4>1, <4>2, Zenon
      <3>4. CASE x \notin charged
        <4>1. u.n_charged = c.n_charged /\ u.sum_charged_time = c.sum_charged_time
          BY <2>1, <2>2, <3>4, Zenon DEF Times
        <4>2. charged \cap T = charged \cap R
          BY <1>2, <3>4, Zenon DEF Grows
        <4> QED BY <3>1, <3>2, <4>1, <4>2, Zenon
      <3> QED BY <3>3, <3>4
    <2>7. u \in Tallies
      BY <2>2, Zenon DEF Times
    <2>8. IsTally(list, T, u)
      BY <2>3, <2>4, <2>5, <2>6, <2>7, Zenon DEF IsTally, counted, charging, discharging, charged
    <2> QED BY <2>8 DEF u, d
  <1> QED BY <1>3, <1>4

(* At its end, the loop has counted and summed up all batteries.             *)
LEMMA TallyIsComplete ==
    ASSUME NEW D, \A d \in D : IsDevice(d), NEW list \in Seq(D)
    PROVE  IsTally(list, DOMAIN list, Tally(list))
  <1> DEFINE S == DOMAIN list
  <1>1. PICK g : IsTallyOf(list, g) /\ Tally(list) = g[S]
    BY TallyUnfolds
  <1>2. IsFiniteSet(S) /\ S \subseteq Int
    BY FS_Interval
  <1> DEFINE P == {T \in SUBSET S : IsTally(list, T, g[T])}
  <1>3. ASSUME NEW T \in SUBSET S, \A x \in T : T \ {x} \in P
        PROVE  T \in P
    <2>1. CASE T = {}
      <3>1. g[T] = NoBatteries
        BY <1>1, <2>1 DEF IsTallyOf
      <3> QED BY <2>1, <3>1, TallyBegins
    <2>2. CASE T # {}
      <3>1. PICK x \in T : x = Max(T)
        BY <1>2, <2>2, FS_Subset, GreatestElement
      <3>2. g[T] = Tallied(g[T \ {x}], list[x])
        BY <1>1, <2>2, <3>1 DEF IsTallyOf
      <3>3. IsTally(list, T \ {x}, g[T \ {x}])
        BY <1>3
      <3>4. IsTally(list, T, Tallied(g[T \ {x}], list[x]))
        BY <3>3, TallyContinues
      <3> QED BY <3>2, <3>4
    <2> QED BY <2>1, <2>2
  <1>4. P = SUBSET S
    <2> HIDE DEF P
    <2>1. P \in SUBSET SUBSET S
      BY DEF P
    <2> HIDE DEF S
    <2> QED BY <1>2, <1>3, <2>1, SubsetInduction
  <1> QED BY <1>1, <1>4

(* The merged battery is the one of the comment, and there is one if two or  *)
(* more batteries have some charge left.                                     *)
LEMMA TotalIsDocumented ==
    ASSUME NEW D, \A d \in D : IsDevice(d), NEW list \in Seq(D)
    PROVE  /\ IsMerged(list) <=> Cardinality(Counted(list)) > 1
           /\ IsMerged(list) => create_totalled_battery_device(list) = DocumentedTotal(list)
  <1> DEFINE t == Tally(list)
             counted     == Counted(list)
             charging    == BatteriesIn(list, UP_DEVICE_STATE_CHARGING)
             discharging == BatteriesIn(list, UP_DEVICE_STATE_DISCHARGING)
             charged     == BatteriesIn(list, UP_DEVICE_STATE_FULLY_CHARGED)
  <1>1. /\ counted \in SUBSET DOMAIN list /\ charging \in SUBSET DOMAIN list
        /\ discharging \in SUBSET DOMAIN list /\ charged \in SUBSET DOMAIN list
    BY DEF Counted, BatteriesIn
  <1>2. /\ counted \cap DOMAIN list = counted /\ charging \cap DOMAIN list = charging
        /\ discharging \cap DOMAIN list = discharging /\ charged \cap DOMAIN list = charged
    <2> HIDE DEF counted, charging, discharging, charged
    <2> QED BY <1>1
  <1>3. IsTally(list, DOMAIN list, t)
    BY TallyIsComplete
  <1>4. /\ t.n_batteries = Cardinality(counted) /\ t.sum_percent = SumOfCharges(list, counted)
        /\ t.n_charging = Cardinality(charging) /\ t.max_charge_time = MaxTime(list, charging)
        /\ t.n_discharging = Cardinality(discharging)
        /\ t.max_discharge_time = MaxTime(list, discharging)
        /\ t.n_charged = Cardinality(charged) /\ t.sum_charged_time = SumOfTimes(list, charged)
    BY <1>2, <1>3, Zenon DEF IsTally
  <1>5. ASSUME NEW S \in SUBSET DOMAIN list
        PROVE  Cardinality(S) > 0 <=> S # {}
    <2>1. IsFiniteSet(S)
      BY FS_Interval, FS_Subset
    <2>2. Cardinality(S) \in Nat /\ (Cardinality(S) = 0 <=> S = {})
      BY <2>1, FS_CardinalityType, FS_EmptySet
    <2> QED BY <2>2
  <1>6. /\ t.n_charging > 0 <=> charging # {}
        /\ t.n_discharging > 0 <=> discharging # {}
        /\ t.n_charged > 0 <=> charged # {}
    <2> HIDE DEF counted, charging, discharging, charged, t
    <2> QED BY <1>1, <1>4, <1>5
  <1> HIDE DEF t
  <1>7. AggregatedState(list) =
            IF t.n_discharging > 0 THEN UP_DEVICE_STATE_DISCHARGING
            ELSE IF t.n_charging > 0 THEN UP_DEVICE_STATE_CHARGING
            ELSE IF t.n_charged > 0 THEN UP_DEVICE_STATE_FULLY_CHARGED
            ELSE UP_DEVICE_STATE_UNKNOWN
    BY <1>6, Zenon DEF AggregatedState
  <1>8. AggregatedTime(list) =
            IF t.n_discharging > 0 THEN t.max_discharge_time + t.sum_charged_time
            ELSE IF t.n_charging > 0 THEN t.max_charge_time ELSE 0
    <2>1. CASE t.n_discharging > 0
      BY <1>4, <1>6, <2>1, Zenon DEF AggregatedTime
    <2>2. CASE ~(t.n_discharging > 0)
      <3>1. AggregatedTime(list) = MaxTime(list, charging)
        BY <1>6, <2>2, Zenon DEF AggregatedTime
      <3>2. charging = {} => MaxTime(list, charging) = 0
        <4>1. MaxTime(list, {}) = 0
          <5>1. {0} \cup {list[i].time : i \in {}} = {0}
            OBVIOUS
          <5>2. Max({0}) = 0
            BY DEF Max
          <5> QED BY <5>1, <5>2 DEF MaxTime
        <4> QED BY <4>1
      <3> HIDE DEF charging
      <3> QED BY <1>4, <1>6, <2>2, <3>1, <3>2, Zenon
    <2> QED BY <2>1, <2>2
  <1>9. MeanCharge(list) = t.sum_percent \div t.n_batteries
    BY <1>4, Zenon DEF MeanCharge
  <1>10. create_totalled_battery_device(list) = DocumentedTotal(list)
    BY <1>7, <1>8, <1>9, Zenon DEF create_totalled_battery_device, DocumentedTotal, t
  <1>11. IsMerged(list) <=> Cardinality(counted) > 1
    BY <1>4, Zenon DEF IsMerged, t
  <1> QED BY <1>10, <1>11

(* The merged battery is a device like those of the provider, but it has no  *)
(* object path.                                                              *)
LEMMA TotalIsDevice ==
    ASSUME NEW D, \A d \in D : IsDevice(d), NEW list \in Seq(D), IsMerged(list)
    PROVE  LET total == create_totalled_battery_device(list)
           IN  /\ IsDevice(total)
               /\ total.object_path = NULL
               /\ total.kind = UP_DEVICE_KIND_BATTERY
               /\ total.power_supply
  <1> DEFINE total == create_totalled_battery_device(list)
  <1>0. total = DocumentedTotal(list) /\ Cardinality(Counted(list)) > 1
    BY TotalIsDocumented
  <1>1. MeanCharge(list) \in Percentage
    <2>1. \A i \in Counted(list) : list[i].percentage \in 0 .. 1000
      <3> SUFFICES ASSUME NEW i \in Counted(list)
                   PROVE  list[i].percentage \in 0 .. 1000
        OBVIOUS
      <3>1. list[i] \in D
        BY DEF Counted
      <3>2. \A d \in D : d.percentage \in 0 .. 1000
        BY ChargesInRange
      <3> QED BY <3>1, <3>2
    <2> DEFINE lo == 0
               hi == 1000
    <2>2. lo \in Int /\ hi \in Int /\ \A i \in Counted(list) : list[i].percentage \in lo .. hi
      BY <2>1
    <2>3. MeanCharge(list) \in lo .. hi
      <3> HIDE DEF lo, hi
      <3> QED BY <1>0, <2>2, MeanChargeIsBetween
    <2> QED BY <2>3 DEF Percentage
  <1>2. \A s : BatteriesIn(list, s) \in SUBSET DOMAIN list
    BY DEF BatteriesIn
  <1>3. \A s : MaxTime(list, BatteriesIn(list, s)) \in Nat /\ SumOfTimes(list, BatteriesIn(list, s)) \in Nat
    BY <1>2, MaxTimeIsGreatest, SumOfTimesIsEnough
  <1>4. AggregatedTime(list) \in Nat
    BY <1>3 DEF AggregatedTime
  <1>5. AggregatedState(list) \in UpDeviceState
    BY DEF AggregatedState, UpDeviceState
  <1>6. UP_DEVICE_KIND_BATTERY \in UpDeviceKind
    BY DEF UpDeviceKind
  <1> HIDE DEF total
  <1> QED BY <1>0, <1>1, <1>4, <1>5, <1>6 DEF DocumentedTotal, IsDevice, total
=============================================================================
