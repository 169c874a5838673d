------------------------ MODULE UPowerProviderProofs ------------------------
(***************************************************************************)
(* Proofs about UPowerProvider, for any devices, readings and bounds, and  *)
(* whether or not calls fail.  The safety invariants rest on the order in  *)
(* which the bus delivers: what is said of a UPower arrives after the news *)
(* that it has appeared and before the news that it has vanished.          *)
(***************************************************************************)
EXTENDS UPowerProviderProperties, SequenceTheorems, TLAPS

(* The owner a message needs the provider to be subscribed to when it is     *)
(* dispatched, and the one it leaves it subscribed to.                       *)
Before(m) == IF m.type = "NameAppeared" THEN 0 ELSE m.owner
After(m)  == IF m.type = "NameVanished" THEN 0 ELSE m.owner

InOrder ==
    /\ inbox # <<>> => Before(inbox[1]) = subscriptions
    /\ \A i \in 1 .. Len(inbox) - 1 : After(inbox[i]) = Before(inbox[i + 1])

EndsAtOwner ==
    ~disposed => owner = IF inbox = <<>> THEN subscriptions ELSE After(inbox[Len(inbox)])

SentByOwners ==
    \A i \in 1 .. Len(inbox) : inbox[i].type # "NameVanished" => inbox[i].owner # 0

NothingAfterDispose == disposed => inbox = <<>> /\ subscriptions = 0

OrderInv == InOrder /\ EndsAtOwner /\ SentByOwners /\ NothingAfterDispose

BusIsSubscribed == bus <=> subscriptions # 0

(* Neither thermometers nor the composite device are asked for.              *)
OnlyWantedAsked ==
    /\ queued_paths \cap Therm = {}
    /\ \A p \in Therm \cup {DisplayDevice} : GetAll(p) \notin calls
    /\ \A i \in 1 .. Len(inbox) :
          inbox[i].type = "GetAllReply" => inbox[i].path \notin Therm \cup {DisplayDevice}

-----------------------------------------------------------------------------
(* What the parts of a message are.                                          *)
LEMMA MessageParts ==
    ASSUME NEW m \in Message
    PROVE  /\ m.owner \in Owners
           /\ m.type \in {"NameAppeared", "NameVanished", "Resuming", "DeviceAdded",
                          "DeviceChanged", "DeviceRemoved", "PropertiesChanged",
                          "EnumerateReply", "GetAllReply"}
           /\ m.type \in {"DeviceAdded", "DeviceChanged", "DeviceRemoved",
                          "PropertiesChanged", "GetAllReply"} => m.path \in Paths
           /\ m.type \in {"PropertiesChanged", "GetAllReply"} => m.reading \in Reading
           /\ m.type = "EnumerateReply" => m.paths \in SUBSET Paths
  BY DEF Message

LEMMA OwnersAreNaturals == Owners \subseteq Nat /\ 0 \in Owners
  BY BoundsAssumption DEF Owners

(* A message from the owner of the name goes to the end of the order.        *)
LEMMA SendKeepsOrder ==
    ASSUME inbox \in Seq(Message), owner \in Owners, subscriptions \in Owners,
           OrderInv, ~disposed,
           NEW m \in Message, Before(m) = owner,
           m.type # "NameVanished" => m.owner # 0,
           inbox' = Append(inbox, m), owner' = After(m),
           UNCHANGED <<subscriptions, disposed>>
    PROVE  OrderInv'
  <1>1. /\ Len(inbox') = Len(inbox) + 1
        /\ Len(inbox) \in Nat
        /\ inbox' # <<>>
        /\ inbox'[Len(inbox) + 1] = m
        /\ \A i \in 1 .. Len(inbox) : inbox'[i] = inbox[i]
    OBVIOUS
  <1>2. inbox = <<>> <=> Len(inbox) = 0
    OBVIOUS
  <1>3. InOrder'
    <2>1. Before(inbox'[1]) = subscriptions'
      <3>1. CASE inbox = <<>>
        BY <1>1, <1>2, <3>1 DEF OrderInv, EndsAtOwner
      <3>2. CASE inbox # <<>>
        <4>1. 1 \in 1 .. Len(inbox)
          BY <1>1, <1>2, <3>2
        <4>2. QED
          BY <1>1, <3>2, <4>1 DEF OrderInv, InOrder
      <3>3. QED
        BY <3>1, <3>2
    <2>2. ASSUME NEW i \in 1 .. Len(inbox') - 1
          PROVE  After(inbox'[i]) = Before(inbox'[i + 1])
      <3>1. i \in 1 .. Len(inbox) /\ inbox'[i] = inbox[i] /\ inbox # <<>>
        BY <1>1, <1>2
      <3>2. CASE i = Len(inbox)
        BY <1>1, <3>1, <3>2 DEF OrderInv, EndsAtOwner
      <3>3. CASE i # Len(inbox)
        <4>1. i \in 1 .. Len(inbox) - 1 /\ i + 1 \in 1 .. Len(inbox)
          BY <1>1, <3>1, <3>3
        <4>2. QED
          BY <1>1, <3>1, <4>1 DEF OrderInv, InOrder
      <3>4. QED
        BY <3>2, <3>3
    <2>3. QED
      BY <2>1, <2>2 DEF InOrder
  <1>4. EndsAtOwner'
    BY <1>1 DEF EndsAtOwner
  <1>5. SentByOwners'
    <2>1. ASSUME NEW i \in 1 .. Len(inbox'), inbox'[i].type # "NameVanished"
          PROVE  inbox'[i].owner # 0
      <3>1. CASE i = Len(inbox) + 1
        BY <1>1, <2>1, <3>1
      <3>2. CASE i # Len(inbox) + 1
        <4>1. i \in 1 .. Len(inbox)
          BY <1>1, <3>2
        <4>2. QED
          BY <1>1, <2>1, <4>1 DEF OrderInv, SentByOwners
      <3>3. QED
        BY <3>1, <3>2
    <2>2. QED
      BY <2>1 DEF SentByOwners
  <1>6. NothingAfterDispose'
    BY DEF NothingAfterDispose
  <1>7. QED
    BY <1>3, <1>4, <1>5, <1>6 DEF OrderInv

(* Dispatching the next message leaves the rest in order.                    *)
LEMMA TailKeepsOrder ==
    ASSUME inbox \in Seq(Message), OrderInv, ~disposed, inbox # <<>>,
           inbox' = Tail(inbox), subscriptions' = After(Head(inbox)),
           UNCHANGED <<owner, disposed>>
    PROVE  OrderInv'
  <1>1. /\ Len(inbox) \in Nat \ {0}
        /\ Len(inbox') = Len(inbox) - 1
        /\ Head(inbox) = inbox[1]
        /\ inbox' \in Seq(Message)
    OBVIOUS
  <1>2. \A i \in 1 .. Len(inbox') : inbox'[i] = inbox[i + 1]
    BY <1>1
  <1>3. inbox' = <<>> <=> Len(inbox) = 1
    <2>1. inbox' = <<>> <=> Len(inbox') = 0
      BY <1>1, EmptySeq
    <2>2. QED
      BY <1>1, <2>1
  <1>4. /\ Len(inbox) \in Nat \ {0}
        /\ Len(inbox') = Len(inbox) - 1
        /\ Head(inbox) = inbox[1]
        /\ \A i \in 1 .. Len(inbox') : inbox'[i] = inbox[i + 1]
        /\ inbox' = <<>> <=> Len(inbox) = 1
    BY <1>1, <1>2, <1>3
  <1>5. InOrder'
    <2>1. ASSUME inbox' # <<>> PROVE Before(inbox'[1]) = subscriptions'
      <3>1. 1 \in 1 .. Len(inbox) - 1 /\ inbox'[1] = inbox[1 + 1]
        BY <1>4, <2>1
      <3>2. QED
        BY <1>4, <3>1 DEF OrderInv, InOrder
    <2>2. ASSUME NEW i \in 1 .. Len(inbox') - 1
          PROVE  After(inbox'[i]) = Before(inbox'[i + 1])
      <3>1. /\ i \in 1 .. Len(inbox') /\ i + 1 \in 1 .. Len(inbox')
            /\ i + 1 \in 1 .. Len(inbox) - 1
        BY <1>4
      <3>2. inbox'[i] = inbox[i + 1] /\ inbox'[i + 1] = inbox[(i + 1) + 1]
        BY <1>4, <3>1
      <3>3. QED
        BY <3>1, <3>2 DEF OrderInv, InOrder
    <2>3. QED
      BY <2>1, <2>2 DEF InOrder
  <1>6. EndsAtOwner'
    <2>1. CASE inbox' = <<>>
      BY <1>4, <2>1 DEF OrderInv, EndsAtOwner
    <2>2. CASE inbox' # <<>>
      <3>1. Len(inbox') \in 1 .. Len(inbox') /\ inbox'[Len(inbox')] = inbox[Len(inbox)]
        BY <1>4, <2>2
      <3>2. QED
        BY <2>2, <3>1 DEF OrderInv, EndsAtOwner
    <2>3. QED
      BY <2>1, <2>2
  <1>7. SentByOwners'
    <2>1. \A i \in 1 .. Len(inbox') : i + 1 \in 1 .. Len(inbox)
      BY <1>4
    <2>2. QED
      BY <1>4, <2>1 DEF OrderInv, SentByOwners
  <1>8. NothingAfterDispose'
    BY DEF NothingAfterDispose
  <1>9. QED
    BY <1>5, <1>6, <1>7, <1>8 DEF OrderInv

-----------------------------------------------------------------------------
(* Types                                                                     *)

LEMMA RefreshType ==
    ASSUME TypeOK, NEW paths \in SUBSET Paths, refresh_device_soon(paths)
    PROVE  queued_paths' \in SUBSET Paths /\ queued_paths_timer' \in BOOLEAN
  BY DEF TypeOK, refresh_device_soon

LEMMA DispatchType == ASSUME TypeOK, Dispatch PROVE TypeOK'
  <1> DEFINE m == Head(inbox)
  <1>1. m \in Message /\ inbox' \in Seq(Message)
    BY DEF TypeOK, Dispatch
  <1>2. /\ disposed' \in BOOLEAN /\ owner' \in Owners /\ owners' \in Owners
        /\ upower' \in [Paths -> Reading \cup {NULL}]
    BY DEF TypeOK, Dispatch, upower_vars
  <1>3. /\ devices' \in [Paths -> Reading \cup {NULL}]
        /\ queued_paths' \in SUBSET Paths
        /\ queued_paths_timer' \in BOOLEAN
        /\ subscriptions' \in Owners
        /\ bus' \in BOOLEAN
        /\ announced' \in [Paths -> Reading \cup {NULL}]
        /\ calls' \in SUBSET Call
    <2>1. CASE m.type = "NameAppeared" /\ on_bus_name_appeared(m)
      BY <1>1, <2>1, MessageParts DEF TypeOK, on_bus_name_appeared, Call
    <2>2. CASE m.type = "NameVanished" /\ on_bus_name_vanished(m)
      BY <2>2, OwnersAreNaturals DEF TypeOK, on_bus_name_vanished, ForgetUPower,
              NoDevices, emit_devices_changed
    <2>3. CASE m.type = "EnumerateReply" /\ on_enumerate_devices_response(m)
      BY <1>1, <2>3, MessageParts, RefreshType DEF TypeOK, on_enumerate_devices_response
    <2>4. CASE m.type = "GetAllReply" /\ on_get_all_response(m)
      BY <1>1, <2>4, MessageParts DEF TypeOK, on_get_all_response, emit_devices_changed
    <2>5. CASE /\ m.type = "PropertiesChanged"
               /\ on_device_properties_changed(m)
               /\ UNCHANGED <<subscriptions, bus, calls>>
      <3>1. m.path \in Paths /\ m.reading \in Reading
        BY <1>1, <2>5, MessageParts
      <3>2. CASE m.path \in Therm
        BY <2>5, <3>2 DEF TypeOK, on_device_properties_changed
      <3>3. CASE m.path \notin Therm /\ devices[m.path] = NULL
        BY <2>5, <3>1, <3>3, RefreshType DEF TypeOK, on_device_properties_changed
      <3>4. CASE m.path \notin Therm /\ devices[m.path] # NULL
        <4>1. devices[m.path] \in Reading
          BY <3>1, <3>4 DEF TypeOK
        <4>2. PICK r \in Reading : devices' = [devices EXCEPT ![m.path] = r]
          BY <2>5, <3>1, <3>4, <4>1 DEF Reading, on_device_properties_changed
        <4>3. announced' \in {announced, devices'}
          BY <2>5, <3>4 DEF on_device_properties_changed, emit_devices_changed
        <4>4. devices' \in [Paths -> Reading \cup {NULL}]
          BY <3>1, <4>2 DEF TypeOK
        <4>5. QED
          BY <2>5, <3>4, <4>3, <4>4 DEF TypeOK, on_device_properties_changed
      <3>5. QED
        BY <3>2, <3>3, <3>4
    <2>6. CASE on_upower_signal(m)
      <3>1. CASE m.type \in {"DeviceAdded", "DeviceChanged"}
        BY <1>1, <2>6, <3>1, MessageParts, RefreshType DEF TypeOK, on_upower_signal
      <3>2. CASE m.type = "DeviceRemoved"
        BY <1>1, <2>6, <3>2, MessageParts DEF TypeOK, on_upower_signal, DeviceRemoved,
                emit_devices_changed
      <3>3. CASE m.type = "Resuming"
        BY <2>6, <3>3, RefreshType DEF TypeOK, on_upower_signal, Listed
      <3>4. QED
        BY <2>6, <3>1, <3>2, <3>3 DEF on_upower_signal
    <2>7. QED
      BY <2>1, <2>2, <2>3, <2>4, <2>5, <2>6 DEF Dispatch
  <1>4. QED
    BY <1>1, <1>2, <1>3 DEF TypeOK

LEMMA TimerType == ASSUME TypeOK, on_queued_paths_timer PROVE TypeOK'
  <1>1. calls' \in SUBSET Call
    BY DEF TypeOK, on_queued_paths_timer, Call
  <1>2. QED
    BY <1>1 DEF TypeOK, on_queued_paths_timer, upower_vars

LEMMA DisposeType == ASSUME TypeOK, Dispose PROVE TypeOK'
  <1>1. inbox' \in Seq(Message) /\ devices' \in [Paths -> Reading \cup {NULL}]
    BY DEF Dispose, ForgetUPower, NoDevices
  <1>2. QED
    BY <1>1, OwnersAreNaturals DEF TypeOK, Dispose, ForgetUPower, emit_devices_changed,
          upower_vars

LEMMA SendType ==
    ASSUME inbox \in Seq(Message), NEW m \in Message, Send(m) \/ Signal(m)
    PROVE  inbox' \in Seq(Message)
  BY DEF Send, Signal

LEMMA EnvironmentType == ASSUME TypeOK, Environment PROVE TypeOK'
  <1>1. /\ owner' \in Owners /\ owners' \in Owners
        /\ upower' \in [Paths -> Reading \cup {NULL}]
        /\ inbox' \in Seq(Message)
        /\ calls' \in SUBSET Call
    <2>1. ASSUME NEW present \in [Paths -> Reading \cup {NULL}], UPowerStarts(present)
          PROVE  <1>1!:
      <3>1. owners + 1 \in Owners
        BY <2>1, BoundsAssumption DEF TypeOK, UPowerStarts, Owners
      <3>2. [type |-> "NameAppeared", owner |-> owners + 1] \in Message
        BY <3>1 DEF Message
      <3>3. QED
        BY <2>1, <3>1, <3>2, SendType DEF TypeOK, UPowerStarts
    <2>2. CASE UPowerStops
      <3>1. [type |-> "NameVanished", owner |-> owner] \in Message
        BY DEF TypeOK, Message
      <3>2. QED
        BY <2>2, <3>1, SendType, OwnersAreNaturals DEF TypeOK, UPowerStops, NoDevices
    <2>3. ASSUME NEW p \in Paths, NEW r \in Reading, DeviceAppears(p, r)
          PROVE  <1>1!:
      <3>1. [type |-> "DeviceAdded", owner |-> owner, path |-> p] \in Message
        BY DEF TypeOK, Message
      <3>2. QED
        BY <2>3, <3>1, SendType DEF TypeOK, DeviceAppears
    <2>4. ASSUME NEW p \in Paths, DeviceDisappears(p)
          PROVE  <1>1!:
      <3>1. [type |-> "DeviceRemoved", owner |-> owner, path |-> p] \in Message
        BY DEF TypeOK, Message
      <3>2. QED
        BY <2>4, <3>1, SendType DEF TypeOK, DeviceDisappears
    <2>5. ASSUME NEW p \in Paths, NEW r \in Reading, DeviceReports(p, r)
          PROVE  <1>1!:
      <3> DEFINE keys == {k \in {"charge", "time"} : upower[p][k] # r[k]}
      <3>1. /\ [type |-> "PropertiesChanged", owner |-> owner, path |-> p,
                keys |-> keys, reading |-> r] \in Message
            /\ [type |-> "DeviceChanged", owner |-> owner, path |-> p] \in Message
            /\ [type |-> "Resuming", owner |-> owner] \in Message
        BY DEF TypeOK, Message
      <3>2. inbox' \in Seq(Message)
        BY <2>5, <3>1, SendType DEF TypeOK, DeviceReports
      <3>3. QED
        BY <2>5, <3>2 DEF TypeOK, DeviceReports
    <2>6. QED
      BY <2>1, <2>2, <2>3, <2>4, <2>5 DEF Environment
  <1>2. UNCHANGED provider_vars
    BY DEF Environment, UPowerStarts, UPowerStops, DeviceAppears, DeviceDisappears,
           DeviceReports
  <1>3. QED
    BY <1>1, <1>2 DEF TypeOK, provider_vars

(* The answer to a call, and whether there is one.                           *)
LEMMA AnswerType ==
    ASSUME TypeOK, NEW c \in calls, AnswerCall(c)
    PROVE  TypeOK' /\ (UNCHANGED inbox \/ \E m \in Message :
                          /\ Send(m) /\ m.owner = owner
                          /\ \/ m.type = "EnumerateReply"
                             \/ /\ m.type = "GetAllReply"
                                /\ GetAll(m.path) \in calls)
  <1>1. c \in Call
    BY DEF TypeOK
  <1>2. CASE c = EnumerateDevices
    <2> DEFINE m == [type |-> "EnumerateReply", owner |-> owner,
                     paths |-> Listed(upower) \ {DisplayDevice}]
    <2>1. m \in Message /\ Send(m)
      BY <1>2 DEF TypeOK, Message, Listed, AnswerCall
    <2>2. m.owner = owner /\ m.type = "EnumerateReply"
      OBVIOUS
    <2>3. inbox' \in Seq(Message)
      BY <2>1, SendType DEF TypeOK
    <2>4. QED
      BY <2>1, <2>2, <2>3 DEF TypeOK, AnswerCall, provider_vars, upower_vars
  <1>3. CASE c # EnumerateDevices
    <2>1. PICK p \in Paths : c = GetAll(p)
      BY <1>1, <1>3 DEF Call
    <2>2. c.path = p
      BY <2>1 DEF GetAll
    <2>3. CASE upower[p] # NULL
      <3> DEFINE m == [type |-> "GetAllReply", owner |-> owner, path |-> p,
                       reading |-> upower[p]]
      <3>1. upower[p] \in Reading
        BY <2>3 DEF TypeOK
      <3>2. m \in Message
        BY <3>1 DEF TypeOK, Message
      <3>3. Send(m)
        BY <1>3, <2>2, <2>3 DEF AnswerCall
      <3>4. m.owner = owner /\ m.type = "GetAllReply" /\ m.path = p
        OBVIOUS
      <3>5. inbox' \in Seq(Message)
        BY <3>2, <3>3, SendType DEF TypeOK
      <3>6. TypeOK'
        BY <3>5 DEF TypeOK, AnswerCall, provider_vars, upower_vars
      <3> HIDE DEF m
      <3>7. QED
        BY <2>1, <3>2, <3>3, <3>4, <3>6
    <2>4. CASE upower[p] = NULL
      BY <1>3, <2>2, <2>4 DEF TypeOK, AnswerCall, provider_vars, upower_vars
    <2>5. QED
      BY <2>3, <2>4
  <1>4. QED
    BY <1>2, <1>3

LEMMA TypeStep == TypeOK /\ [Next]_vars => TypeOK'
  <1> SUFFICES ASSUME TypeOK, [Next]_vars PROVE TypeOK'
    OBVIOUS
  <1>1. ASSUME NEW c \in calls, CallFails(c) PROVE TypeOK'
    BY <1>1 DEF TypeOK, CallFails, provider_vars, upower_vars
  <1>2. CASE UNCHANGED vars
    BY <1>2 DEF TypeOK, vars, provider_vars, upower_vars
  <1>3. QED
    BY <1>1, <1>2, DispatchType, TimerType, DisposeType, EnvironmentType, AnswerType
    DEF Next

-----------------------------------------------------------------------------
(* The order of the messages                                                 *)

(* What a dispatch finds and leaves: only news of the name's owner changes   *)
(* the subscription, and all else finds the provider subscribed.             *)
LEMMA DispatchSubscription ==
    ASSUME TypeOK, OrderInv, Dispatch
    PROVE  /\ subscriptions' = After(Head(inbox))
           /\ Head(inbox).type \notin {"NameAppeared", "NameVanished"} =>
                 subscriptions # 0 /\ UNCHANGED <<subscriptions, bus>>
  <1> DEFINE m == Head(inbox)
  <1>1. /\ m \in Message /\ m = inbox[1] /\ 1 \in 1 .. Len(inbox)
        /\ inbox # <<>>
    BY DEF TypeOK, Dispatch
  <1>2. Before(m) = subscriptions /\ (m.type # "NameVanished" => m.owner # 0)
    BY <1>1 DEF OrderInv, InOrder, SentByOwners
  <1>3. CASE m.type = "NameAppeared"
    BY <1>3 DEF Dispatch, on_bus_name_appeared, on_upower_signal, After
  <1>4. CASE m.type = "NameVanished"
    BY <1>4 DEF Dispatch, on_bus_name_vanished, ForgetUPower, on_upower_signal, After
  <1>5. CASE m.type \notin {"NameAppeared", "NameVanished"}
    <2>1. m.owner = subscriptions /\ subscriptions # 0
      BY <1>2, <1>5 DEF Before
    <2>2. UNCHANGED <<subscriptions, bus>>
      BY <1>5 DEF Dispatch, on_enumerate_devices_response, on_get_all_response,
                  on_upower_signal
    <2>3. QED
      BY <1>5, <2>1, <2>2 DEF After
  <1>6. QED
    BY <1>3, <1>4, <1>5

(* Whatever the running UPower sends joins the end of the order.             *)
LEMMA SignalKeepsOrder ==
    ASSUME TypeOK, OrderInv, owner # 0, NEW m \in Message,
           m.owner = owner, m.type \notin {"NameAppeared", "NameVanished"},
           Send(m) \/ Signal(m), UNCHANGED <<owner, subscriptions, disposed>>
    PROVE  OrderInv'
  <1>1. CASE UNCHANGED inbox
    BY <1>1 DEF OrderInv, InOrder, EndsAtOwner, SentByOwners, NothingAfterDispose
  <1>2. CASE inbox' = Append(inbox, m) /\ ~disposed
    <2>1. Before(m) = owner /\ After(m) = owner
      BY DEF Before, After
    <2>2. QED
      BY <1>2, <2>1, SendKeepsOrder DEF TypeOK
  <1>3. CASE disposed
    BY <1>3, <1>1 DEF Send, Signal, OrderInv, NothingAfterDispose
  <1>4. QED
    BY <1>1, <1>2, <1>3 DEF Send, Signal

LEMMA OrderStep == TypeOK /\ OrderInv /\ [Next]_vars => OrderInv'
  <1> SUFFICES ASSUME TypeOK, OrderInv, [Next]_vars PROVE OrderInv'
    OBVIOUS
  <1> USE DEF provider_vars, upower_vars
  <1>1. CASE Dispatch
    BY <1>1, DispatchSubscription, TailKeepsOrder DEF TypeOK, Dispatch
  <1>2. CASE Dispose
    <2>1. inbox' = <<>> /\ Len(inbox') = 0
      BY <1>2 DEF Dispose
    <2>2. QED
      BY <1>2, <2>1 DEF Dispose, ForgetUPower, OrderInv, InOrder, EndsAtOwner,
              SentByOwners, NothingAfterDispose
  <1>3. CASE Environment
    <2>1. ASSUME NEW present \in [Paths -> Reading \cup {NULL}], UPowerStarts(present)
          PROVE  OrderInv'
      <3> DEFINE m == [type |-> "NameAppeared", owner |-> owners + 1]
      <3>1. CASE disposed
        BY <2>1, <3>1 DEF UPowerStarts, Send, OrderInv, InOrder, EndsAtOwner,
                SentByOwners, NothingAfterDispose
      <3>2. CASE ~disposed
        <4>1. m \in Message
          BY <2>1, BoundsAssumption DEF TypeOK, UPowerStarts, Owners, Message
        <4>2. /\ inbox' = Append(inbox, m) /\ owner' = After(m) /\ owner = Before(m)
              /\ UNCHANGED <<subscriptions, disposed>>
          BY <2>1, <3>2 DEF UPowerStarts, Send, Before, After
        <4>3. m.owner # 0
          BY OwnersAreNaturals DEF TypeOK
        <4> HIDE DEF m
        <4>4. QED
          BY <3>2, <4>1, <4>2, <4>3, SendKeepsOrder DEF TypeOK
      <3>3. QED
        BY <3>1, <3>2
    <2>2. CASE UPowerStops
      <3> DEFINE m == [type |-> "NameVanished", owner |-> owner]
      <3>1. CASE disposed
        BY <2>2, <3>1 DEF UPowerStops, Send, OrderInv, InOrder, EndsAtOwner,
                SentByOwners, NothingAfterDispose
      <3>2. CASE ~disposed
        <4>1. m \in Message /\ m.type = "NameVanished"
          BY DEF TypeOK, Message
        <4>2. /\ inbox' = Append(inbox, m) /\ owner' = After(m) /\ owner = Before(m)
              /\ UNCHANGED <<subscriptions, disposed>>
          BY <2>2, <3>2 DEF UPowerStops, Send, Before, After
        <4> HIDE DEF m
        <4>3. QED
          BY <3>2, <4>1, <4>2, SendKeepsOrder DEF TypeOK
      <3>3. QED
        BY <3>1, <3>2
    <2>3. ASSUME NEW p \in Paths, NEW r \in Reading, DeviceAppears(p, r)
          PROVE  OrderInv'
      <3>1. PICK m \in Message : /\ m.owner = owner /\ m.type = "DeviceAdded"
                                 /\ Signal(m)
        <4>1. [type |-> "DeviceAdded", owner |-> owner, path |-> p] \in Message
          BY DEF TypeOK, Message
        <4>2. QED
          BY <2>3, <4>1 DEF DeviceAppears
      <3>2. owner # 0 /\ UNCHANGED <<owner, subscriptions, disposed>>
        BY <2>3 DEF DeviceAppears
      <3>3. QED
        BY <3>1, <3>2, SignalKeepsOrder
    <2>4. ASSUME NEW p \in Paths, DeviceDisappears(p)
          PROVE  OrderInv'
      <3>1. PICK m \in Message : /\ m.owner = owner /\ m.type = "DeviceRemoved"
                                 /\ Signal(m)
        <4>1. [type |-> "DeviceRemoved", owner |-> owner, path |-> p] \in Message
          BY DEF TypeOK, Message
        <4>2. QED
          BY <2>4, <4>1 DEF DeviceDisappears
      <3>2. owner # 0 /\ UNCHANGED <<owner, subscriptions, disposed>>
        BY <2>4 DEF DeviceDisappears
      <3>3. QED
        BY <3>1, <3>2, SignalKeepsOrder
    <2>5. ASSUME NEW p \in Paths, NEW r \in Reading, DeviceReports(p, r)
          PROVE  OrderInv'
      <3> DEFINE keys == {k \in {"charge", "time"} : upower[p][k] # r[k]}
      <3>1. PICK m \in Message :
               /\ m.owner = owner
               /\ m.type \in {"PropertiesChanged", "DeviceChanged", "Resuming"}
               /\ Signal(m)
        <4>1. /\ [type |-> "PropertiesChanged", owner |-> owner, path |-> p,
                  keys |-> keys, reading |-> r] \in Message
              /\ [type |-> "DeviceChanged", owner |-> owner, path |-> p] \in Message
              /\ [type |-> "Resuming", owner |-> owner] \in Message
          BY DEF TypeOK, Message
        <4>2. \/ Signal([type |-> "PropertiesChanged", owner |-> owner, path |-> p,
                         keys |-> keys, reading |-> r])
              \/ Signal([type |-> "DeviceChanged", owner |-> owner, path |-> p])
              \/ Signal([type |-> "Resuming", owner |-> owner])
          BY <2>5 DEF DeviceReports
        <4> HIDE DEF keys
        <4>3. QED
          BY <4>1, <4>2
      <3>2. owner # 0 /\ UNCHANGED <<owner, subscriptions, disposed>>
        BY <2>5 DEF DeviceReports
      <3>3. QED
        BY <3>1, <3>2, SignalKeepsOrder
    <2>6. QED
      BY <1>3, <2>1, <2>2, <2>3, <2>4, <2>5 DEF Environment
  <1>4. ASSUME NEW c \in calls, AnswerCall(c) PROVE OrderInv'
    <2>1. owner # 0 /\ UNCHANGED <<owner, subscriptions, disposed>>
      BY <1>4 DEF AnswerCall
    <2>2. CASE UNCHANGED inbox
      BY <2>1, <2>2 DEF OrderInv, InOrder, EndsAtOwner, SentByOwners, NothingAfterDispose
    <2>3. CASE \E m \in Message : /\ Send(m) /\ m.owner = owner
                                  /\ m.type \in {"EnumerateReply", "GetAllReply"}
      BY <2>1, <2>3, SignalKeepsOrder
    <2>4. QED
      BY <1>4, <2>2, <2>3, AnswerType
  <1>5. ASSUME UNCHANGED <<inbox, owner, subscriptions, disposed>> PROVE OrderInv'
    BY <1>5 DEF OrderInv, InOrder, EndsAtOwner, SentByOwners, NothingAfterDispose
  <1>6. CASE on_queued_paths_timer
    BY <1>5, <1>6 DEF on_queued_paths_timer
  <1>7. ASSUME NEW c \in calls, CallFails(c) PROVE OrderInv'
    BY <1>5, <1>7 DEF CallFails
  <1>8. CASE UNCHANGED vars
    BY <1>5, <1>8 DEF vars
  <1>9. QED
    BY <1>1, <1>2, <1>3, <1>4, <1>6, <1>7, <1>8 DEF Next

-----------------------------------------------------------------------------
(* The table, the queue and the timer                                        *)

TableInv == /\ BusIsSubscribed
            /\ QueueHasTimer
            /\ TimerNeedsBus
            /\ NothingWithoutOwner
            /\ Announced

(* Refreshing needs the bus connection, and keeps the queue's timer.         *)
LEMMA RefreshKeepsTable ==
    ASSUME TypeOK, TableInv, subscriptions # 0, NEW paths, refresh_device_soon(paths),
           UNCHANGED <<devices, announced, subscriptions, bus>>
    PROVE  TableInv'
  BY DEF TableInv, BusIsSubscribed, QueueHasTimer, TimerNeedsBus, NothingWithoutOwner,
         Announced, refresh_device_soon

LEMMA ForgetKeepsTable == ASSUME ForgetUPower PROVE TableInv'
  <1>1. Listed(NoDevices) = {}
    BY DEF Listed, NoDevices
  <1>2. QED
    BY <1>1 DEF ForgetUPower, emit_devices_changed, TableInv, BusIsSubscribed,
            QueueHasTimer, TimerNeedsBus, NothingWithoutOwner, Announced, Listed

(* A change of the table while the provider is subscribed, which listeners   *)
(* are told of.                                                              *)
LEMMA EmissionKeepsTable ==
    ASSUME TypeOK, TableInv, subscriptions # 0, UNCHANGED <<subscriptions, bus>>,
           announced' = devices' \/ UNCHANGED <<announced, devices>>,
           queued_paths' \subseteq queued_paths, UNCHANGED queued_paths_timer
    PROVE  TableInv'
  <1>1. BusIsSubscribed' /\ bus'
    BY DEF TableInv, BusIsSubscribed
  <1>2. QueueHasTimer' /\ Announced'
    BY DEF TableInv, QueueHasTimer, Announced
  <1>3. TimerNeedsBus' /\ NothingWithoutOwner'
    BY <1>1 DEF TimerNeedsBus, NothingWithoutOwner
  <1>4. QED
    BY <1>1, <1>2, <1>3 DEF TableInv

LEMMA TableStep == TypeOK /\ OrderInv /\ TableInv /\ [Next]_vars => TableInv'
  <1> SUFFICES ASSUME TypeOK, OrderInv, TableInv, [Next]_vars PROVE TableInv'
    OBVIOUS
  <1>1. CASE Dispatch
    <2> DEFINE m == Head(inbox)
    <2>1. CASE m.type = "NameAppeared" /\ on_bus_name_appeared(m)
      <3>1. m \in Message /\ m = inbox[1] /\ 1 \in 1 .. Len(inbox)
        BY <1>1 DEF TypeOK, Dispatch
      <3>2. m.owner # 0
        BY <2>1, <3>1 DEF OrderInv, SentByOwners
      <3>3. QED
        BY <2>1, <3>2 DEF on_bus_name_appeared, TableInv, BusIsSubscribed, QueueHasTimer,
              TimerNeedsBus, NothingWithoutOwner, Announced
    <2>2. CASE m.type = "NameVanished" /\ on_bus_name_vanished(m)
      BY <2>2, ForgetKeepsTable DEF on_bus_name_vanished
    <2>3. CASE m.type \notin {"NameAppeared", "NameVanished"}
      <3>1. subscriptions # 0 /\ UNCHANGED <<subscriptions, bus>>
        BY <1>1, <2>3, DispatchSubscription
      <3>2. CASE on_enumerate_devices_response(m)
        BY <3>1, <3>2, RefreshKeepsTable DEF on_enumerate_devices_response
      <3>3. CASE on_get_all_response(m)
        BY <3>1, <3>3, EmissionKeepsTable DEF on_get_all_response, emit_devices_changed
      <3>4. CASE m.type = "PropertiesChanged" /\ on_device_properties_changed(m)
        <4>1. CASE m.path \notin Therm /\ devices[m.path] = NULL
          BY <3>1, <3>4, <4>1, RefreshKeepsTable DEF on_device_properties_changed
        <4>2. CASE m.path \in Therm
          BY <3>1, <3>4, <4>2, EmissionKeepsTable DEF on_device_properties_changed
        <4>3. CASE m.path \notin Therm /\ devices[m.path] # NULL
          <5> DEFINE old == devices[m.path]
                     changed == (m.keys \cap {"charge"}) \cup
                         (IF m.reading.time # 0 THEN m.keys \cap {"time"} ELSE {})
          <5>1. /\ devices' = [devices EXCEPT ![m.path] =
                     [charge |-> IF "charge" \in changed THEN m.reading.charge ELSE old.charge,
                      time   |-> IF "time" \in changed THEN m.reading.time ELSE old.time]]
                /\ changed # {} => announced' = devices'
                /\ changed = {} => UNCHANGED announced
                /\ UNCHANGED <<queued_paths, queued_paths_timer>>
            BY <3>4, <4>3 DEF on_device_properties_changed, emit_devices_changed
          <5>2. CASE changed # {}
            BY <3>1, <5>1, <5>2, EmissionKeepsTable
          <5>3. CASE changed = {}
            <6> HIDE DEF changed
            <6>1. devices' = [devices EXCEPT ![m.path] =
                                 [charge |-> old.charge, time |-> old.time]]
              BY <5>1, <5>3
            <6>2. m.path \in Paths
              <7>1. m \in Message
                BY <1>1 DEF TypeOK, Dispatch
              <7>2. QED
                BY <3>4, <7>1, MessageParts
            <6>3. UNCHANGED devices
              BY <4>3, <6>1, <6>2 DEF TypeOK, Reading
            <6>4. QED
              BY <3>1, <5>1, <5>3, <6>3, EmissionKeepsTable
          <5>4. QED
            BY <5>2, <5>3
        <4>4. QED
          BY <4>1, <4>2, <4>3
      <3>5. CASE on_upower_signal(m)
        <4>1. CASE m.type \in {"DeviceAdded", "DeviceChanged", "Resuming"}
          BY <3>1, <3>5, <4>1, RefreshKeepsTable DEF on_upower_signal
        <4>2. CASE m.type = "DeviceRemoved"
          BY <3>1, <3>5, <4>2, EmissionKeepsTable DEF on_upower_signal, DeviceRemoved,
                emit_devices_changed
        <4>3. QED
          BY <3>5, <4>1, <4>2 DEF on_upower_signal
      <3>6. QED
        BY <1>1, <2>3, <3>2, <3>3, <3>4, <3>5 DEF Dispatch
    <2>4. QED
      BY <1>1, <2>1, <2>2, <2>3 DEF Dispatch, on_upower_signal
  <1>2. CASE on_queued_paths_timer
    BY <1>2 DEF on_queued_paths_timer, TableInv, BusIsSubscribed, QueueHasTimer,
            TimerNeedsBus, NothingWithoutOwner, Announced
  <1>3. CASE Dispose
    BY <1>3, ForgetKeepsTable DEF Dispose
  <1>4. ASSUME UNCHANGED provider_vars PROVE TableInv'
    BY <1>4 DEF provider_vars, TableInv, BusIsSubscribed, QueueHasTimer,
            TimerNeedsBus, NothingWithoutOwner, Announced, Listed
  <1>5. CASE Environment
    <2>1. UNCHANGED provider_vars
      BY <1>5 DEF Environment, UPowerStarts, UPowerStops, DeviceAppears,
              DeviceDisappears, DeviceReports
    <2>2. QED
      BY <1>4, <2>1
  <1>6. ASSUME NEW c \in calls, AnswerCall(c) \/ CallFails(c) PROVE TableInv'
    BY <1>4, <1>6 DEF AnswerCall, CallFails
  <1>7. CASE UNCHANGED vars
    BY <1>4, <1>7 DEF vars
  <1>8. QED
    BY <1>1, <1>2, <1>3, <1>5, <1>6, <1>7 DEF Next

-----------------------------------------------------------------------------
(* Thermometers and the composite device                                     *)

Ignored == Therm \cup {DisplayDevice}

IgnoredInv == OnlyWantedAsked /\ IgnoredNeverListed

(* A step that brings no path of these into the queue, the calls, the        *)
(* messages or the table.                                                    *)
LEMMA NothingIgnoredEnters ==
    ASSUME IgnoredInv,
           queued_paths' \cap Therm = {},
           \A p \in Ignored : GetAll(p) \in calls' => GetAll(p) \in calls,
           \A i \in 1 .. Len(inbox') :
               inbox'[i].type = "GetAllReply" => inbox'[i].path \notin Ignored,
           Listed(devices)' \cap Ignored = {}
    PROVE  IgnoredInv'
  BY DEF IgnoredInv, OnlyWantedAsked, IgnoredNeverListed, Ignored

LEMMA AppendIgnoresNothingElse ==
    ASSUME inbox \in Seq(Message), IgnoredInv, NEW m \in Message,
           m.type = "GetAllReply" => m.path \notin Ignored,
           inbox' \in {inbox, Append(inbox, m)}
    PROVE  \A i \in 1 .. Len(inbox') :
               inbox'[i].type = "GetAllReply" => inbox'[i].path \notin Ignored
  <1>1. CASE inbox' = inbox
    BY <1>1 DEF IgnoredInv, OnlyWantedAsked, Ignored
  <1>2. CASE inbox' = Append(inbox, m)
    <2>1. ASSUME NEW i \in 1 .. Len(inbox'), inbox'[i].type = "GetAllReply"
          PROVE  inbox'[i].path \notin Ignored
      <3>1. CASE i \in 1 .. Len(inbox)
        <4>1. inbox'[i] = inbox[i]
          BY <1>2, <3>1
        <4>2. QED
          BY <2>1, <3>1, <4>1 DEF IgnoredInv, OnlyWantedAsked, Ignored
      <3>2. CASE i \notin 1 .. Len(inbox)
        <4>1. inbox'[i] = m
          BY <1>2, <3>2
        <4>2. QED
          BY <2>1, <4>1
      <3>3. QED
        BY <3>1, <3>2
    <2>2. QED
      BY <2>1
  <1>3. QED
    BY <1>1, <1>2

LEMMA IgnoredStep == TypeOK /\ IgnoredInv /\ [Next]_vars => IgnoredInv'
  <1> SUFFICES ASSUME TypeOK, IgnoredInv, [Next]_vars PROVE IgnoredInv'
    OBVIOUS
  <1> USE DEF provider_vars, upower_vars
  <1>1. CASE Dispatch
    <2> DEFINE m == Head(inbox)
    <2>1. m \in Message /\ m = inbox[1] /\ 1 \in 1 .. Len(inbox) /\ inbox' = Tail(inbox)
      BY <1>1 DEF TypeOK, Dispatch
    <2>2. \A i \in 1 .. Len(inbox') :
              inbox'[i].type = "GetAllReply" => inbox'[i].path \notin Ignored
      <3>1. \A i \in 1 .. Len(inbox') : inbox'[i] = inbox[i + 1] /\ i + 1 \in 1 .. Len(inbox)
        BY <2>1 DEF TypeOK
      <3>2. QED
        BY <3>1 DEF IgnoredInv, OnlyWantedAsked, Ignored
    <2>3. \A p \in Ignored : GetAll(p) \in calls' => GetAll(p) \in calls
      BY <1>1 DEF Dispatch, on_bus_name_appeared, on_bus_name_vanished,
              on_enumerate_devices_response, on_get_all_response, on_upower_signal,
              GetAll, EnumerateDevices
    <2>4. ASSUME NEW paths, refresh_device_soon(paths)
          PROVE  queued_paths' \cap Therm = {}
      BY <2>4 DEF refresh_device_soon, IgnoredInv, OnlyWantedAsked
    <2>5. ASSUME UNCHANGED devices PROVE Listed(devices)' \cap Ignored = {}
      BY <2>5 DEF IgnoredInv, IgnoredNeverListed, Listed, Ignored
    <2>6. queued_paths' \cap Therm = {} /\ Listed(devices)' \cap Ignored = {}
      <3>1. CASE m.type = "NameAppeared" /\ on_bus_name_appeared(m)
        BY <3>1, <2>5 DEF on_bus_name_appeared, IgnoredInv, OnlyWantedAsked
      <3>2. CASE m.type = "NameVanished" /\ on_bus_name_vanished(m)
        BY <3>2 DEF on_bus_name_vanished, ForgetUPower, Listed, NoDevices
      <3>3. CASE m.type = "EnumerateReply" /\ on_enumerate_devices_response(m)
        BY <3>3, <2>4, <2>5 DEF on_enumerate_devices_response
      <3>4. CASE m.type = "GetAllReply" /\ on_get_all_response(m)
        <4>1. m.path \notin Ignored
          BY <2>1, <3>4 DEF IgnoredInv, OnlyWantedAsked, Ignored
        <4>2. \A p \in Paths : p \in Ignored => devices'[p] = devices[p]
          BY <3>4, <4>1 DEF TypeOK, on_get_all_response
        <4>3. QED
          BY <3>4, <4>2 DEF on_get_all_response, IgnoredInv, OnlyWantedAsked,
                IgnoredNeverListed, Listed, Ignored
      <3>5. CASE m.type = "PropertiesChanged" /\ on_device_properties_changed(m)
        <4>1. m.path \in Paths
          BY <2>1, <3>5, MessageParts
        <4>2. CASE m.path \in Therm \/ devices[m.path] = NULL
          BY <3>5, <4>2, <2>4, <2>5 DEF on_device_properties_changed, IgnoredInv,
                OnlyWantedAsked
        <4>3. CASE m.path \notin Therm /\ devices[m.path] # NULL
          <5>1. m.path \notin Ignored
            BY <4>1, <4>3 DEF IgnoredInv, IgnoredNeverListed, Listed, Ignored
          <5>2. \A p \in Paths : p \in Ignored => devices'[p] = devices[p]
            BY <3>5, <4>3, <5>1 DEF TypeOK, on_device_properties_changed
          <5>3. UNCHANGED queued_paths
            BY <3>5, <4>3 DEF on_device_properties_changed
          <5>4. QED
            BY <5>2, <5>3 DEF IgnoredInv, OnlyWantedAsked, IgnoredNeverListed, Listed,
                  Ignored
        <4>4. QED
          BY <4>2, <4>3
      <3>6. CASE on_upower_signal(m)
        <4>1. CASE m.type = "DeviceRemoved"
          <5>1. \A p \in Paths : devices'[p] # NULL => devices[p] # NULL
            BY <3>6, <4>1 DEF TypeOK, on_upower_signal, DeviceRemoved
          <5>2. queued_paths' \subseteq queued_paths
            BY <3>6, <4>1 DEF on_upower_signal, DeviceRemoved
          <5>3. QED
            BY <5>1, <5>2 DEF IgnoredInv, OnlyWantedAsked, IgnoredNeverListed, Listed,
                  Ignored
        <4>2. CASE m.type # "DeviceRemoved"
          BY <3>6, <4>2, <2>4, <2>5 DEF on_upower_signal
        <4>3. QED
          BY <4>1, <4>2
      <3>7. QED
        BY <1>1, <3>1, <3>2, <3>3, <3>4, <3>5, <3>6 DEF Dispatch
    <2>7. QED
      BY <2>2, <2>3, <2>6, NothingIgnoredEnters
  <1>2. CASE on_queued_paths_timer
    <2>1. ASSUME NEW p \in Ignored, GetAll(p) \in calls' PROVE GetAll(p) \in calls
      BY <1>2, <2>1 DEF on_queued_paths_timer, IgnoredInv, OnlyWantedAsked, Ignored, GetAll
    <2>2. QED
      BY <1>2, <2>1 DEF on_queued_paths_timer, IgnoredInv, OnlyWantedAsked,
              IgnoredNeverListed, Listed, Ignored
  <1>3. CASE Dispose
    <2>1. Len(inbox') = 0
      BY <1>3 DEF Dispose
    <2>2. QED
      BY <1>3, <2>1 DEF Dispose, ForgetUPower, IgnoredInv, OnlyWantedAsked,
              IgnoredNeverListed, Listed, NoDevices
  <1>4. ASSUME UNCHANGED <<devices, queued_paths>>, calls' \subseteq calls,
               NEW m \in Message, m.type = "GetAllReply" => m.path \notin Ignored,
               inbox' \in {inbox, Append(inbox, m)}
        PROVE  IgnoredInv'
    <2>1. \A i \in 1 .. Len(inbox') :
              inbox'[i].type = "GetAllReply" => inbox'[i].path \notin Ignored
      BY <1>4, AppendIgnoresNothingElse DEF TypeOK
    <2>2. queued_paths' \cap Therm = {} /\ Listed(devices)' \cap Ignored = {}
      BY <1>4 DEF IgnoredInv, OnlyWantedAsked, IgnoredNeverListed, Listed, Ignored
    <2>3. QED
      BY <1>4, <2>1, <2>2, NothingIgnoredEnters
  <1>5. CASE Environment
    <2>1. UNCHANGED <<devices, queued_paths>> /\ calls' \subseteq calls
      BY <1>5 DEF Environment, UPowerStarts, UPowerStops, DeviceAppears,
              DeviceDisappears, DeviceReports
    <2>2. \E m \in Message : /\ m.type # "GetAllReply"
                             /\ inbox' \in {inbox, Append(inbox, m)}
      <3>1. ASSUME NEW m \in Message, m.type # "GetAllReply", Send(m) \/ Signal(m)
            PROVE  <2>2!:
        BY <3>1 DEF Send, Signal
      <3>2. ASSUME NEW present \in [Paths -> Reading \cup {NULL}], UPowerStarts(present)
            PROVE  <2>2!:
        <4>1. [type |-> "NameAppeared", owner |-> owners + 1] \in Message
          BY <3>2, BoundsAssumption DEF TypeOK, UPowerStarts, Owners, Message
        <4>2. QED
          BY <3>1, <3>2, <4>1 DEF UPowerStarts
      <3>3. CASE UPowerStops
        <4>1. [type |-> "NameVanished", owner |-> owner] \in Message
          BY DEF TypeOK, Message
        <4>2. QED
          BY <3>1, <3>3, <4>1 DEF UPowerStops
      <3>4. ASSUME NEW p \in Paths, NEW r \in Reading, DeviceAppears(p, r)
            PROVE  <2>2!:
        <4>1. [type |-> "DeviceAdded", owner |-> owner, path |-> p] \in Message
          BY DEF TypeOK, Message
        <4>2. QED
          BY <3>1, <3>4, <4>1 DEF DeviceAppears
      <3>5. ASSUME NEW p \in Paths, DeviceDisappears(p)
            PROVE  <2>2!:
        <4>1. [type |-> "DeviceRemoved", owner |-> owner, path |-> p] \in Message
          BY DEF TypeOK, Message
        <4>2. QED
          BY <3>1, <3>5, <4>1 DEF DeviceDisappears
      <3>6. ASSUME NEW p \in Paths, NEW r \in Reading, DeviceReports(p, r)
            PROVE  <2>2!:
        <4> DEFINE keys == {k \in {"charge", "time"} : upower[p][k] # r[k]}
        <4>1. /\ [type |-> "PropertiesChanged", owner |-> owner, path |-> p,
                  keys |-> keys, reading |-> r] \in Message
              /\ [type |-> "DeviceChanged", owner |-> owner, path |-> p] \in Message
              /\ [type |-> "Resuming", owner |-> owner] \in Message
          BY DEF TypeOK, Message
        <4>2. \/ Signal([type |-> "PropertiesChanged", owner |-> owner, path |-> p,
                         keys |-> keys, reading |-> r])
              \/ Signal([type |-> "DeviceChanged", owner |-> owner, path |-> p])
              \/ Signal([type |-> "Resuming", owner |-> owner])
          BY <3>6 DEF DeviceReports
        <4> HIDE DEF keys
        <4>3. QED
          BY <3>1, <4>1, <4>2
      <3>7. QED
        BY <1>5, <3>2, <3>3, <3>4, <3>5, <3>6 DEF Environment
    <2>3. QED
      BY <1>4, <2>1, <2>2
  <1>6. ASSUME UNCHANGED <<devices, queued_paths, inbox>>, calls' \subseteq calls
        PROVE  IgnoredInv'
    BY <1>6 DEF IgnoredInv, OnlyWantedAsked, IgnoredNeverListed, Listed
  <1>7. ASSUME NEW c \in calls, AnswerCall(c) PROVE IgnoredInv'
    <2>1. UNCHANGED <<devices, queued_paths>> /\ calls' \subseteq calls
      BY <1>7 DEF AnswerCall
    <2>2. CASE UNCHANGED inbox
      BY <1>6, <2>1, <2>2
    <2>3. CASE \E m \in Message : /\ Send(m)
                                  /\ \/ m.type = "EnumerateReply"
                                     \/ /\ m.type = "GetAllReply"
                                        /\ GetAll(m.path) \in calls
      <3>1. PICK m \in Message : /\ Send(m)
                                 /\ \/ m.type = "EnumerateReply"
                                    \/ /\ m.type = "GetAllReply"
                                       /\ GetAll(m.path) \in calls
        BY <2>3
      <3>2. m.type = "GetAllReply" => m.path \notin Ignored
        BY <3>1 DEF IgnoredInv, OnlyWantedAsked, Ignored
      <3>3. QED
        BY <1>4, <2>1, <3>1, <3>2 DEF Send
    <2>4. QED
      BY <1>7, <2>2, <2>3, AnswerType
  <1>8. ASSUME NEW c \in calls, CallFails(c) PROVE IgnoredInv'
    BY <1>6, <1>8 DEF CallFails
  <1>9. CASE UNCHANGED vars
    BY <1>6, <1>9 DEF vars
  <1>10. QED
    BY <1>1, <1>2, <1>3, <1>5, <1>7, <1>8, <1>9 DEF Next

-----------------------------------------------------------------------------
IInv == TypeOK /\ OrderInv /\ TableInv /\ IgnoredInv

LEMMA InitIInv == Init => IInv
  <1> SUFFICES ASSUME Init PROVE IInv
    OBVIOUS
  <1>1. TypeOK
    <2>1. [type |-> "NameVanished", owner |-> 0] \in Message
      BY OwnersAreNaturals DEF Message
    <2>2. inbox \in Seq(Message)
      BY <2>1 DEF Init
    <2>3. QED
      BY <2>2, OwnersAreNaturals DEF Init, TypeOK, NoDevices
  <1>2. Len(inbox) = 1 /\ inbox # <<>> /\ inbox[1] = [type |-> "NameVanished", owner |-> 0]
    BY DEF Init
  <1>3. OrderInv
    BY <1>2 DEF Init, OrderInv, InOrder, EndsAtOwner, SentByOwners, NothingAfterDispose,
                Before, After
  <1>4. TableInv
    BY DEF Init, TableInv, BusIsSubscribed, QueueHasTimer, TimerNeedsBus,
           NothingWithoutOwner, Announced, Listed, NoDevices
  <1>5. IgnoredInv
    BY <1>2 DEF Init, IgnoredInv, OnlyWantedAsked, IgnoredNeverListed, Listed, NoDevices
  <1>6. QED
    BY <1>1, <1>3, <1>4, <1>5 DEF IInv

LEMMA Invariance == Spec => []IInv
  <1>1. IInv /\ [Next]_vars => IInv'
    BY TypeStep, OrderStep, TableStep, IgnoredStep DEF IInv
  <1>2. QED
    BY <1>1, InitIInv, PTL DEF Spec

(* The provider's state has its types, for any devices and readings.         *)
THEOREM TypesHold == Spec => []TypeOK
  BY Invariance, PTL DEF IInv

(* The queue is never left without its timer, and the timer never runs       *)
(* without the bus connection its callback uses (on_queued_paths_timer, to   *)
(* update_device_from_object_path).                                          *)
THEOREM QueueIsServed == Spec => []QueueIsRefreshed
  <1>1. IInv => QueueIsRefreshed
    BY DEF IInv, TableInv, QueueIsRefreshed
  <1>2. QED
    BY <1>1, Invariance, PTL

(* While UPower's name has no owner nothing is listed, queued or subscribed  *)
(* to (on_bus_name_vanished, update_device_from_object_path).                *)
THEOREM TableFollowsOwner == Spec => []NothingWithoutOwner
  <1>1. IInv => NothingWithoutOwner
    BY DEF IInv, TableInv
  <1>2. QED
    BY <1>1, Invariance, PTL

(* What listeners of "devices-changed" read last is the table: no callback   *)
(* that changes it forgets to emit.                                          *)
THEOREM ListenersKnowTheTable == Spec => []Announced
  <1>1. IInv => Announced
    BY DEF IInv, TableInv
  <1>2. QED
    BY <1>1, Invariance, PTL

(* Thermometers and UPower's composite device never get into the table.      *)
THEOREM IgnoredStayOut == Spec => []IgnoredNeverListed
  <1>1. IInv => IgnoredNeverListed
    BY DEF IInv, IgnoredInv
  <1>2. QED
    BY <1>1, Invariance, PTL

-----------------------------------------------------------------------------
(* The provider's table follows UPower's devices: no device stays in it for  *)
(* good (NoGhost) or is left out for good (NoDeviceLost).  What the table    *)
(* lacks or has too much is on its way, so the invariants say which messages *)
(* must be in the queue, and which must come before which.                   *)

Name(m)    == m.type \in {"NameAppeared", "NameVanished"}
Removal(m) == m.type = "DeviceRemoved"

(* Without a UPower there are no devices.                                    *)
NoUPowerNoDevices == owner = 0 => upower = NoDevices

(* Every start of UPower has a name of its own.                              *)
OwnersAreFresh ==
    /\ subscriptions <= owners
    /\ owner <= owners
    /\ \A i \in 1 .. Len(inbox) : inbox[i].owner <= owners

(* A provider that is not subscribed to the running UPower will hear of it.  *)
OwnerIsAnnounced ==
    ~disposed /\ owner # 0 /\ subscriptions # owner =>
        \E i \in 1 .. Len(inbox) : inbox[i].type = "NameAppeared" /\ inbox[i].owner = owner

(* One that is subscribed to it has heard all there is about names.          *)
NoNewsOfNames ==
    owner # 0 /\ subscriptions = owner => \A i \in 1 .. Len(inbox) : ~Name(inbox[i])

(* The running UPower's appearance is the last news of names.                *)
OwnerIsLastName ==
    \A i, j \in 1 .. Len(inbox) :
        /\ inbox[i].type = "NameAppeared" /\ inbox[i].owner = owner /\ owner # 0
        /\ i < j
        => ~Name(inbox[j])

(* Signals come from a UPower whose name the provider knows.                 *)
NoNameBeforeRemoval ==
    \A i, j \in 1 .. Len(inbox) : Removal(inbox[i]) /\ j < i => ~Name(inbox[j])

NamesInv == /\ NoUPowerNoDevices
            /\ OwnersAreFresh
            /\ OwnerIsAnnounced
            /\ NoNewsOfNames
            /\ OwnerIsLastName
            /\ NoNameBeforeRemoval

(* A message that takes the device off the table.                            *)
Takes(m, p) == m.type = "NameVanished" \/ (Removal(m) /\ m.path = p)

TakenAfter(i, p) == \E j \in 1 .. Len(inbox) : i < j /\ Takes(inbox[j], p)

(* What UPower does not have is taken off the table, and so it is after any  *)
(* reply that brings it back.                                                *)
GhostInv ==
    \A p \in Paths : upower[p] = NULL =>
        /\ devices[p] # NULL => TakenAfter(0, p)
        /\ \A i \in 1 .. Len(inbox) :
               inbox[i].type = "GetAllReply" /\ inbox[i].path = p => TakenAfter(i, p)

(* A message that has the provider ask for the device.                       *)
AsksFor(m, p) ==
    \/ m.type = "NameAppeared"
    \/ m.type = "DeviceAdded" /\ m.path = p

(* A device that was removed and is there again is asked for again.          *)
ReturnInv ==
    \A p \in Paths, i \in 1 .. Len(inbox) :
        ~disposed /\ upower[p] # NULL /\ Removal(inbox[i]) /\ inbox[i].path = p =>
            \E j \in 1 .. Len(inbox) : i < j /\ AsksFor(inbox[j], p)

(* A message that puts the device into the table, or has it asked for.       *)
Brings(m, p) ==
    \/ m.type = "NameAppeared"
    \/ m.type = "EnumerateReply" /\ p \in m.paths
    \/ /\ m.type \in {"DeviceAdded", "DeviceChanged", "PropertiesChanged", "GetAllReply"}
       /\ m.path = p

Expected(p) ==
    \/ p \in queued_paths
    \/ EnumerateDevices \in calls \/ GetAll(p) \in calls
    \/ \E i \in 1 .. Len(inbox) : Brings(inbox[i], p)

LostInv == ~disposed => \A p \in Wanted : devices[p] = NULL => Expected(p)

-----------------------------------------------------------------------------
(* The queue, as a step leaves it.                                           *)

LEMMA AppendParts ==
    ASSUME inbox \in Seq(Message), NEW m \in Message, inbox' = Append(inbox, m)
    PROVE  /\ Len(inbox) \in Nat /\ Len(inbox') = Len(inbox) + 1
           /\ \A i \in 1 .. Len(inbox) : i \in 1 .. Len(inbox') /\ inbox'[i] = inbox[i]
           /\ Len(inbox) + 1 \in 1 .. Len(inbox') /\ inbox'[Len(inbox) + 1] = m
           /\ \A i \in 1 .. Len(inbox') : i \in 1 .. Len(inbox) \/ i = Len(inbox) + 1
  OBVIOUS

LEMMA TailParts ==
    ASSUME inbox \in Seq(Message), inbox # <<>>, inbox' = Tail(inbox)
    PROVE  /\ Len(inbox) \in Nat \ {0} /\ Len(inbox') = Len(inbox) - 1
           /\ Head(inbox) = inbox[1] /\ inbox[1] \in Message /\ 1 \in 1 .. Len(inbox)
           /\ \A i \in 1 .. Len(inbox') : i + 1 \in 1 .. Len(inbox) /\ inbox'[i] = inbox[i + 1]
           /\ \A i \in 1 .. Len(inbox) : 1 < i => /\ i - 1 \in 1 .. Len(inbox')
                                                  /\ inbox'[i - 1] = inbox[i]
  <1>1. /\ Len(inbox) \in Nat \ {0} /\ Len(inbox') = Len(inbox) - 1
        /\ Head(inbox) = inbox[1] /\ inbox[1] \in Message
    OBVIOUS
  <1>2. \A i \in 1 .. Len(inbox') : i + 1 \in 1 .. Len(inbox) /\ inbox'[i] = inbox[i + 1]
    BY <1>1
  <1>3. ASSUME NEW i \in 1 .. Len(inbox), 1 < i
        PROVE  i - 1 \in 1 .. Len(inbox') /\ inbox'[i - 1] = inbox[i]
    <2>1. i - 1 \in 1 .. Len(inbox') /\ (i - 1) + 1 = i
      BY <1>1, <1>3
    <2>2. QED
      BY <1>2, <2>1
  <1>4. QED
    BY <1>1, <1>2, <1>3

(* A message of the running UPower, other than news of its name.             *)
Speaks(m) ==
    /\ owner # 0 /\ m.owner = owner /\ ~Name(m)
    /\ Removal(m) => subscriptions = owner
    /\ inbox' = Append(inbox, m) /\ ~disposed

(* A step of UPower's devices, or an answer: nothing or one message is sent. *)
LEMMA UPowerSpeaks ==
    ASSUME TypeOK, OrderInv,
           \/ \E p \in Paths, r \in Reading : DeviceAppears(p, r)
           \/ \E p \in Paths : DeviceDisappears(p)
           \/ \E p \in Paths, r \in Reading : DeviceReports(p, r)
           \/ \E c \in calls : AnswerCall(c)
    PROVE  /\ owner # 0 /\ UNCHANGED <<provider_vars, owner, owners>>
           /\ UNCHANGED inbox \/ \E m \in Message : Speaks(m)
  <1>1. ASSUME NEW m \in Message, Send(m) \/ Signal(m), m.owner = owner, owner # 0,
               ~Name(m), Removal(m) => Signal(m)
        PROVE  UNCHANGED inbox \/ Speaks(m)
    <2>1. CASE disposed
      BY <1>1, <2>1 DEF Send, Signal, OrderInv, NothingAfterDispose
    <2>2. CASE ~disposed /\ Signal(m)
      BY <1>1, <2>2 DEF Signal, Speaks
    <2>3. CASE ~disposed /\ ~Signal(m)
      BY <1>1, <2>3 DEF Send, Speaks
    <2>4. QED
      BY <2>1, <2>2, <2>3
  <1>2. ASSUME NEW p \in Paths, NEW r \in Reading, DeviceAppears(p, r)
        PROVE  UNCHANGED inbox \/ \E m \in Message : Speaks(m)
    <2> DEFINE m == [type |-> "DeviceAdded", owner |-> owner, path |-> p]
    <2>1. m \in Message /\ m.owner = owner /\ ~Name(m) /\ ~Removal(m)
      BY DEF TypeOK, Message, Name, Removal
    <2>2. Signal(m) /\ owner # 0
      BY <1>2 DEF DeviceAppears
    <2> HIDE DEF m
    <2>3. QED
      BY <1>1, <2>1, <2>2
  <1>3. ASSUME NEW p \in Paths, DeviceDisappears(p)
        PROVE  UNCHANGED inbox \/ \E m \in Message : Speaks(m)
    <2> DEFINE m == [type |-> "DeviceRemoved", owner |-> owner, path |-> p]
    <2>1. m \in Message /\ m.owner = owner /\ ~Name(m)
      BY DEF TypeOK, Message, Name
    <2>2. Signal(m) /\ owner # 0
      BY <1>3 DEF DeviceDisappears
    <2> HIDE DEF m
    <2>3. QED
      BY <1>1, <2>1, <2>2
  <1>4. ASSUME NEW p \in Paths, NEW r \in Reading, DeviceReports(p, r)
        PROVE  UNCHANGED inbox \/ \E m \in Message : Speaks(m)
    <2> DEFINE keys == {k \in {"charge", "time"} : upower[p][k] # r[k]}
               m1 == [type |-> "PropertiesChanged", owner |-> owner, path |-> p,
                      keys |-> keys, reading |-> r]
               m2 == [type |-> "DeviceChanged", owner |-> owner, path |-> p]
               m3 == [type |-> "Resuming", owner |-> owner]
    <2>1. m1 \in Message /\ m1.owner = owner /\ ~Name(m1) /\ ~Removal(m1)
      BY DEF TypeOK, Message, Name, Removal
    <2>2. m2 \in Message /\ m2.owner = owner /\ ~Name(m2) /\ ~Removal(m2)
      BY DEF TypeOK, Message, Name, Removal
    <2>3. m3 \in Message /\ m3.owner = owner /\ ~Name(m3) /\ ~Removal(m3)
      BY DEF TypeOK, Message, Name, Removal
    <2>4. owner # 0 /\ (Signal(m1) \/ Signal(m2) \/ Signal(m3))
      BY <1>4 DEF DeviceReports
    <2> HIDE DEF m1, m2, m3
    <2>5. QED
      BY <1>1, <2>1, <2>2, <2>3, <2>4
  <1>5. ASSUME NEW c \in calls, AnswerCall(c)
        PROVE  UNCHANGED inbox \/ \E m \in Message : Speaks(m)
    <2>1. owner # 0
      BY <1>5 DEF AnswerCall
    <2>2. ASSUME NEW m \in Message, Send(m), m.owner = owner,
                 m.type \in {"EnumerateReply", "GetAllReply"}
          PROVE  UNCHANGED inbox \/ Speaks(m)
      BY <1>1, <2>1, <2>2 DEF Name, Removal
    <2>3. QED
      BY <1>5, <2>2, AnswerType
  <1>6. owner # 0 /\ UNCHANGED <<provider_vars, owner, owners>>
    BY DEF DeviceAppears, DeviceDisappears, DeviceReports, AnswerCall, upower_vars
  <1>7. QED
    BY <1>2, <1>3, <1>4, <1>5, <1>6

-----------------------------------------------------------------------------
(* News of UPower's name                                                     *)

LEMMA DispatchNames == ASSUME TypeOK, OrderInv, NamesInv, Dispatch PROVE NamesInv'
  <1> DEFINE m == inbox[1]
  <1>1. /\ inbox \in Seq(Message) /\ inbox # <<>> /\ inbox' = Tail(inbox)
        /\ owners \in Nat /\ owner \in Nat /\ subscriptions \in Nat
        /\ UNCHANGED <<owner, owners, upower, disposed>> /\ ~disposed
    BY OwnersAreNaturals DEF TypeOK, Dispatch, upower_vars
  <1>2. /\ m \in Message /\ 1 \in 1 .. Len(inbox)
        /\ \A i \in 1 .. Len(inbox') : i + 1 \in 1 .. Len(inbox) /\ inbox'[i] = inbox[i + 1]
        /\ \A i \in 1 .. Len(inbox) : 1 < i => /\ i - 1 \in 1 .. Len(inbox')
                                               /\ inbox'[i - 1] = inbox[i]
    BY <1>1, TailParts
  <1>3. subscriptions' = IF m.type = "NameVanished" THEN 0 ELSE m.owner
    BY <1>1, DispatchSubscription, TailParts DEF After
  <1>4. m.type = "NameAppeared" \/ m.owner = subscriptions
    BY <1>1, <1>2 DEF OrderInv, InOrder, Before
  <1>5. NoUPowerNoDevices'
    BY <1>1 DEF NamesInv, NoUPowerNoDevices
  <1>6. OwnersAreFresh'
    <2>1. m.owner <= owners /\ m.owner \in Nat
      BY <1>2, MessageParts, OwnersAreNaturals DEF NamesInv, OwnersAreFresh
    <2>2. subscriptions' <= owners'
      BY <1>1, <1>3, <2>1
    <2>3. QED
      BY <1>1, <1>2, <2>2 DEF NamesInv, OwnersAreFresh
  <1>7. OwnerIsAnnounced'
    <2>1. SUFFICES ASSUME owner # 0, subscriptions' # owner
                   PROVE  \E i \in 1 .. Len(inbox') : /\ inbox'[i].type = "NameAppeared"
                                                      /\ inbox'[i].owner = owner
      BY <1>1 DEF OwnerIsAnnounced
    <2>2. subscriptions # owner
      <3>1. CASE Name(m)
        BY <1>2, <2>1, <3>1 DEF NamesInv, NoNewsOfNames
      <3>2. CASE ~Name(m)
        BY <1>3, <1>4, <2>1, <3>2 DEF Name
      <3>3. QED
        BY <3>1, <3>2
    <2>3. PICK i \in 1 .. Len(inbox) : /\ inbox[i].type = "NameAppeared"
                                       /\ inbox[i].owner = owner
      BY <1>1, <2>1, <2>2 DEF NamesInv, OwnerIsAnnounced
    <2>4. i # 1
      BY <1>3, <2>1, <2>3
    <2>5. i - 1 \in 1 .. Len(inbox') /\ inbox'[i - 1] = inbox[i]
      BY <1>2, <2>4
    <2>6. QED
      BY <2>3, <2>5
  <1>8. NoNewsOfNames'
    <2>1. SUFFICES ASSUME owner # 0, subscriptions' = owner, NEW i \in 1 .. Len(inbox')
                   PROVE  ~Name(inbox'[i])
      BY <1>1 DEF NoNewsOfNames
    <2>2. i + 1 \in 1 .. Len(inbox) /\ inbox'[i] = inbox[i + 1] /\ 1 < i + 1
      BY <1>2
    <2>3. CASE m.type = "NameAppeared"
      BY <1>2, <1>3, <2>1, <2>2, <2>3 DEF NamesInv, OwnerIsLastName
    <2>4. CASE m.type # "NameAppeared"
      BY <1>3, <1>4, <2>1, <2>2, <2>4 DEF NamesInv, NoNewsOfNames
    <2>5. QED
      BY <2>3, <2>4
  <1>9. OwnerIsLastName'
    <2>1. \A i, j \in 1 .. Len(inbox') : i < j => i + 1 < j + 1
      OBVIOUS
    <2>2. QED
      BY <1>1, <1>2, <2>1 DEF NamesInv, OwnerIsLastName
  <1>10. NoNameBeforeRemoval'
    <2>1. \A i, j \in 1 .. Len(inbox') : j < i => j + 1 < i + 1
      OBVIOUS
    <2>2. QED
      BY <1>1, <1>2, <2>1 DEF NamesInv, NoNameBeforeRemoval
  <1>11. QED
    BY <1>5, <1>6, <1>7, <1>8, <1>9, <1>10 DEF NamesInv

LEMMA MessageOwners ==
    ASSUME TypeOK, NEW i \in 1 .. Len(inbox)
    PROVE  inbox[i] \in Message /\ inbox[i].owner \in Nat
  <1>1. inbox[i] \in Message
    BY DEF TypeOK
  <1>2. QED
    BY <1>1, MessageParts, OwnersAreNaturals

(* UPower's appearance joins the queue.                                      *)
LEMMA StartNames ==
    ASSUME TypeOK, OrderInv, NamesInv,
           NEW present \in [Paths -> Reading \cup {NULL}], UPowerStarts(present)
    PROVE  NamesInv'
  <1> DEFINE m == [type |-> "NameAppeared", owner |-> owners + 1]
  <1>1. /\ inbox \in Seq(Message) /\ owners \in Nat /\ subscriptions \in Nat
        /\ owner = 0 /\ owner' = owners + 1 /\ owners' = owners + 1
        /\ UNCHANGED <<subscriptions, disposed>>
    BY OwnersAreNaturals DEF TypeOK, UPowerStarts, provider_vars
  <1>2. m \in Message
    BY BoundsAssumption DEF TypeOK, UPowerStarts, Owners, Message
  <1>3. m.type = "NameAppeared" /\ m.owner = owners + 1 /\ ~Removal(m)
    BY DEF Removal
  <1>4. subscriptions # owner' /\ \A i \in 1 .. Len(inbox) : inbox[i].owner # owner'
    <2>1. \A i \in 1 .. Len(inbox) : inbox[i].owner \in Nat
      BY MessageOwners
    <2>2. QED
      BY <1>1, <2>1 DEF NamesInv, OwnersAreFresh
  <1>5. \A i \in 1 .. Len(inbox) : inbox[i].owner <= owners + 1
    <2>1. \A i \in 1 .. Len(inbox) : inbox[i].owner \in Nat
      BY MessageOwners
    <2>2. QED
      BY <1>1, <2>1 DEF NamesInv, OwnersAreFresh
  <1>6. subscriptions <= owners + 1
    BY <1>1 DEF NamesInv, OwnersAreFresh
  <1>7. CASE disposed
    <2>1. inbox' = inbox /\ inbox = <<>>
      BY <1>7 DEF UPowerStarts, Send, OrderInv, NothingAfterDispose
    <2>2. Len(inbox') = 0
      BY <2>1
    <2>3. QED
      BY <1>1, <1>4, <1>6, <1>7, <2>2 DEF NamesInv, NoUPowerNoDevices, OwnersAreFresh,
            OwnerIsAnnounced, NoNewsOfNames, OwnerIsLastName, NoNameBeforeRemoval
  <1>8. CASE ~disposed
    <2>1. inbox' = Append(inbox, m)
      BY <1>8 DEF UPowerStarts, Send
    <2> HIDE DEF m
    <2>2. /\ Len(inbox) \in Nat /\ Len(inbox') = Len(inbox) + 1
          /\ \A i \in 1 .. Len(inbox) : i \in 1 .. Len(inbox') /\ inbox'[i] = inbox[i]
          /\ Len(inbox) + 1 \in 1 .. Len(inbox') /\ inbox'[Len(inbox) + 1] = m
          /\ \A i \in 1 .. Len(inbox') : i \in 1 .. Len(inbox) \/ i = Len(inbox) + 1
      BY <1>1, <1>2, <2>1, AppendParts
    <2>3. NoUPowerNoDevices' /\ NoNewsOfNames'
      BY <1>1, <1>4 DEF NoUPowerNoDevices, NoNewsOfNames
    <2>4. OwnersAreFresh'
      <3>1. \A i \in 1 .. Len(inbox') : inbox'[i].owner <= owners'
        BY <1>1, <1>3, <1>5, <2>2
      <3>2. QED
        BY <1>1, <1>6, <3>1 DEF OwnersAreFresh
    <2>5. OwnerIsAnnounced'
      BY <1>1, <1>3, <2>2 DEF OwnerIsAnnounced
    <2>6. OwnerIsLastName'
      <3>1. ASSUME NEW i \in 1 .. Len(inbox'), NEW j \in 1 .. Len(inbox'),
                   inbox'[i].owner = owner', i < j
            PROVE  FALSE
        <4>1. i \in 1 .. Len(inbox)
          BY <2>2, <3>1
        <4>2. QED
          BY <1>4, <2>2, <3>1, <4>1
      <3>2. QED
        BY <3>1 DEF OwnerIsLastName
    <2>7. NoNameBeforeRemoval'
      <3>1. ASSUME NEW i \in 1 .. Len(inbox'), NEW j \in 1 .. Len(inbox'),
                   Removal(inbox'[i]), j < i
            PROVE  ~Name(inbox'[j])
        <4>1. i \in 1 .. Len(inbox) /\ j \in 1 .. Len(inbox)
          BY <1>3, <2>2, <3>1
        <4>2. QED
          BY <2>2, <3>1, <4>1 DEF NamesInv, NoNameBeforeRemoval
      <3>2. QED
        BY <3>1 DEF NoNameBeforeRemoval
    <2>8. QED
      BY <2>3, <2>4, <2>5, <2>6, <2>7 DEF NamesInv
  <1>9. QED
    BY <1>7, <1>8

LEMMA StopNames ==
    ASSUME TypeOK, OrderInv, NamesInv, UPowerStops
    PROVE  NamesInv'
  <1> DEFINE m == [type |-> "NameVanished", owner |-> owner]
  <1>1. /\ inbox \in Seq(Message) /\ owner \in Nat /\ owner' = 0 /\ upower' = NoDevices
        /\ owners \in Nat
        /\ UNCHANGED <<owners, subscriptions, disposed>>
    BY OwnersAreNaturals DEF TypeOK, UPowerStops, provider_vars
  <1>2. m \in Message /\ m.type = "NameVanished" /\ m.owner = owner
    BY DEF TypeOK, Message
  <1>3. /\ NoUPowerNoDevices' /\ OwnerIsAnnounced' /\ NoNewsOfNames' /\ OwnerIsLastName'
    BY <1>1 DEF NoUPowerNoDevices, OwnerIsAnnounced, NoNewsOfNames, OwnerIsLastName
  <1>4. CASE disposed
    <2>1. inbox' = inbox /\ inbox = <<>>
      BY <1>4 DEF UPowerStops, Send, OrderInv, NothingAfterDispose
    <2>2. Len(inbox') = 0
      BY <2>1
    <2>3. QED
      BY <1>1, <1>3, <2>2 DEF NamesInv, OwnersAreFresh, NoNameBeforeRemoval
  <1>5. CASE ~disposed
    <2>1. inbox' = Append(inbox, m)
      BY <1>5 DEF UPowerStops, Send
    <2> HIDE DEF m
    <2>2. /\ Len(inbox) \in Nat /\ Len(inbox') = Len(inbox) + 1
          /\ \A i \in 1 .. Len(inbox) : i \in 1 .. Len(inbox') /\ inbox'[i] = inbox[i]
          /\ Len(inbox) + 1 \in 1 .. Len(inbox') /\ inbox'[Len(inbox) + 1] = m
          /\ \A i \in 1 .. Len(inbox') : i \in 1 .. Len(inbox) \/ i = Len(inbox) + 1
      BY <1>1, <1>2, <2>1, AppendParts
    <2>3. OwnersAreFresh'
      <3>1. \A i \in 1 .. Len(inbox') : inbox'[i].owner <= owners
        BY <1>2, <2>2 DEF NamesInv, OwnersAreFresh
      <3>2. QED
        BY <1>1, <3>1 DEF NamesInv, OwnersAreFresh
    <2>4. NoNameBeforeRemoval'
      <3>1. ASSUME NEW i \in 1 .. Len(inbox'), NEW j \in 1 .. Len(inbox'),
                   Removal(inbox'[i]), j < i
            PROVE  ~Name(inbox'[j])
        <4>1. i \in 1 .. Len(inbox) /\ j \in 1 .. Len(inbox)
          BY <1>2, <2>2, <3>1 DEF Removal
        <4>2. QED
          BY <2>2, <3>1, <4>1 DEF NamesInv, NoNameBeforeRemoval
      <3>2. QED
        BY <3>1 DEF NoNameBeforeRemoval
    <2>5. QED
      BY <1>3, <2>3, <2>4 DEF NamesInv
  <1>6. QED
    BY <1>4, <1>5

LEMMA SpeakNames ==
    ASSUME TypeOK, NamesInv, NEW m \in Message, Speaks(m),
           UNCHANGED <<subscriptions, disposed, owner, owners>>
    PROVE  NamesInv'
  <1>1. /\ inbox \in Seq(Message) /\ inbox' = Append(inbox, m) /\ ~Name(m)
        /\ owner # 0 /\ m.owner = owner /\ (Removal(m) => subscriptions = owner)
    BY DEF TypeOK, Speaks
  <1>2. /\ Len(inbox) \in Nat /\ Len(inbox') = Len(inbox) + 1
        /\ \A i \in 1 .. Len(inbox) : i \in 1 .. Len(inbox') /\ inbox'[i] = inbox[i]
        /\ Len(inbox) + 1 \in 1 .. Len(inbox') /\ inbox'[Len(inbox) + 1] = m
        /\ \A i \in 1 .. Len(inbox') : i \in 1 .. Len(inbox) \/ i = Len(inbox) + 1
    BY <1>1, AppendParts
  <1>3. NoUPowerNoDevices'
    BY <1>1 DEF NoUPowerNoDevices
  <1>4. OwnersAreFresh'
    BY <1>1, <1>2 DEF NamesInv, OwnersAreFresh
  <1>5. OwnerIsAnnounced'
    BY <1>1, <1>2 DEF NamesInv, OwnerIsAnnounced
  <1>6. NoNewsOfNames'
    BY <1>1, <1>2 DEF NamesInv, NoNewsOfNames
  <1>7. OwnerIsLastName'
    <2>1. ASSUME NEW i \in 1 .. Len(inbox'), NEW j \in 1 .. Len(inbox'), i < j,
                 inbox'[i].type = "NameAppeared", inbox'[i].owner = owner, Name(inbox'[j])
          PROVE  FALSE
      <3>1. j \in 1 .. Len(inbox)
        BY <1>1, <1>2, <2>1
      <3>2. i \in 1 .. Len(inbox)
        BY <1>2, <2>1, <3>1
      <3>3. QED
        BY <1>1, <1>2, <2>1, <3>1, <3>2 DEF NamesInv, OwnerIsLastName
    <2>2. QED
      BY <2>1 DEF OwnerIsLastName
  <1>8. NoNameBeforeRemoval'
    <2>1. ASSUME NEW i \in 1 .. Len(inbox'), NEW j \in 1 .. Len(inbox'),
                 Removal(inbox'[i]), j < i
          PROVE  ~Name(inbox'[j])
      <3>1. j \in 1 .. Len(inbox)
        BY <1>2, <2>1
      <3>2. CASE i \in 1 .. Len(inbox)
        BY <1>2, <2>1, <3>1, <3>2 DEF NamesInv, NoNameBeforeRemoval
      <3>3. CASE i = Len(inbox) + 1
        BY <1>1, <1>2, <2>1, <3>1, <3>3 DEF NamesInv, NoNewsOfNames
      <3>4. QED
        BY <1>2, <3>2, <3>3
    <2>2. QED
      BY <2>1 DEF NoNameBeforeRemoval
  <1>9. QED
    BY <1>3, <1>4, <1>5, <1>6, <1>7, <1>8 DEF NamesInv

LEMMA NamesStep == TypeOK /\ OrderInv /\ NamesInv /\ [Next]_vars => NamesInv'
  <1> SUFFICES ASSUME TypeOK, OrderInv, NamesInv, [Next]_vars PROVE NamesInv'
    OBVIOUS
  <1>1. ASSUME UNCHANGED <<inbox, owner, owners, subscriptions, disposed>>,
               owner = 0 => UNCHANGED upower
        PROVE  NamesInv'
    BY <1>1 DEF NamesInv, NoUPowerNoDevices, OwnersAreFresh, OwnerIsAnnounced,
                NoNewsOfNames, OwnerIsLastName, NoNameBeforeRemoval
  <1>2. CASE Dispose
    <2>1. /\ Len(inbox') = 0 /\ subscriptions' = 0 /\ disposed'
          /\ UNCHANGED <<owner, owners, upower>> /\ owners \in Nat
      BY <1>2, OwnersAreNaturals DEF TypeOK, Dispose, ForgetUPower, upower_vars
    <2>2. QED
      BY <2>1 DEF NamesInv, NoUPowerNoDevices, OwnersAreFresh, OwnerIsAnnounced,
              NoNewsOfNames, OwnerIsLastName, NoNameBeforeRemoval
  <1>3. CASE \/ \E p \in Paths, r \in Reading : DeviceAppears(p, r)
             \/ \E p \in Paths : DeviceDisappears(p)
             \/ \E p \in Paths, r \in Reading : DeviceReports(p, r)
             \/ \E c \in calls : AnswerCall(c)
    <2>1. /\ owner # 0 /\ UNCHANGED <<owner, owners, subscriptions, disposed>>
          /\ UNCHANGED inbox \/ \E m \in Message : Speaks(m)
      BY <1>3, UPowerSpeaks DEF provider_vars
    <2>2. QED
      BY <1>1, <2>1, SpeakNames
  <1>4. CASE on_queued_paths_timer
    BY <1>1, <1>4 DEF on_queued_paths_timer, upower_vars
  <1>5. ASSUME NEW c \in calls, CallFails(c) PROVE NamesInv'
    BY <1>1, <1>5 DEF CallFails, upower_vars, provider_vars
  <1>6. CASE UNCHANGED vars
    BY <1>1, <1>6 DEF vars, upower_vars, provider_vars
  <1>7. CASE Environment
    BY <1>3, <1>7, StartNames, StopNames DEF Environment
  <1>8. QED
    BY <1>2, <1>3, <1>4, <1>5, <1>6, <1>7, DispatchNames DEF Next

-----------------------------------------------------------------------------
(* No ghosts                                                                 *)

(* What is listed after a message was listed before, or the message is a     *)
(* reply about it; and the message does not take it.                         *)
LEMMA DispatchListing ==
    ASSUME TypeOK, Dispatch, NEW p \in Paths, devices'[p] # NULL
    PROVE  /\ ~Takes(inbox[1], p)
           /\ \/ devices[p] # NULL
              \/ inbox[1].type = "GetAllReply" /\ inbox[1].path = p
  <1> DEFINE m == inbox[1]
  <1>1. m = Head(inbox) /\ m \in Message
    BY DEF TypeOK, Dispatch
  <1>2. /\ m.type \in {"DeviceRemoved", "PropertiesChanged", "GetAllReply"} => m.path \in Paths
        /\ devices \in [Paths -> Reading \cup {NULL}]
    BY <1>1, MessageParts DEF TypeOK
  <1>3. CASE m.type = "NameVanished"
    BY <1>1, <1>3 DEF Dispatch, on_bus_name_vanished, ForgetUPower, NoDevices,
            on_upower_signal
  <1>4. CASE m.type = "GetAllReply"
    BY <1>1, <1>2, <1>4 DEF Dispatch, on_get_all_response, on_upower_signal, Takes, Removal
  <1>5. CASE m.type = "DeviceRemoved"
    <2>1. devices' = [devices EXCEPT ![m.path] = NULL]
      BY <1>1, <1>5 DEF Dispatch, on_upower_signal, DeviceRemoved
    <2>2. QED
      BY <1>2, <1>5, <2>1 DEF Takes, Removal
  <1>6. CASE m.type = "PropertiesChanged"
    <2>1. on_device_properties_changed(m)
      BY <1>1, <1>6 DEF Dispatch, on_upower_signal
    <2>2. CASE m.path \in Therm \/ devices[m.path] = NULL
      BY <2>1, <2>2, <1>6 DEF on_device_properties_changed, Takes, Removal
    <2>3. CASE m.path \notin Therm /\ devices[m.path] # NULL
      <3>1. p # m.path => devices'[p] = devices[p]
        BY <1>2, <2>1, <2>3 DEF on_device_properties_changed
      <3>2. QED
        BY <1>6, <2>3, <3>1 DEF Takes, Removal
    <2>4. QED
      BY <2>2, <2>3
  <1>7. CASE m.type \notin {"NameVanished", "GetAllReply", "DeviceRemoved",
                            "PropertiesChanged"}
    BY <1>1, <1>7 DEF Dispatch, on_bus_name_appeared, on_enumerate_devices_response,
            on_upower_signal, Takes, Removal
  <1>8. QED
    BY <1>3, <1>4, <1>5, <1>6, <1>7

LEMMA DispatchGhost == ASSUME TypeOK, GhostInv, Dispatch PROVE GhostInv'
  <1> DEFINE m == inbox[1]
  <1>1. /\ inbox \in Seq(Message) /\ inbox # <<>> /\ inbox' = Tail(inbox)
        /\ UNCHANGED upower
    BY DEF TypeOK, Dispatch, upower_vars
  <1>2. /\ Len(inbox) \in Nat \ {0} /\ 1 \in 1 .. Len(inbox)
        /\ Len(inbox') = Len(inbox) - 1
        /\ \A i \in 1 .. Len(inbox') : i + 1 \in 1 .. Len(inbox) /\ inbox'[i] = inbox[i + 1]
        /\ \A i \in 1 .. Len(inbox) : 1 < i => /\ i - 1 \in 1 .. Len(inbox')
                                               /\ inbox'[i - 1] = inbox[i]
    BY <1>1, TailParts
  <1>3. ASSUME NEW p \in Paths, NEW i \in Nat, NEW j \in 1 .. Len(inbox), i + 1 < j,
               Takes(inbox[j], p)
        PROVE  TakenAfter(i, p)'
    <2>1. j - 1 \in 1 .. Len(inbox') /\ inbox'[j - 1] = inbox[j] /\ i < j - 1
      BY <1>2, <1>3
    <2>2. Takes(inbox'[j - 1], p)
      BY <1>3, <2>1
    <2>3. QED
      BY <2>1, <2>2 DEF TakenAfter
  <1>4. ASSUME NEW p \in Paths, upower[p] = NULL, devices'[p] # NULL
        PROVE  TakenAfter(0, p)'
    <2>1. ~Takes(m, p)
      BY <1>4, DispatchListing
    <2>2. PICK j \in 1 .. Len(inbox) : 1 < j /\ Takes(inbox[j], p)
      <3>1. CASE devices[p] # NULL
        <4>1. PICK j \in 1 .. Len(inbox) : 0 < j /\ Takes(inbox[j], p)
          BY <1>4, <3>1 DEF GhostInv, TakenAfter
        <4>2. j # 1
          BY <2>1, <4>1
        <4>3. QED
          BY <4>1, <4>2
      <3>2. CASE m.type = "GetAllReply" /\ m.path = p
        BY <1>2, <1>4, <3>2 DEF GhostInv, TakenAfter
      <3>3. QED
        BY <1>4, <3>1, <3>2, DispatchListing
    <2>3. QED
      BY <1>3, <2>2
  <1>5. ASSUME NEW p \in Paths, upower[p] = NULL, NEW i \in 1 .. Len(inbox'),
               inbox'[i].type = "GetAllReply", inbox'[i].path = p
        PROVE  TakenAfter(i, p)'
    <2>1. i + 1 \in 1 .. Len(inbox) /\ inbox'[i] = inbox[i + 1]
      BY <1>2
    <2>2. PICK j \in 1 .. Len(inbox) : i + 1 < j /\ Takes(inbox[j], p)
      BY <1>5, <2>1 DEF GhostInv, TakenAfter
    <2>3. QED
      BY <1>3, <2>2
  <1>6. QED
    BY <1>1, <1>4, <1>5 DEF GhostInv

(* A message joins the queue: what was taken still is.                       *)
LEMMA AppendGhost ==
    ASSUME TypeOK, GhostInv, NEW m \in Message, inbox' = Append(inbox, m),
           UNCHANGED devices,
           \A p \in Paths : upower'[p] = NULL => upower[p] = NULL \/ Takes(m, p),
           m.type = "GetAllReply" => upower'[m.path] # NULL
    PROVE  GhostInv'
  <1>1. inbox \in Seq(Message)
    BY DEF TypeOK
  <1>2. /\ Len(inbox) \in Nat /\ Len(inbox') = Len(inbox) + 1
        /\ \A i \in 1 .. Len(inbox) : i \in 1 .. Len(inbox') /\ inbox'[i] = inbox[i]
        /\ Len(inbox) + 1 \in 1 .. Len(inbox') /\ inbox'[Len(inbox) + 1] = m
        /\ \A i \in 1 .. Len(inbox') : i \in 1 .. Len(inbox) \/ i = Len(inbox) + 1
    BY <1>1, AppendParts
  <1>3. ASSUME NEW p \in Paths, NEW i \in Nat, TakenAfter(i, p)
        PROVE  TakenAfter(i, p)'
    BY <1>2, <1>3 DEF TakenAfter
  <1>4. ASSUME NEW p \in Paths, NEW i \in Nat, i <= Len(inbox), Takes(m, p)
        PROVE  TakenAfter(i, p)'
    <2>1. i < Len(inbox) + 1 /\ Takes(inbox'[Len(inbox) + 1], p)
      BY <1>2, <1>4
    <2>2. QED
      BY <1>2, <2>1 DEF TakenAfter
  <1>5. ASSUME NEW p \in Paths, upower'[p] = NULL, devices'[p] # NULL
        PROVE  TakenAfter(0, p)'
    BY <1>2, <1>3, <1>4, <1>5 DEF GhostInv
  <1>6. ASSUME NEW p \in Paths, upower'[p] = NULL, NEW i \in 1 .. Len(inbox'),
               inbox'[i].type = "GetAllReply", inbox'[i].path = p
        PROVE  TakenAfter(i, p)'
    <2>1. i \in 1 .. Len(inbox) /\ inbox'[i] = inbox[i]
      BY <1>2, <1>6
    <2>2. CASE Takes(m, p)
      BY <1>4, <2>1, <2>2
    <2>3. CASE upower[p] = NULL
      BY <1>3, <1>6, <2>1, <2>3 DEF GhostInv
    <2>4. QED
      BY <1>6, <2>2, <2>3
  <1>7. QED
    BY <1>5, <1>6 DEF GhostInv

(* Nothing is sent, and UPower has what it had.                              *)
LEMMA SilentGhost ==
    ASSUME GhostInv, UNCHANGED <<inbox, devices>>,
           \A p \in Paths : upower'[p] = NULL => upower[p] = NULL
    PROVE  GhostInv'
  BY DEF GhostInv, TakenAfter

(* A provider that is disposed of has neither devices nor messages.          *)
LEMMA DisposedIsEmpty ==
    ASSUME TypeOK, OrderInv, TableInv, disposed
    PROVE  inbox = <<>> /\ Len(inbox) = 0 /\ subscriptions = 0 /\ Listed(devices) = {}
  BY DEF OrderInv, NothingAfterDispose, TableInv, BusIsSubscribed, NothingWithoutOwner

LEMMA GhostStep ==
    ASSUME ~RemovalsUnheard, TypeOK, OrderInv, TableInv, NamesInv, GhostInv, [Next]_vars
    PROVE  GhostInv'
  <1>1. CASE Dispose
    <2>1. Len(inbox') = 0 /\ devices' = NoDevices
      BY <1>1 DEF Dispose, ForgetUPower
    <2>2. QED
      BY <2>1 DEF GhostInv, NoDevices
  <1>2. ASSUME NEW present \in [Paths -> Reading \cup {NULL}], UPowerStarts(present)
        PROVE  GhostInv'
    <2> DEFINE m == [type |-> "NameAppeared", owner |-> owners + 1]
    <2>1. m \in Message
      BY <1>2, BoundsAssumption DEF TypeOK, UPowerStarts, Owners, Message
    <2>2. UNCHANGED devices /\ \A p \in Paths : upower[p] = NULL
      BY <1>2 DEF UPowerStarts, NamesInv, NoUPowerNoDevices, NoDevices, provider_vars
    <2>3. UNCHANGED inbox \/ inbox' = Append(inbox, m)
      BY <1>2 DEF UPowerStarts, Send
    <2>4. m.type # "GetAllReply"
      OBVIOUS
    <2> HIDE DEF m
    <2>5. QED
      BY <2>1, <2>2, <2>3, <2>4, SilentGhost, AppendGhost
  <1>3. CASE UPowerStops
    <2> DEFINE m == [type |-> "NameVanished", owner |-> owner]
    <2>1. m \in Message /\ m.type = "NameVanished" /\ \A p \in Paths : Takes(m, p)
      BY DEF TypeOK, Message, Takes
    <2>2. UNCHANGED devices /\ inbox' = IF disposed THEN inbox ELSE Append(inbox, m)
      BY <1>3 DEF UPowerStops, Send, provider_vars
    <2> HIDE DEF m
    <2>3. CASE disposed
      BY <2>2, <2>3, DisposedIsEmpty DEF GhostInv, Listed
    <2>4. CASE ~disposed
      BY <2>1, <2>2, <2>4, AppendGhost
    <2>5. QED
      BY <2>3, <2>4
  <1>4. ASSUME NEW p \in Paths, NEW r \in Reading, DeviceAppears(p, r)
        PROVE  GhostInv'
    <2> DEFINE m == [type |-> "DeviceAdded", owner |-> owner, path |-> p]
    <2>1. m \in Message /\ m.type # "GetAllReply"
      BY DEF TypeOK, Message
    <2>2. UNCHANGED devices /\ (UNCHANGED inbox \/ inbox' = Append(inbox, m))
      BY <1>4 DEF DeviceAppears, Signal, provider_vars
    <2>3. \A q \in Paths : upower'[q] = NULL => upower[q] = NULL
      BY <1>4, NullAssumption DEF TypeOK, DeviceAppears
    <2> HIDE DEF m
    <2>4. QED
      BY <2>1, <2>2, <2>3, SilentGhost, AppendGhost
  <1>5. ASSUME NEW p \in Paths, DeviceDisappears(p)
        PROVE  GhostInv'
    <2> DEFINE m == [type |-> "DeviceRemoved", owner |-> owner, path |-> p]
    <2>1. m \in Message /\ m.type # "GetAllReply" /\ Takes(m, p)
      BY DEF TypeOK, Message, Takes, Removal
    <2>2. UNCHANGED devices /\ inbox' = Append(inbox, m)
      BY <1>5 DEF DeviceDisappears, Signal, provider_vars
    <2>3. \A q \in Paths : upower'[q] = NULL => upower[q] = NULL \/ q = p
      BY <1>5 DEF TypeOK, DeviceDisappears
    <2> HIDE DEF m
    <2>4. QED
      BY <2>1, <2>2, <2>3, AppendGhost
  <1>6. ASSUME NEW p \in Paths, NEW r \in Reading, DeviceReports(p, r)
        PROVE  GhostInv'
    <2> DEFINE keys == {k \in {"charge", "time"} : upower[p][k] # r[k]}
    <2>1. PICK m \in Message : /\ m.type # "GetAllReply"
                               /\ UNCHANGED inbox \/ inbox' = Append(inbox, m)
      <3>1. /\ [type |-> "PropertiesChanged", owner |-> owner, path |-> p,
                keys |-> keys, reading |-> r] \in Message
            /\ [type |-> "DeviceChanged", owner |-> owner, path |-> p] \in Message
            /\ [type |-> "Resuming", owner |-> owner] \in Message
        BY DEF TypeOK, Message
      <3>2. \/ Signal([type |-> "PropertiesChanged", owner |-> owner, path |-> p,
                       keys |-> keys, reading |-> r])
            \/ Signal([type |-> "DeviceChanged", owner |-> owner, path |-> p])
            \/ Signal([type |-> "Resuming", owner |-> owner])
        BY <1>6 DEF DeviceReports
      <3> HIDE DEF keys
      <3>3. QED
        BY <3>1, <3>2 DEF Signal
    <2>2. UNCHANGED devices
      BY <1>6 DEF DeviceReports, provider_vars
    <2>3. \A q \in Paths : upower'[q] = NULL => upower[q] = NULL
      BY <1>6, NullAssumption DEF TypeOK, DeviceReports
    <2>4. QED
      BY <2>1, <2>2, <2>3, SilentGhost, AppendGhost
  <1>7. ASSUME NEW c \in calls, AnswerCall(c) PROVE GhostInv'
    <2>1. UNCHANGED <<devices, upower>>
      BY <1>7 DEF AnswerCall, provider_vars, upower_vars
    <2>2. \A p \in Paths : upower'[p] = NULL => upower[p] = NULL
      BY <2>1
    <2>3. CASE c = EnumerateDevices
      <3> DEFINE m == [type |-> "EnumerateReply", owner |-> owner,
                       paths |-> Listed(upower) \ {DisplayDevice}]
      <3>1. m \in Message /\ m.type # "GetAllReply"
        BY DEF TypeOK, Message, Listed
      <3>2. UNCHANGED inbox \/ inbox' = Append(inbox, m)
        BY <1>7, <2>3 DEF AnswerCall, Send
      <3> HIDE DEF m
      <3>3. QED
        BY <2>1, <2>2, <3>1, <3>2, SilentGhost, AppendGhost
    <2>4. CASE c # EnumerateDevices
      <3>1. PICK p \in Paths : c = GetAll(p)
        BY <2>4 DEF TypeOK, Call
      <3>2. c.path = p
        BY <3>1 DEF GetAll
      <3> DEFINE m == [type |-> "GetAllReply", owner |-> owner, path |-> p,
                       reading |-> upower[p]]
      <3>3. CASE upower[p] # NULL
        <4>1. m \in Message /\ m.path = p
          BY <3>3 DEF TypeOK, Message
        <4>2. UNCHANGED inbox \/ inbox' = Append(inbox, m)
          BY <1>7, <2>4, <3>2, <3>3 DEF AnswerCall, Send
        <4> HIDE DEF m
        <4>3. QED
          BY <2>1, <2>2, <3>3, <4>1, <4>2, SilentGhost, AppendGhost
      <3>4. CASE upower[p] = NULL
        BY <1>7, <2>1, <2>2, <2>4, <3>2, <3>4, SilentGhost DEF AnswerCall
      <3>5. QED
        BY <3>3, <3>4
    <2>5. QED
      BY <2>3, <2>4
  <1>8. CASE on_queued_paths_timer
    BY <1>8, SilentGhost DEF on_queued_paths_timer, upower_vars
  <1>9. ASSUME NEW c \in calls, CallFails(c) PROVE GhostInv'
    BY <1>9, SilentGhost DEF CallFails, upower_vars, provider_vars
  <1>10. CASE UNCHANGED vars
    BY <1>10, SilentGhost DEF vars, upower_vars, provider_vars
  <1>11. QED
    BY <1>1, <1>2, <1>3, <1>4, <1>5, <1>6, <1>7, <1>8, <1>9, <1>10, DispatchGhost
    DEF Next, Environment

LEMMA InitNames == Init => NamesInv /\ GhostInv /\ ReturnInv
  <1> SUFFICES ASSUME Init PROVE NamesInv /\ GhostInv /\ ReturnInv
    OBVIOUS
  <1>1. /\ Len(inbox) = 1 /\ inbox[1].type = "NameVanished" /\ inbox[1].owner = 0
        /\ owner = 0 /\ owners = 0 /\ subscriptions = 0 /\ upower = NoDevices
        /\ devices = NoDevices
    BY DEF Init
  <1>2. NamesInv
    BY <1>1 DEF NamesInv, NoUPowerNoDevices, OwnersAreFresh, OwnerIsAnnounced,
                NoNewsOfNames, OwnerIsLastName, NoNameBeforeRemoval
  <1>3. GhostInv /\ ReturnInv
    BY <1>1 DEF GhostInv, ReturnInv, NoDevices, Removal
  <1>4. QED
    BY <1>2, <1>3

(* A device stays in the table after UPower dropped it only while the news   *)
(* of that is on its way, if UPower drops none before the provider has       *)
(* subscribed to its signals: no late reply outlives the removal of its      *)
(* device, whatever restarts (on_get_all_response, on_upower_signal).        *)
THEOREM GhostsVanish == ASSUME ~RemovalsUnheard PROVE Spec => []NoGhost
  <1> DEFINE Inv == IInv /\ NamesInv /\ GhostInv
  <1>1. Init => Inv
    BY InitIInv, InitNames
  <1>2. Inv /\ [Next]_vars => Inv'
    BY TypeStep, OrderStep, TableStep, IgnoredStep, NamesStep, GhostStep DEF IInv
  <1>3. Inv => NoGhost
    <2> SUFFICES ASSUME GhostInv, NEW p \in Listed(devices) \ Listed(upower)
                 PROVE  \E m \in Messages : \/ m.type = "NameVanished"
                                            \/ m.type = "DeviceRemoved" /\ m.path = p
      BY DEF NoGhost
    <2>1. PICK j \in 1 .. Len(inbox) : Takes(inbox[j], p)
      BY DEF GhostInv, Listed, TakenAfter
    <2>2. QED
      BY <2>1 DEF Messages, Takes, Removal
  <1>4. QED
    BY <1>1, <1>2, <1>3, PTL DEF Spec

-----------------------------------------------------------------------------
(* No device is lost                                                         *)

LEMMA DispatchReturn == ASSUME TypeOK, ReturnInv, Dispatch PROVE ReturnInv'
  <1>1. /\ inbox \in Seq(Message) /\ inbox # <<>> /\ inbox' = Tail(inbox)
        /\ UNCHANGED <<upower, disposed>>
    BY DEF TypeOK, Dispatch, upower_vars
  <1>2. /\ \A i \in 1 .. Len(inbox') : i + 1 \in 1 .. Len(inbox) /\ inbox'[i] = inbox[i + 1]
        /\ \A i \in 1 .. Len(inbox) : 1 < i => /\ i - 1 \in 1 .. Len(inbox')
                                               /\ inbox'[i - 1] = inbox[i]
    BY <1>1, TailParts
  <1>3. ASSUME NEW p \in Paths, NEW i \in 1 .. Len(inbox'), ~disposed, upower[p] # NULL,
               Removal(inbox'[i]), inbox'[i].path = p
        PROVE  \E j \in 1 .. Len(inbox') : i < j /\ AsksFor(inbox'[j], p)
    <2>1. i + 1 \in 1 .. Len(inbox) /\ inbox'[i] = inbox[i + 1]
      BY <1>2
    <2>2. PICK j \in 1 .. Len(inbox) : i + 1 < j /\ AsksFor(inbox[j], p)
      BY <1>3, <2>1 DEF ReturnInv
    <2>3. j - 1 \in 1 .. Len(inbox') /\ inbox'[j - 1] = inbox[j] /\ i < j - 1
      BY <1>2, <2>2
    <2>4. QED
      BY <2>2, <2>3
  <1>4. QED
    BY <1>1, <1>3 DEF ReturnInv

(* A message joins the queue.  A device that is new with UPower is asked for *)
(* by it, or by one that is in the queue already.                            *)
LEMMA AppendReturn ==
    ASSUME TypeOK, ReturnInv, NEW m \in Message,
           inbox' = inbox \/ inbox' = Append(inbox, m), UNCHANGED disposed,
           \A p \in Paths : upower'[p] # NULL =>
               \/ upower[p] # NULL
               \/ inbox' # inbox /\ AsksFor(m, p)
               \/ \A i \in 1 .. Len(inbox) : Removal(inbox[i]) =>
                      \E j \in 1 .. Len(inbox) : i < j /\ AsksFor(inbox[j], p),
           Removal(m) /\ inbox' # inbox => upower'[m.path] = NULL
    PROVE  ReturnInv'
  <1>1. inbox \in Seq(Message)
    BY DEF TypeOK
  <1>2. CASE inbox' = inbox
    BY <1>2 DEF ReturnInv
  <1>3. CASE inbox' = Append(inbox, m)
    <2>1. /\ Len(inbox) \in Nat /\ Len(inbox') = Len(inbox) + 1
          /\ \A i \in 1 .. Len(inbox) : i \in 1 .. Len(inbox') /\ inbox'[i] = inbox[i]
          /\ Len(inbox) + 1 \in 1 .. Len(inbox') /\ inbox'[Len(inbox) + 1] = m
          /\ \A i \in 1 .. Len(inbox') : i \in 1 .. Len(inbox) \/ i = Len(inbox) + 1
      BY <1>1, <1>3, AppendParts
    <2>2. inbox' # inbox
      BY <2>1
    <2>3. ASSUME NEW p \in Paths, NEW i \in 1 .. Len(inbox'), ~disposed, upower'[p] # NULL,
                 Removal(inbox'[i]), inbox'[i].path = p
          PROVE  \E j \in 1 .. Len(inbox') : i < j /\ AsksFor(inbox'[j], p)
      <3>1. i \in 1 .. Len(inbox) /\ inbox'[i] = inbox[i]
        BY <2>1, <2>2, <2>3
      <3>2. CASE AsksFor(m, p)
        <4>1. i < Len(inbox) + 1
          BY <2>1, <3>1
        <4>2. QED
          BY <2>1, <3>2, <4>1
      <3>3. CASE \E j \in 1 .. Len(inbox) : i < j /\ AsksFor(inbox[j], p)
        BY <2>1, <3>3
      <3>4. CASE upower[p] # NULL
        BY <2>3, <3>1, <3>3, <3>4 DEF ReturnInv
      <3>5. QED
        BY <2>2, <2>3, <3>1, <3>2, <3>3, <3>4
    <2>4. QED
      BY <2>3 DEF ReturnInv
  <1>4. QED
    BY <1>2, <1>3

(* Before the provider has heard of the running UPower, its appearance comes *)
(* after every removal.                                                      *)
LEMMA AppearanceIsLast ==
    ASSUME TypeOK, NamesInv, ~disposed, owner # 0, subscriptions # owner
    PROVE  \E j \in 1 .. Len(inbox) :
              /\ inbox[j].type = "NameAppeared"
              /\ \A i \in 1 .. Len(inbox) : Removal(inbox[i]) => i < j
  <1>1. PICK j \in 1 .. Len(inbox) : inbox[j].type = "NameAppeared"
    BY DEF NamesInv, OwnerIsAnnounced
  <1>2. ASSUME NEW i \in 1 .. Len(inbox), Removal(inbox[i]) PROVE i < j
    <2>1. i # j
      BY <1>1, <1>2 DEF Removal
    <2>2. ~(j < i)
      BY <1>1, <1>2 DEF NamesInv, NoNameBeforeRemoval, Name
    <2>3. QED
      BY <2>1, <2>2
  <1>3. QED
    BY <1>1, <1>2

LEMMA DispatchLost ==
    ASSUME TypeOK, OrderInv, NamesInv, ReturnInv, LostInv, Dispatch
    PROVE  LostInv'
  <1> DEFINE m == inbox[1]
  <1>1. /\ inbox \in Seq(Message) /\ inbox # <<>> /\ inbox' = Tail(inbox)
        /\ UNCHANGED <<upower, owner, disposed>> /\ ~disposed
    BY DEF TypeOK, Dispatch, upower_vars
  <1>2. /\ m = Head(inbox) /\ m \in Message /\ 1 \in 1 .. Len(inbox)
        /\ \A i \in 1 .. Len(inbox) : 1 < i => /\ i - 1 \in 1 .. Len(inbox')
                                               /\ inbox'[i - 1] = inbox[i]
    BY <1>1, TailParts
  <1> SUFFICES ASSUME NEW p \in Wanted, devices'[p] = NULL PROVE Expected(p)'
    BY <1>1 DEF LostInv, Wanted, Listed
  <1>3. p \in Paths /\ upower[p] # NULL /\ p \notin Therm
    BY DEF Wanted, Listed
  <1>4. ASSUME NEW i \in 1 .. Len(inbox), 1 < i, Brings(inbox[i], p)
        PROVE  Expected(p)'
    BY <1>2, <1>4 DEF Expected
  <1>5. ASSUME devices[p] = NULL, ~Brings(m, p), p \in queued_paths => p \in queued_paths',
               calls \subseteq calls'
        PROVE  Expected(p)'
    <2>1. Expected(p)
      BY <1>1, <1>5 DEF LostInv
    <2>2. CASE \E i \in 1 .. Len(inbox) : Brings(inbox[i], p)
      <3>1. PICK i \in 1 .. Len(inbox) : Brings(inbox[i], p)
        BY <2>2
      <3>2. i # 1
        BY <1>5, <3>1
      <3>3. 1 < i
        BY <3>2
      <3>4. QED
        BY <1>4, <3>1, <3>3
    <2>3. CASE p \in queued_paths \/ EnumerateDevices \in calls \/ GetAll(p) \in calls
      BY <1>5, <2>3 DEF Expected
    <2>4. QED
      BY <2>1, <2>2, <2>3 DEF Expected
  <1>6. ASSUME NEW paths, refresh_device_soon(paths)
        PROVE  (p \in queued_paths => p \in queued_paths') /\ (p \in paths => Expected(p)')
    BY <1>3, <1>6 DEF refresh_device_soon, Expected
  <1>7. CASE m.type = "NameAppeared"
    BY <1>2, <1>7 DEF Dispatch, on_bus_name_appeared, on_upower_signal, Expected
  <1>8. CASE m.type = "NameVanished"
    <2>1. owner # 0 /\ subscriptions # owner
      BY <1>2, <1>3, <1>8 DEF NamesInv, NoUPowerNoDevices, NoDevices, NoNewsOfNames, Name
    <2>2. PICK i \in 1 .. Len(inbox) : inbox[i].type = "NameAppeared"
      BY <1>1, <2>1 DEF NamesInv, OwnerIsAnnounced
    <2>3. i # 1
      BY <1>8, <2>2
    <2>4. 1 < i
      BY <2>3
    <2>5. QED
      BY <1>4, <2>2, <2>4 DEF Brings
  <1>9. CASE m.type = "EnumerateReply"
    <2>1. on_enumerate_devices_response(m)
      BY <1>2, <1>9 DEF Dispatch, on_upower_signal
    <2>2. CASE p \in m.paths
      BY <1>6, <2>1, <2>2 DEF on_enumerate_devices_response
    <2>3. CASE p \notin m.paths
      BY <1>5, <1>6, <1>9, <2>1, <2>3 DEF on_enumerate_devices_response, Brings
    <2>4. QED
      BY <2>2, <2>3
  <1>10. CASE m.type = "GetAllReply"
    <2>1. on_get_all_response(m) /\ m.path \in Paths /\ m.reading \in Reading
      BY <1>2, <1>10, MessageParts DEF Dispatch, on_upower_signal
    <2>2. m.path # p /\ devices[p] = NULL
      BY <1>3, <2>1, NullAssumption DEF TypeOK, on_get_all_response
    <2>3. QED
      BY <1>5, <1>10, <2>1, <2>2 DEF on_get_all_response, Brings
  <1>11. CASE m.type = "PropertiesChanged"
    <2>1. /\ on_device_properties_changed(m) /\ UNCHANGED calls
          /\ m.path \in Paths /\ m.reading \in Reading
      BY <1>2, <1>11, MessageParts DEF Dispatch, on_upower_signal
    <2>2. CASE m.path = p /\ devices[p] = NULL
      BY <1>3, <1>6, <2>1, <2>2 DEF on_device_properties_changed
    <2>3. CASE m.path = p /\ devices[p] # NULL
      <3>1. devices[p] \in Reading
        BY <1>3, <2>3 DEF TypeOK
      <3>2. PICK r \in Reading : devices' = [devices EXCEPT ![p] = r]
        BY <1>3, <2>1, <2>3, <3>1 DEF Reading, on_device_properties_changed
      <3>3. QED
        BY <1>3, <3>2, NullAssumption DEF TypeOK
    <2>4. CASE m.path # p
      <3>1. /\ devices[p] = NULL
            /\ p \in queued_paths => p \in queued_paths'
        BY <1>3, <2>1, <2>4 DEF TypeOK, on_device_properties_changed, refresh_device_soon
      <3>2. QED
        BY <1>5, <1>11, <2>1, <2>4, <3>1 DEF Brings
    <2>5. QED
      BY <2>2, <2>3, <2>4
  <1>12. CASE m.type = "DeviceRemoved"
    <2>1. DeviceRemoved(m) /\ UNCHANGED calls /\ m.path \in Paths
      BY <1>2, <1>12, MessageParts DEF Dispatch, on_upower_signal
    <2>2. CASE m.path = p
      <3>1. PICK j \in 1 .. Len(inbox) : 1 < j /\ AsksFor(inbox[j], p)
        BY <1>1, <1>2, <1>3, <1>12, <2>2 DEF ReturnInv, Removal
      <3>2. Brings(inbox[j], p)
        BY <3>1 DEF AsksFor, Brings
      <3>3. QED
        BY <1>4, <3>1, <3>2
    <2>3. CASE m.path # p
      <3>1. /\ devices[p] = NULL
            /\ p \in queued_paths => p \in queued_paths'
        BY <1>3, <2>1, <2>3 DEF TypeOK, DeviceRemoved
      <3>2. QED
        BY <1>5, <1>12, <2>1, <3>1 DEF Brings
    <2>4. QED
      BY <2>2, <2>3
  <1>13. CASE m.type \in {"DeviceAdded", "DeviceChanged"}
    <2>1. refresh_device_soon({m.path}) /\ UNCHANGED <<calls, devices>>
      BY <1>2, <1>13 DEF Dispatch, on_upower_signal
    <2>2. CASE m.path = p
      BY <1>6, <2>1, <2>2
    <2>3. CASE m.path # p
      BY <1>5, <1>6, <1>13, <2>1, <2>3 DEF Brings
    <2>4. QED
      BY <2>2, <2>3
  <1>14. CASE m.type = "Resuming"
    <2>1. refresh_device_soon(Listed(devices)) /\ UNCHANGED <<calls, devices>>
      BY <1>2, <1>14 DEF Dispatch, on_upower_signal
    <2>2. QED
      BY <1>5, <1>6, <1>14, <2>1 DEF Brings
  <1>15. QED
    BY <1>2, <1>7, <1>8, <1>9, <1>10, <1>11, <1>12, <1>13, <1>14, MessageParts

(* A message joins the queue, perhaps the answer to a call that it replaces. *)
LEMMA AppendLost ==
    ASSUME TypeOK, LostInv, NEW m \in Message,
           inbox' = inbox \/ inbox' = Append(inbox, m),
           UNCHANGED <<disposed, devices, queued_paths>>,
           \A p \in Paths : upower'[p] # NULL /\ ~disposed /\ p \notin Therm \cup {DisplayDevice} =>
               \/ /\ upower[p] # NULL
                  /\ EnumerateDevices \in calls => EnumerateDevices \in calls'
                  /\ GetAll(p) \in calls => GetAll(p) \in calls'
               \/ inbox' # inbox /\ Brings(m, p)
               \/ \E j \in 1 .. Len(inbox) : Brings(inbox[j], p)
    PROVE  LostInv'
  <1> SUFFICES ASSUME ~disposed, NEW p \in Wanted', devices[p] = NULL PROVE Expected(p)'
    BY DEF LostInv
  <1>1. inbox \in Seq(Message)
    BY DEF TypeOK
  <1>2. /\ p \in Paths /\ upower'[p] # NULL /\ p \notin Therm \cup {DisplayDevice}
        /\ upower[p] # NULL => p \in Wanted
    BY DEF Wanted, Listed
  <1>3. ASSUME NEW j \in 1 .. Len(inbox), Brings(inbox[j], p) PROVE Expected(p)'
    <2>1. j \in 1 .. Len(inbox') /\ inbox'[j] = inbox[j]
      BY <1>1
    <2>2. QED
      BY <1>3, <2>1 DEF Expected
  <1>4. CASE inbox' # inbox /\ Brings(m, p)
    <2>1. inbox' = Append(inbox, m)
      BY <1>4
    <2>2. Len(inbox) + 1 \in 1 .. Len(inbox') /\ inbox'[Len(inbox) + 1] = m
      BY <1>1, <2>1, AppendParts
    <2>3. QED
      BY <1>4, <2>2 DEF Expected
  <1>5. CASE /\ upower[p] # NULL
             /\ EnumerateDevices \in calls => EnumerateDevices \in calls'
             /\ GetAll(p) \in calls => GetAll(p) \in calls'
    <2>1. Expected(p)
      BY <1>2, <1>5 DEF LostInv
    <2>2. CASE \E j \in 1 .. Len(inbox) : Brings(inbox[j], p)
      BY <1>3, <2>2
    <2>3. CASE p \in queued_paths \/ EnumerateDevices \in calls \/ GetAll(p) \in calls
      BY <1>5, <2>3 DEF Expected
    <2>4. QED
      BY <2>1, <2>2, <2>3 DEF Expected
  <1>6. QED
    BY <1>2, <1>3, <1>4, <1>5

LEMMA ReturnStep == TypeOK /\ OrderInv /\ NamesInv /\ ReturnInv /\ [Next]_vars => ReturnInv'
  <1> SUFFICES ASSUME TypeOK, OrderInv, NamesInv, ReturnInv, [Next]_vars PROVE ReturnInv'
    OBVIOUS
  <1>1. ASSUME UNCHANGED <<inbox, disposed>>,
               \A p \in Paths : upower'[p] # NULL => upower[p] # NULL
        PROVE  ReturnInv'
    BY <1>1 DEF ReturnInv
  <1>2. CASE Dispose
    BY <1>2 DEF Dispose, ReturnInv
  <1>3. ASSUME NEW present \in [Paths -> Reading \cup {NULL}], UPowerStarts(present)
        PROVE  ReturnInv'
    <2> DEFINE m == [type |-> "NameAppeared", owner |-> owners + 1]
    <2>1. m \in Message
      BY <1>3, BoundsAssumption DEF TypeOK, UPowerStarts, Owners, Message
    <2>2. UNCHANGED disposed
      BY <1>3 DEF UPowerStarts, provider_vars
    <2>3. inbox' = IF disposed THEN inbox ELSE Append(inbox, m)
      BY <1>3 DEF UPowerStarts, Send
    <2>4. ~Removal(m) /\ \A p \in Paths : AsksFor(m, p)
      BY DEF Removal, AsksFor
    <2> HIDE DEF m
    <2>5. CASE disposed
      BY <2>2, <2>5 DEF ReturnInv
    <2>6. CASE ~disposed
      <3>1. Len(inbox') = Len(inbox) + 1 /\ Len(inbox) \in Nat
        BY <2>1, <2>3, <2>6, AppendParts DEF TypeOK
      <3>2. inbox' # inbox
        BY <3>1
      <3>3. QED
        BY <2>1, <2>2, <2>3, <2>4, <2>6, <3>2, AppendReturn
    <2>7. QED
      BY <2>5, <2>6
  <1>4. CASE UPowerStops
    BY <1>4 DEF UPowerStops, ReturnInv, NoDevices
  <1>5. ASSUME NEW p \in Paths, NEW r \in Reading, DeviceAppears(p, r)
        PROVE  ReturnInv'
    <2> DEFINE m == [type |-> "DeviceAdded", owner |-> owner, path |-> p]
    <2>1. m \in Message /\ ~Removal(m) /\ AsksFor(m, p)
      BY DEF TypeOK, Message, Removal, AsksFor
    <2>2. UNCHANGED <<disposed, subscriptions>> /\ owner # 0
      BY <1>5 DEF DeviceAppears, provider_vars
    <2>3. inbox' = IF subscriptions = owner THEN Append(inbox, m) ELSE inbox
      BY <1>5 DEF DeviceAppears, Signal
    <2>4. \A q \in Paths : upower'[q] # NULL => upower[q] # NULL \/ q = p
      BY <1>5 DEF TypeOK, DeviceAppears
    <2> HIDE DEF m
    <2>5. CASE disposed
      BY <2>2, <2>5 DEF ReturnInv
    <2>6. CASE ~disposed /\ subscriptions = owner
      <3>1. Len(inbox') = Len(inbox) + 1 /\ Len(inbox) \in Nat
        BY <2>1, <2>3, <2>6, AppendParts DEF TypeOK
      <3>2. inbox' # inbox
        BY <3>1
      <3>3. QED
        BY <2>1, <2>2, <2>3, <2>4, <2>6, <3>2, AppendReturn
    <2>7. CASE ~disposed /\ subscriptions # owner
      <3>1. \A i \in 1 .. Len(inbox) : Removal(inbox[i]) =>
                \E j \in 1 .. Len(inbox) : i < j /\ AsksFor(inbox[j], p)
        BY <2>2, <2>7, AppearanceIsLast DEF AsksFor
      <3>2. QED
        BY <2>1, <2>2, <2>3, <2>4, <2>7, <3>1, AppendReturn
    <2>8. QED
      BY <2>5, <2>6, <2>7
  <1>6. ASSUME NEW p \in Paths, DeviceDisappears(p)
        PROVE  ReturnInv'
    <2> DEFINE m == [type |-> "DeviceRemoved", owner |-> owner, path |-> p]
    <2>1. m \in Message /\ m.path = p
      BY DEF TypeOK, Message
    <2>2. UNCHANGED disposed /\ (inbox' = inbox \/ inbox' = Append(inbox, m))
      BY <1>6 DEF DeviceDisappears, Signal, provider_vars
    <2>3. upower'[p] = NULL /\ \A q \in Paths : upower'[q] # NULL => upower[q] # NULL
      BY <1>6 DEF TypeOK, DeviceDisappears
    <2> HIDE DEF m
    <2>4. QED
      BY <2>1, <2>2, <2>3, AppendReturn
  <1>7. ASSUME NEW p \in Paths, NEW r \in Reading, DeviceReports(p, r)
        PROVE  ReturnInv'
    <2> DEFINE keys == {k \in {"charge", "time"} : upower[p][k] # r[k]}
    <2>1. PICK m \in Message : /\ ~Removal(m)
                               /\ inbox' = inbox \/ inbox' = Append(inbox, m)
      <3>1. /\ [type |-> "PropertiesChanged", owner |-> owner, path |-> p,
                keys |-> keys, reading |-> r] \in Message
            /\ [type |-> "DeviceChanged", owner |-> owner, path |-> p] \in Message
            /\ [type |-> "Resuming", owner |-> owner] \in Message
        BY DEF TypeOK, Message
      <3>2. \/ Signal([type |-> "PropertiesChanged", owner |-> owner, path |-> p,
                       keys |-> keys, reading |-> r])
            \/ Signal([type |-> "DeviceChanged", owner |-> owner, path |-> p])
            \/ Signal([type |-> "Resuming", owner |-> owner])
        BY <1>7 DEF DeviceReports
      <3> HIDE DEF keys
      <3>3. QED
        BY <3>1, <3>2 DEF Signal, Removal
    <2>2. UNCHANGED disposed
      BY <1>7 DEF DeviceReports, provider_vars
    <2>3. \A q \in Paths : upower'[q] # NULL => upower[q] # NULL
      BY <1>7 DEF TypeOK, DeviceReports
    <2>4. QED
      BY <2>1, <2>2, <2>3, AppendReturn
  <1>8. ASSUME NEW c \in calls, AnswerCall(c) PROVE ReturnInv'
    <2>1. UNCHANGED <<disposed, upower>>
      BY <1>8 DEF AnswerCall, provider_vars, upower_vars
    <2>2. CASE UNCHANGED inbox
      BY <1>1, <2>1, <2>2
    <2>3. CASE \E m \in Message : /\ Send(m)
                                  /\ m.type \in {"EnumerateReply", "GetAllReply"}
      BY <2>1, <2>3, AppendReturn DEF Send, Removal
    <2>4. QED
      BY <1>8, <2>2, <2>3, AnswerType
  <1>9. CASE on_queued_paths_timer
    BY <1>1, <1>9 DEF on_queued_paths_timer, upower_vars
  <1>10. ASSUME NEW c \in calls, CallFails(c) PROVE ReturnInv'
    BY <1>1, <1>10 DEF CallFails, upower_vars, provider_vars
  <1>11. CASE UNCHANGED vars
    BY <1>1, <1>11 DEF vars, upower_vars, provider_vars
  <1>12. QED
    BY <1>2, <1>3, <1>4, <1>5, <1>6, <1>7, <1>8, <1>9, <1>10, <1>11, DispatchReturn
    DEF Next, Environment

LEMMA LostStep ==
    ASSUME ~CallsMayFail, TypeOK, OrderInv, NamesInv, ReturnInv, LostInv, [Next]_vars
    PROVE  LostInv'
  <1>1. ASSUME UNCHANGED <<inbox, disposed, devices, queued_paths>>,
               calls \subseteq calls',
               \A p \in Paths : upower'[p] # NULL => upower[p] # NULL
        PROVE  LostInv'
    <2>1. \A p \in Wanted' : p \in Wanted
      BY <1>1 DEF Wanted, Listed
    <2>2. \A p \in Wanted : Expected(p) => Expected(p)'
      BY <1>1 DEF Expected
    <2>3. QED
      BY <1>1, <2>1, <2>2 DEF LostInv
  <1>2. CASE Dispose
    BY <1>2 DEF Dispose, LostInv
  <1>3. ASSUME NEW present \in [Paths -> Reading \cup {NULL}], UPowerStarts(present)
        PROVE  LostInv'
    <2> DEFINE m == [type |-> "NameAppeared", owner |-> owners + 1]
    <2>1. m \in Message
      BY <1>3, BoundsAssumption DEF TypeOK, UPowerStarts, Owners, Message
    <2>2. UNCHANGED <<disposed, devices, queued_paths>>
      BY <1>3 DEF UPowerStarts, provider_vars
    <2>3. inbox' = IF disposed THEN inbox ELSE Append(inbox, m)
      BY <1>3 DEF UPowerStarts, Send
    <2>4. \A p \in Paths : Brings(m, p)
      BY DEF Brings
    <2> HIDE DEF m
    <2>5. CASE disposed
      BY <2>2, <2>5 DEF LostInv
    <2>6. CASE ~disposed
      <3>1. Len(inbox') = Len(inbox) + 1 /\ Len(inbox) \in Nat
        BY <2>1, <2>3, <2>6, AppendParts DEF TypeOK
      <3>2. inbox' # inbox
        BY <3>1
      <3>3. QED
        BY <2>1, <2>2, <2>3, <2>4, <2>6, <3>2, AppendLost
    <2>7. QED
      BY <2>5, <2>6
  <1>4. CASE UPowerStops
    BY <1>4 DEF UPowerStops, LostInv, Wanted, Listed, NoDevices
  <1>5. ASSUME NEW p \in Paths, NEW r \in Reading, DeviceAppears(p, r)
        PROVE  LostInv'
    <2> DEFINE m == [type |-> "DeviceAdded", owner |-> owner, path |-> p]
    <2>1. m \in Message /\ Brings(m, p)
      BY DEF TypeOK, Message, Brings
    <2>2. UNCHANGED <<disposed, subscriptions, devices, queued_paths, calls>> /\ owner # 0
      BY <1>5 DEF DeviceAppears, provider_vars
    <2>3. inbox' = IF subscriptions = owner THEN Append(inbox, m) ELSE inbox
      BY <1>5 DEF DeviceAppears, Signal
    <2>4. \A q \in Paths : upower'[q] # NULL => upower[q] # NULL \/ q = p
      BY <1>5 DEF TypeOK, DeviceAppears
    <2> HIDE DEF m
    <2>5. CASE disposed
      BY <2>2, <2>5 DEF LostInv
    <2>6. CASE ~disposed /\ subscriptions = owner
      <3>1. Len(inbox') = Len(inbox) + 1 /\ Len(inbox) \in Nat
        BY <2>1, <2>3, <2>6, AppendParts DEF TypeOK
      <3>2. inbox' # inbox
        BY <3>1
      <3>3. QED
        BY <2>1, <2>2, <2>3, <2>4, <2>6, <3>2, AppendLost
    <2>7. CASE ~disposed /\ subscriptions # owner
      <3>1. \E j \in 1 .. Len(inbox) : Brings(inbox[j], p)
        BY <2>2, <2>7, AppearanceIsLast DEF Brings
      <3>2. QED
        BY <2>1, <2>2, <2>3, <2>4, <2>7, <3>1, AppendLost
    <2>8. QED
      BY <2>5, <2>6, <2>7
  <1>6. ASSUME UNCHANGED <<disposed, devices, queued_paths, calls>>,
               NEW m \in Message, inbox' = inbox \/ inbox' = Append(inbox, m),
               \A p \in Paths : upower'[p] # NULL => upower[p] # NULL
        PROVE  LostInv'
    BY <1>6, AppendLost
  <1>7. ASSUME NEW p \in Paths, DeviceDisappears(p)
        PROVE  LostInv'
    <2>1. [type |-> "DeviceRemoved", owner |-> owner, path |-> p] \in Message
      BY DEF TypeOK, Message
    <2>2. /\ UNCHANGED <<disposed, devices, queued_paths, calls>>
          /\ \E m \in Message : inbox' = inbox \/ inbox' = Append(inbox, m)
      BY <1>7, <2>1 DEF DeviceDisappears, Signal, provider_vars
    <2>3. \A q \in Paths : upower'[q] # NULL => upower[q] # NULL
      BY <1>7 DEF TypeOK, DeviceDisappears
    <2>4. QED
      BY <1>6, <2>2, <2>3
  <1>8. ASSUME NEW p \in Paths, NEW r \in Reading, DeviceReports(p, r)
        PROVE  LostInv'
    <2>1. \E m \in Message : inbox' = inbox \/ inbox' = Append(inbox, m)
      <3> DEFINE keys == {k \in {"charge", "time"} : upower[p][k] # r[k]}
      <3>1. /\ [type |-> "PropertiesChanged", owner |-> owner, path |-> p,
                keys |-> keys, reading |-> r] \in Message
            /\ [type |-> "DeviceChanged", owner |-> owner, path |-> p] \in Message
            /\ [type |-> "Resuming", owner |-> owner] \in Message
        BY DEF TypeOK, Message
      <3>2. \/ Signal([type |-> "PropertiesChanged", owner |-> owner, path |-> p,
                       keys |-> keys, reading |-> r])
            \/ Signal([type |-> "DeviceChanged", owner |-> owner, path |-> p])
            \/ Signal([type |-> "Resuming", owner |-> owner])
        BY <1>8 DEF DeviceReports
      <3> HIDE DEF keys
      <3>3. QED
        BY <3>1, <3>2 DEF Signal
    <2>2. UNCHANGED <<disposed, devices, queued_paths, calls>>
      BY <1>8 DEF DeviceReports, provider_vars
    <2>3. \A q \in Paths : upower'[q] # NULL => upower[q] # NULL
      BY <1>8 DEF TypeOK, DeviceReports
    <2>4. QED
      BY <1>6, <2>1, <2>2, <2>3
  <1>9. ASSUME NEW c \in calls, AnswerCall(c) PROVE LostInv'
    <2>1. /\ UNCHANGED <<disposed, devices, queued_paths, upower>>
          /\ calls' = calls \ {c}
      BY <1>9 DEF AnswerCall, provider_vars, upower_vars
    <2>2. CASE disposed
      BY <2>1, <2>2 DEF LostInv
    <2>3. CASE ~disposed /\ c = EnumerateDevices
      <3> DEFINE m == [type |-> "EnumerateReply", owner |-> owner,
                       paths |-> Listed(upower) \ {DisplayDevice}]
      <3>1. m \in Message
        BY DEF TypeOK, Message, Listed
      <3>2. \A p \in Paths : upower[p] # NULL /\ p # DisplayDevice => Brings(m, p)
        BY DEF Brings, Listed
      <3>3. inbox' = Append(inbox, m)
        BY <1>9, <2>3 DEF AnswerCall, Send
      <3> HIDE DEF m
      <3>4. Len(inbox') = Len(inbox) + 1 /\ Len(inbox) \in Nat
        BY <3>1, <3>3, AppendParts DEF TypeOK
      <3>5. inbox' # inbox
        BY <3>4
      <3>6. QED
        BY <2>1, <3>1, <3>2, <3>3, <3>5, AppendLost
    <2>4. CASE ~disposed /\ c # EnumerateDevices
      <3>1. PICK p \in Paths : c = GetAll(p)
        BY <2>4 DEF TypeOK, Call
      <3>2. c.path = p
        BY <3>1 DEF GetAll
      <3>3. \A q \in Paths : q # p => GetAll(q) # c
        <4>1. \A q \in Paths : GetAll(q).path = q
          BY DEF GetAll
        <4>2. QED
          BY <3>2, <4>1
      <3> DEFINE m == [type |-> "GetAllReply", owner |-> owner, path |-> p,
                       reading |-> upower[p]]
      <3>4. CASE upower[p] # NULL
        <4>1. m \in Message /\ Brings(m, p)
          BY <3>4 DEF TypeOK, Message, Brings
        <4>2. inbox' = Append(inbox, m)
          BY <1>9, <2>4, <3>2, <3>4 DEF AnswerCall, Send
        <4> HIDE DEF m
        <4>3. Len(inbox') = Len(inbox) + 1 /\ Len(inbox) \in Nat
          BY <4>1, <4>2, AppendParts DEF TypeOK
        <4>4. inbox' # inbox
          BY <4>3
        <4>5. ASSUME NEW q \in Paths, upower[q] # NULL
              PROVE  \/ /\ EnumerateDevices \in calls => EnumerateDevices \in calls'
                        /\ GetAll(q) \in calls => GetAll(q) \in calls'
                     \/ inbox' # inbox /\ Brings(m, q)
          BY <2>1, <2>4, <3>3, <4>1, <4>4
        <4>6. QED
          BY <2>1, <4>1, <4>2, <4>5, AppendLost
      <3>5. CASE upower[p] = NULL
        <4>1. UNCHANGED inbox
          BY <1>9, <2>4, <3>2, <3>5 DEF AnswerCall
        <4>2. \A q \in Wanted : GetAll(q) # c
          BY <3>3, <3>5 DEF Wanted, Listed
        <4>3. \A q \in Wanted : Expected(q) => Expected(q)'
          BY <2>1, <2>4, <4>1, <4>2 DEF Expected
        <4>4. QED
          BY <2>1, <4>3 DEF LostInv, Wanted, Listed
      <3>6. QED
        BY <3>4, <3>5
    <2>5. QED
      BY <2>2, <2>3, <2>4
  <1>10. CASE on_queued_paths_timer
    <2>1. /\ calls' = calls \cup {GetAll(p) : p \in queued_paths \ {DisplayDevice}}
          /\ UNCHANGED <<inbox, disposed, devices, upower>>
      BY <1>10 DEF on_queued_paths_timer, upower_vars
    <2>2. \A p \in Wanted : p # DisplayDevice
      BY DEF Wanted
    <2>3. \A p \in Wanted : Expected(p) => Expected(p)'
      BY <2>1, <2>2 DEF Expected
    <2>4. QED
      BY <2>1, <2>3 DEF LostInv, Wanted, Listed
  <1>11. ASSUME NEW c \in calls, CallFails(c) PROVE LostInv'
    <2>1. Wanted' = {}
      BY <1>11 DEF CallFails, NamesInv, NoUPowerNoDevices, NoDevices, Wanted, Listed,
              upower_vars
    <2>2. QED
      BY <2>1 DEF LostInv
  <1>12. CASE UNCHANGED vars
    BY <1>1, <1>12 DEF vars, upower_vars, provider_vars
  <1>13. QED
    BY <1>2, <1>3, <1>4, <1>5, <1>7, <1>8, <1>9, <1>10, <1>11, <1>12, DispatchLost
    DEF Next, Environment

(* If calls do not time out, a device that belongs into the table is in it,  *)
(* or is asked for, or a message is on its way that has it asked for: none   *)
(* is lost between the refresh queue, its timer, the calls in flight and     *)
(* restarts of UPower (refresh_device_soon, on_queued_paths_timer).          *)
THEOREM NobodyIsLost == ASSUME ~CallsMayFail PROVE Spec => []NoDeviceLost
  <1> DEFINE Inv == IInv /\ NamesInv /\ ReturnInv /\ LostInv
  <1>1. Init => Inv
    <2>1. Init => LostInv
      BY DEF Init, LostInv, Wanted, Listed, NoDevices
    <2>2. QED
      BY <2>1, InitIInv, InitNames
  <1>2. Inv /\ [Next]_vars => Inv'
    BY TypeStep, OrderStep, TableStep, IgnoredStep, NamesStep, ReturnStep, LostStep DEF IInv
  <1>3. Inv => NoDeviceLost
    <2> SUFFICES ASSUME LostInv, ~disposed, NEW p \in Wanted \ Listed(devices)
                 PROVE  \/ p \in queued_paths
                        \/ calls \cap {EnumerateDevices, GetAll(p)} # {}
                        \/ \E m \in Messages :
                              \/ m.type = "NameAppeared"
                              \/ m.type = "EnumerateReply" /\ p \in m.paths
                              \/ m.type \in {"DeviceAdded", "DeviceChanged",
                                             "PropertiesChanged", "GetAllReply"} /\ m.path = p
      BY DEF NoDeviceLost
    <2>1. Expected(p)
      BY DEF LostInv, Wanted, Listed
    <2>2. CASE \E i \in 1 .. Len(inbox) : Brings(inbox[i], p)
      BY <2>2 DEF Messages, Brings
    <2>3. QED
      BY <2>1, <2>2 DEF Expected
  <1>4. QED
    BY <1>1, <1>2, <1>3, PTL DEF Spec

-----------------------------------------------------------------------------
(* No outdated charge stays in the table.  Replies and signals that were     *)
(* overtaken by a change may still be on their way; what makes up for them   *)
(* comes later in the queue, or makes the provider ask again.                *)

(* A message that says what charge the device has.                           *)
SaysCharge(m, p) ==
    \/ m.type = "GetAllReply" /\ m.path = p
    \/ m.type = "PropertiesChanged" /\ m.path = p /\ "charge" \in m.keys

(* One that says an outdated charge; one that has the device refreshed; and  *)
(* one that says the right charge, or has all listed devices refreshed.      *)
Outdated(m, p, charge) == SaysCharge(m, p) /\ m.reading.charge # charge

Refreshes(m, p) ==
    \/ m.type = "NameAppeared"
    \/ m.type = "EnumerateReply" /\ p \in m.paths
    \/ m.type \in {"DeviceAdded", "DeviceChanged"} /\ m.path = p

Corrects(m, p, charge) ==
    \/ m.type = "Resuming"
    \/ SaysCharge(m, p) /\ m.reading.charge = charge

OutdatedAfter(i, p, charge) ==
    \E j \in 1 .. Len(inbox) : i < j /\ Outdated(inbox[j], p, charge)

RightCharge(p, charge) == devices[p] = NULL \/ devices[p].charge = charge

(* What makes the table show the charge once all is quiet.                   *)
ChargeDue(p, charge) ==
    \/ EnumerateDevices \in calls \/ GetAll(p) \in calls
    \/ p \in queued_paths /\ ~TakenAfter(0, p)
    \/ \E i \in 1 .. Len(inbox) : Refreshes(inbox[i], p) /\ ~TakenAfter(i, p)
    \/ \E i \in 1 .. Len(inbox) :
          Corrects(inbox[i], p, charge) /\ ~TakenAfter(i, p) /\ ~OutdatedAfter(i, p, charge)
    \/ RightCharge(p, charge) /\ ~OutdatedAfter(0, p, charge)

ChargeInv == ~disposed => \A p \in Wanted : ChargeDue(p, upower[p].charge)

(* What the message that is dispatched does to one device.                   *)
LEMMA DispatchEffect ==
    ASSUME TypeOK, Dispatch, NEW p \in Paths, p \notin Therm, NEW charge
    PROVE  /\ calls \subseteq calls'
           /\ p \in queued_paths /\ ~Takes(inbox[1], p) => p \in queued_paths'
           /\ Refreshes(inbox[1], p) => EnumerateDevices \in calls' \/ p \in queued_paths'
           /\ Corrects(inbox[1], p, charge) => p \in queued_paths' \/ RightCharge(p, charge)'
           /\ RightCharge(p, charge) /\ ~Outdated(inbox[1], p, charge)
                  => RightCharge(p, charge)'
  <1> DEFINE m == inbox[1]
  <1>1. m = Head(inbox) /\ m \in Message
    BY DEF TypeOK, Dispatch
  <1>2. devices \in [Paths -> Reading \cup {NULL}]
    BY DEF TypeOK
  <1>3. \A r \in Reading : r.charge = r.charge /\ r # NULL
    BY NullAssumption
  <1> DEFINE Goal == /\ calls \subseteq calls'
                     /\ p \in queued_paths /\ ~Takes(m, p) => p \in queued_paths'
                     /\ Refreshes(m, p) => EnumerateDevices \in calls' \/ p \in queued_paths'
                     /\ Corrects(m, p, charge) => p \in queued_paths' \/ RightCharge(p, charge)'
                     /\ RightCharge(p, charge) /\ ~Outdated(m, p, charge)
                            => RightCharge(p, charge)'
  <1>4. ASSUME UNCHANGED devices PROVE RightCharge(p, charge)' <=> RightCharge(p, charge)
    BY <1>4 DEF RightCharge
  <1>5. ASSUME NEW paths, refresh_device_soon(paths)
        PROVE  (p \in queued_paths => p \in queued_paths') /\ (p \in paths => p \in queued_paths')
    BY <1>5 DEF refresh_device_soon
  <1>6. CASE m.type = "NameAppeared"
    <2>1. on_bus_name_appeared(m)
      BY <1>1, <1>6 DEF Dispatch, on_upower_signal
    <2>2. QED
      BY <1>4, <1>6, <2>1 DEF on_bus_name_appeared, Corrects, SaysCharge
  <1>7. CASE m.type = "NameVanished"
    <2>1. on_bus_name_vanished(m)
      BY <1>1, <1>7 DEF Dispatch, on_upower_signal
    <2>2. RightCharge(p, charge)'
      BY <2>1 DEF on_bus_name_vanished, ForgetUPower, NoDevices, RightCharge
    <2>3. QED
      BY <1>7, <2>1, <2>2 DEF on_bus_name_vanished, Takes, Refreshes
  <1>8. CASE m.type = "EnumerateReply"
    <2>1. on_enumerate_devices_response(m)
      BY <1>1, <1>8 DEF Dispatch, on_upower_signal
    <2>2. QED
      BY <1>4, <1>5, <1>8, <2>1 DEF on_enumerate_devices_response, Refreshes, Corrects, SaysCharge
  <1>9. CASE m.type = "GetAllReply"
    <2>1. on_get_all_response(m) /\ m.path \in Paths /\ m.reading \in Reading
      BY <1>1, <1>9, MessageParts DEF Dispatch, on_upower_signal
    <2>2. CASE m.path = p
      <3>1. devices'[p] = m.reading
        BY <1>2, <2>1, <2>2 DEF on_get_all_response
      <3>2. QED
        BY <1>9, <2>1, <2>2, <3>1
        DEF on_get_all_response, Refreshes, Corrects, SaysCharge, Outdated, RightCharge
    <2>3. CASE m.path # p
      <3>1. devices'[p] = devices[p]
        BY <1>2, <2>1, <2>3 DEF on_get_all_response
      <3>2. QED
        BY <1>9, <2>1, <2>3, <3>1
        DEF on_get_all_response, Refreshes, Corrects, SaysCharge, RightCharge
    <2>4. QED
      BY <2>2, <2>3
  <1>10. CASE m.type = "PropertiesChanged"
    <2>1. /\ on_device_properties_changed(m) /\ UNCHANGED calls
          /\ m.path \in Paths /\ m.reading \in Reading
      BY <1>1, <1>10, MessageParts DEF Dispatch, on_upower_signal
    <2>2. CASE m.path = p /\ devices[p] = NULL
      <3>1. refresh_device_soon({p}) /\ UNCHANGED devices
        BY <2>1, <2>2 DEF on_device_properties_changed
      <3>2. QED
        BY <1>4, <1>5, <1>10, <2>1, <3>1 DEF Refreshes
    <2>3. CASE m.path = p /\ devices[p] # NULL
      <3>1. devices'[p].charge = IF "charge" \in m.keys THEN m.reading.charge
                                 ELSE devices[p].charge
        BY <1>2, <2>1, <2>3 DEF on_device_properties_changed
      <3>2. UNCHANGED queued_paths
        BY <2>1, <2>3 DEF on_device_properties_changed
      <3>3. QED
        BY <1>10, <2>1, <2>3, <3>1, <3>2
        DEF Refreshes, Corrects, SaysCharge, Outdated, RightCharge
    <2>4. CASE m.path # p
      <3>1. devices'[p] = devices[p]
        BY <1>2, <2>1, <2>4 DEF on_device_properties_changed
      <3>2. p \in queued_paths => p \in queued_paths'
        BY <2>1, <2>4 DEF on_device_properties_changed, refresh_device_soon
      <3>3. QED
        BY <1>10, <2>1, <2>4, <3>1, <3>2 DEF Refreshes, Corrects, SaysCharge, RightCharge
    <2>5. QED
      BY <2>2, <2>3, <2>4
  <1>11. CASE m.type = "DeviceRemoved"
    <2>1. DeviceRemoved(m) /\ UNCHANGED calls /\ m.path \in Paths
      BY <1>1, <1>11, MessageParts DEF Dispatch, on_upower_signal
    <2>2. RightCharge(p, charge) => RightCharge(p, charge)'
      BY <1>2, <2>1 DEF DeviceRemoved, RightCharge
    <2>3. QED
      BY <1>11, <2>1, <2>2 DEF DeviceRemoved, Refreshes, Corrects, SaysCharge, Takes, Removal
  <1>12. CASE m.type \in {"DeviceAdded", "DeviceChanged"}
    <2>1. refresh_device_soon({m.path}) /\ UNCHANGED <<calls, devices>>
      BY <1>1, <1>12 DEF Dispatch, on_upower_signal
    <2>2. QED
      BY <1>4, <1>5, <1>12, <2>1 DEF Refreshes, Corrects, SaysCharge
  <1>13. CASE m.type = "Resuming"
    <2>1. refresh_device_soon(Listed(devices)) /\ UNCHANGED <<calls, devices>>
      BY <1>1, <1>13 DEF Dispatch, on_upower_signal
    <2>2. p \in Listed(devices) \/ RightCharge(p, charge)
      BY DEF Listed, RightCharge
    <2>3. QED
      BY <1>4, <1>5, <1>13, <2>1, <2>2 DEF Refreshes
  <1>14. QED
    BY <1>1, <1>6, <1>7, <1>8, <1>9, <1>10, <1>11, <1>12, <1>13, MessageParts

(* So a device that was due keeps being so, or is right, as messages go.     *)
LEMMA DispatchCharge ==
    ASSUME TypeOK, Dispatch, NEW p \in Paths, p \notin Therm, NEW charge, ChargeDue(p, charge)
    PROVE  ChargeDue(p, charge)'
  <1> DEFINE m == inbox[1]
  <1>1. inbox \in Seq(Message) /\ inbox # <<>> /\ inbox' = Tail(inbox)
    BY DEF TypeOK, Dispatch
  <1>2. /\ 1 \in 1 .. Len(inbox) /\ Len(inbox) \in Nat /\ Len(inbox') = Len(inbox) - 1
        /\ \A i \in 1 .. Len(inbox') : i + 1 \in 1 .. Len(inbox) /\ inbox'[i] = inbox[i + 1]
        /\ \A i \in 1 .. Len(inbox) : 1 < i => /\ i - 1 \in 1 .. Len(inbox')
                                               /\ inbox'[i - 1] = inbox[i]
    BY <1>1, TailParts
  <1>3. /\ calls \subseteq calls'
        /\ p \in queued_paths /\ ~Takes(m, p) => p \in queued_paths'
        /\ Refreshes(m, p) => EnumerateDevices \in calls' \/ p \in queued_paths'
        /\ Corrects(m, p, charge) => p \in queued_paths' \/ RightCharge(p, charge)'
        /\ RightCharge(p, charge) /\ ~Outdated(m, p, charge) => RightCharge(p, charge)'
    BY DispatchEffect
  <1>4. ASSUME NEW i \in Int, ~TakenAfter(i, p) PROVE ~TakenAfter(i - 1, p)'
    BY <1>2, <1>4 DEF TakenAfter
  <1>5. ASSUME NEW i \in Int, ~OutdatedAfter(i, p, charge)
        PROVE  ~OutdatedAfter(i - 1, p, charge)'
    BY <1>2, <1>5 DEF OutdatedAfter
  <1>6. \A i \in 1 .. Len(inbox) : i = 1 \/ 1 < i
    BY <1>2
  <1>7. 1 - 1 = 0 /\ 1 \in Int
    OBVIOUS
  <1>8. ~TakenAfter(0, p) => ~TakenAfter(1, p) /\ ~Takes(m, p)
    BY <1>2 DEF TakenAfter
  <1>9. ~OutdatedAfter(0, p, charge) => ~OutdatedAfter(1, p, charge) /\ ~Outdated(m, p, charge)
    BY <1>2 DEF OutdatedAfter
  <1>10. ~TakenAfter(1, p) => ~TakenAfter(0, p)'
    BY <1>4, <1>7
  <1>11. ~OutdatedAfter(1, p, charge) => ~OutdatedAfter(0, p, charge)'
    BY <1>5, <1>7
  <1>12. CASE EnumerateDevices \in calls \/ GetAll(p) \in calls
    BY <1>3, <1>12 DEF ChargeDue
  <1>13. CASE p \in queued_paths /\ ~TakenAfter(0, p)
    BY <1>3, <1>8, <1>10, <1>13 DEF ChargeDue
  <1>14. CASE \E i \in 1 .. Len(inbox) : Refreshes(inbox[i], p) /\ ~TakenAfter(i, p)
    <2>1. PICK i \in 1 .. Len(inbox) : Refreshes(inbox[i], p) /\ ~TakenAfter(i, p)
      BY <1>14
    <2>2. CASE i = 1
      BY <1>3, <1>10, <2>1, <2>2 DEF ChargeDue
    <2>3. CASE 1 < i
      <3>1. i - 1 \in 1 .. Len(inbox') /\ inbox'[i - 1] = inbox[i] /\ ~TakenAfter(i - 1, p)'
        BY <1>2, <1>4, <2>1, <2>3
      <3>2. QED
        BY <2>1, <3>1 DEF ChargeDue
    <2>4. QED
      BY <1>6, <2>2, <2>3
  <1>15. CASE \E i \in 1 .. Len(inbox) :
                 Corrects(inbox[i], p, charge) /\ ~TakenAfter(i, p) /\ ~OutdatedAfter(i, p, charge)
    <2>1. PICK i \in 1 .. Len(inbox) :
              Corrects(inbox[i], p, charge) /\ ~TakenAfter(i, p) /\ ~OutdatedAfter(i, p, charge)
      BY <1>15
    <2>2. CASE i = 1
      BY <1>3, <1>10, <1>11, <2>1, <2>2 DEF ChargeDue
    <2>3. CASE 1 < i
      <3>1. /\ i - 1 \in 1 .. Len(inbox') /\ inbox'[i - 1] = inbox[i] /\ ~TakenAfter(i - 1, p)'
            /\ ~OutdatedAfter(i - 1, p, charge)'
        BY <1>2, <1>4, <1>5, <2>1, <2>3
      <3>2. QED
        BY <2>1, <3>1 DEF ChargeDue
    <2>4. QED
      BY <1>6, <2>2, <2>3
  <1>16. CASE RightCharge(p, charge) /\ ~OutdatedAfter(0, p, charge)
    BY <1>3, <1>9, <1>11, <1>16 DEF ChargeDue
  <1>17. QED
    BY <1>12, <1>13, <1>14, <1>15, <1>16 DEF ChargeDue

(* A message that neither takes the device nor says an outdated charge may   *)
(* join the queue.                                                           *)
LEMMA AppendKeepsDue ==
    ASSUME inbox \in Seq(Message), NEW m \in Message,
           inbox' = inbox \/ inbox' = Append(inbox, m),
           UNCHANGED <<devices, queued_paths>>,
           NEW p \in Paths, NEW charge,
           EnumerateDevices \in calls => EnumerateDevices \in calls',
           GetAll(p) \in calls => GetAll(p) \in calls',
           inbox' # inbox => ~Takes(m, p) /\ ~Outdated(m, p, charge),
           ChargeDue(p, charge)
    PROVE  ChargeDue(p, charge)'
  <1>1. /\ Len(inbox) \in Nat
        /\ \A i \in 1 .. Len(inbox) : i \in 1 .. Len(inbox') /\ inbox'[i] = inbox[i]
        /\ \A i \in 1 .. Len(inbox') : \/ i \in 1 .. Len(inbox)
                                       \/ inbox' # inbox /\ inbox'[i] = m
    <2>1. CASE inbox' = inbox
      BY <2>1
    <2>2. CASE inbox' = Append(inbox, m)
      <3>1. /\ Len(inbox) \in Nat /\ Len(inbox') = Len(inbox) + 1
            /\ \A i \in 1 .. Len(inbox) : i \in 1 .. Len(inbox') /\ inbox'[i] = inbox[i]
            /\ Len(inbox) + 1 \in 1 .. Len(inbox') /\ inbox'[Len(inbox) + 1] = m
            /\ \A i \in 1 .. Len(inbox') : i \in 1 .. Len(inbox) \/ i = Len(inbox) + 1
        BY <2>2, AppendParts
      <3>2. inbox' # inbox
        BY <3>1
      <3>3. QED
        BY <3>1, <3>2
    <2>3. QED
      BY <2>1, <2>2
  <1>2. ASSUME NEW i \in Int, ~TakenAfter(i, p) PROVE ~TakenAfter(i, p)'
    BY <1>1, <1>2 DEF TakenAfter
  <1>3. ASSUME NEW i \in Int, ~OutdatedAfter(i, p, charge) PROVE ~OutdatedAfter(i, p, charge)'
    BY <1>1, <1>3 DEF OutdatedAfter
  <1>4. RightCharge(p, charge) => RightCharge(p, charge)'
    BY DEF RightCharge
  <1>5. CASE \E i \in 1 .. Len(inbox) : Refreshes(inbox[i], p) /\ ~TakenAfter(i, p)
    BY <1>1, <1>2, <1>5 DEF ChargeDue
  <1>6. CASE \E i \in 1 .. Len(inbox) :
                Corrects(inbox[i], p, charge) /\ ~TakenAfter(i, p) /\ ~OutdatedAfter(i, p, charge)
    BY <1>1, <1>2, <1>3, <1>6 DEF ChargeDue
  <1>7. CASE RightCharge(p, charge) /\ ~OutdatedAfter(0, p, charge)
    BY <1>3, <1>4, <1>7 DEF ChargeDue
  <1>8. CASE p \in queued_paths /\ ~TakenAfter(0, p)
    BY <1>2, <1>8 DEF ChargeDue
  <1>9. CASE EnumerateDevices \in calls \/ GetAll(p) \in calls
    BY <1>9 DEF ChargeDue
  <1>10. QED
    BY <1>5, <1>6, <1>7, <1>8, <1>9 DEF ChargeDue

(* One that has the device refreshed or says its charge is the last word.    *)
LEMMA LastWordIsDue ==
    ASSUME inbox \in Seq(Message), NEW m \in Message, inbox' = Append(inbox, m),
           NEW p \in Paths, NEW charge, Refreshes(m, p) \/ Corrects(m, p, charge)
    PROVE  ChargeDue(p, charge)'
  <1>1. /\ Len(inbox) \in Nat /\ Len(inbox') = Len(inbox) + 1
        /\ Len(inbox) + 1 \in 1 .. Len(inbox') /\ inbox'[Len(inbox) + 1] = m
    BY AppendParts
  <1>2. PICK last \in 1 .. Len(inbox') : inbox'[last] = m /\ last = Len(inbox')
    BY <1>1
  <1>3. ~TakenAfter(last, p)' /\ ~OutdatedAfter(last, p, charge)'
    BY <1>1, <1>2 DEF TakenAfter, OutdatedAfter
  <1>4. CASE Refreshes(m, p)
    BY <1>2, <1>3, <1>4, Zenon DEF ChargeDue
  <1>5. CASE Corrects(m, p, charge)
    BY <1>2, <1>3, <1>5, Zenon DEF ChargeDue
  <1>6. QED
    BY <1>4, <1>5

(* Before the provider has heard of the running UPower, its appearance comes *)
(* after everything that takes devices off the table.                        *)
LEMMA AppearanceIsDue ==
    ASSUME TypeOK, NamesInv, ~disposed, owner # 0, subscriptions # owner,
           NEW p \in Paths
    PROVE  \E i \in 1 .. Len(inbox) : inbox[i].type = "NameAppeared" /\ ~TakenAfter(i, p)
  <1>1. PICK i \in 1 .. Len(inbox) : inbox[i].type = "NameAppeared" /\ inbox[i].owner = owner
    BY DEF NamesInv, OwnerIsAnnounced
  <1>2. ASSUME NEW j \in 1 .. Len(inbox), i < j PROVE ~Takes(inbox[j], p)
    <2>1. ~Name(inbox[j])
      BY <1>1, <1>2 DEF NamesInv, OwnerIsLastName
    <2>2. ~Removal(inbox[j])
      BY <1>1, <1>2 DEF NamesInv, NoNameBeforeRemoval, Name
    <2>3. QED
      BY <2>1, <2>2 DEF Takes, Name
  <1>3. QED
    BY <1>1, <1>2 DEF TakenAfter

(* Every step keeps each device's charge due.                                *)
LEMMA ChargeStep ==
    ASSUME ~CallsMayFail, TypeOK, OrderInv, NamesInv, ChargeInv, [Next]_vars
    PROVE  ChargeInv'
  <1>1. inbox \in Seq(Message)
    BY DEF TypeOK
  <1>2. ASSUME UNCHANGED <<inbox, disposed, devices, queued_paths, calls, upower>>
        PROVE  ChargeInv'
    BY <1>2 DEF ChargeInv, ChargeDue, Wanted, Listed, TakenAfter, OutdatedAfter, RightCharge
  <1>3. CASE Dispatch
    <2>1. UNCHANGED <<upower, disposed>> /\ ~disposed
      BY <1>3 DEF Dispatch, upower_vars
    <2>2. ASSUME NEW p \in Wanted PROVE ChargeDue(p, upower[p].charge)'
      <3>1. PICK charge : charge = upower[p].charge
        OBVIOUS
      <3>2. p \in Paths /\ p \notin Therm /\ ChargeDue(p, charge)
        BY <2>1, <2>2, <3>1 DEF ChargeInv, Wanted, Listed
      <3>3. ChargeDue(p, charge)'
        BY <1>3, <3>2, DispatchCharge
      <3>4. QED
        BY <2>1, <3>1, <3>3
    <2>3. QED
      BY <2>1, <2>2 DEF ChargeInv, Wanted, Listed
  <1>4. CASE Dispose
    BY <1>4 DEF Dispose, ChargeInv
  <1>5. ASSUME NEW present \in [Paths -> Reading \cup {NULL}], UPowerStarts(present)
        PROVE  ChargeInv'
    <2> DEFINE m == [type |-> "NameAppeared", owner |-> owners + 1]
    <2>1. m \in Message
      BY <1>5, BoundsAssumption DEF TypeOK, UPowerStarts, Owners, Message
    <2>2. UNCHANGED disposed /\ inbox' = IF disposed THEN inbox ELSE Append(inbox, m)
      BY <1>5 DEF UPowerStarts, Send, provider_vars
    <2>3. \A p \in Paths : Refreshes(m, p)
      BY DEF Refreshes
    <2> HIDE DEF m
    <2>4. ASSUME ~disposed, NEW p \in Paths, NEW charge PROVE ChargeDue(p, charge)'
      BY <1>1, <2>1, <2>2, <2>3, <2>4, LastWordIsDue
    <2>5. QED
      BY <2>2, <2>4 DEF ChargeInv, Wanted, Listed
  <1>6. CASE UPowerStops
    BY <1>6 DEF UPowerStops, ChargeInv, Wanted, Listed, NoDevices
  <1>7. ASSUME NEW c \in calls, CallFails(c) PROVE ChargeInv'
    <2>1. Wanted' = {}
      BY <1>7 DEF CallFails, NamesInv, NoUPowerNoDevices, NoDevices, Wanted, Listed,
              upower_vars
    <2>2. QED
      BY <2>1 DEF ChargeInv
  <1>8. CASE on_queued_paths_timer
    <2>1. /\ calls' = calls \cup {GetAll(p) : p \in queued_paths \ {DisplayDevice}}
          /\ UNCHANGED <<inbox, disposed, devices, upower>>
      BY <1>8 DEF on_queued_paths_timer, upower_vars
    <2>2. ASSUME NEW p \in Wanted, ChargeDue(p, upower[p].charge)
          PROVE  ChargeDue(p, upower[p].charge)'
      <3>1. p # DisplayDevice
        BY DEF Wanted
      <3>2. QED
        BY <2>1, <2>2, <3>1 DEF ChargeDue, TakenAfter, OutdatedAfter, RightCharge
    <2>3. QED
      BY <2>1, <2>2 DEF ChargeInv, Wanted, Listed
  (* A device has changed, or a call is answered; each other device keeps its *)
  (* charge, and what it waits for.                                          *)
  <1>9. ASSUME UNCHANGED <<disposed, devices, queued_paths>>,
               NEW m \in Message, inbox' = inbox \/ inbox' = Append(inbox, m),
               NEW p \in Wanted', ~disposed, upower[p] # NULL,
               upower'[p].charge = upower[p].charge,
               EnumerateDevices \in calls => EnumerateDevices \in calls',
               GetAll(p) \in calls => GetAll(p) \in calls',
               inbox' # inbox => ~Takes(m, p) /\ ~Outdated(m, p, upower'[p].charge)
        PROVE  ChargeDue(p, upower[p].charge)'
    <2>1. PICK charge : charge = upower[p].charge
      OBVIOUS
    <2>2. p \in Paths /\ ChargeDue(p, charge)
      BY <1>9, <2>1 DEF ChargeInv, Wanted, Listed
    <2>3. ChargeDue(p, charge)'
      BY <1>1, <1>9, <2>1, <2>2, AppendKeepsDue
    <2>4. QED
      BY <1>9, <2>1, <2>3
  <1>10. ASSUME NEW m \in Message, inbox' = Append(inbox, m), NEW p \in Wanted',
                Refreshes(m, p) \/ Corrects(m, p, upower'[p].charge)
         PROVE  ChargeDue(p, upower[p].charge)'
    <2>1. PICK charge : charge = upower'[p].charge
      OBVIOUS
    <2>2. ChargeDue(p, charge)'
      BY <1>1, <1>10, <2>1, LastWordIsDue DEF Wanted, Listed
    <2>3. QED
      BY <2>1, <2>2
  (* UPower's signals do not reach a provider that has yet to hear of it.    *)
  <1>11. ASSUME owner # 0, subscriptions # owner, ~disposed, UNCHANGED inbox, NEW p \in Wanted'
         PROVE  ChargeDue(p, upower[p].charge)'
    <2>1. PICK i \in 1 .. Len(inbox) : inbox[i].type = "NameAppeared" /\ ~TakenAfter(i, p)
      BY <1>11, AppearanceIsDue DEF Wanted, Listed
    <2>2. QED
      BY <1>11, <2>1 DEF ChargeDue, Refreshes, TakenAfter
  <1>12. ASSUME NEW p \in Paths, NEW r \in Reading, DeviceAppears(p, r) PROVE ChargeInv'
    <2> DEFINE m == [type |-> "DeviceAdded", owner |-> owner, path |-> p]
    <2>1. m \in Message /\ Refreshes(m, p)
      BY DEF TypeOK, Message, Refreshes
    <2>2. /\ UNCHANGED <<disposed, subscriptions, devices, queued_paths, calls>> /\ owner # 0
          /\ inbox' = IF subscriptions = owner THEN Append(inbox, m) ELSE inbox
          /\ upower' = [upower EXCEPT ![p] = r]
      BY <1>12 DEF DeviceAppears, Signal, provider_vars
    <2>3. \A q : ~Outdated(m, q, upower'[q].charge) /\ ~Takes(m, q)
      BY DEF Outdated, SaysCharge, Takes, Removal
    <2> HIDE DEF m
    <2>4. ASSUME ~disposed, NEW q \in Wanted' PROVE ChargeDue(q, upower[q].charge)'
      <3>1. CASE subscriptions # owner
        BY <1>11, <2>2, <2>4, <3>1
      <3>2. CASE subscriptions = owner /\ q = p
        BY <1>10, <2>1, <2>2, <3>2
      <3>3. CASE q # p
        <4>1. upower[q] # NULL /\ upower'[q].charge = upower[q].charge
          BY <2>2, <3>3 DEF TypeOK, Wanted, Listed
        <4>2. QED
          BY <1>9, <2>1, <2>2, <2>3, <2>4, <4>1
      <3>4. QED
        BY <3>1, <3>2, <3>3
    <2>5. QED
      BY <2>2, <2>4 DEF ChargeInv
  <1>13. ASSUME NEW p \in Paths, DeviceDisappears(p) PROVE ChargeInv'
    <2> DEFINE m == [type |-> "DeviceRemoved", owner |-> owner, path |-> p]
    <2>1. m \in Message
      BY DEF TypeOK, Message
    <2>2. /\ UNCHANGED <<disposed, devices, queued_paths, calls>>
          /\ inbox' = inbox \/ inbox' = Append(inbox, m)
          /\ upower' = [upower EXCEPT ![p] = NULL]
      BY <1>13 DEF DeviceDisappears, Signal, provider_vars
    <2>3. \A q : /\ ~Outdated(m, q, upower'[q].charge)
                 /\ q # p => ~Takes(m, q)
      BY DEF Outdated, SaysCharge, Takes, Removal
    <2> HIDE DEF m
    <2>4. ASSUME ~disposed, NEW q \in Wanted' PROVE ChargeDue(q, upower[q].charge)'
      <3>1. q # p /\ upower[q] # NULL /\ upower'[q].charge = upower[q].charge
        BY <2>2 DEF TypeOK, Wanted, Listed
      <3>2. QED
        BY <1>9, <2>1, <2>2, <2>3, <2>4, <3>1
    <2>5. QED
      BY <2>2, <2>4 DEF ChargeInv
  <1>14. ASSUME NEW p \in Paths, NEW r \in Reading, DeviceReports(p, r) PROVE ChargeInv'
    <2>1. /\ UNCHANGED <<disposed, subscriptions, devices, queued_paths, calls>> /\ owner # 0
          /\ upower[p] # NULL /\ upower' = [upower EXCEPT ![p] = r]
      BY <1>14 DEF DeviceReports, provider_vars
    <2>2. PICK m \in Message :
              /\ inbox' = IF subscriptions = owner THEN Append(inbox, m) ELSE inbox
              /\ \/ m.type = "PropertiesChanged" /\ m.path = p /\ m.reading = r
                    /\ m.keys = {k \in {"charge", "time"} : upower[p][k] # r[k]}
                 \/ m.type = "DeviceChanged" /\ m.path = p
                 \/ m.type = "Resuming"
      <3> DEFINE keys == {k \in {"charge", "time"} : upower[p][k] # r[k]}
                 m1 == [type |-> "PropertiesChanged", owner |-> owner, path |-> p,
                        keys |-> keys, reading |-> r]
                 m2 == [type |-> "DeviceChanged", owner |-> owner, path |-> p]
                 m3 == [type |-> "Resuming", owner |-> owner]
      <3>1. m1 \in Message /\ m2 \in Message /\ m3 \in Message
        BY DEF TypeOK, Message
      <3>2. Signal(m1) \/ Signal(m2) \/ Signal(m3)
        BY <1>14 DEF DeviceReports
      <3>3. /\ m1.type = "PropertiesChanged" /\ m1.path = p /\ m1.reading = r /\ m1.keys = keys
            /\ m2.type = "DeviceChanged" /\ m2.path = p
            /\ m3.type = "Resuming"
        OBVIOUS
      <3> HIDE DEF m1, m2, m3
      <3>4. QED
        BY <3>1, <3>2, <3>3 DEF Signal
    <2>3. upower'[p] = r /\ upower[p] \in Reading
      BY <2>1 DEF TypeOK
    <2>4. ASSUME ~disposed, NEW q \in Wanted' PROVE ChargeDue(q, upower[q].charge)'
      <3>1. CASE subscriptions # owner
        BY <1>11, <2>1, <2>2, <2>4, <3>1
      <3>2. CASE subscriptions = owner /\ q = p /\ upower[p].charge # r.charge
        <4>1. Refreshes(m, p) \/ Corrects(m, p, r.charge)
          BY <2>2, <3>2 DEF Refreshes, Corrects, SaysCharge
        <4>2. QED
          BY <1>10, <2>2, <2>3, <3>2, <4>1
      <3>3. CASE q # p \/ upower[p].charge = r.charge
        <4>1. upower[q] # NULL /\ upower'[q].charge = upower[q].charge
          BY <2>1, <2>3, <3>3 DEF TypeOK, Wanted, Listed
        <4>2. ~Takes(m, q) /\ ~Outdated(m, q, upower'[q].charge)
          BY <2>2, <2>3, <3>3 DEF Outdated, SaysCharge, Takes, Removal
        <4>3. QED
          BY <1>9, <2>1, <2>2, <2>4, <4>1, <4>2
      <3>4. QED
        BY <3>1, <3>2, <3>3
    <2>5. QED
      BY <2>1, <2>4 DEF ChargeInv
  <1>15. ASSUME NEW c \in calls, AnswerCall(c) PROVE ChargeInv'
    <2>1. /\ UNCHANGED <<disposed, devices, queued_paths, upower>>
          /\ calls' = calls \ {c}
      BY <1>15 DEF AnswerCall, provider_vars, upower_vars
    <2>2. CASE disposed
      BY <2>1, <2>2 DEF ChargeInv
    <2>3. CASE ~disposed /\ c = EnumerateDevices
      <3> DEFINE m == [type |-> "EnumerateReply", owner |-> owner,
                       paths |-> Listed(upower) \ {DisplayDevice}]
      <3>1. m \in Message
        BY DEF TypeOK, Message, Listed
      <3>2. \A p \in Wanted' : Refreshes(m, p)
        BY <2>1 DEF Refreshes, Listed, Wanted
      <3>3. inbox' = Append(inbox, m)
        BY <1>15, <2>3 DEF AnswerCall, Send
      <3> HIDE DEF m
      <3>4. QED
        BY <1>10, <3>1, <3>2, <3>3 DEF ChargeInv
    <2>4. CASE ~disposed /\ c # EnumerateDevices
      <3>1. PICK p \in Paths : c = GetAll(p)
        BY <2>4 DEF TypeOK, Call
      <3>2. c.path = p
        BY <3>1 DEF GetAll
      <3>3. \A q \in Paths : q # p => GetAll(q) # c
        <4>1. \A q \in Paths : GetAll(q).path = q
          BY DEF GetAll
        <4>2. QED
          BY <3>2, <4>1
      <3> DEFINE m == [type |-> "GetAllReply", owner |-> owner, path |-> p,
                       reading |-> upower[p]]
      <3>4. CASE upower[p] # NULL
        <4>1. m \in Message /\ Corrects(m, p, upower[p].charge)
          BY <3>4 DEF TypeOK, Message, Corrects, SaysCharge
        <4>2. inbox' = Append(inbox, m)
          BY <1>15, <2>4, <3>2, <3>4 DEF AnswerCall, Send
        <4>3. \A q : q # p => ~Takes(m, q) /\ ~Outdated(m, q, upower'[q].charge)
          BY DEF Takes, Removal, Outdated, SaysCharge
        <4> HIDE DEF m
        <4>4. ASSUME NEW q \in Wanted' PROVE ChargeDue(q, upower[q].charge)'
          <5>1. CASE q = p
            BY <1>10, <2>1, <4>1, <4>2, <5>1
          <5>2. CASE q # p
            <6>1. q \in Paths /\ upower[q] # NULL
              BY <2>1 DEF Wanted, Listed
            <6>2. /\ EnumerateDevices \in calls => EnumerateDevices \in calls'
                  /\ GetAll(q) \in calls => GetAll(q) \in calls'
              BY <2>1, <2>4, <3>3, <5>2, <6>1
            <6>3. QED
              BY <1>9, <2>1, <2>4, <4>1, <4>2, <4>3, <5>2, <6>1, <6>2
          <5>3. QED
            BY <5>1, <5>2
        <4>5. QED
          BY <4>4 DEF ChargeInv
      <3>5. CASE upower[p] = NULL
        <4>1. UNCHANGED inbox
          BY <1>15, <2>4, <3>2, <3>5 DEF AnswerCall
        <4>2. ASSUME NEW q \in Wanted, ChargeDue(q, upower[q].charge)
              PROVE  ChargeDue(q, upower[q].charge)'
          <5>1. GetAll(q) # c
            BY <3>3, <3>5 DEF Wanted, Listed
          <5>2. QED
            BY <2>1, <2>4, <4>1, <4>2, <5>1 DEF ChargeDue, TakenAfter, OutdatedAfter, RightCharge
        <4>3. QED
          BY <2>1, <4>2 DEF ChargeInv, Wanted, Listed
      <3>6. QED
        BY <3>4, <3>5
    <2>5. QED
      BY <2>2, <2>3, <2>4
  <1>16. CASE UNCHANGED vars
    BY <1>2, <1>16 DEF vars, upower_vars, provider_vars
  <1>17. QED
    BY <1>3, <1>4, <1>5, <1>6, <1>7, <1>8, <1>12, <1>13, <1>14, <1>15, <1>16
    DEF Next, Environment

(* When nothing is on its way and no refresh is due, the table holds exactly *)
(* the devices UPower has, the ignored ones aside, each with the charge that *)
(* UPower last said, if calls do not time out and no removal goes unheard    *)
(* (on_upower_signal, on_device_properties_changed, on_get_all_response).    *)
THEOREM QuietTableIsRight ==
    ASSUME ~CallsMayFail, ~RemovalsUnheard PROVE Spec => []QuietMeansUpToDate
  <1> DEFINE Inv == IInv /\ NamesInv /\ GhostInv /\ ReturnInv /\ LostInv /\ ChargeInv
  <1>1. Init => Inv
    <2>1. Init => LostInv /\ ChargeInv
      BY DEF Init, LostInv, ChargeInv, Wanted, Listed, NoDevices
    <2>2. QED
      BY <2>1, InitIInv, InitNames
  <1>2. Inv /\ [Next]_vars => Inv'
    BY TypeStep, OrderStep, TableStep, IgnoredStep, NamesStep, GhostStep, ReturnStep, LostStep,
       ChargeStep DEF IInv
  <1>3. Inv => QuietMeansUpToDate
    <2> SUFFICES ASSUME Inv, Quiescent
                 PROVE  /\ Listed(devices) = Wanted
                        /\ \A p \in Wanted : devices[p].charge = upower[p].charge
      BY DEF QuietMeansUpToDate
    <2>1. /\ Len(inbox) = 0 /\ calls = {} /\ queued_paths = {} /\ ~disposed
      BY DEF Quiescent, IInv, TableInv, QueueHasTimer
    <2>2. ASSUME NEW p \in Listed(devices) PROVE p \in Wanted
      <3>1. upower[p] # NULL
        BY <2>1 DEF GhostInv, TakenAfter, Listed
      <3>2. QED
        BY <3>1 DEF Wanted, Listed, IInv, IgnoredInv, IgnoredNeverListed
    <2>3. ASSUME NEW p \in Wanted PROVE p \in Listed(devices)
      BY <2>1 DEF LostInv, Expected, Wanted, Listed
    <2>4. ASSUME NEW p \in Wanted PROVE devices[p].charge = upower[p].charge
      BY <2>1, <2>3 DEF ChargeInv, ChargeDue, RightCharge, Listed
    <2>5. QED
      BY <2>2, <2>3, <2>4
  <1>4. QED
    BY <1>1, <1>2, <1>3, PTL DEF Spec
=============================================================================
