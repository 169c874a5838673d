--------------------------- MODULE UPowerProvider ---------------------------
(***************************************************************************)
(* IndicatorPowerDeviceProviderUPower (src/src/device-provider-upower.c):  *)
(* keeps a table of the devices that UPower reports on the system bus.     *)
(* UPower and the bus daemon are its environment.                          *)
(*                                                                         *)
(* The bus delivers what it sends to the service in order (inbox): changes *)
(* of the owner of UPower's name, UPower's signals, and its replies.  The  *)
(* main loop takes one message at a time.  A call that fails (UPower gone, *)
(* object gone, timeout) is only logged, so a failure is modelled as the   *)
(* call disappearing.  Calls in flight are a set: a second call for a path *)
(* while one is in flight is not told apart from it.                       *)
(*                                                                         *)
(* A reading stands for the properties of a device: "charge" for those     *)
(* that are taken over as they come (type, model, state, percentage) and   *)
(* "time" for the time to empty or full, which is not when it is 0.        *)
(***************************************************************************)
EXTENDS Integers, Sequences, FiniteSets

CONSTANTS
    Paths,         \* object paths of UPower's devices
    Therm,         \* those that end in "batt_therm"
    DisplayDevice, \* path of UPower's composite device
    Charges, Times,
    NULL,          \* no device at that path
    CallsMayFail,  \* may a call to a running UPower time out?
    RemovalsUnheard, \* may a UPower that just started drop a device before the
                     \* provider has subscribed to its signals?
    MaxOwners,     \* bound: how often UPower is started
    MaxInbox       \* bound: messages waiting, replies aside

ASSUME PathsAssumption == Therm \subseteq Paths /\ DisplayDevice \notin Therm
ASSUME TimesAssumption == Times \subseteq Nat
ASSUME BoundsAssumption == MaxOwners \in Nat /\ MaxInbox \in Nat
ASSUME FailureAssumption == CallsMayFail \in BOOLEAN /\ RemovalsUnheard \in BOOLEAN

Reading == [charge : Charges, time : Times]

ASSUME NullAssumption == NULL \notin Reading

VARIABLES
    \* private state of the provider
    devices,            \* the table: path -> reading, NULL when not listed
    queued_paths,       \* paths to be refreshed
    queued_paths_timer, \* is the 500 ms timer running?
    subscriptions,      \* the owner whose signals are subscribed to, or 0
    bus,                \* is there a bus connection?
    disposed,           \* my_dispose() has run
    announced,          \* the table as listeners of "devices-changed" saw it
    \* environment
    owner,              \* the running UPower, or 0
    owners,             \* how many have been started
    upower,             \* the devices it has: path -> reading or NULL
    calls,              \* calls in flight
    inbox               \* messages on their way to the main loop

provider_vars == <<devices, queued_paths, queued_paths_timer, subscriptions, bus,
                   disposed, announced>>
upower_vars   == <<owner, owners, upower>>
vars          == <<provider_vars, upower_vars, calls, inbox>>

-----------------------------------------------------------------------------
(* Messages and calls                                                        *)

Owners == 0 .. MaxOwners

EnumerateDevices == [method |-> "EnumerateDevices"]
GetAll(p) == [method |-> "GetAll", path |-> p]
Call == {EnumerateDevices} \cup {GetAll(p) : p \in Paths}

Message ==
         [type : {"NameAppeared", "NameVanished", "Resuming"}, owner : Owners]
    \cup [type : {"DeviceAdded", "DeviceChanged", "DeviceRemoved"},
          owner : Owners, path : Paths]
    \cup [type : {"PropertiesChanged"}, owner : Owners, path : Paths,
          keys : SUBSET {"charge", "time"}, reading : Reading]
    \cup [type : {"EnumerateReply"}, owner : Owners, paths : SUBSET Paths]
    \cup [type : {"GetAllReply"}, owner : Owners, path : Paths, reading : Reading]

NoDevices == [p \in Paths |-> NULL]
Listed(table) == {p \in Paths : table[p] # NULL}

TypeOK ==
    /\ devices \in [Paths -> Reading \cup {NULL}]
    /\ queued_paths \in SUBSET Paths
    /\ queued_paths_timer \in BOOLEAN
    /\ subscriptions \in Owners
    /\ bus \in BOOLEAN
    /\ disposed \in BOOLEAN
    /\ announced \in [Paths -> Reading \cup {NULL}]
    /\ owner \in Owners
    /\ owners \in Owners
    /\ upower \in [Paths -> Reading \cup {NULL}]
    /\ calls \in SUBSET Call
    /\ inbox \in Seq(Message)

(* indicator_power_device_provider_upower_init(): watching the name reports  *)
(* at once whether it has an owner.                                          *)
Init ==
    /\ devices = NoDevices
    /\ queued_paths = {}
    /\ queued_paths_timer = FALSE
    /\ subscriptions = 0
    /\ bus = FALSE
    /\ disposed = FALSE
    /\ announced = NoDevices
    /\ owner = 0
    /\ owners = 0
    /\ upower = NoDevices
    /\ calls = {}
    /\ inbox = <<[type |-> "NameVanished", owner |-> 0]>>

-----------------------------------------------------------------------------
(* The provider                                                              *)

(* Listeners re-read the table during the emission.                          *)
emit_devices_changed == announced' = devices'

(* Mistakes: the timer is not started; thermometers are not left out.        *)
Bug_RefreshWithoutTimer(paths) ==
    /\ queued_paths' = queued_paths \cup (paths \ Therm)
    /\ UNCHANGED queued_paths_timer

Bug_RefreshesThermometers(paths) ==
    /\ queued_paths' = queued_paths \cup paths
    /\ queued_paths_timer' = (queued_paths_timer \/ paths # {})

(* refresh_device_soon() for every path of a set.                            *)
refresh_device_soon(paths) ==
    /\ queued_paths' = queued_paths \cup (paths \ Therm)
    /\ queued_paths_timer' = (queued_paths_timer \/ paths \ Therm # {})

(* Mistakes: the signals of any sender are subscribed to; the devices UPower *)
(* already has are not asked for.                                            *)
Bug_SubscribesToAnyone(m) ==
    /\ bus' = TRUE
    /\ subscriptions' = NULL
    /\ calls' = calls \cup {EnumerateDevices}
    /\ UNCHANGED <<devices, queued_paths, queued_paths_timer, announced>>

Bug_AppearedDoesNotEnumerate(m) ==
    /\ bus' = TRUE
    /\ subscriptions' = m.owner
    /\ UNCHANGED <<devices, queued_paths, queued_paths_timer, announced, calls>>

on_bus_name_appeared(m) ==
    /\ bus' = TRUE
    /\ subscriptions' = m.owner
    /\ calls' = calls \cup {EnumerateDevices}
    /\ UNCHANGED <<devices, queued_paths, queued_paths_timer, announced>>

(* Mistakes: the timer goes on; the subscription stays; the devices stay.    *)
Bug_VanishedKeepsTimer ==
    /\ devices' = NoDevices
    /\ queued_paths' = {}
    /\ emit_devices_changed
    /\ subscriptions' = 0
    /\ bus' = FALSE
    /\ UNCHANGED queued_paths_timer

Bug_VanishedKeepsSubscription ==
    /\ devices' = NoDevices
    /\ queued_paths' = {}
    /\ queued_paths_timer' = FALSE
    /\ emit_devices_changed
    /\ bus' = FALSE
    /\ UNCHANGED subscriptions

Bug_VanishedKeepsDevices ==
    /\ queued_paths' = {}
    /\ queued_paths_timer' = FALSE
    /\ subscriptions' = 0
    /\ bus' = FALSE
    /\ UNCHANGED <<devices, announced>>

(* on_bus_name_vanished(): forgets everything but the calls in flight.       *)
ForgetUPower ==
    /\ devices' = NoDevices
    /\ queued_paths' = {}
    /\ queued_paths_timer' = FALSE
    /\ emit_devices_changed
    /\ subscriptions' = 0
    /\ bus' = FALSE

on_bus_name_vanished(m) == ForgetUPower /\ UNCHANGED calls

on_enumerate_devices_response(m) ==
    /\ refresh_device_soon(m.paths)
    /\ UNCHANGED <<devices, announced, subscriptions, bus, calls>>

(* Mistake: a device that is already listed is not updated.                  *)
Bug_ReplyKeepsListed(m) ==
    /\ devices' = IF devices[m.path] = NULL
                  THEN [devices EXCEPT ![m.path] = m.reading] ELSE devices
    /\ emit_devices_changed
    /\ UNCHANGED <<queued_paths, queued_paths_timer, subscriptions, bus, calls>>

(* A listed device is updated in place, an unlisted one is created; all      *)
(* properties are taken over, the time whatever it is.                       *)
on_get_all_response(m) ==
    /\ devices' = [devices EXCEPT ![m.path] = m.reading]
    /\ emit_devices_changed
    /\ UNCHANGED <<queued_paths, queued_paths_timer, subscriptions, bus, calls>>

(* A listed device takes over the properties the signal carries, but not a   *)
(* time of 0.  An unlisted one is asked for all of them later.               *)
on_device_properties_changed(m) ==
    LET old == devices[m.path]
        changed == (m.keys \cap {"charge"}) \cup
                   (IF m.reading.time # 0 THEN m.keys \cap {"time"} ELSE {})
    IN  CASE m.path \in Therm ->
                UNCHANGED <<devices, announced, queued_paths, queued_paths_timer>>
          [] m.path \notin Therm /\ old = NULL ->
                /\ refresh_device_soon({m.path})
                /\ UNCHANGED <<devices, announced>>
          [] m.path \notin Therm /\ old # NULL ->
                /\ devices' = [devices EXCEPT ![m.path] =
                      [charge |-> IF "charge" \in changed THEN m.reading.charge ELSE old.charge,
                       time   |-> IF "time" \in changed THEN m.reading.time ELSE old.time]]
                /\ IF changed # {} THEN emit_devices_changed ELSE UNCHANGED announced
                /\ UNCHANGED <<queued_paths, queued_paths_timer>>

(* Mistakes: listeners are not told; only a pending refresh is dropped.      *)
Bug_RemovedUnannounced(m) ==
    /\ devices' = [devices EXCEPT ![m.path] = NULL]
    /\ queued_paths' = queued_paths \ {m.path}
    /\ UNCHANGED <<announced, queued_paths_timer>>

Bug_RemovedOnlyFromQueue(m) ==
    /\ queued_paths' = queued_paths \ {m.path}
    /\ UNCHANGED <<devices, announced, queued_paths_timer>>

DeviceRemoved(m) ==
    /\ devices' = [devices EXCEPT ![m.path] = NULL]
    /\ queued_paths' = queued_paths \ {m.path}
    /\ emit_devices_changed
    /\ UNCHANGED queued_paths_timer

on_upower_signal(m) ==
    /\ \/ /\ m.type \in {"DeviceAdded", "DeviceChanged"}
          /\ refresh_device_soon({m.path})
          /\ UNCHANGED <<devices, announced>>
       \/ /\ m.type = "DeviceRemoved"
          /\ DeviceRemoved(m)
       \/ /\ m.type = "Resuming"
          /\ refresh_device_soon(Listed(devices))
          /\ UNCHANGED <<devices, announced>>
    /\ UNCHANGED <<subscriptions, bus, calls>>

(* The main loop dispatches the next message to its callback.                *)
Dispatch ==
    /\ ~disposed
    /\ inbox # <<>>
    /\ inbox' = Tail(inbox)
    /\ LET m == Head(inbox) IN
          \/ m.type = "NameAppeared" /\ on_bus_name_appeared(m)
          \/ m.type = "NameVanished" /\ on_bus_name_vanished(m)
          \/ m.type = "EnumerateReply" /\ on_enumerate_devices_response(m)
          \/ m.type = "GetAllReply" /\ on_get_all_response(m)
          \/ /\ m.type = "PropertiesChanged"
             /\ on_device_properties_changed(m)
             /\ UNCHANGED <<subscriptions, bus, calls>>
          \/ on_upower_signal(m)
    /\ UNCHANGED <<disposed, upower_vars>>

(* Mistake: only the devices that are already listed are asked for.          *)
Bug_TimerDropsNewPaths ==
    /\ queued_paths_timer
    /\ calls' = calls \cup {GetAll(p) : p \in queued_paths \cap Listed(devices)}
    /\ queued_paths' = {}
    /\ queued_paths_timer' = FALSE
    /\ UNCHANGED <<devices, announced, subscriptions, bus, disposed, upower_vars, inbox>>

(* The timer fires: every queued path is asked for, except the composite     *)
(* device (update_device_from_object_path).                                  *)
on_queued_paths_timer ==
    /\ queued_paths_timer
    /\ calls' = calls \cup {GetAll(p) : p \in queued_paths \ {DisplayDevice}}
    /\ queued_paths' = {}
    /\ queued_paths_timer' = FALSE
    /\ UNCHANGED <<devices, announced, subscriptions, bus, disposed, upower_vars, inbox>>

(* my_dispose(): cancels the calls, stops the timer and the name watch, and  *)
(* does what a vanished name does.  Nothing is delivered any more.           *)
Dispose ==
    /\ ~disposed
    /\ disposed' = TRUE
    /\ ForgetUPower
    /\ calls' = {}
    /\ inbox' = <<>>
    /\ UNCHANGED upower_vars

-----------------------------------------------------------------------------
(* UPower and the bus                                                        *)

Room == Len(inbox) < MaxInbox

(* What the service is sent, unless it no longer listens.                    *)
Send(m) == inbox' = IF disposed THEN inbox ELSE Append(inbox, m)

(* A signal of the running UPower reaches only those subscribed to it.       *)
Signal(m) == inbox' = IF subscriptions = owner THEN Append(inbox, m) ELSE inbox

UPowerStarts(present) ==
    /\ owner = 0 /\ owners < MaxOwners
    /\ Room
    /\ owners' = owners + 1
    /\ owner' = owners + 1
    /\ upower' = present
    /\ Send([type |-> "NameAppeared", owner |-> owners + 1])
    /\ UNCHANGED <<provider_vars, calls>>

UPowerStops ==
    /\ owner # 0
    /\ Room
    /\ owner' = 0
    /\ upower' = NoDevices
    /\ Send([type |-> "NameVanished", owner |-> owner])
    /\ calls' = {}
    /\ UNCHANGED <<provider_vars, owners>>

DeviceAppears(p, r) ==
    /\ owner # 0 /\ upower[p] = NULL
    /\ Room
    /\ upower' = [upower EXCEPT ![p] = r]
    /\ Signal([type |-> "DeviceAdded", owner |-> owner, path |-> p])
    /\ UNCHANGED <<provider_vars, calls, owner, owners>>

DeviceDisappears(p) ==
    /\ owner # 0 /\ upower[p] # NULL /\ p # DisplayDevice
    /\ subscriptions = owner \/ RemovalsUnheard
    /\ Room
    /\ upower' = [upower EXCEPT ![p] = NULL]
    /\ Signal([type |-> "DeviceRemoved", owner |-> owner, path |-> p])
    /\ UNCHANGED <<provider_vars, calls, owner, owners>>

(* A device has new properties.  UPower names those that changed (none when  *)
(* only its time stamp did), or says which device changed, or, after a sleep *)
(* it did not report about, that it is resuming.                             *)
DeviceReports(p, r) ==
    /\ owner # 0 /\ upower[p] # NULL
    /\ Room
    /\ upower' = [upower EXCEPT ![p] = r]
    /\ \/ Signal([type |-> "PropertiesChanged", owner |-> owner, path |-> p,
                  keys |-> {k \in {"charge", "time"} : upower[p][k] # r[k]},
                  reading |-> r])
       \/ Signal([type |-> "DeviceChanged", owner |-> owner, path |-> p])
       \/ Signal([type |-> "Resuming", owner |-> owner])
    /\ UNCHANGED <<provider_vars, calls, owner, owners>>

(* UPower answers a call; GetAll for a device it does not have is an error.  *)
AnswerCall(c) ==
    /\ c \in calls
    /\ owner # 0
    /\ calls' = calls \ {c}
    /\ CASE c = EnumerateDevices ->
              Send([type |-> "EnumerateReply", owner |-> owner,
                    paths |-> Listed(upower) \ {DisplayDevice}])
         [] c # EnumerateDevices /\ upower[c.path] # NULL ->
              Send([type |-> "GetAllReply", owner |-> owner, path |-> c.path,
                    reading |-> upower[c.path]])
         [] c # EnumerateDevices /\ upower[c.path] = NULL -> UNCHANGED inbox
    /\ UNCHANGED <<provider_vars, upower_vars>>

(* A call fails: nobody owns the name, or, if that may happen, a timeout.    *)
CallFails(c) ==
    /\ c \in calls
    /\ owner = 0 \/ CallsMayFail
    /\ calls' = calls \ {c}
    /\ UNCHANGED <<provider_vars, upower_vars, inbox>>

-----------------------------------------------------------------------------
Environment ==
    \/ \E present \in [Paths -> Reading \cup {NULL}] : UPowerStarts(present)
    \/ UPowerStops
    \/ \E p \in Paths, r \in Reading : DeviceAppears(p, r)
    \/ \E p \in Paths : DeviceDisappears(p)
    \/ \E p \in Paths, r \in Reading : DeviceReports(p, r)

Next ==
    \/ Dispatch
    \/ on_queued_paths_timer
    \/ Dispose
    \/ Environment
    \/ \E c \in calls : AnswerCall(c)
    \/ \E c \in calls : CallFails(c)

Spec == Init /\ [][Next]_vars

(* The main loop dispatches messages and timers, and every call is answered  *)
(* or fails: UPower is a running daemon and GDBus has a default timeout.     *)
Fairness ==
    /\ WF_vars(Dispatch)
    /\ WF_vars(on_queued_paths_timer)
    /\ \A c \in Call : WF_vars(AnswerCall(c) \/ CallFails(c))

FairSpec == Spec /\ Fairness

=============================================================================
