---------------------- MODULE UPowerProviderProperties ----------------------
(***************************************************************************)
(* What the provider must guarantee: its table follows UPower, through     *)
(* restarts of UPower, devices that come and go while calls are in flight, *)
(* and its own batching of refreshes.                                      *)
(***************************************************************************)
EXTENDS UPowerProvider

Messages == {inbox[i] : i \in 1 .. Len(inbox)}

(* Devices of UPower that belong into the table.                             *)
Wanted == Listed(upower) \ (Therm \cup {DisplayDevice})

(* Nothing is on its way and nothing is waiting for the timer.               *)
Quiescent == inbox = <<>> /\ calls = {} /\ ~queued_paths_timer /\ ~disposed

-----------------------------------------------------------------------------
(* Invariants                                                                *)

(* A path that waits for a refresh gets it: the timer is running.            *)
QueueHasTimer == queued_paths # {} => queued_paths_timer

(* The timer's callback uses the bus connection; it never runs without one,  *)
(* whatever was in flight when the name vanished or the provider went.       *)
TimerNeedsBus == queued_paths_timer => bus

(* Both: every path that waits is refreshed, and over a connection that      *)
(* exists, in whatever order UPower restarts, timers fire and replies come.  *)
QueueIsRefreshed == QueueHasTimer /\ TimerNeedsBus

(* While UPower's name has no owner, no device and no subscription is left;  *)
(* no late reply or signal of the UPower that is gone brings one back.       *)
NothingWithoutOwner ==
    ~bus => Listed(devices) = {} /\ queued_paths = {} /\ subscriptions = 0

(* Listeners of "devices-changed" never hold an outdated table.              *)
Announced == announced = devices

(* A device stays listed after UPower dropped it only while the news of it   *)
(* is on its way.                                                            *)
NoGhost ==
    \A p \in Listed(devices) \ Listed(upower) :
        \E m \in Messages : \/ m.type = "NameVanished"
                            \/ m.type = "DeviceRemoved" /\ m.path = p

(* The composite device and thermometers posing as batteries never appear.   *)
IgnoredNeverListed == Listed(devices) \cap (Therm \cup {DisplayDevice}) = {}

(* If calls do not fail, no device is lost: a device that belongs into the   *)
(* table is in it, or something is under way that will put it there.         *)
NoDeviceLost ==
    ~disposed /\ ~CallsMayFail =>
        \A p \in Wanted \ Listed(devices) :
            \/ p \in queued_paths
            \/ calls \cap {EnumerateDevices, GetAll(p)} # {}
            \/ \E m \in Messages :
                  \/ m.type = "NameAppeared"
                  \/ m.type = "EnumerateReply" /\ p \in m.paths
                  \/ m.type \in {"DeviceAdded", "DeviceChanged",
                                 "PropertiesChanged", "GetAllReply"} /\ m.path = p

(* When all is quiet the table shows what UPower last said, the time aside.  *)
QuietMeansUpToDate ==
    Quiescent /\ ~CallsMayFail =>
        /\ Listed(devices) = Wanted
        /\ \A p \in Wanted : devices[p].charge = upower[p].charge

-----------------------------------------------------------------------------
(* Liveness, if calls do not fail                                            *)

(* A device UPower has is listed in the end, or UPower drops it or stops, or *)
(* the provider is disposed of.                                              *)
DeviceIsListed ==
    \A p \in Paths \ (Therm \cup {DisplayDevice}) :
        (p \in Wanted) ~> (p \in Listed(devices) \/ p \notin Wanted \/ disposed)

(* A device UPower no longer has is unlisted in the end, or comes back.      *)
DeviceIsUnlisted ==
    \A p \in Paths :
        (p \notin Listed(upower)) ~> (p \notin Listed(devices) \/ p \in Listed(upower))
=============================================================================
