-------------------------- MODULE MCPrimaryDevice --------------------------
(* TLC instance of PrimaryDeviceProperties: a choice of devices that differ  *)
(* in everything the comparison looks at.                                    *)
EXTENDS PrimaryDeviceProperties

With(kind, state, power_supply, percentage, time) ==
    [object_path |-> kind, kind |-> kind, state |-> state, power_supply |-> power_supply,
     percentage |-> percentage, time |-> time]

Active == {With(k, s, k = "battery", p, t) :
              k \in {"battery", "mouse"}, s \in {"charging", "discharging"},
              p \in {60, 120}, t \in {0, 1, 2}}

Idle == {With(k, s, k # "mouse", 60, 1) :
            k \in {"battery", "mouse", "line-power"},
            s \in {"unknown", "empty", "fully-charged"}}

Flat == {With("battery", s, TRUE, 0, 0) : s \in {"charging", "discharging"}}

Foreign == {With("battery", "discharging", FALSE, p, 1) : p \in {60, 120}}

MCDevices == Active \cup Idle \cup Flat \cup Foreign
=============================================================================
