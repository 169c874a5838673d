------------------------------- MODULE MCDevice -------------------------------
(***************************************************************************)
(* A battery with and without an estimate, charging, discharging and full, *)
(* and times on either side of an hour and of a day.                       *)
(***************************************************************************)
EXTENDS DeviceProperties

Battery(state, percentage, time) ==
    [kind |-> UP_DEVICE_KIND_BATTERY, state |-> state, percentage |-> percentage,
     time |-> time]

MCReadings ==
    {Battery(s, p, t) : s \in {UP_DEVICE_STATE_CHARGING, UP_DEVICE_STATE_DISCHARGING},
                        p \in {0, 204, 855}, t \in {0, 3540, 5400, 86400}}
    \cup {Battery(UP_DEVICE_STATE_FULLY_CHARGED, 1000, 0),
          [Battery(UP_DEVICE_STATE_UNKNOWN, 0, 0) EXCEPT !.kind = UP_DEVICE_KIND_MOUSE]}

MCChargedReadings == {r \in MCReadings : r.percentage > 0}

MCSettings == [time : BOOLEAN, percentage : {TRUE}]
=============================================================================
