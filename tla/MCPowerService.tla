--------------------------- MODULE MCPowerService ---------------------------
(* TLC instance of PowerService: two UPower devices that are batteries or a  *)
(* mouse; one battery alone is low at 10.0%, two at 10.0% and 12.0% are not. *)
EXTENDS PowerServiceProperties

CONSTANTS d1, d2

Reading(kind, state, percentage, time) ==
    [kind |-> kind, state |-> state, power_supply |-> TRUE,
     percentage |-> percentage, time |-> time]

MCReadings ==
    {Reading("battery", "discharging", 100, 1), Reading("battery", "discharging", 120, 1),
     Reading("battery", "charging", 100, 0), Reading("ups", "discharging", 100, 1)}

MCMockReadings == {Reading("battery", "discharging", p, 60 * 30) : p \in {100, 500}}

MCSettings == {[policy |-> "present", time |-> TRUE, percentage |-> FALSE],
               [policy |-> "charge", time |-> FALSE, percentage |-> TRUE]}

MCExportOutcomes == {{"Testing", "actions", "menus"}, {"Testing"}}

Symmetry == Permutations({d1, d2}) \cup Permutations(NotificationIds)
=============================================================================
