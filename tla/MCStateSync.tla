---------------------------- MODULE MCStateSync ----------------------------
(* StateSync for an appliance whose fan runs at one speed only in fan mode. *)
EXTENDS StateSync

CONSTANTS p1, p2, c1

FanTriggers == [COOL |-> {"HIGH", "MIDDLE"}, FANONLY |-> {"HIGH"}]
=============================================================================
