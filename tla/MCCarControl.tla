---------------------------- MODULE MCCarControl ----------------------------
(* Two hold times, one of them the default, and a counter that wraps.      *)
EXTENDS CarControl

MCDutyPairs == {"test"}
MCHolds == {0, 3}
=============================================================================
