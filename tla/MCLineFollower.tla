--------------------------- MODULE MCLineFollower ---------------------------
(***************************************************************************)
(* A small instance of LineFollower: four channels, biases in 1/20, speeds *)
(* in tenths of a pulse per period, duties in units of 1; the left wheel's *)
(* gains of the car except for the correction limit, which is smaller so   *)
(* that the integral reaches it.                                           *)
(***************************************************************************)
EXTENDS LineFollower

OneWheel == {"left"}
BaseSpeeds == [left |-> 147, right |-> 146]
Offsets == [left |-> 58, right |-> 55]
Slopes == [left |-> 6911, right |-> 6820]
MeasuredSpeeds == {0, 150}

\* The slowest that the bias can follow the line, from the far side.
LeastBias == Min({r.bias : r \in Readings} \cap 1..Scale)
Slowest[k \in 0..Streak] ==
  IF k = 0 THEN -Scale ELSE Nearest(Alpha * LeastBias + (Scale - Alpha) * Slowest[k - 1], Scale)

ASSUME StreakAssumption == FollowsWithin(Slowest)
=============================================================================
