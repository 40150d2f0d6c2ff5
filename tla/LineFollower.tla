---------------------------- MODULE LineFollower ----------------------------
(***************************************************************************)
(* From the line under the sensor to the duties of the motors, once per    *)
(* control period: the line tracker (control/line_tracker.c), the PID      *)
(* (common/pid.c), the mission's targets (app/app_mission.c) and the       *)
(* wheel-speed control of the chassis (control/chassis.c).                 *)
(*                                                                         *)
(* Speeds and turns are integers of one unit, duties and gains of another; *)
(* each float of the code is rounded to the nearest of its unit.  An       *)
(* integral that its gain multiplies by zero is left at zero.              *)
(*                                                                         *)
(* A stop and a start that App_State_Tick serves within one loop leave no  *)
(* trace here: the mission sets the targets again before the chassis looks *)
(* at them, and both see the state RUN as in any other loop of the run.    *)
(* CarControl has the two commands and its IntegralAfterDelay says what    *)
(* the run that begins so inherits.                                        *)
(***************************************************************************)
EXTENDS LineSensor

CONSTANTS
  Driven,         \* the wheels whose speed control is modelled
  Base,           \* the mission's base speed of each wheel
  LineKp, LineKd, LineDen,   \* gains of the line PID, over LineDen
  TurnLimit,      \* APP_LINE_TURN_LIMIT
  LostDiff,       \* TRACK_LOST_DIFF
  MinPulse,       \* forward_min_pulse
  Offset, Slope, SlopeDen,   \* feed-forward of each wheel: slope over SlopeDen
  Kp, Ki, Den,    \* gains of the wheel-speed PIDs, over Den; their kd is zero
  CorrectionLimit,  \* speed_correction_limit
  OutLimit,       \* speed_out_limit
  Delay,          \* control periods of integral_delay_ms
  Speeds,         \* speeds that may be measured
  Streak          \* samples on one side that the bias must follow

ASSUME FollowerAssumption ==
  /\ Driven \subseteq {"left", "right"}
  /\ \A w \in {"left", "right"} : Base[w] \in Nat
  /\ LineKp \in Nat /\ LineKd \in Nat /\ LineDen \in Nat \ {0}
  /\ \A n \in {TurnLimit, LostDiff, MinPulse, CorrectionLimit, OutLimit, Delay} : n \in Nat
  /\ \A w \in {"left", "right"} : Offset[w] \in Nat /\ Slope[w] \in Nat \ {0}
  /\ SlopeDen \in Nat \ {0}
  /\ Kp \in Nat /\ Ki \in Nat \ {0} /\ Den \in Nat \ {0}
  /\ Speeds \subseteq Nat
  /\ Streak \in Nat \ {0}

(* The largest turn the tracker asks for: the line PID's, at the largest    *)
(* bias and change of bias, or the search's.                                *)
LargestTurn == Max({LostDiff, Nearest((LineKp + 2 * LineKd) * Scale, LineDen)})

(* The gains are mild: no turn takes all of the speed from a wheel.         *)
ASSUME TurnAssumption ==
  \A w \in {"left", "right"} : Base[w] - Min({TurnLimit, LargestTurn}) > MinPulse

VARIABLES
  run,        \* the state is RUN
  frame,      \* the line sensor's frame
  line_pid,   \* prev_err of the line PID
  line_turn,  \* the turn the mission applies
  target,     \* target speed of each wheel
  speed,      \* speed_control_active and the periods since it was set
  integral,   \* integral of each wheel's PID
  inRun,      \* control periods for which every loop has ended in RUN, up to Delay
  pwm,        \* the duty of each wheel
  side        \* samples in a row on one side of the line, signed

lineVars == <<run, frame, line_pid, line_turn, target, speed, integral, inRun, pwm, side>>

(* Mutant: a lost line makes the car pivot. *)
LostTurnPivots(hold) ==
  IF hold > 0 THEN Base["left"] ELSE IF hold < 0 THEN -Base["left"] ELSE 0

(* Control_LineTracker_Update without a line. *)
LostTurn(hold) ==
  IF hold > 0 THEN LostDiff ELSE IF hold < 0 THEN -LostDiff ELSE 0

(* PID_Update of the line: setpoint 0, ki zero. *)
LineError(f) == -f.bias
LineOut(f, prev) ==
  Clamp(Nearest(LineKp * LineError(f) + LineKd * (LineError(f) - prev), LineDen),
        -TurnLimit, TurnLimit)

TrackerTurn(f) == IF f.on_line THEN LineOut(f, line_pid) ELSE LostTurn(f.last_bias)

(* feedforward_pwm *)
FeedForward(w, t) ==
  IF t <= MinPulse THEN 0 ELSE Nearest((t + Offset[w]) * SlopeDen, Slope[w])

(* The integral of PID_Update: clamped to what the correction limit allows. *)
Accumulated(i, err) ==
  LET limit == (CorrectionLimit * Den) \div Ki IN Clamp(i + err, -limit, limit)

(* update_speed_pid: before the delay is over the integral stays empty. *)
IntegralAfter(i, err, allowed) == IF allowed THEN Accumulated(i, err) ELSE 0

Correction(i, err) ==
  Clamp(Nearest(Kp * err + Ki * i, Den), -CorrectionLimit, CorrectionLimit)

Duty(ff, correction) == Clamp(ff + correction, 0, OutLimit)

-----------------------------------------------------------------------------
Idle == [w \in Driven |-> 0]

LineInit ==
  /\ run = FALSE
  /\ frame = NoFrame
  /\ line_pid = 0
  /\ line_turn = 0
  /\ target = [w \in {"left", "right"} |-> 0]
  /\ speed = [active |-> FALSE, age |-> 0]
  /\ integral = Idle
  /\ inRun = 0
  /\ pwm = Idle
  /\ side = 0

(* App_Mission_Tick in RUN: the line is read, the targets lean with it. *)
Follow(reading) ==
  /\ frame' = FrameUpdate(frame, reading)
  /\ line_turn' = Clamp(TrackerTurn(frame'), -TurnLimit, TurnLimit)
  /\ line_pid' = IF frame'.on_line THEN LineError(frame') ELSE line_pid
  /\ target' = [left |-> Base["left"] - line_turn', right |-> Base["right"] + line_turn']
  /\ side' = IF ~reading.on_line THEN side
             ELSE IF reading.bias > 0 THEN Min({Max({side, 0}) + 1, Streak})
             ELSE IF reading.bias < 0 THEN Max({Min({side, 0}) - 1, -Streak})
             ELSE 0

(* App_Mission_Tick outside of RUN: the sensor is not read. *)
Stand ==
  /\ line_turn' = 0
  /\ target' = [w \in {"left", "right"} |-> 0]
  /\ UNCHANGED <<frame, line_pid, side>>

(* Control_Chassis_Tick in RUN, with the speeds measured. *)
Drive(measured) ==
  LET age == IF speed.active THEN Min({speed.age + 1, Delay}) ELSE 0
      before == IF speed.active THEN integral ELSE Idle
      ff == [w \in Driven |-> FeedForward(w, target'[w])]
      err == [w \in Driven |-> target'[w] - measured[w]]
  IN  /\ speed' = [active |-> TRUE, age |-> age]
      /\ integral' = [w \in Driven |->
           IF ff[w] > 0 THEN IntegralAfter(before[w], err[w], age >= Delay) ELSE 0]
      /\ pwm' = [w \in Driven |->
           Duty(ff[w], IF ff[w] > 0 THEN Correction(integral'[w], err[w]) ELSE 0)]

(* Mutant: the integrals survive a stop. *)
CoastKeeps ==
  /\ pwm' = Idle
  /\ UNCHANGED <<speed, integral>>

(* Control_Chassis_Tick outside of RUN. *)
Coast ==
  /\ speed' = [speed EXCEPT !.active = FALSE]
  /\ integral' = Idle
  /\ pwm' = Idle

(* One loop of control_task, after App_State_Tick left RUN or another state. *)
RunTick(reading, measured) ==
  /\ run' = TRUE
  /\ inRun' = IF run THEN Min({inRun + 1, Delay}) ELSE 0
  /\ Follow(reading)
  /\ Drive(measured)

StandTick == run' = FALSE /\ inRun' = 0 /\ Stand /\ Coast

LineNext ==
  \/ StandTick
  \/ \E reading \in Readings, measured \in [Driven -> Speeds] :
       RunTick(reading, measured)

LineSpec == LineInit /\ [][LineNext]_lineVars

-----------------------------------------------------------------------------
(* low[k] is a bias that the low pass has reached after k samples on one    *)
(* side, whatever it held before: Streak samples pull it over to that side. *)
FollowsWithin(low) ==
  /\ low \in [0..Streak -> Int]
  /\ low[0] <= -Scale /\ low[Streak] > 0
  /\ \A k \in 0..Streak - 1 :
       /\ low[k] <= low[k + 1]
       /\ \A r \in Readings : \A b \in {r.bias, -r.bias} : b > 0 =>
            low[k + 1] <= Nearest(Alpha * b + (Scale - Alpha) * low[k], Scale)

(* A line that left the sensor on a side where it was seen Streak times in  *)
(* a row is remembered on that side, whatever the low pass still held from  *)
(* before (dev_line_sensor.c:171-185): the search starts from there.        *)
SeekRemembersSide ==
  /\ side = Streak => frame.last_bias > 0
  /\ side = -Streak => frame.last_bias < 0

(* In RUN no line, and no loss of one, makes a wheel's target drop to where *)
(* its feed-forward ends: the car turns without stopping a wheel, pivoting  *)
(* or reversing (line_tracker.c:37-45, app_mission.c:26-30).                *)
BothWheelsForward ==
  run => \A w \in {"left", "right"} : target[w] > MinPulse

(* A wheel has an integral only after every loop of the delay has ended in  *)
(* RUN, and its share of a correction never exceeds the limit: a loop that  *)
(* ends in another state empties it and the delay is waited for again       *)
(* (chassis.c:266-275, 308-326, pid.c:32-38).  A run that is stopped and    *)
(* started again within one loop is no such break: IntegralAfterDelay of    *)
(* CarControl is about that one.                                            *)
IntegralEarned ==
  \A w \in Driven :
    /\ integral[w] # 0 => run /\ inRun >= Delay
    /\ Ki * integral[w] \in -(CorrectionLimit * Den)..(CorrectionLimit * Den)
=============================================================================
