------------------------------- MODULE Chassis -------------------------------
(***************************************************************************)
(* The chassis controller (control/chassis.c, encoder build): who commands *)
(* the motors in each control loop, for how long a $DUTY test does, and    *)
(* when the wheel-speed PIDs may integrate.  A pair of duties is abstract: *)
(* "zero", the speed controller's "speed", or the pair a $DUTY asked for.  *)
(***************************************************************************)
EXTENDS Ticks

CONSTANTS
    DutyPairs,          \* pairs of duties a $DUTY request may carry
    DefaultHold,        \* the 800 ms of a request without a hold time
    IntegralDelay       \* integral_delay_ms

ASSUME ChassisAssumption ==
    /\ DefaultHold \in Timestamps \ {0}
    /\ IntegralDelay \in Timestamps
    /\ {"zero", "speed"} \cap DutyPairs = {}

VARIABLES
    target,             \* target speeds: "zero", or "line" while following it
    speed_control,      \* speed_control_active, speed_control_started_ms
    integral,           \* some wheel's PID has updated its integral
    debug_pwm,          \* debug_pwm_active, the pair, its deadline
    out                 \* the pair last written to the motors

chassisVars == <<target, speed_control, integral, debug_pwm, out>>

SpeedControlOff == [active |-> FALSE, started_ms |-> 0]
NoDebugPwm == [active |-> FALSE, pair |-> "zero", deadline_ms |-> 0]

ChassisType ==
    /\ target \in {"zero", "line"}
    /\ speed_control \in [active : BOOLEAN, started_ms : Timestamps]
    /\ integral \in BOOLEAN
    /\ debug_pwm \in [active : BOOLEAN, pair : DutyPairs \cup {"zero"},
                      deadline_ms : Timestamps]
    /\ out \in DutyPairs \cup {"zero", "speed"}

\* Control_Chassis_Init, and the zero duties of App_State_Init.
ChassisInit ==
    /\ target = "zero"
    /\ speed_control = SpeedControlOff
    /\ integral = FALSE
    /\ debug_pwm = NoDebugPwm
    /\ out = "zero"

\* Control_Chassis_SetDebugDuty
DebugDuty(pair, now_ms, hold_ms) ==
    [active |-> TRUE, pair |-> pair,
     deadline_ms |-> Later(now_ms, IF hold_ms = 0 THEN DefaultHold ELSE hold_ms)]

\* The run branch.  A wheel whose target is too small for a feed-forward has
\* its PID reset.
SpeedControl(now_ms) ==
    /\ speed_control' = IF speed_control.active THEN speed_control
                        ELSE [active |-> TRUE, started_ms |-> now_ms]
    /\ integral' \in
         {FALSE, Elapsed(now_ms, speed_control'.started_ms) >= IntegralDelay}
    /\ out' = "speed"

\* Mutant: the speed controller is not told that it was left.
SpeedControlKept == integral' = FALSE /\ UNCHANGED speed_control

\* The first lines of the debug and the idle branch.
SpeedControlLeft ==
    /\ speed_control' = [speed_control EXCEPT !.active = FALSE]
    /\ integral' = FALSE

\* Mutant: the deadline is not looked at.
DebugNeverOver(now_ms, dbg) == FALSE

\* now_ms >= chassis->debug_pwm_deadline_ms
DebugOver(now_ms, dbg) == now_ms >= dbg.deadline_ms

\* The debug and the idle branch, with dbg as Control_Chassis_SetDebugDuty may
\* just have left it.
DebugOrIdle(now_ms, dbg) ==
    /\ SpeedControlLeft
    /\ IF dbg.active /\ ~DebugOver(now_ms, dbg)
       THEN out' = dbg.pair /\ debug_pwm' = dbg
       ELSE out' = "zero" /\ debug_pwm' = IF dbg.active THEN NoDebugPwm ELSE dbg

\* Mutant: the debug branch is tried before the run branch.
DebugBeforeRun(run, now_ms, dbg) ==
    IF dbg.active THEN DebugOrIdle(now_ms, dbg)
    ELSE IF run THEN SpeedControl(now_ms) /\ debug_pwm' = dbg
    ELSE DebugOrIdle(now_ms, dbg)

\* Control_Chassis_Tick
ChassisTick(run, now_ms, dbg) ==
    IF run THEN SpeedControl(now_ms) /\ debug_pwm' = dbg
    ELSE DebugOrIdle(now_ms, dbg)
=============================================================================
