----------------------------- MODULE MotorSafety -----------------------------
(***************************************************************************)
(* The motor module (bsp_motor.c, dev_motor.c, drv_hbridge_motor.c) under  *)
(* its three callers of different priority:                                *)
(*                                                                         *)
(*   control (3)  writes a duty to each motor, several memory and register *)
(*                writes per motor, and may be preempted between any two;  *)
(*   fast    (4)  runs BSP_Motor_SafetyTick, the 100 ms command timeout;   *)
(*   health  (5)  runs System_Fault_Raise, which writes zero to both; so   *)
(*                does the IMU task (4) when its sensor does not start.    *)
(*                                                                         *)
(* A command is stamped with g_tick_ms, a copy of the tick counter that    *)
(* control, fast and telemetry (2) each overwrite with the reading taken   *)
(* at the top of their loops, so a preempted task can set it back.         *)
(*                                                                         *)
(* A timestamp is represented by its age, which is what the code computes  *)
(* from it: (uint32_t)(a - b) is the age of b minus the age of a, and a    *)
(* negative difference is a number near 2^32.  Ages stop growing at MaxAge.*)
(***************************************************************************)
EXTENDS Integers

CONSTANTS
    Requests,           \* duties the control laws and $DUTY ask for
    PwmMax,             \* PWM_MAX
    CommandTimeout,     \* MOTOR_COMMAND_TIMEOUT_MS
    FastPeriod,         \* APP_FAST_TASK_PERIOD_MS
    FastLatency,        \* ticks from the fast task's release to its SafetyTick
    MaxAge              \* bound: readings this old are only known to be old

ASSUME MotorAssumption ==
    /\ Requests \subseteq Int
    /\ PwmMax \in Nat \ {0}
    /\ CommandTimeout \in Nat
    /\ FastPeriod \in Nat \ {0}
    /\ FastLatency \in 0 .. (FastPeriod - 1)
    /\ MaxAge \in Nat
    /\ CommandTimeout + FastPeriod + FastLatency < MaxAge

VARIABLES
    duty,               \* duty[m]: the duty field of s_motor[m]
    bridge,             \* bridge[m]: the pins and the PWM compare of motor m
    commandAge,         \* of s_last_command_ms
    tickAge,            \* of g_tick_ms
    cpc, cnowAge,       \* control task: program counter, age of its `now`
    request,            \* the two duties being written
    ch, wstep,          \* the motor being written, next bridge write
    after,              \* where the control task goes on after the pair
    fpc, fnowAge, phase,\* fast task, and ticks since its last release
    tpc, tnowAge,       \* telemetry task
    \* Ghosts.
    callAge,            \* since SetDuty last wrote a duty or its stamp
    stopped             \* a stop preempted the control loop since its top

ctlVars  == <<cpc, cnowAge, request, ch, wstep, after>>
fastVars == <<fpc, fnowAge>>
telVars  == <<tpc, tnowAge>>
vars == <<duty, bridge, commandAge, tickAge, ctlVars, fastVars, phase, telVars,
          callAge, stopped>>

Motors == {0, 1}
Ages   == 0 .. MaxAge
Duties == -PwmMax .. PwmMax
Pins   == [in1 : {0, 1}, in2 : {0, 1}, pwm : 0 .. PwmMax]

Older(age) == IF age = MaxAge THEN age ELSE age + 1

-----------------------------------------------------------------------------
(* The motor module.                                                       *)

\* Mutant: the clamp of Dev_Motor_SetDuty alone, both ways.
ClampedBothWays(d) == IF d > PwmMax THEN PwmMax ELSE IF d < -PwmMax THEN -PwmMax ELSE d

\* The clamps of BSP_Motor_SetDuty: no reverse, at most PWM_MAX.
Clamped(d) == IF d > PwmMax THEN PwmMax ELSE IF d < 0 THEN 0 ELSE d

Coasting == [in1 |-> 0, in2 |-> 0, pwm |-> 0]

\* What Drv_HBridgeMotor_SetSignedDuty writes; both motors are mounted with
\* direction -1, so a positive duty raises IN1.
Target(d) ==
    IF d = 0 THEN Coasting
    ELSE IF d > 0 THEN [in1 |-> 1, in2 |-> 0, pwm |-> d]
    ELSE [in1 |-> 0, in2 |-> 1, pwm |-> -d]

\* Mutant: coasting leaves the PWM compare as it is.
WriteOrderKeepsPwm(d) ==
    IF d = 0 THEN <<"in1", "in2", "in2">> ELSE <<"in1", "in2", "pwm">>

\* ... and in which order: coasting drops the PWM first, driving raises it last.
WriteOrder(d) ==
    IF d = 0 THEN <<"pwm", "in1", "in2">> ELSE <<"in1", "in2", "pwm">>

\* One of those writes: pin takes its value in t, the others keep theirs in b.
WritePin(b, pin, t) ==
    [in1 |-> IF pin = "in1" THEN t.in1 ELSE b.in1,
     in2 |-> IF pin = "in2" THEN t.in2 ELSE b.in2,
     pwm |-> IF pin = "pwm" THEN t.pwm ELSE b.pwm]

\* Dev_Motor_SetSignedDuty(m, 0) for both motors, by a caller that the control
\* task cannot preempt.
StopBoth ==
    /\ duty' = [m \in Motors |-> 0]
    /\ bridge' = [m \in Motors |-> Coasting]
    /\ stopped' = (stopped \/ cpc # "delay")

\* (uint32_t)(now_ms - s_last_command_ms) > MOTOR_COMMAND_TIMEOUT_MS
TimedOut ==
    IF commandAge >= fnowAge THEN commandAge - fnowAge > CommandTimeout
    ELSE TRUE

-----------------------------------------------------------------------------
(* BSP_Motor_Init and the start of the scheduler.                          *)

Init ==
    /\ duty = [m \in Motors |-> 0]
    /\ bridge = [m \in Motors |-> Coasting]
    /\ commandAge = 0 /\ tickAge = 0
    /\ cpc = "delay" /\ cnowAge = 0
    /\ request = [m \in Motors |-> 0]
    /\ ch = 0 /\ wstep = 1 /\ after = "delay"
    /\ fpc = "sample" /\ fnowAge = 0 /\ phase = 0
    /\ tpc = "delay" /\ tnowAge = 0
    /\ callAge = 0
    /\ stopped = FALSE

-----------------------------------------------------------------------------
(* The control task.                                                       *)

\* Mutant: the control task does not wait for the fast task.
CtlRunsBesideFast == TRUE

CtlRuns == fpc = "delay"

CtlSample ==
    /\ CtlRuns /\ cpc = "delay"
    /\ cpc' = "store" /\ cnowAge' = 0
    /\ stopped' = FALSE
    /\ UNCHANGED <<duty, bridge, commandAge, tickAge, request, ch, wstep, after,
                   fastVars, phase, telVars, callAge>>

\* g_tick_ms = now
CtlStore ==
    /\ CtlRuns /\ cpc = "store"
    /\ cpc' = "decide" /\ tickAge' = cnowAge /\ cnowAge' = 0
    /\ UNCHANGED <<duty, bridge, commandAge, request, ch, wstep, after,
                   fastVars, phase, telVars, callAge, stopped>>

BeginPair(left, right, next) ==
    /\ request' = [m \in Motors |-> Clamped(IF m = 0 THEN left ELSE right)]
    /\ ch' = 0 /\ cpc' = "duty" /\ after' = next

\* App_State_Set outside RUN: zero to both motors, then on with the loop.
CtlStateStop ==
    /\ CtlRuns /\ cpc = "decide"
    /\ BeginPair(0, 0, "decide")
    /\ UNCHANGED <<duty, bridge, commandAge, tickAge, cnowAge, wstep,
                   fastVars, phase, telVars, callAge, stopped>>

\* Control_Chassis_Tick: the pair of its run, debug or idle branch.
CtlChassisTick ==
    /\ CtlRuns /\ cpc = "decide"
    /\ \E left, right \in Requests : BeginPair(left, right, "delay")
    /\ UNCHANGED <<duty, bridge, commandAge, tickAge, cnowAge, wstep,
                   fastVars, phase, telVars, callAge, stopped>>

\* motor->duty = duty
CtlWriteDuty ==
    /\ CtlRuns /\ cpc = "duty"
    /\ duty' = [duty EXCEPT ![ch] = request[ch]]
    /\ callAge' = 0
    /\ cpc' = "bridge" /\ wstep' = 1
    /\ UNCHANGED <<bridge, commandAge, tickAge, cnowAge, request, ch, after,
                   fastVars, phase, telVars, stopped>>

\* One register write of Coast or SetSignedDuty, with the duty the caller
\* passed, whatever motor->duty holds by now.
CtlWriteBridge ==
    /\ CtlRuns /\ cpc = "bridge"
    /\ bridge' = [bridge EXCEPT ![ch] =
                     WritePin(@, WriteOrder(request[ch])[wstep], Target(request[ch]))]
    /\ IF wstep < 3
       THEN wstep' = wstep + 1 /\ UNCHANGED cpc
       ELSE wstep' = 1 /\ cpc' = "stamp"
    /\ UNCHANGED <<duty, commandAge, tickAge, cnowAge, request, ch, after,
                   fastVars, phase, telVars, callAge, stopped>>

\* s_last_command_ms = Drv_Time_Millis()
CtlStamp ==
    /\ CtlRuns /\ cpc = "stamp"
    /\ commandAge' = tickAge
    /\ callAge' = 0
    /\ IF ch = 0
       THEN ch' = 1 /\ cpc' = "duty" /\ UNCHANGED <<request, after>>
       ELSE /\ ch' = 0 /\ cpc' = after /\ after' = "delay"
            /\ request' = [m \in Motors |-> 0]
    /\ UNCHANGED <<duty, bridge, tickAge, cnowAge, wstep,
                   fastVars, phase, telVars, stopped>>

-----------------------------------------------------------------------------
(* The fast task.                                                          *)

FastSample ==
    /\ fpc = "sample"
    /\ fpc' = "store" /\ fnowAge' = 0
    /\ UNCHANGED <<duty, bridge, commandAge, tickAge, ctlVars, phase, telVars,
                   callAge, stopped>>

FastStore ==
    /\ fpc = "store"
    /\ fpc' = "safety" /\ tickAge' = fnowAge
    /\ UNCHANGED <<duty, bridge, commandAge, ctlVars, fnowAge, phase, telVars,
                   callAge, stopped>>

\* Mutant: the right motor is forgotten.
SafetyTickLeft ==
    /\ fpc = "safety"
    /\ IF duty[0] # 0 /\ TimedOut THEN StopBoth ELSE UNCHANGED <<duty, bridge, stopped>>
    /\ fpc' = "delay" /\ fnowAge' = 0
    /\ UNCHANGED <<commandAge, tickAge, ctlVars, phase, telVars, callAge>>

\* BSP_Motor_SafetyTick(now)
SafetyTick ==
    /\ fpc = "safety"
    /\ IF (\E m \in Motors : duty[m] # 0) /\ TimedOut
       THEN StopBoth
       ELSE UNCHANGED <<duty, bridge, stopped>>
    /\ fpc' = "delay" /\ fnowAge' = 0
    /\ UNCHANGED <<commandAge, tickAge, ctlVars, phase, telVars, callAge>>

-----------------------------------------------------------------------------
(* System_Fault_Raise in the health or the IMU task, and the telemetry     *)
(* task's copy of the tick counter.                                        *)

RaiseStop ==
    /\ StopBoth
    /\ commandAge' = tickAge
    /\ callAge' = 0
    /\ UNCHANGED <<tickAge, ctlVars, fastVars, phase, telVars>>

TelRuns == fpc = "delay" /\ cpc = "delay"

TelSample ==
    /\ TelRuns /\ tpc = "delay"
    /\ tpc' = "store" /\ tnowAge' = 0
    /\ UNCHANGED <<duty, bridge, commandAge, tickAge, ctlVars, fastVars, phase,
                   callAge, stopped>>

TelStore ==
    /\ TelRuns /\ tpc = "store"
    /\ tpc' = "delay" /\ tickAge' = tnowAge /\ tnowAge' = 0
    /\ UNCHANGED <<duty, bridge, commandAge, ctlVars, fastVars, phase,
                   callAge, stopped>>

-----------------------------------------------------------------------------
\* SysTick: every reading is one tick older, the fast task is released each
\* period and has reached its SafetyTick within its latency.
Tick ==
    /\ fpc # "delay" => phase < FastLatency
    /\ IF phase + 1 = FastPeriod
       THEN phase' = 0 /\ fpc' = "sample"
       ELSE phase' = phase + 1 /\ UNCHANGED fpc
    /\ commandAge' = Older(commandAge) /\ tickAge' = Older(tickAge)
    /\ callAge' = Older(callAge)
    /\ cnowAge' = (IF cpc = "store" THEN Older(cnowAge) ELSE cnowAge)
    /\ fnowAge' = (IF fpc \in {"store", "safety"} THEN Older(fnowAge) ELSE fnowAge)
    /\ tnowAge' = (IF tpc = "store" THEN Older(tnowAge) ELSE tnowAge)
    /\ UNCHANGED <<duty, bridge, cpc, request, ch, wstep, after, tpc, stopped>>

ControlStep ==
    \/ CtlSample \/ CtlStore \/ CtlStateStop \/ CtlChassisTick
    \/ CtlWriteDuty \/ CtlWriteBridge \/ CtlStamp

FastStep == FastSample \/ FastStore \/ SafetyTick

TelemetryStep == TelSample \/ TelStore

Next == ControlStep \/ FastStep \/ RaiseStop \/ TelemetryStep \/ Tick

Spec == Init /\ [][Next]_vars

-----------------------------------------------------------------------------
(* Properties.                                                             *)

\* Every variable keeps its C type, and every pin its range.
TypeOK ==
    /\ duty \in [Motors -> Duties] /\ bridge \in [Motors -> Pins]
    /\ commandAge \in Ages /\ tickAge \in Ages /\ callAge \in Ages
    /\ cpc \in {"delay", "store", "decide", "duty", "bridge", "stamp"}
    /\ cnowAge \in Ages /\ request \in [Motors -> Duties]
    /\ ch \in Motors /\ wstep \in 1 .. 3 /\ after \in {"decide", "delay"}
    /\ fpc \in {"delay", "sample", "store", "safety"} /\ fnowAge \in Ages
    /\ phase \in 0 .. (FastPeriod - 1)
    /\ tpc \in {"delay", "store"} /\ tnowAge \in Ages
    /\ stopped \in BOOLEAN

\* The bridge of motor m moves the wheel.
Driven(m) == bridge[m].pwm > 0 /\ bridge[m].in1 # bridge[m].in2

\* No sequence of requests and preemptions drives a wheel backwards or raises
\* both inputs of a bridge, although requests may be negative and the register
\* writes of two tasks mix.
ForwardOnly == \A m \in Motors : bridge[m].in2 = 0

\* A recorded duty that nobody refreshes is zeroed: no motor keeps a non-zero
\* duty for longer than the timeout, one fast period and the fast task's
\* latency after the last SetDuty touched it.
UnrefreshedStops ==
    (\E m \in Motors : duty[m] # 0) =>
        callAge <= CommandTimeout + FastPeriod + FastLatency

\* SafetyTick never stops a car whose stamp is recent: it changes a duty only
\* if the stamp is truly older than the timeout.  A stamp newer than the fast
\* task's reading would underflow; priorities are what rules it out.
StopsOnlyUnrefreshed ==
    [][(SafetyTick /\ duty' # duty) => commandAge > CommandTimeout]_vars

\* After a control loop that no stop preempted, the bridge does what the
\* recorded duty says, whatever an earlier preemption left behind.
BridgeFollowsDuty ==
    (cpc = "delay" /\ ~stopped) =>
        \A m \in Motors : bridge[m] = Target(duty[m])

-----------------------------------------------------------------------------
(* Why they hold: the inductive invariant.                                 *)

\* While the fast task is at work neither the stamp nor g_tick_ms is newer
\* than its reading: the tasks that could store a newer one have to wait.
StampNotAhead ==
    /\ fpc # "delay" => phase <= FastLatency
    /\ fpc \in {"store", "safety"} =>
         fnowAge <= phase /\ fnowAge <= commandAge /\ fnowAge <= tickAge

\* Ticks since the release of the last SafetyTick that has run.
Unchecked == IF fpc = "delay" THEN phase ELSE FastPeriod + phase

\* A stamp is no newer than the call that took it, and a duty survives a
\* SafetyTick only with a recent stamp.
RefreshBounded ==
    /\ callAge <= commandAge
    /\ (\E m \in Motors : duty[m] # 0) => callAge <= CommandTimeout + Unchecked

\* Past BSP_Motor_SetDuty's clamps no negative duty exists.
NoReverse ==
    \A m \in Motors : request[m] >= 0 /\ duty[m] >= 0 /\ bridge[m].in2 = 0

MotorInv == TypeOK /\ StampNotAhead /\ RefreshBounded /\ NoReverse
=============================================================================
