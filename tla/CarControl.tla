----------------------------- MODULE CarControl -----------------------------
(***************************************************************************)
(* The control task and what it reads: the requests the UART commands left *)
(* behind (telemetry.c), the state machine (app_state.c), the mission      *)
(* (app_mission.c) and the chassis controller, with the health task's stop *)
(* (fault_manager.c) from outside.                                         *)
(*                                                                         *)
(* One control loop is one step here.  The control task runs every         *)
(* ControlPeriod ticks, at most ControlLatency ticks late; commands, IMU   *)
(* snapshots and faults arrive between two loops, in any number and order. *)
(* CommandFlags takes the loop's accesses to the requests apart.           *)
(***************************************************************************)
EXTENDS Chassis

CONSTANTS
    Holds,              \* hold times a $DUTY request may carry
    ControlPeriod,      \* APP_CONTROL_TASK_PERIOD_MS
    ControlLatency      \* ticks from the control task's release to its loop

ASSUME ControlAssumption ==
    /\ Holds \subseteq Timestamps
    /\ ControlPeriod \in Nat \ {0}
    /\ ControlLatency \in 0 .. (ControlPeriod - 1)

VARIABLES
    now,                \* xTickCount
    phase, ready,       \* since the control task's release; its loop is due
    s_start_request, s_stop_request, s_duty_request_pending,
    s_duty_request,     \* left_pwm and right_pwm as a pair, hold_ms
    state,              \* AppState_t; FAULT is set only if no task can be created
    imu_ready,
    fault,              \* System_Fault_IsActive
    \* Ghosts.
    lastCommand,        \* the last drive command received
    runAge,             \* since the first of the loops in a row that ended in RUN,
                        \* up to IntegralDelay
    startAge,           \* since a start began the present run, up to IntegralDelay
    inherited,          \* the loop that began the run had just stopped the one
                        \* before, less than IntegralDelay ago
    startWaits,         \* how long the last start received has been waiting
    debugAge,           \* since the $DUTY test began, up to its hold and slack
    debugHold,          \* its hold time
    wrapped             \* the counter has wrapped since then

requestVars == <<s_start_request, s_stop_request, s_duty_request_pending,
                 s_duty_request>>
ghostVars == <<lastCommand, runAge, startAge, inherited, startWaits, debugAge,
               debugHold, wrapped>>
clockVars == <<now, phase, ready>>
vars == <<chassisVars, clockVars, requestVars, state, imu_ready, fault, ghostVars>>

HoldTimes == Holds \cup {DefaultHold}
NoRequest == [pair |-> "zero", hold |-> 0]

\* A test may outlast its hold time by the loop that ends it.
Slack == ControlPeriod + ControlLatency
AgeBound == Wrap + Slack    \* bound of debugAge

Grown(age, bound) == IF age < bound THEN age + 1 ELSE age

-----------------------------------------------------------------------------
Init ==
    /\ ChassisInit
    /\ now = 0 /\ phase = 0 /\ ready = TRUE
    /\ s_start_request = FALSE /\ s_stop_request = FALSE
    /\ s_duty_request_pending = FALSE /\ s_duty_request = NoRequest
    /\ state = "IDLE" /\ imu_ready = FALSE /\ fault = FALSE
    /\ lastCommand = "none"
    /\ runAge = 0 /\ startAge = 0 /\ inherited = FALSE /\ startWaits = 0
    /\ debugAge = 0 /\ debugHold = 0 /\ wrapped = FALSE

-----------------------------------------------------------------------------
(* The UART receive interrupt: the commands that drive the car.            *)

Start ==
    /\ s_start_request' = TRUE
    /\ lastCommand' = "start" /\ startWaits' = 0
    /\ UNCHANGED <<chassisVars, clockVars, s_stop_request, s_duty_request_pending,
                   s_duty_request, state, imu_ready, fault, runAge, startAge,
                   inherited, debugAge, debugHold, wrapped>>

Stop ==
    /\ s_stop_request' = TRUE
    /\ lastCommand' = "stop"
    /\ UNCHANGED <<chassisVars, clockVars, s_start_request, s_duty_request_pending,
                   s_duty_request, state, imu_ready, fault, runAge, startAge,
                   inherited, startWaits, debugAge, debugHold, wrapped>>

Duty(pair, hold) ==
    /\ s_duty_request' = [pair |-> pair, hold |-> hold]
    /\ s_duty_request_pending' = TRUE
    /\ lastCommand' = "duty"
    /\ UNCHANGED <<chassisVars, clockVars, s_start_request, s_stop_request,
                   state, imu_ready, fault, runAge, startAge, inherited,
                   startWaits, debugAge, debugHold, wrapped>>

\* The fast task's copy_imu_snapshot.
ImuSnapshot ==
    /\ imu_ready' = ~imu_ready
    /\ UNCHANGED <<chassisVars, clockVars, requestVars, state, fault, ghostVars>>

\* System_Fault_Raise in the health task.
Raise ==
    /\ fault' = TRUE
    /\ out' = "zero"
    /\ UNCHANGED <<target, speed_control, integral, debug_pwm, clockVars,
                   requestVars, state, imu_ready, ghostVars>>

-----------------------------------------------------------------------------
(* The control loop: App_State_Tick, App_Mission_Tick, Control_Chassis_Tick. *)

\* Mutant: the operands of && swapped, a start is consumed when the IMU is ready.
StartKeptUntilReady == s_start_request /\ ~imu_ready

\* Telemetry_ConsumeStartRequest() && ctx->imu_ready: the request is consumed
\* whether or not the IMU is ready.
StartLeft == FALSE

\* App_State_Tick serves stop, then start, then $DUTY.
StateAfterStop == IF s_stop_request THEN "IDLE" ELSE state
StateAfterStart ==
    IF s_start_request /\ imu_ready THEN "RUN" ELSE StateAfterStop
StateAfterDuty == IF s_duty_request_pending THEN "IDLE" ELSE StateAfterStart

\* A start obeyed by a car that stands, or that a stop in the same loop has just
\* put to IDLE, begins a run.
RunBegins == s_start_request /\ imu_ready /\ StateAfterStop # "RUN"

\* App_Mission_Tick sets both targets anew in every loop.
MissionTarget(st) == IF st = "RUN" THEN "line" ELSE "zero"

ControlLoop ==
    /\ ready
    /\ ready' = FALSE
    /\ s_stop_request' = FALSE /\ s_start_request' = StartLeft
    /\ s_duty_request_pending' = FALSE
    /\ state' = StateAfterDuty
    /\ target' = MissionTarget(state')
    /\ ChassisTick(state' = "RUN", now,
                   IF s_duty_request_pending
                   THEN DebugDuty(s_duty_request.pair, now, s_duty_request.hold)
                   ELSE debug_pwm)
    /\ runAge' = IF state # "RUN" \/ state' # "RUN" THEN 0 ELSE runAge
    /\ startAge' = IF RunBegins \/ state' # "RUN" THEN 0 ELSE startAge
    /\ inherited' = (state' = "RUN" /\ IF RunBegins THEN state = "RUN" ELSE inherited)
    /\ IF s_duty_request_pending
       THEN /\ debugAge' = 0 /\ wrapped' = FALSE
            /\ debugHold' = IF s_duty_request.hold = 0 THEN DefaultHold
                            ELSE s_duty_request.hold
       ELSE UNCHANGED <<debugAge, debugHold, wrapped>>
    /\ UNCHANGED <<now, phase, s_duty_request, imu_ready, fault, lastCommand,
                   startWaits>>

Tick ==
    /\ ready => phase < ControlLatency
    /\ now' = NextTick(now)
    /\ IF phase + 1 = ControlPeriod
       THEN phase' = 0 /\ ready' = TRUE
       ELSE phase' = phase + 1 /\ UNCHANGED ready
    /\ runAge' = Grown(runAge, IntegralDelay)
    /\ startAge' = Grown(startAge, IntegralDelay)
    /\ inherited' = (inherited /\ startAge' < IntegralDelay)
    /\ startWaits' = IF s_start_request THEN Grown(startWaits, Slack + 1) ELSE 0
    /\ debugAge' = IF debug_pwm.active THEN Grown(debugAge, AgeBound) ELSE 0
    /\ wrapped' = (debug_pwm.active /\ (wrapped \/ now' = 0))
    /\ UNCHANGED <<chassisVars, requestVars, state, imu_ready, fault,
                   lastCommand, debugHold>>

Command == Start \/ Stop \/ \E pair \in DutyPairs, hold \in Holds : Duty(pair, hold)

Next == Command \/ ImuSnapshot \/ Raise \/ ControlLoop \/ Tick

\* Time goes on and the control task runs: it meets its latency or the watchdog
\* resets the MCU (SystemHealth).
Spec == Init /\ [][Next]_vars /\ WF_vars(ControlLoop) /\ WF_vars(Tick)

-----------------------------------------------------------------------------
(* Properties.                                                             *)

TypeOK ==
    /\ ChassisType
    /\ now \in Timestamps /\ phase \in 0 .. (ControlPeriod - 1) /\ ready \in BOOLEAN
    /\ s_start_request \in BOOLEAN /\ s_stop_request \in BOOLEAN
    /\ s_duty_request_pending \in BOOLEAN
    /\ s_duty_request \in [pair : DutyPairs \cup {"zero"}, hold : Timestamps]
    /\ state \in {"IDLE", "RUN"} /\ imu_ready \in BOOLEAN /\ fault \in BOOLEAN
    /\ lastCommand \in {"none", "start", "stop", "duty"}
    /\ runAge \in 0 .. IntegralDelay /\ startAge \in 0 .. IntegralDelay
    /\ inherited \in BOOLEAN
    /\ startWaits \in 0 .. (Slack + 1)
    /\ debugAge \in 0 .. AgeBound /\ debugHold \in Timestamps
    /\ wrapped \in BOOLEAN

\* The motors do what the state says: they are driven by the speed controller
\* only in RUN, by a $DUTY test only while one is active outside RUN, and else
\* stand still; the targets are non-zero in RUN only.
DrivenAsStated ==
    /\ out = "speed" => state = "RUN"
    /\ out \in DutyPairs =>
         state = "IDLE" /\ debug_pwm.active /\ out = debug_pwm.pair
    /\ target = "line" <=> state = "RUN"

\* No delayed start: the car enters RUN only for a start that was received since
\* the control loop before.  One that this loop cannot obey is dropped, not kept
\* until the IMU is ready.  Whether it is ready counts when the start is served,
\* not when it came (app_state.c:38).
NoDelayedStart ==
    [][(state # "RUN" /\ state' = "RUN") => startWaits <= Slack]_vars

\* A $DUTY test ends: unless the tick counter wraps meanwhile, no test drives
\* the motors for longer than its hold time and one control loop.
TestEnds ==
    (out \in DutyPairs /\ ~wrapped) => debugAge <= debugHold + Slack

\* A wheel-speed PID integrates only after the integral delay of its own run, also
\* after a $DUTY test or a single loop outside RUN in between, and through the wrap
\* of the counter.  The one exception is a run that was begun by the very loop that
\* stopped the run before (app_state.c:34-42): no Control_Chassis_Tick sees the car
\* outside RUN, so that the new run inherits integral and delay of the old one, and
\* its PIDs integrate once the car has been in RUN for the delay in both together
\* (chassis.c:266).
IntegralAfterDelay ==
    integral => \/ startAge >= IntegralDelay
                \/ inherited /\ runAge >= IntegralDelay

-----------------------------------------------------------------------------
(* Statements of the documentation that the code does not meet.            *)

\* README, ARCHITECTURE: a stale task stops both motors.  They stay stopped
\* while the fault is latched.
FaultKeepsMotorsStopped == fault => out = "zero"

\* README: "x or $STOP stop the car".  A control loop that finds a stop as the
\* last command received leaves RUN.
LastStopObeyed == [][(ControlLoop /\ lastCommand = "stop") => state' # "RUN"]_vars
=============================================================================
