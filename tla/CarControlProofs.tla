--------------------------- MODULE CarControlProofs ---------------------------
(***************************************************************************)
(* The control loop for any hold times, control period and latency, any    *)
(* integral delay and any width of the tick counter.                       *)
(***************************************************************************)
EXTENDS CarControl, TLAPS

LEMMA CarSizes ==
    /\ Wrap \in Nat /\ Wrap > 0 /\ Timestamps = 0 .. (Wrap - 1)
    /\ DefaultHold \in Timestamps /\ IntegralDelay \in Timestamps
    /\ Holds \subseteq Timestamps
    /\ "zero" \notin DutyPairs /\ "speed" \notin DutyPairs
    /\ ControlPeriod \in Nat /\ ControlPeriod > 0
    /\ ControlLatency \in Nat /\ ControlLatency < ControlPeriod
    /\ Slack \in Nat /\ AgeBound \in Nat /\ AgeBound >= Wrap
    /\ Slack = ControlPeriod + ControlLatency
  BY WrapAssumption, ChassisAssumption, ControlAssumption
     DEF Timestamps, Slack, AgeBound

LEMMA TimestampSums ==
    ASSUME NEW a \in Timestamps, NEW b \in Timestamps
    PROVE  /\ NextTick(a) \in Timestamps /\ Later(a, b) \in Timestamps
           /\ Later(a, b) <= a + b
  BY CarSizes DEF NextTick, Later

LEMMA GrownAge ==
    ASSUME NEW bound \in Nat, NEW age \in 0 .. bound
    PROVE  /\ Grown(age, bound) \in 0 .. bound
           /\ Grown(age, bound) >= age /\ Grown(age, bound) <= age + 1
           /\ age < bound => Grown(age, bound) = age + 1
  BY DEF Grown

-----------------------------------------------------------------------------
(* What a control loop does with the chassis.                              *)

\* The $DUTY test after App_State_Tick, and its hold time.
Served ==
    IF s_duty_request_pending
    THEN DebugDuty(s_duty_request.pair, now, s_duty_request.hold) ELSE debug_pwm

ServedHold ==
    IF s_duty_request_pending
    THEN IF s_duty_request.hold = 0 THEN DefaultHold ELSE s_duty_request.hold
    ELSE debugHold

DebugTests == [active : BOOLEAN, pair : DutyPairs \cup {"zero"}, deadline_ms : Timestamps]

LEMMA ServedType ==
    ASSUME TypeOK
    PROVE  Served \in DebugTests /\ ServedHold \in Timestamps
  <1>1. CASE s_duty_request_pending
    <2>1. ServedHold \in Timestamps
      BY <1>1, CarSizes DEF TypeOK, ServedHold
    <2>2. Served = [active |-> TRUE, pair |-> s_duty_request.pair,
                    deadline_ms |-> Later(now, ServedHold)]
      BY <1>1 DEF Served, ServedHold, DebugDuty
    <2>3. Later(now, ServedHold) \in Timestamps
      BY <2>1, TimestampSums DEF TypeOK
    <2> QED
      BY <2>1, <2>2, <2>3 DEF TypeOK, DebugTests
  <1>2. CASE ~s_duty_request_pending
    BY <1>2 DEF Served, ServedHold, TypeOK, ChassisType, DebugTests
  <1> QED
    BY <1>1, <1>2

\* A loop that ends in RUN: the speed controller drives and the test is kept.
LEMMA RunLoop ==
    ASSUME TypeOK, ControlLoop, state' = "RUN"
    PROVE  /\ out' = "speed" /\ target' = "line" /\ debug_pwm' = Served
           /\ speed_control' = IF speed_control.active THEN speed_control
                               ELSE [active |-> TRUE, started_ms |-> now]
           /\ integral' \in {FALSE, Elapsed(now, speed_control'.started_ms) >= IntegralDelay}
  BY DEF ControlLoop, ChassisTick, SpeedControl, MissionTarget, Served

\* Any other loop: the test drives until its deadline, and then nothing does.
LEMMA IdleLoop ==
    ASSUME TypeOK, ControlLoop, state' # "RUN"
    PROVE  /\ state' = "IDLE" /\ target' = "zero" /\ integral' = FALSE
           /\ speed_control' = [speed_control EXCEPT !.active = FALSE]
           /\ \/ /\ Served.active /\ now < Served.deadline_ms
                 /\ out' = Served.pair /\ debug_pwm' = Served
              \/ /\ out' = "zero"
                 /\ debug_pwm' = Served \/ debug_pwm' = NoDebugPwm
                 /\ ~debug_pwm'.active
  <1>1. state' = "IDLE"
    BY DEF ControlLoop, StateAfterDuty, StateAfterStart, StateAfterStop, TypeOK
  <1>2. DebugOrIdle(now, Served) /\ target' = "zero"
    BY DEF ControlLoop, ChassisTick, MissionTarget, Served
  <1>3. Served.deadline_ms \in Timestamps /\ now \in Timestamps
    BY ServedType DEF DebugTests, TypeOK
  <1>4. ~DebugOver(now, Served) => now < Served.deadline_ms
    BY <1>3, CarSizes DEF DebugOver
  <1> QED
    BY <1>1, <1>2, <1>4 DEF DebugOrIdle, SpeedControlLeft, NoDebugPwm

-----------------------------------------------------------------------------
(* Type correctness.                                                       *)

LEMMA CarInitType == Init => TypeOK
  <1> SUFFICES ASSUME Init PROVE TypeOK
    OBVIOUS
  <1>1. /\ 0 \in Timestamps /\ 0 \in 0 .. (ControlPeriod - 1)
        /\ 0 \in 0 .. IntegralDelay /\ 0 \in 0 .. (Slack + 1) /\ 0 \in 0 .. AgeBound
    BY CarSizes
  <1>2. ChassisType
    BY <1>1 DEF Init, ChassisInit, ChassisType, SpeedControlOff, NoDebugPwm
  <1>3. s_duty_request \in [pair : DutyPairs \cup {"zero"}, hold : Timestamps]
    BY <1>1 DEF Init, NoRequest
  <1> QED
    BY <1>1, <1>2, <1>3 DEF Init, TypeOK

LEMMA LoopType == ASSUME TypeOK, ControlLoop PROVE TypeOK'
  <1>1. Served \in DebugTests /\ NoDebugPwm \in DebugTests
    BY ServedType, CarSizes DEF NoDebugPwm, DebugTests
  <1>2. debugHold' \in Timestamps /\ debugAge' \in 0 .. AgeBound /\ wrapped' \in BOOLEAN
    <2>1. debugHold' = ServedHold
      BY DEF ControlLoop, ServedHold
    <2>2. debugAge' = 0 \/ debugAge' = debugAge
      BY DEF ControlLoop
    <2>3. wrapped' = FALSE \/ wrapped' = wrapped
      BY DEF ControlLoop
    <2>4. debugAge' \in 0 .. AgeBound
      BY <2>2, CarSizes DEF TypeOK
    <2>5. wrapped' \in BOOLEAN
      BY <2>3 DEF TypeOK
    <2> QED
      BY <2>1, <2>4, <2>5, ServedType
  <1>3. state' \in {"IDLE", "RUN"}
    BY DEF ControlLoop, StateAfterDuty, StateAfterStart, StateAfterStop, TypeOK
  <1>4. ChassisType'
    <2>1. CASE state' = "RUN"
      <3>1. debug_pwm' \in DebugTests
        BY <1>1, <2>1, RunLoop
      <3>2. speed_control' \in [active : BOOLEAN, started_ms : Timestamps]
        <4>1. speed_control \in [active : BOOLEAN, started_ms : Timestamps] /\ now \in Timestamps
          BY DEF TypeOK, ChassisType
        <4>2. [active |-> TRUE, started_ms |-> now]
                \in [active : BOOLEAN, started_ms : Timestamps]
          BY <4>1
        <4>3. speed_control' \in {speed_control, [active |-> TRUE, started_ms |-> now]}
          BY <2>1, RunLoop
        <4> QED
          BY <4>1, <4>2, <4>3
      <3> QED
        <4>1. out' = "speed" /\ target' = "line"
          BY <2>1, RunLoop
        <4>2. integral' \in BOOLEAN
          <5> DEFINE E == Elapsed(now, speed_control'.started_ms) >= IntegralDelay
          <5>1. integral' \in {FALSE, E}
            BY <2>1, RunLoop
          <5>2. E \in BOOLEAN
            OBVIOUS
          <5> HIDE DEF E
          <5> QED BY <5>1, <5>2
        <4> QED
          BY <3>1, <3>2, <4>1, <4>2 DEF ChassisType, DebugTests
    <2>2. CASE state' # "RUN"
      <3>1. debug_pwm' \in DebugTests /\ out' \in DutyPairs \cup {"zero"}
        BY <1>1, <2>2, IdleLoop DEF DebugTests
      <3>2. speed_control' \in [active : BOOLEAN, started_ms : Timestamps]
        BY <2>2, IdleLoop DEF TypeOK, ChassisType
      <3> QED
        BY <2>2, <3>1, <3>2, IdleLoop DEF ChassisType, DebugTests
    <2> QED
      BY <2>1, <2>2
  <1>5. runAge' \in 0 .. IntegralDelay /\ startAge' \in 0 .. IntegralDelay
    BY CarSizes DEF ControlLoop, TypeOK
  <1>6. inherited' \in BOOLEAN
    BY DEF ControlLoop, TypeOK
  <1> QED
    BY <1>2, <1>3, <1>4, <1>5, <1>6 DEF ControlLoop, TypeOK, StartLeft

LEMMA ChassisKept == ChassisType /\ UNCHANGED chassisVars => ChassisType'
  BY DEF ChassisType, chassisVars

LEMMA CarNextType == TypeOK /\ [Next]_vars => TypeOK'
  <1> SUFFICES ASSUME TypeOK, [Next]_vars PROVE TypeOK'
    OBVIOUS
  <1>1. CASE Start \/ Stop
    <2>1. /\ UNCHANGED <<chassisVars, clockVars, s_duty_request_pending, s_duty_request,
                          state, imu_ready, fault, runAge, startAge, inherited, debugAge,
                          debugHold, wrapped>>
          /\ s_start_request' \in BOOLEAN /\ s_stop_request' \in BOOLEAN
          /\ lastCommand' \in {"start", "stop"} /\ startWaits' \in {0, startWaits}
      BY <1>1 DEF Start, Stop, TypeOK
    <2>2. startWaits' \in 0 .. (Slack + 1)
      BY <2>1, CarSizes DEF TypeOK
    <2> QED
      BY <2>1, <2>2, ChassisKept DEF TypeOK, clockVars
  <1>2. ASSUME NEW pair \in DutyPairs, NEW hold \in Holds, Duty(pair, hold) PROVE TypeOK'
    <2>1. s_duty_request' \in [pair : DutyPairs \cup {"zero"}, hold : Timestamps]
      BY <1>2, CarSizes DEF Duty
    <2> QED
      BY <1>2, <2>1, ChassisKept DEF Duty, TypeOK, clockVars
  <1>3. CASE ImuSnapshot \/ Raise
    <2>1. ChassisType'
      BY <1>3, ChassisKept DEF ImuSnapshot, Raise, TypeOK, ChassisType
    <2>2. imu_ready' \in BOOLEAN /\ fault' \in BOOLEAN
      BY <1>3 DEF ImuSnapshot, Raise, TypeOK
    <2>3. UNCHANGED <<clockVars, requestVars, state, ghostVars>>
      BY <1>3 DEF ImuSnapshot, Raise
    <2> QED
      BY <2>1, <2>2, <2>3 DEF TypeOK, clockVars, requestVars, ghostVars
  <1>4. CASE ControlLoop
    BY <1>4, LoopType
  <1>5. CASE Tick
    <2>1. now' \in Timestamps /\ phase' \in 0 .. (ControlPeriod - 1) /\ ready' \in BOOLEAN
      <3>1. NextTick(now) \in Timestamps
        BY TimestampSums DEF TypeOK
      <3>2. phase \in 0 .. (ControlPeriod - 1) /\ ready \in BOOLEAN
        BY DEF TypeOK
      <3>3. phase' \in 0 .. (ControlPeriod - 1) /\ ready' \in BOOLEAN
        <4>1. phase' \in 0 .. (ControlPeriod - 1)
          BY <1>5, <3>2, CarSizes DEF Tick
        <4>2. ready' = TRUE \/ ready' = ready
          BY <1>5 DEF Tick
        <4> QED
          BY <3>2, <4>1, <4>2
      <3> QED
        BY <1>5, <3>1, <3>3 DEF Tick
    <2>2. runAge' \in 0 .. IntegralDelay /\ startAge' \in 0 .. IntegralDelay
      BY <1>5, CarSizes, GrownAge DEF Tick, TypeOK
    <2>6. inherited' \in BOOLEAN
      BY <1>5 DEF Tick, TypeOK
    <2>3. startWaits \in 0 .. (Slack + 1) /\ Slack + 1 \in Nat
      BY CarSizes DEF TypeOK
    <2>4. startWaits' \in 0 .. (Slack + 1)
      <3>1. startWaits' \in {0, Grown(startWaits, Slack + 1)}
        BY <1>5 DEF Tick
      <3>2. Grown(startWaits, Slack + 1) \in 0 .. (Slack + 1)
        BY <2>3, GrownAge
      <3> QED
        BY <2>3, <3>1, <3>2
    <2>5. debugAge' \in 0 .. AgeBound /\ wrapped' \in BOOLEAN
      BY <1>5, CarSizes, GrownAge DEF Tick, TypeOK, ChassisType
    <2> QED
      BY <1>5, <2>1, <2>2, <2>4, <2>5, <2>6, ChassisKept DEF Tick, TypeOK, requestVars
  <1>6. CASE UNCHANGED vars
    BY <1>6 DEF vars, chassisVars, clockVars, requestVars, ghostVars, TypeOK, ChassisType
  <1> QED
    BY <1>1, <1>2, <1>3, <1>4, <1>5, <1>6 DEF Next, Command

\* Requests, state machine, chassis and clock keep their types.
THEOREM CarTypeCorrect == Spec => []TypeOK
  BY CarInitType, CarNextType, PTL DEF Spec

-----------------------------------------------------------------------------
(* The inductive invariant.                                                *)

\* At most the ticks since the control loop ran last.
SinceLoop == IF ready THEN ControlPeriod + phase ELSE phase

\* The loop meets its latency, and no start waits for longer than for a loop.
LoopInv ==
    /\ ready => phase <= ControlLatency
    /\ s_start_request => startWaits <= SinceLoop

\* The speed controller runs in RUN only, and what it takes for the time since
\* its start is no more than that time, also when the counter has wrapped.
RunInv ==
    /\ speed_control.active => state = "RUN"
    /\ speed_control.active =>
         runAge >= IntegralDelay \/ runAge >= Elapsed(now, speed_control.started_ms)
    /\ integral => speed_control.active /\ runAge >= IntegralDelay

\* Before the counter wraps the deadline of a test is its start and hold time,
\* and a test that drives had not reached it when the loop ran last.
TestInv ==
    debug_pwm.active /\ ~wrapped =>
        /\ debugAge <= now
        /\ debug_pwm.deadline_ms = Later(now - debugAge, debugHold)
        /\ out \in DutyPairs => now < debug_pwm.deadline_ms + SinceLoop

\* Unless the run has inherited its delay, it has one age.
AgeInv == startAge <= runAge /\ (~inherited => startAge = runAge)

CarInv == TypeOK /\ DrivenAsStated /\ LoopInv /\ RunInv /\ AgeInv /\ TestInv

\* The steps between two loops leave the state machine and the clock alone; at
\* most a fault stops the motors.
Between == Command \/ ImuSnapshot \/ Raise

LEMMA BetweenKeeps ==
    ASSUME Between
    PROVE  /\ UNCHANGED <<target, speed_control, integral, debug_pwm, clockVars, state,
                          runAge, startAge, inherited, debugAge, debugHold, wrapped>>
           /\ out' = out \/ out' = "zero"
           /\ \/ UNCHANGED <<s_start_request, startWaits>>
              \/ s_start_request' = TRUE /\ startWaits' = 0
  BY DEF Between, Command, Start, Stop, Duty, ImuSnapshot, Raise, chassisVars,
         requestVars, ghostVars

LEMMA SinceLoopNat == TypeOK => SinceLoop \in Nat /\ phase \in Nat
  BY CarSizes DEF TypeOK, SinceLoop

LEMMA SinceLoopTick ==
    ASSUME TypeOK, LoopInv, Tick
    PROVE  SinceLoop' = SinceLoop + 1 /\ (ready' => phase' <= ControlLatency)
  <1>1. phase \in 0 .. (ControlPeriod - 1)
    BY DEF TypeOK
  <1>2. CASE ready
    <2>1. phase + 1 # ControlPeriod /\ phase + 1 <= ControlLatency
      BY <1>1, <1>2, CarSizes DEF Tick
    <2> QED
      BY <1>1, <1>2, <2>1, CarSizes DEF Tick, SinceLoop
  <1>3. CASE ~ready
    BY <1>1, <1>3, CarSizes DEF Tick, SinceLoop
  <1> QED
    BY <1>2, <1>3

LEMMA CarInitInv == Init => CarInv
  <1> SUFFICES ASSUME Init PROVE CarInv
    OBVIOUS
  <1>1. TypeOK
    BY CarInitType
  <1>2. DrivenAsStated
    BY CarSizes DEF Init, ChassisInit, DrivenAsStated
  <1>3. LoopInv
    BY CarSizes DEF Init, LoopInv
  <1>4. RunInv /\ AgeInv /\ TestInv
    BY DEF Init, ChassisInit, RunInv, AgeInv, TestInv, SpeedControlOff, NoDebugPwm
  <1> QED
    BY <1>1, <1>2, <1>3, <1>4 DEF CarInv

LEMMA DrivenNext == CarInv /\ [Next]_vars => DrivenAsStated'
  <1> SUFFICES ASSUME CarInv, [Next]_vars PROVE DrivenAsStated'
    OBVIOUS
  <1> USE DEF CarInv
  <1>1. CASE Between
    BY <1>1, BetweenKeeps, CarSizes DEF DrivenAsStated
  <1>2. CASE ControlLoop
    <2>1. CASE state' = "RUN"
      BY <1>2, <2>1, RunLoop, CarSizes DEF DrivenAsStated
    <2>2. CASE state' # "RUN"
      <3>1. state' = "IDLE" /\ target' = "zero"
        BY <1>2, <2>2, IdleLoop
      <3>2. CASE Served.active /\ out' = Served.pair /\ debug_pwm' = Served
        <4>1. Served.pair # "speed"
          BY ServedType, CarSizes DEF DebugTests
        <4> QED
          BY <3>1, <3>2, <4>1 DEF DrivenAsStated
      <3>3. CASE out' = "zero"
        BY <3>1, <3>3, CarSizes DEF DrivenAsStated
      <3> QED
        BY <1>2, <2>2, <3>2, <3>3, IdleLoop
    <2> QED
      BY <2>1, <2>2
  <1>3. CASE Tick \/ UNCHANGED vars
    <2>1. UNCHANGED <<chassisVars, state>>
      BY <1>3 DEF Tick, vars
    <2> QED
      BY <2>1 DEF DrivenAsStated, chassisVars
  <1> QED
    BY <1>1, <1>2, <1>3 DEF Next, Between

LEMMA LoopNext == CarInv /\ [Next]_vars => LoopInv'
  <1> SUFFICES ASSUME CarInv, [Next]_vars PROVE LoopInv'
    OBVIOUS
  <1> USE DEF CarInv
  <1>1. CASE Between
    <2>1. UNCHANGED <<ready, phase, SinceLoop>>
      BY <1>1, BetweenKeeps DEF clockVars, SinceLoop
    <2> QED
      <3>1. 0 <= SinceLoop
        BY SinceLoopNat
      <3>2. CASE UNCHANGED <<s_start_request, startWaits>>
        BY <2>1, <3>2 DEF LoopInv
      <3>3. CASE startWaits' = 0
        BY <2>1, <3>1, <3>3 DEF LoopInv
      <3> QED
        BY <1>1, <3>2, <3>3, BetweenKeeps
  <1>2. CASE ControlLoop
    BY <1>2 DEF ControlLoop, LoopInv, StartLeft
  <1>3. CASE Tick
    <2>1. s_start_request' = s_start_request
          /\ (s_start_request => startWaits' = Grown(startWaits, Slack + 1))
      BY <1>3 DEF Tick, requestVars
    <2>2. startWaits \in 0 .. (Slack + 1) /\ Slack + 1 \in Nat
      BY CarSizes DEF TypeOK
    <2>3. Grown(startWaits, Slack + 1) <= startWaits + 1
          /\ Grown(startWaits, Slack + 1) \in Nat /\ startWaits \in Nat
      BY <2>2, GrownAge
    <2> QED
      BY <1>3, <2>1, <2>3, SinceLoopTick, SinceLoopNat DEF LoopInv
  <1>4. CASE UNCHANGED vars
    BY <1>4 DEF vars, clockVars, requestVars, ghostVars, LoopInv, SinceLoop
  <1> QED
    BY <1>1, <1>2, <1>3, <1>4 DEF Next, Between

LEMMA RunNext == CarInv /\ [Next]_vars => RunInv'
  <1> SUFFICES ASSUME CarInv, [Next]_vars PROVE RunInv'
    OBVIOUS
  <1> USE DEF CarInv
  <1>0. /\ now \in Timestamps /\ runAge \in 0 .. IntegralDelay /\ IntegralDelay \in Nat
        /\ speed_control \in [active : BOOLEAN, started_ms : Timestamps]
    BY CarSizes DEF TypeOK, ChassisType
  <1>1. CASE Between
    BY <1>1, BetweenKeeps DEF RunInv, clockVars
  <1>2. CASE ControlLoop
    <2>1. CASE state' # "RUN"
      <3>1. ~speed_control'.active /\ integral' = FALSE
        BY <1>0, <1>2, <2>1, IdleLoop
      <3> QED
        BY <3>1 DEF RunInv
    <2>2. CASE state' = "RUN"
      <3>1. /\ speed_control' = IF speed_control.active THEN speed_control
                                ELSE [active |-> TRUE, started_ms |-> now]
            /\ integral' => Elapsed(now, speed_control'.started_ms) >= IntegralDelay
        BY <1>2, <2>2, RunLoop
      <3>2. now' = now /\ runAge' = IF state # "RUN" THEN 0 ELSE runAge
        BY <1>2, <2>2 DEF ControlLoop
      <3>3. CASE speed_control.active
        <4>1. speed_control' = speed_control /\ state = "RUN" /\ runAge' = runAge
          BY <3>1, <3>2, <3>3 DEF RunInv
        <4>2. Elapsed(now, speed_control.started_ms) \in Nat
          BY <1>0, CarSizes DEF Elapsed
        <4>3. runAge >= IntegralDelay \/ runAge >= Elapsed(now, speed_control.started_ms)
          BY <3>3 DEF RunInv
        <4>4. integral' => runAge >= IntegralDelay
          BY <1>0, <3>1, <4>1, <4>2, <4>3
        <4> QED
          BY <2>2, <3>2, <3>3, <4>1, <4>3, <4>4 DEF RunInv
      <3>4. CASE ~speed_control.active
        <4>1. Elapsed(now, now) = 0
          BY <1>0, CarSizes DEF Elapsed
        <4>2. speed_control'.active /\ speed_control'.started_ms = now /\ runAge' >= 0
          BY <1>0, <3>1, <3>2, <3>4
        <4>3. integral' => IntegralDelay = 0
          BY <1>0, <3>1, <4>1, <4>2
        <4> QED
          BY <1>0, <2>2, <3>2, <4>1, <4>2, <4>3 DEF RunInv
      <3> QED
        BY <3>3, <3>4
    <2> QED
      BY <2>1, <2>2
  <1>3. CASE Tick
    <2>1. /\ UNCHANGED <<speed_control, integral, state>> /\ now' = NextTick(now)
          /\ runAge' = Grown(runAge, IntegralDelay)
      BY <1>3 DEF Tick, chassisVars
    <2>2. /\ runAge' \in Nat /\ runAge' >= runAge
          /\ runAge < IntegralDelay => runAge' = runAge + 1
      BY <1>0, <2>1, GrownAge
    <2>3. ASSUME NEW t \in Timestamps
          PROVE  /\ Elapsed(now, t) \in Nat /\ Elapsed(NextTick(now), t) \in Nat
                 /\ Elapsed(NextTick(now), t) <= Elapsed(now, t) + 1
      BY <1>0, CarSizes DEF Elapsed, NextTick
    <2>4. /\ speed_control.started_ms \in Timestamps
          /\ Elapsed(now', speed_control'.started_ms)
               <= Elapsed(now, speed_control.started_ms) + 1
      BY <1>0, <2>1, <2>3
    <2> QED
      BY <1>0, <2>1, <2>2, <2>3, <2>4 DEF RunInv
  <1>4. CASE UNCHANGED vars
    BY <1>4 DEF vars, chassisVars, clockVars, ghostVars, RunInv
  <1> QED
    BY <1>1, <1>2, <1>3, <1>4 DEF Next, Between

LEMMA AgeNext == CarInv /\ [Next]_vars => AgeInv'
  <1> SUFFICES ASSUME CarInv, [Next]_vars PROVE AgeInv'
    OBVIOUS
  <1>0. /\ runAge \in 0 .. IntegralDelay /\ startAge \in 0 .. IntegralDelay
        /\ IntegralDelay \in Nat /\ AgeInv
    BY CarSizes DEF CarInv, TypeOK
  <1>1. CASE Between
    BY <1>0, <1>1, BetweenKeeps DEF AgeInv
  <1>2. CASE ControlLoop
    <2>1. /\ runAge' = IF state # "RUN" \/ state' # "RUN" THEN 0 ELSE runAge
          /\ startAge' = IF RunBegins \/ state' # "RUN" THEN 0 ELSE startAge
          /\ inherited' = (state' = "RUN" /\ IF RunBegins THEN state = "RUN" ELSE inherited)
      BY <1>2 DEF ControlLoop
    <2>2. state' = "RUN" /\ state # "RUN" => RunBegins
      BY <1>2 DEF ControlLoop, StateAfterDuty, StateAfterStart, StateAfterStop, RunBegins
    <2>3. CASE state' # "RUN"
      BY <2>1, <2>3 DEF AgeInv
    <2>4. CASE state' = "RUN" /\ RunBegins
      <3>1. startAge' = 0 /\ runAge' \in {0, runAge}
        BY <2>1, <2>4
      <3>2. ~inherited' => state # "RUN"
        BY <2>1, <2>4
      <3>3. ~inherited' => runAge' = 0
        BY <2>1, <3>2
      <3> QED
        BY <1>0, <3>1, <3>3 DEF AgeInv
    <2>5. CASE state' = "RUN" /\ ~RunBegins
      <3>1. startAge' = startAge /\ runAge' = runAge
        BY <2>1, <2>2, <2>5
      <3>2. inherited' <=> inherited
        BY <2>1, <2>5
      <3> QED
        BY <1>0, <3>1, <3>2 DEF AgeInv
    <2> QED
      BY <2>3, <2>4, <2>5
  <1>3. CASE Tick
    <2>1. /\ runAge' = Grown(runAge, IntegralDelay) /\ startAge' = Grown(startAge, IntegralDelay)
          /\ inherited' = (inherited /\ startAge' < IntegralDelay)
      BY <1>3 DEF Tick
    <2>2. startAge' <= runAge' /\ (startAge = runAge => startAge' = runAge')
      BY <1>0, <2>1 DEF AgeInv, Grown
    <2>3. startAge' >= IntegralDelay => startAge' = runAge'
      BY <1>0, <2>1 DEF AgeInv, Grown
    <2>4. startAge' \in Nat
      BY <1>0, <2>1 DEF Grown
    <2>5. ~inherited' => ~inherited \/ startAge' >= IntegralDelay
      <3>1. ~(startAge' < IntegralDelay) => startAge' >= IntegralDelay
        BY <1>0, <2>4
      <3> QED
        BY <2>1, <3>1
    <2> QED
      BY <1>0, <2>2, <2>3, <2>5 DEF AgeInv
  <1>4. CASE UNCHANGED vars
    BY <1>0, <1>4 DEF vars, ghostVars, AgeInv
  <1> QED
    BY <1>1, <1>2, <1>3, <1>4 DEF Next, Between

LEMMA TestNext == CarInv /\ [Next]_vars => TestInv'
  <1> SUFFICES ASSUME CarInv, [Next]_vars PROVE TestInv'
    OBVIOUS
  <1> USE DEF CarInv
  <1>0. now \in Timestamps /\ debugAge \in 0 .. AgeBound /\ debugHold \in Timestamps
    BY DEF TypeOK
  <1>1. CASE Between
    <2>1. UNCHANGED SinceLoop
      BY <1>1, BetweenKeeps DEF clockVars, SinceLoop
    <2> QED
      BY <1>1, <2>1, BetweenKeeps, CarSizes DEF TestInv, clockVars
  <1>2. CASE ControlLoop
    <2> SUFFICES ASSUME debug_pwm'.active, ~wrapped'
                 PROVE  /\ debugAge' <= now
                        /\ debug_pwm'.deadline_ms = Later(now - debugAge', debugHold')
                        /\ out' \in DutyPairs => now < debug_pwm'.deadline_ms + SinceLoop'
      BY <1>2 DEF ControlLoop, TestInv
    <2>1. /\ debug_pwm' = Served
          /\ out' \in DutyPairs => now < Served.deadline_ms
      BY <1>2, RunLoop, IdleLoop, CarSizes
    <2>2. SinceLoop' \in Nat /\ Served.deadline_ms \in Timestamps
      <3>1. SinceLoop' \in {phase, ControlPeriod + phase}
        BY <1>2 DEF ControlLoop, SinceLoop
      <3> QED
        BY <3>1, SinceLoopNat, CarSizes, ServedType DEF DebugTests
    <2>3. CASE s_duty_request_pending
      <3>1. debugAge' = 0 /\ debugHold' = ServedHold
        BY <1>2, <2>3 DEF ControlLoop, ServedHold
      <3>2. Served.deadline_ms = Later(now, ServedHold)
        BY <2>3 DEF Served, ServedHold, DebugDuty
      <3> QED
        BY <1>0, <2>1, <2>2, <3>1, <3>2, CarSizes
    <2>4. CASE ~s_duty_request_pending
      <3>1. UNCHANGED <<debugAge, debugHold, wrapped>>
        BY <1>2, <2>4 DEF ControlLoop
      <3>2. Served = debug_pwm
        BY <2>4 DEF Served
      <3> QED
        BY <1>0, <2>1, <2>2, <3>1, <3>2, CarSizes DEF TestInv
    <2> QED
      BY <2>3, <2>4
  <1>3. CASE Tick
    <2> SUFFICES ASSUME debug_pwm'.active, ~wrapped'
                 PROVE  /\ debugAge' <= now'
                        /\ debug_pwm'.deadline_ms = Later(now' - debugAge', debugHold')
                        /\ out' \in DutyPairs => now' < debug_pwm'.deadline_ms + SinceLoop'
      BY DEF TestInv
    <2>1. UNCHANGED <<debug_pwm, out, debugHold>>
      BY <1>3 DEF Tick, chassisVars
    <2>2. ~wrapped /\ now' = NextTick(now) /\ now' # 0
          /\ debugAge' = Grown(debugAge, AgeBound)
      BY <1>3, <2>1 DEF Tick
    <2>3. now' = now + 1
      BY <1>0, <2>2 DEF NextTick
    <2>4. debugAge <= now
      BY <2>1, <2>2 DEF TestInv
    <2>5. debugAge' = debugAge + 1
      BY <1>0, <2>2, <2>4, CarSizes, GrownAge
    <2>6. debug_pwm.deadline_ms \in Nat /\ SinceLoop \in Nat
      BY SinceLoopNat, CarSizes DEF TypeOK, ChassisType
    <2>7. SinceLoop' = SinceLoop + 1
      BY <1>3, SinceLoopTick
    <2>8. now' - debugAge' = now - debugAge
      BY <1>0, <2>3, <2>5, CarSizes
    <2> QED
      BY <1>0, <2>1, <2>2, <2>3, <2>4, <2>5, <2>6, <2>7, <2>8, CarSizes DEF TestInv
  <1>4. CASE UNCHANGED vars
    BY <1>4 DEF vars, chassisVars, clockVars, ghostVars, TestInv, SinceLoop
  <1> QED
    BY <1>1, <1>2, <1>3, <1>4 DEF Next, Between

\* The invariant of the control loop under commands, faults and ticks.
THEOREM CarInvariant == Spec => []CarInv
  <1>1. CarInv /\ [Next]_vars => CarInv'
    BY CarNextType, DrivenNext, LoopNext, RunNext, AgeNext, TestNext DEF CarInv
  <1> QED
    BY <1>1, CarInitInv, PTL DEF Spec

-----------------------------------------------------------------------------
(* What follows from it.                                                   *)

\* The motors do what the state says, in every order of commands and faults.
THEOREM MotorsFollowState == Spec => []DrivenAsStated
  <1>1. CarInv => DrivenAsStated
    BY DEF CarInv
  <1> QED
    BY <1>1, CarInvariant, PTL

\* No wheel-speed PID integrates before the integral delay of its run, but in a run
\* that inherited the delay of the one that the same loop had stopped.
THEOREM IntegralIsEarned == Spec => []IntegralAfterDelay
  <1>1. ASSUME CarInv, integral
        PROVE  startAge >= IntegralDelay \/ (inherited /\ runAge >= IntegralDelay)
    <2>1. runAge >= IntegralDelay /\ (~inherited => startAge = runAge)
      BY <1>1 DEF CarInv, RunInv, AgeInv
    <2> QED
      BY <2>1
  <1>2. CarInv => IntegralAfterDelay
    BY <1>1 DEF IntegralAfterDelay
  <1> QED
    BY <1>2, CarInvariant, PTL

\* A $DUTY test that the counter does not wrap in ends in time.
THEOREM TestsEnd == Spec => []TestEnds
  <1>1. ASSUME CarInv, out \in DutyPairs, ~wrapped
        PROVE  debugAge <= debugHold + Slack
    <2>1. debug_pwm.active
      BY <1>1 DEF CarInv, DrivenAsStated
    <2>2. /\ debugAge <= now /\ now < debug_pwm.deadline_ms + SinceLoop
          /\ debug_pwm.deadline_ms = Later(now - debugAge, debugHold)
      BY <1>1, <2>1 DEF CarInv, TestInv
    <2>3. now \in Timestamps /\ debugAge \in Nat /\ debugHold \in Timestamps
      BY <1>1, CarSizes DEF CarInv, TypeOK
    <2>4. now - debugAge \in Timestamps
      BY <2>2, <2>3, CarSizes
    <2>5. debug_pwm.deadline_ms <= now - debugAge + debugHold
          /\ debug_pwm.deadline_ms \in Nat
      BY <2>2, <2>3, <2>4, TimestampSums, CarSizes
    <2>6. SinceLoop \in Nat /\ SinceLoop <= Slack
      BY <1>1, CarSizes DEF CarInv, LoopInv, TypeOK, SinceLoop
    <2> QED
      BY <2>2, <2>3, <2>5, <2>6, CarSizes
  <1>2. CarInv => TestEnds
    BY <1>1 DEF TestEnds
  <1> QED
    BY <1>2, CarInvariant, PTL

\* The car is not started by a command that waited for more than a loop: one that
\* was not obeyed is gone.
THEOREM StartsAreFresh == Spec => NoDelayedStart
  <1>1. ASSUME CarInv, [Next]_vars, state # "RUN", state' = "RUN"
        PROVE  startWaits <= Slack
    <2>1. ControlLoop
      BY <1>1, BetweenKeeps DEF Next, Between, Tick, vars
    <2>2. s_start_request
      BY <1>1, <2>1 DEF ControlLoop, StateAfterDuty, StateAfterStart, StateAfterStop
    <2>3. startWaits <= SinceLoop /\ SinceLoop <= Slack
      BY <1>1, <2>2, CarSizes DEF CarInv, LoopInv, SinceLoop, TypeOK
    <2>4. startWaits \in Nat /\ SinceLoop \in Nat
      BY <1>1, CarSizes, SinceLoopNat DEF CarInv, TypeOK
    <2> QED
      BY <2>3, <2>4, CarSizes
  <1>2. CarInv /\ [Next]_vars =>
          [(state # "RUN" /\ state' = "RUN") => startWaits <= Slack]_vars
    BY <1>1
  <1> QED
    BY <1>2, CarInvariant, PTL DEF Spec, NoDelayedStart
=============================================================================
