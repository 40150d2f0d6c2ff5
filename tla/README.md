# Verification of the FreeRTOS control-car firmware

TLA+ models of the MSPM0G3507 control car (`src/`), the TLC configurations that
check them on small instances, and theorems about them that TLAPS checks for
every value of the constants. Sources are named relative to `src/`; every
modelled definition and its lines are listed under `map` in `PROJECT.json`.

## 1. Inventory

The firmware is one C program on FreeRTOS: five static tasks, preemptive, with
fixed priorities, and the UART receive interrupt.

    health     p5  20 ms       deadlines of the others, sole owner of the watchdog feed
    imu        p4  200 Hz      sensor bring-up, calibration, attitude snapshot
    fast       p4  5 ms        encoders, line sensor, motor timeout, IMU snapshot copy
    control    p3  10 ms       state machine, mission, chassis controller, motors
    telemetry  p2  10 ms       text streams, yaw-calibration command
    UART ISR                   assembles and executes commands

| Component | Source | State | Operations | Correct when |
| --- | --- | --- | --- | --- |
| Supervision | `system/*.c`, `main.c`, `app_tasks.c` | heartbeat per task, latched fault and detail, WWDT count | Beat, Check, Raise, Feed, hooks, reset | late tasks are noticed in time, live ones never accused, a fault ends in a reset |
| Motor module | `modules/motor`, `drv_hbridge_motor.c` | recorded duty, bridge registers, command stamp | SetDuty, SafetyTick | never reversed, no drive without refresh, no stop of a refreshed car |
| Chassis controller | `control/chassis.c` | targets, speed-control start, `$DUTY` test | Tick, SetDebugDuty, SetTargetSpeeds | one owner of the motors at a time; tests end; integral delayed |
| State machine, mission | `app_state.c`, `app_mission.c` | IDLE / RUN (FAULT if a task cannot be created) | Tick, Set | stop stops, start needs the IMU |
| Command mailbox | `telemetry.c`, `app_tasks.c` | request flags, `$DUTY` record, calibration request | Consume*, ISR posts | no command lost, repeated or mixed |
| Line parser and streams | `telemetry.c` | `s_cmd_buf`, index, periods | OnRxByte, Tick | each complete line is one command; streams neither starve nor outlive a pause |
| UART / RTT output | `bsp_uart.c`, `rtt_log.c` | ring with write and read offset | Write | records whole and in order, nothing written outside the ring |
| IMU service | `imu_service.c` | bring-up state, yaw calibration, snapshot | Task, Request/Cancel, GetSnapshot | bring-up retried, previous scale restored, snapshots whole |
| ICM45688, SPI | `dev_icm45688.c`, `drv_spi.c` | handle, bias, counters, transfer | ReadReg, WriteReg, Begin, Update | an answer belongs to its access; ready means configured; bias and yaw move only as they should |
| Encoders | `bsp_encoder.c`, `drv_quad_encoder.c` | counts, last state, flags | interrupt, GetDelta, Reset | counts follow the wheel, no more than one edge waits unserved |
| Line sensor, tracker | `dev_line_sensor.c`, `line_tracker.c` | frame, held bias | Update | a lost line is searched where it went, without stopping a wheel |
| PID, filters | `pid.c`, `filter.c` | integral, last error | Update, Reset | an integral waits for its delay and is clamped |
| Vision, display | `dev_vision.c`, `ssd1306_mspm0.c` | frame buffer | parse, draw | not started by the application |

Interaction. The ISR and the tasks share plain variables without critical
sections (flags, the `$DUTY` record, `imu_ready`, `g_tick_ms`, the motor
records); consistency rests on priorities and on the width of single accesses.
Control, health, fast and imu all end in the motor module: control commands,
fast times out, health and imu stop. Only health feeds the watchdog. The encoder
interrupt counts for the chassis, the IMU task owns the SPI bus, the RTT ring is
written by the telemetry task and by the command replies of the UART interrupt.

Hard behaviours, each listed at its line under `hazards` in `PROJECT.json`:
preemption between the writes of one motor command; clock readings stored by
preempted tasks; unsigned differences of 32-bit timestamps at underflow and
wrap; flags read and cleared in two steps; order of commands within one control
period; tests and runs that interrupt one another; faults raised twice, by tasks
that preempt one another; hooks that spin with interrupts disabled; a ring with
two writers; bytes that arrive after their transfer timed out; edges that arrive
while the handler of earlier ones runs; a sample that arrives between the reading
of data-ready and of the data.

## 2. Modules

| Module | Models | Extends |
| --- | --- | --- |
| `Ticks` | the wrapping tick counter: increment, unsigned difference, sum | |
| `SystemHealth` | supervision, the IMU task's own fault, watchdog and reset | `Ticks` |
| `MotorSafety` | the motor module under control, fast, telemetry, health and imu | |
| `Chassis` | who commands the motors, the `$DUTY` test, the integral delay | `Ticks` |
| `CarControl` | state machine, mission and commands around `Chassis` | `Chassis` |
| `Mailbox` | abstract: what the mailbox promises to who sends commands | |
| `CommandFlags` | the mailbox of the ISR, access by access; implements `Mailbox` | |
| `ImuService` | bring-up, static and yaw calibration, the published snapshot | |
| `Commands` | what each line of the console means | |
| `CommandLines` | abstract: what the console promises to who sends it bytes | `Commands` |
| `Console` | byte assembly and streams, access by access; implements `CommandLines` | `Commands` |
| `RttRing` | the RTT ring with two writers and the probe | |
| `Encoder` | the GPIO interrupt of both encoders, GetDelta, Reset | |
| `SpiBus` | one register access, byte by byte, with its timeouts | |
| `Icm45688` | the sensor's driver as the IMU task calls it, and the sensor's clock | `SpiBus` |
| `LineSensor` | one frame from the set of active channels | |
| `LineFollower` | sensor, tracker, mission, PIDs and wheel-speed control in one loop | `LineSensor` |
| `SystemHealthProofs`, `CarControlProofs`, `MotorSafetyProofs`, `ImuServiceProofs`, `Icm45688Proofs`, `ConsoleProofs` | theorems | their module, `TLAPS` |
| `WheelProofs` | theorems about the encoders and the line follower | `Encoder`, `LineFollower`, `TLAPS` |
| `ExchangeProofs` | theorems about the RTT ring and the mailbox | `RttRing`, `CommandFlags`, `TLAPS` |
| `MC*` | constants that a `.cfg` cannot write | their module |

The three views overlap on purpose. `CarControl` takes a whole control loop as
one step and follows time and modes; `CommandFlags` takes the same loop apart
into accesses and forgets time; `MotorSafety` takes apart the motor writes at
the loop's end and lets the control laws ask for anything; `LineFollower` is the
control laws themselves. In the same way `ImuService` takes a sample of the
sensor as given and `Icm45688` the calibration's verdict on it.

Operators marked *Mutant* in the modules are never part of a specification. Each
is a plausible mistake in the code (a dropped guard, a swapped order, a missing
reset); with it in place of the definition it stands before, the property named
in `PROJECT.json` is violated.

### SystemHealth

A monitored task i has a program counter `pc[i]`: `LoopTop(i)` is the reading of
the tick counter, `Beat(i)` stores that reading. Between them any time may
pass, and nothing forces a task to move. The health task reads the counter in
`HealthSample` and judges in `HealthVerdict`; ticks can intervene, monitored
tasks cannot (priority 5), which is the guard `CanRun`. `Raise` is
`System_Fault_Raise` as one step, motors first, then the first fault wins; the
health task takes it so, for no task preempts it.

Everyone else raises with interrupts enabled, step by step: `RaiseBegins` stops
the motors and tests `s_code`, `StoreDetail` and `StoreCode` are the two stores
(`fault_manager.c:15-20`), after which the IMU task is `"failed"`, and a task in a
hook of `main.c` is `"halting"` until `Halt`, its `taskDISABLE_INTERRUPTS`. A task
within these steps is `Busy`: tasks of lower priority wait for it, those of higher
priority, and health, run between any two. So control may drive the motors again
between the stop of a hook in the telemetry task and its `Halt`, and health or
another task may latch its fault between the test and the stores. `MaskedHook` is
what remains of a hook in one step: the stack check of a context switch, and an
assertion that fails in an interrupt, a critical section or the health task.

`ImuReady` is the end of the bring-up. `Tick` is the SysTick, `MaskedTick` a period
of the watchdog's own oscillator without a tick, `Reset` the expiry. `beatAge` and
`loopAge` are ghosts: the true age of a reading, which does not wrap (it stops
growing at `Wrap`).

### MotorSafety

Timestamps appear as ages, since all the code does with them is subtract. One
step is one store: `motor->duty`, each of the three register writes of the
H-bridge in the code's order, the stamp. Control may be preempted between any
two by a whole `SafetyTick`, a whole fault stop, or the fast task's overwriting
of `g_tick_ms`; what it cannot do is run while the fast task is in its loop
(`CtlRuns`). `request` is what the control laws pass to `BSP_Motor_SetDuty`: any
member of `Requests`, negative and too large ones included.

### Chassis and CarControl

`ControlLoop` is one call each of `App_State_Tick`, `App_Mission_Tick` and
`Control_Chassis_Tick`. A pair of duties is abstract: `"zero"`, `"speed"` (the
speed controller's) or a `$DUTY` pair; targets are `"zero"` or `"line"`.
`integral` says that some wheel's PID has updated its integral. Commands, IMU
snapshots and faults are steps of their own between two loops. `startAge` counts
ticks since a start began the run (`RunBegins`), `runAge` since the first of the
loops in a row that ended in RUN. They differ in a run that a start began in the loop
that had just stopped the one before, which is `inherited`.

### CommandFlags

The ISR's posting of a command is one step because no task runs within it; each
consumer's read, copy and clear are separate steps, because the ISR can fall
between them. The two duties of a request are one word and the hold time
another, which is how a 32-bit processor copies the record; each word holds the
number of the `$DUTY` it came from. `waiting` and `missed` are ghosts.

`Mailbox` is what this amounts to for a sender: one command of each kind is held,
its consumer looks, and finishes with the effect; what comes in between is thrown
away. `Box` maps the flags to it: while a consumer works on a command it has read
(`Taken`), the flag still stands for that command, and only `waiting` tells whether
a newer one has come.

### ImuService

The task's program counter follows `IMU_Service_Task`: `Attempt` and `Retry` are
the retry loop (a chip that answers with a wrong name leaves status OK: the loop
ends without `Begin`, and the first sample then fails), `CalSample`, `CalMoved`,
`CalDone`, `CalFails` the static calibration, `Serve` is `service_yaw_requests`,
`Sample` and `SampleFails` the rest of the loop. A sample chooses whether the car
is stationary, the sign of a motion past the threshold, and the yaw since the
origin of the phase; `Update` is the switch of `update_yaw_calibration`.
`RequestStart`, `RequestCancel` (telemetry, of lower priority) and `CopySnapshot`
(fast) are the other tasks. A gyro scale s is represented by 2 * 1440 / s, the
degrees an uncorrected gyro measures over the turns of both directions, which
makes the scale found by a calibration an integer. Ghosts: `inForce` is the scale
from before the present calibration, `restarted` says that a running one was
restarted since, `stillFor` counts stationary samples in a row.

### Commands, CommandLines and Console

A line is a sequence of symbols: a keyword with its comma, a digit or a comma.
`Commands` gives its effect on the settings (`Effect`) and the request it posts
(`Post`). `CommandLines` is the promise: a line that fits is one command, taken
when its end comes; `s` and `x` act at once and are part of no line; a line that
is too long takes effect at most once, as some line that fits. `Console` has the
buffer and the index of `Telemetry_OnRxByte`; a byte that does not fit is dropped
and resets the index, so the rest of the line is a command of its own. The
refinement `Promised` maps the buffer to the line while the line has not
overflowed. On the other side, `TelemetryTick`, `EmitChassis`, `EmitLine` and
`EmitImu` are the accesses of one call of `Telemetry_Tick`, with the interrupt
between any two; `EmitChassis` reads `s_enabled`, which is not volatile, again or
not, as the compiler likes. `EnableRx` and `Bind` are the part of `App_Init` that
already runs with the interrupt enabled.

### RttRing

`TaskBegin`, `TaskCheck`, `TaskLoad`, `TaskCopy` and `TaskPublish` are the
accesses of one `RTT_Log_Write` of the telemetry task, a byte per step; `IsrWrite`
is a whole write by the interrupt, in which no task runs; `HostRead` is the debug
probe, which takes a byte at any time. `TaskLoad` may keep the earlier load of
the write offset. `owed` is what the probe should still get, `mixed` says that a
reply fell into a write of the task and that the probe has not emptied the ring
since: then the records are garbled, as the code allows, and only `TypeOK` says
that the writers stay within the ring.

### Encoder

`Turn` is one edge of a wheel, which sets its phase's flag. `Enter` is the
reading of the flags, `Decode` the table step of a wheel, `Leave` the clearing of
the flags that were read. `GetDelta` and `Reset` run with interrupts disabled, so
never within the handler. Edges may come between any two steps. `jumps` counts
decodings that found the wheel two edges or more further.

### SpiBus and Icm45688

`Call(n)` starts an access of n bytes behind the register number; the actions of
`Driver` are the steps of `Drv_Spi_ReadReg8` and `Drv_Spi_WriteReg8`; `Shift` is
the peripheral, which completes a byte whenever it likes, the timeouts
(`BusyTimeout`, `ReceiveTimeout`) included or not. A byte is known by the access
it belongs to. In `Icm45688` the program counter names the access the IMU task
waits for; `Configure`, `WhoAmI`, `BeginDrive`, `BeginWhoAmI`, `BeginSetup`,
`BeginStatus` and `BeginReady` are the attempt and `ICM45688_MSPM0_Begin`; `Poll`,
`DataReady` and `Sample` are `wait_and_update_imu`, with their failures; `NewSample`
is the sensor, on its own clock; `Transfer` is the last byte of an access taking
effect in the sensor. A sample is what the thresholds tell apart; `still` and
`slow` count true samples in a row, beside the driver's own counters.

### LineSensor and LineFollower

`FrameUpdate` is `Dev_LineSensor_Update`: contrast, strength, weighted bias, low
pass, and the bias held for a lost line. `RunTick` is one loop of the control
task in RUN (tracker, mission targets, feed-forward and PID of a wheel),
`StandTick` one outside of it. A stop and a start that one loop serves leave no
trace here, since neither mission nor chassis sees the state in between; `inRun`,
the periods for which every loop has ended in RUN, goes on through them. Floats are integers of a fixed unit, rounded to
the nearest; the integral of the line PID, which its gain multiplies by zero, is
left out. `TurnAssumption` is what makes a setting of gains and limits one that
does not stop a wheel: the largest turn leaves the base speed above the end of the
feed-forward. `FollowsWithin` says of a sequence of biases that the low pass has
reached them after so many samples on one side, wherever it started;
`MCLineFollower` computes the slowest such sequence and assumes, which TLC
evaluates, that it crosses over within `Streak` samples. It does not for 6, so 7 is
the least.

## 3. Runs

| Run | Checks | Shows |
| --- | --- | --- |
| `health` | `DetectionBound`, `AccusesOnlyStale`, `OffUnlessPreempted`, `FaultIsFinal`, `FaultResets`, `NoSilentHang` | across wraps, latency, masked ticks, resets, and raises and hooks preempted at every step: late heartbeats are noticed in time, nobody is accused falsely; whose fault is kept, when a halted processor has its motors off; every fault ends in a reset; a task that hangs brings one about |
| `motor` | `ForwardOnly`, `UnrefreshedStops`, `BridgeFollowsDuty`, `StopsOnlyUnrefreshed` | all mixtures of register writes and stops; the timeout works on the recorded duty |
| `car` | `TypeOK`, `DrivenAsStated`, `TestEnds`, `IntegralAfterDelay`, `NoDelayedStart` | modes, tests and starts, in every order of commands |
| `flags` | `LostOnlyInWindow`, `DutyServedInOrder`, `CommandIsRead`, `KeepsMailbox` | the only way to lose a command; the only way to mix two requests; no other command waits for ever; one effect at most for each, and none without |
| `imu` | `ReadyMeansCalibrated`, `ScaleRestored`, `LeftAtRest`, `BringUpEnds` | whatever the sensor answers and whenever requests come: bring-up ends, only a calibrated sensor lets the car start, scales are put back, nothing is measured on the move |
| `console` | `TypeOK`, `StreamAlive`, `PauseEndsStream`, `LineDiscipline` | bytes in every order: the assembly implements the line discipline; streams neither starve nor outlive a pause, across the counter's wrap |
| `rtt` | `TypeOK`, `WholeRecords` | a ring that runs full and wraps: no write leaves it; records are whole unless a reply falls into a write |
| `encoder` | `CountsFollowWheel`, `EdgeIsServed` | wheels that turn both ways under a late handler: what is lost is bounded, and at most one edge of a wheel is left without a flag |
| `icm` | `OwnAnswers`, `WholeFrames`, `ReadyMeansConfigured`, `TwiceOnlyIfEarly`, `BiasLearnedAtRest`, `YawHeldAtRest` | late and missing bytes at every step of set-up and sampling: answers belong to their access, a ready sensor is configured, the bias and the yaw move only as they should |
| `line` | `SeekRemembersSide`, `BothWheelsForward`, `IntegralEarned` | every reading and speed from frame to duty: the lost side is remembered, no wheel stops in a turn, a wheel has an integral only after the delay in RUN |

Two runs end in a counterexample: statements of the documentation that the code
does not meet. `findings` in `PROJECT.json` quotes each statement with its line.

| Run, property | Divergence |
| --- | --- |
| `car_fault`, `FaultKeepsMotorsStopped` | nothing in the control task looks at the latched fault; its next loop drives again until the reset |
| `car_last_stop`, `LastStopObeyed` | start then stop within one control period ends in RUN |

Other divergences and weak places, met while modelling and described here only:

- A stop and a start that one control loop serves (`app_state.c:34-42`) begin a run
  with the integral of the stopped one and without a new delay, for
  `Control_Chassis_Tick` sees no loop outside RUN (`chassis.c:266`).
  `docs/CALIBRATION.md:52-54` promises that no integral accumulates in the first
  200 ms after a run starts. `IntegralAfterDelay` says that this is the only run
  whose PIDs integrate before its own delay is over.
- A stop between `motor->duty = duty` and the bridge writes (`dev_motor.c:72`)
  leaves a driven wheel with recorded duty 0; if the control task then hangs,
  `SafetyTick` sees nothing to stop, although `README.md:49` promises a stop of
  duties that are not refreshed. `BridgeFollowsDuty` says what does hold: the next
  undisturbed loop repairs the bridge.
- A hook in the telemetry task can be preempted between its stop and its
  `taskDISABLE_INTERRUPTS` (`main.c:31-32`, `50-51`): control drives the motors
  again and the processor then spins with driven motors until the watchdog resets
  it. `OffUnlessPreempted` says that this is the only way, `FaultResets` that it
  ends.
- The first fault is not always the one that is kept: a task of lower priority
  that had tested `s_code` before stores its own over it (`fault_manager.c:17-19`).
  `FaultIsFinal` allows these two stores and nothing else.
- `$STOP` does not end a `$DUTY` test: the state machine only leaves RUN
  (`app_state.c:35`).
- A stop received between the read and the clear of its flag is forgotten
  (`telemetry.c:132`). `LostOnlyInWindow` says that this is the only way.
- `$IMUCAL,CANCEL` is served before `$IMUCAL,START` whatever their order
  (`imu_service.c:353`): a start then a cancel that wait together start a
  calibration. A calibration that is started again while it runs saves the
  temporary 1.0 as the previous scale (`imu_service.c:244`).
- The search for a lost line leans the targets the other way than the line PID
  does for a bias of the same sign (`line_tracker.c:42` against
  `PID_Update(0, bias)`). Which is right depends on the wiring.
- The line PID is never reset, and its integral, multiplied by a gain of zero,
  grows without use. Speeds are absolute values of the counts
  (`chassis.c:247`), so a wheel that is pushed backwards looks like one that
  turns forwards.
- Records of the RTT ring are garbled when a command reply falls into a write of
  the telemetry task (`rtt_log.c:70`). `WholeRecords` says that nothing else
  garbles them and that it is over once the probe has emptied the ring.
- A command that is too long takes effect as its tail (`telemetry.c:376`);
  `LineDiscipline` allows exactly that.

Two weaknesses appear only when the 32-bit counter wraps, after 49.7 days, and
the properties exempt them. `s_started_ms` stays 0, so the start-up grace opens
again for 2 s and stale heartbeats go unnoticed meanwhile (`DetectionBound` speaks
of the time outside). And `now_ms >= deadline` of a `$DUTY` test is no modular
comparison: a test across the wrap can outlive its hold time (`TestEnds` speaks
of the others).

Some properties are weaker than a reader may expect. `DutyServedInOrder` allows
a request that joins the duties of one `$DUTY` with the hold time of the next,
if the compiler copies the record with two loads and the ISR falls between them;
the second request is then forgotten. `IntegralAfterDelay` exempts the run that
inherits its delay, as above; `IntegralEarned` speaks of loops in a row that
ended in RUN, among which such a run leaves no trace. `NoDelayedStart` bounds
how long a start may wait; one that was received while the IMU was not ready is
obeyed if the snapshot turns ready before the next control loop. `ScaleRestored`
exempts calibrations restarted while they run. `BringUpEnds` exempts a gyro that
is moved during every static calibration, which repeats it without limit.
`TwiceOnlyIfEarly` exempts a sample that came between the reading of data-ready
and of the data: it is announced again after it has been used, and integrated
twice. `EdgeIsServed` exempts a wheel whose two phases were flagged when the
handler began and allows the others one unserved edge, `CountsFollowWheel`
decodings that found the wheel two edges further.

### Bounds and why they are enough

- `Wrap` (10, 8, 4) stands for 2^32. The assumptions ask only that it exceeds
  the times that are measured, which 2^32 does by far; the small values make the
  counter wrap several times in a run.
- `health`: two monitored tasks, since the check treats tasks independently: control
  and one with a fault of its own. They have one priority, so that each may preempt
  the other at any step of a raise: the behaviours of a task above control and of one
  below it are both among them. The theorems hold for any set of tasks and priorities.
  Deadlines 1, health period 2, latency 1, watchdog period 3, no grace: a heartbeat
  can be in time, late at the next poll, or recover in between, and the watchdog
  survives one verdict that does not feed it. The grace period is covered by the
  theorems.
- `motor`: requests -1, 0, 2 with `PwmMax` 1 lie below, in and above the clamps.
  `MaxAge` 6 exceeds timeout, fast period and latency together (an assumption);
  older ages are not told apart by the code.
- `car`: hold times 0 (the default, 2) and 3, integral delay 3, `Wrap` 8, control
  period 2 with latency 1: tests end before, at and across the wrap. `AgeBound`
  and `Slack` bound ghosts only.
- `flags`: `MaxDuty` 2 bounds the `$DUTY` requests received in all: two suffice to
  mix, to lose one or to serve one twice. Other commands are unbounded.
- `imu`: two attempts, two samples of static calibration, two to settle (one that
  counts and one that completes); `FourLap` 100 with yaws of 0, 100 (right), 103
  (beyond the 2 % the directions may differ) and 130 (an invalid scale), both
  ways. `ProfileScale` 201 differs from 200, the scale 1.0.
- `console`: a buffer of two symbols holds a keyword with its argument and
  overflows with one more; rates 1 and 2 give periods 2 and 1; two polls fit into
  the longest period, and `Wrap` is the least that the assumption allows, so that
  the wrap meets every phase. `LateCap` bounds a ghost above what is allowed.
- `rtt`: a ring of 5 with records of 2, 3 and 4 bytes: one that fills the ring,
  pairs that fit and pairs that do not, at every offset.
- `encoder`: one wheel turns over four positions, a whole period of the table,
  the other over two; `MaxJumps` 1 stops a wheel after a decoding that came too
  late, which is after the loss was seen.
- `icm`: hold and learning times of 3 samples, three set-up calls (first, middle,
  last), two headings. The FIFO never holds more than one byte. Deadlock is not
  checked: a failed bring-up ends the task for good.
- `line`: four channels, biases in 1/20, the car's gains and feed-forward with a
  smaller correction limit, so that the integral reaches it; one wheel's speed
  control, for the two are independent; `Streak` 7 is how long the low pass can
  still hold a crossing.

### Fairness

- `SystemHealth`: weak fairness of `Tick \/ MaskedTick \/ Reset` alone, the
  LFCLK oscillator of the watchdog. No task is assumed to run, and hooks may
  stop all of them; this is what a watchdog is for.
- `CommandFlags`: weak fairness of the control task; strong fairness of the
  telemetry task, which is ready only while control waits for its next period.
  The periods leave it time in every one, and if they did not the watchdog
  would reset the MCU.
- `CarControl`: weak fairness of the control loop and the tick; no property
  checked so far depends on it.
- `ImuService`: weak fairness of the task, whose waits are all bounded and above
  which only health, which never loops, has priority.
- The other modules have none: their properties are safety properties, and the
  times that bound them (`Poll` in `Console`) are guards of the tick.

Deadlock is checked in every run but `icm`.

## 4. Proofs

All theorems are checked to the leaves. Assumptions are the named `ASSUME`s of
the modules, which TLC evaluates in every run.

`SystemHealthProofs`, from `HealthAssumption` and `WidthAssumption`:

- The lemmas on timestamps: an unsigned difference is a timestamp, grows by one
  with each tick until it wraps, and adds up over an intermediate reading. These
  are the facts used of `Wrap`; nothing else is.
- `TypeCorrect`: `Spec => []TypeOK`.
- `SupervisionInvariant`: `Spec => []HealthInv`. `DetectionBound` is not
  inductive. It needs `AgesAreTrue` (the code's modular age is the true one
  while that is below `Wrap`), `BeatsAdvance` (storing an old reading never
  makes a heartbeat older), `CheckIsOrdered` (while health is between its
  reading and its verdict no heartbeat is newer than the reading: priorities),
  and `AgesAreBounded`, the bound at each phase between two verdicts, with a
  second bound for the grace period so that an age cannot pass `Wrap` there.
- `LateHeartbeatNoticed`, `NoFalseAccusation`, `FaultKeptUntilReset`,
  `HaltedAfterStop`: the four safety properties of the run.
- `HookInvariant`: `Spec => []HookInv`. A task that control cannot preempt keeps the
  motors off from its stop to its halt (`StopHolds`), a task that latches a fault has
  one to latch (`RaisesFault`), and a hook is through with `System_Fault_Raise` only
  when some fault is latched (`HaltsFaulted`). `HaltedAfterStop` and
  `FaultKeptUntilReset` follow from it, and `NoFalseAccusation` needs its part on
  what a raising task stores.

`CarControlProofs`, from `WrapAssumption`, `ChassisAssumption` and
`ControlAssumption`:

- `RunLoop` and `IdleLoop` say once what a control loop does to the chassis; every
  other lemma uses them instead of the code's nested branches. `BetweenKeeps` says
  what commands, snapshots and faults leave alone.
- `CarInvariant`: `Spec => []CarInv`. `SinceLoop` bounds the time since the last
  loop, through late loops; a waiting start is no older (`LoopInv`). The speed
  controller is active in RUN only, and the difference its delay is computed from
  never exceeds the true age of the run, also when it has wrapped (`RunInv`).
  Before a wrap the deadline of a test is its true start plus its hold time, and a
  test that drives was before its deadline one `SinceLoop` ago (`TestInv`).
- `AgeInv` says that a run has one age unless it inherited its delay, which turns
  what `RunInv` knows of `runAge` into `IntegralAfterDelay`.
- From it `CarTypeCorrect`, `MotorsFollowState`, `IntegralIsEarned`, `TestsEnd`,
  `StartsAreFresh`: all properties of the `car` run.

`MotorSafetyProofs`, from `MotorAssumption`:

- `MotorTypeCorrect`, `NeverReversed`, `TimeoutStops`, `NoEarlyStop`.
- `MotorInvariant`: `Spec => []MotorInv`. The timeout is correct because no
  stamp is newer than the fast task's reading while it decides (`StampNotAhead`;
  it would break if control or telemetry ran meanwhile), because a stamp is
  never newer than the call that took it, though it may be much older when a
  preempted task has set `g_tick_ms` back, and because a duty survives a
  `SafetyTick` only with a recent stamp (`RefreshBounded`). `NoReverse` is
  stated of the requests past the clamps, the recorded duties and the pins.
- `BridgeRepaired`: `WritesInv` follows a pair of motors through its register
  writes: what is written so far is what was aimed at, and nothing is claimed of
  what came before. It holds until a stop falls into the loop, hence `stopped`.

`ImuServiceProofs`, from `ImuAssumption`:

- `ImuInvariant`: `Spec => []ImuInv`. What the observers see lags behind the task,
  so the invariant ties each copy to its source: a published READY to the loop
  (`ReadySource`), the remembered scale to the one in force (`ScaleKept`, which
  needs also that a failed calibration still remembers it, since a later cancel
  restores it once more), the count to the stationary samples (`CountIsTrue`).
- `ImuTypeCorrect`, `StartsCalibrated`, `ScaleIsRestored`,
  `NothingMeasuredOnTheMove`: type correctness and the safety of the run.

`ConsoleProofs`, from `BufferAssumption`, `RateAssumption` and `TimeAssumption`:

- `ConsoleTypeCorrect`: the line fits the buffer with room for the 0 that ends it
  (`LongerLine` is the boundary), the period stays between 1 ms and a second.
- `ConsoleKeepsDiscipline`: `Spec => Promised!Spec`. Initial states map to initial
  states and each step to a step or a stutter (`PromiseStep`), for any set of
  symbols and any length.
- `ConsoleStreamAlive`: `StreamAlive` is not inductive. `AliveInv` bounds the time
  without a record by the time since the last poll, or by the time since the last
  emission and one poll more; the second holds only while that time is shorter
  than a period, and so cannot wrap. The bound, a second and three polls less one,
  is the least that TLC accepts for a poll of 2.
- `ConsolePauseEnds`: `PauseInv` counts what the interrupted call can still emit.

`ExchangeProofs`, from `SizeAssumption`, `LengthAssumption` and `MaxDutyAssumption`:

- `RingTypeCorrect`: offsets stay in the ring even while two writers mix.
- `RecordsAreWhole`: `RecordInv` says where the bytes are: the unread ones are the
  ones owed (`Delivers`), the task's copy lies behind them and all of it will fit
  (`Copies`). The lemmas on `Moved` and `Used` are the arithmetic of the ring:
  different distances are different offsets, a write of what fits grows the
  unread part, an interrupt's write leaves the unread part alone.
- `FlagsTypeCorrect`, the type invariant `FlagsTypeOK`, which no run needs to check.
- `CommandsLostInWindow`: `LossInv` adds to `LostOnlyInWindow` that what is unread
  within a window is noted as missed; the clear that ends it has nothing else to lose.
- `DutiesInOrder`: `DutyInv` says that the record is always the last `$DUTY`, that a
  pending one is newer than what the chassis has, and that the two words are copied
  one after the other.
- `MailboxKept`: `FlagsSpec => Box!Spec`. Initial states map to initial states and
  each access to an arrival, a look, an effect or a stutter (`BoxStep`); only the
  effect of a `$DUTY` needs an invariant, which is `DutyInv`.

`WheelProofs`, from `ReachAssumption`, `LineSensorAssumption`, `FollowerAssumption`
and `TurnAssumption`:

- `EncoderTypeCorrect`, and `CountsFollow`, from `DecodeStep`: between any two
  phases the table counts the edges exactly if there is at most one, and right
  modulo 2 otherwise.
- `EdgesServed`, from `ServedInv`, which says why the handler may clear what it
  read: once it has decoded a wheel for one flag, either another flag is set
  again or the wheel has only gone back and forth over one edge since.
- `ReadingsInRange`: no pattern of any number of channels gives a bias beyond the
  scale. `Strength` and `Weighted` are folds over the channels, so this is an
  induction over data. The library's theorems of induction take an operator, which
  the provers cannot instantiate; `MinimalMember` (a family of subsets of a finite
  set has a minimal member, from the well-foundedness of strict inclusion) takes a
  set instead, `SubsetInduction` and `NumberInduction` follow from it, `SumExists`
  gives the fold its recursive function and `SumsBounded` the inequality.
- The lemmas on `Nearest` (odd, monotone, exact on whole numbers) are all that is
  used of rounding.
- `LineInvariant`: `LineSpec => []LineInv`, the ranges of all variables
  (`LineTypeOK`), the agreement of the chassis's own delay with the loops in RUN
  (`AgesAgree`), `BothWheelsForward` and `IntegralEarned` together. From it
  `NoWheelStops` and `IntegralsAreEarned`.
- `SeekStartsOnSide`: for every `low` with `FollowsWithin(low)`,
  `LineSpec => []SeekRemembersSide`. `SideInv` says that after k samples in a row on
  one side the bias has come as far as `low[k]`; a sample that makes the streak
  longer moves it on because the low pass keeps the order of what it held, and one
  on the other side starts again from `low[0]`, below which nothing is. The
  hypothesis is a condition on `Alpha`, `Scale`, `Streak` and the readings alone.

`Icm45688Proofs`, from `IcmAssumption`:

- `AnswersAreOwn`, `FramesAreWhole`: `BusInv` says what becomes of a byte that an
  access gave up on: if it is still shifted, the next access waits for it or gives
  up before it selects the sensor; if it has arrived, the next one drains it.
- `HandleAgrees`: `Spec => []HandleInv`, which ties the driver's counters to the
  samples in a row that the sensor really delivered, and the set-up to the calls
  that succeeded. From it `ReadyIsConfigured`, `BiasIsLearnedSlowly`, `YawIsHeld`.
- `UsedOnce`: `ByteInv` says that the bytes of an access are shifted one at a time,
  so the last one once; `AnnounceInv` follows an announced sample to the end of
  its data read: it was never read before, or it came early.

Only model-checked: liveness under fairness (`FaultResets`, `NoSilentHang`,
`BringUpEnds`, `CommandIsRead`), which is beyond the prover. That the low pass
with the car's factor satisfies `FollowsWithin` is computed by TLC for four channels
and biases in 1/20; the car has seven channels and floats. Every other
property that a passing run checks is a theorem.

## 5. Not modelled, and why

- Numerics: the Mahony filter, the yaw integration, odometry and the values of
  angles. Only when they are written and from which samples. The complementary
  attitude mode is never selected by the service.
- `filter.c` and `drv_quad_encoder.c` have no caller in the firmware;
  `BSP_Encoder_Poll` fills diagnostics that nothing reads back.
- Display and vision modules: not started by the application.
- Register set-up, SysConfig output, the vendored sensor library, the RTOS kernel
  and host tools: taken as given; the tick, the priorities and the watchdog
  period are used as the code configures them.
- In `SpiBus` an access that has received its last byte ends well; the code can
  still report a timeout if the bus stays busy after it (`drv_spi.c:106-108`).
- Failure to create a static task, the only source of the FAULT state, stops the
  car at boot.
- The texts of replies and records, signs and blanks in numbers.

## 6. What could come next

- `CarSystem`: `CarControl`, `SystemHealth` and `MotorSafety` joined: how long a
  faulty car can drive until the reset.
- `FollowsWithin` from `Alpha` and `Scale` in closed form, instead of by a sequence.
