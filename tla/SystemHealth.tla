---------------------------- MODULE SystemHealth ----------------------------
(***************************************************************************)
(* Supervision of the application tasks: the heartbeats (health_monitor.c),*)
(* the latched fault (fault_manager.c), the window watchdog (watchdog.c)   *)
(* and the health task that joins them (app_tasks.c).                      *)
(*                                                                         *)
(* A monitored task reads the tick counter at the top of its loop and      *)
(* stores that reading as its heartbeat at the bottom.  It may be slow, or *)
(* never come back: nothing forces it to take its next step.  The health   *)
(* task has the highest priority, so no monitored task moves between its   *)
(* release and its vTaskDelayUntil, while the tick interrupt still does.   *)
(*                                                                         *)
(* Two clocks run.  The SysTick counter drives the tasks; the WWDT counts  *)
(* LFCLK periods and also advances while interrupts are masked or a long   *)
(* interrupt handler (a command reply is printed from the UART interrupt)  *)
(* swallows ticks.                                                         *)
(*                                                                         *)
(* A fault is raised with interrupts enabled.  Whoever has a higher        *)
(* priority than the raising task runs between the stop of the motors, the *)
(* test of the latched code and the two stores, and, when a hook of main.c *)
(* raises it, before the hook disables interrupts and spins.               *)
(***************************************************************************)
EXTENDS Ticks

CONSTANTS
    Tasks,              \* HealthTaskId_t: imu, fast, control, telemetry
    ControlTask,        \* the one that commands the motors
    ImuTask,            \* the one that may raise a fault of its own
    Priority,           \* the FreeRTOS priority, a function on Tasks
    Deadline,           \* s_deadline_ms, a function on Tasks
    Grace,              \* HEALTH_STARTUP_GRACE_MS
    HealthPeriod,       \* the 20 ms of the health task
    HealthLatency,      \* ticks from the health task's release to its verdict
    WdtPeriod           \* the WWDT period

ASSUME HealthAssumption ==
    /\ ControlTask \in Tasks /\ ImuTask \in Tasks \ {ControlTask}
    /\ Priority \in [Tasks -> Nat]
    /\ Deadline \in [Tasks -> Nat]
    /\ Grace \in Nat
    /\ HealthPeriod \in Nat \ {0}
    /\ HealthLatency \in 0 .. (HealthPeriod - 1)
    /\ WdtPeriod \in Nat \ {0}

\* The counter is far wider than every delay it has to tell apart.
ASSUME WidthAssumption ==
    \A i \in Tasks : Grace + Deadline[i] + 4 * HealthPeriod < Wrap

VARIABLES
    now,                \* xTickCount
    pc,                 \* pc[i]: task i is in vTaskDelay ("delay") or in its loop
                        \* body; a task that raises a fault is "latching" and
                        \* "coding" it; the IMU task ends up "failed", a hook
                        \* "halting" and "halted"
    raising,            \* raising[i]: the code that task i is about to latch
    bringUp,            \* the IMU task initializes the sensor or calibrates it
    loopNow,            \* loopNow[i]: the local `now` of task i's loop
    s_last_beat_ms,
    hpc,                \* the health task: "delay", "ready", "check"
    hnow,               \* its local `now`, 0 outside of the loop body that has it
    phase,              \* ticks since the health task's last release
    s_code, s_detail,   \* the latched fault; a stale mask is a set of tasks
    driving,            \* some motor is commanded a non-zero duty
    wdt,                \* WWDT count since the last restart
    halted,             \* a hook disabled interrupts and spins
    \* Ghosts: the true age of a reading in ticks, which does not wrap around
    \* but stops growing at Wrap.
    beatAge,            \* beatAge[i]: since s_last_beat_ms[i] was read
    loopAge             \* loopAge[i]: since loopNow[i] was read

taskVars   == <<pc, raising, bringUp, loopNow, s_last_beat_ms, beatAge, loopAge>>
healthVars == <<hpc, hnow, phase>>
faultVars  == <<s_code, s_detail>>
vars == <<now, taskVars, healthVars, faultVars, driving, wdt, halted>>

Older(age) == IF age < Wrap THEN age + 1 ELSE age

\* HOOK stands for STACK and HEAP, which differ in the hook that raises them.
FaultCodes == {"NONE", "TASK_STALE", "IMU", "HOOK"}

PcValues ==
    {"delay", "body", "latching", "coding", "failed", "halting", "halted"}

-----------------------------------------------------------------------------
(* App_Init and the first instant of the scheduler; also what a reset      *)
(* restores, since nothing is kept across it.                              *)

Init ==
    /\ now = 0
    /\ pc = [i \in Tasks |-> "delay"]
    /\ raising = [i \in Tasks |-> "NONE"]
    /\ bringUp = TRUE
    /\ loopNow = [i \in Tasks |-> 0]
    /\ s_last_beat_ms = [i \in Tasks |-> 0]
    /\ hpc = "ready" /\ hnow = 0 /\ phase = 0
    /\ s_code = "NONE" /\ s_detail = {}
    /\ driving = FALSE
    /\ wdt = 0
    /\ halted = FALSE
    /\ beatAge = [i \in Tasks |-> 0]
    /\ loopAge = [i \in Tasks |-> 0]

\* Mutant: an early return if a fault is already latched.
RaiseOnlyFirst(code, detail) ==
    IF s_code = "NONE"
    THEN driving' = FALSE /\ s_detail' = detail /\ s_code' = code
    ELSE UNCHANGED <<driving, faultVars>>

\* System_Fault_Raise where nothing preempts it: both motors to zero first,
\* then the first fault wins.
Raise(code, detail) ==
    /\ driving' = FALSE
    /\ IF s_code = "NONE"
       THEN s_detail' = detail /\ s_code' = code
       ELSE UNCHANGED faultVars

\* Mutant: the loop over the tasks ends one short.
StaleTasksButOne(t) ==
    {i \in Tasks \ {ControlTask} : /\ Elapsed(t, 0) >= Grace
                                   /\ Elapsed(t, s_last_beat_ms[i]) > Deadline[i]}

\* The mask computed by System_Health_Check.
StaleTasks(t) ==
    {i \in Tasks : /\ Elapsed(t, 0) >= Grace
                   /\ Elapsed(t, s_last_beat_ms[i]) > Deadline[i]}

-----------------------------------------------------------------------------
(* The monitored tasks: fast, control, telemetry and the IMU service.      *)

\* Task i is in the middle of System_Fault_Raise or of a hook: it does not wait.
Busy(i) == pc[i] \in {"latching", "coding", "halting"}

\* Mutant: the health task does not have the highest priority.
CanRunBesideHealth(i) ==
    ~halted /\ \A j \in Tasks : Busy(j) => Priority[j] <= Priority[i]

CanRun(i) ==
    /\ ~halted /\ hpc = "delay"
    /\ \A j \in Tasks : Busy(j) => Priority[j] <= Priority[i]

LoopTop(i) ==
    /\ CanRun(i) /\ pc[i] = "delay"
    /\ pc' = [pc EXCEPT ![i] = "body"]
    /\ loopNow' = [loopNow EXCEPT ![i] = now]
    /\ loopAge' = [loopAge EXCEPT ![i] = 0]
    /\ UNCHANGED <<now, raising, bringUp, s_last_beat_ms, beatAge, healthVars,
                   faultVars, driving, wdt, halted>>

\* The control task writes the duties its state and targets ask for.
Drive ==
    /\ CanRun(ControlTask) /\ pc[ControlTask] = "body"
    /\ driving' \in BOOLEAN
    /\ UNCHANGED <<now, taskVars, healthVars, faultVars, wdt, halted>>

\* System_Health_Beat(i, now) with the reading taken at the loop's top.
Beat(i) ==
    /\ CanRun(i) /\ pc[i] = "body"
    /\ pc' = [pc EXCEPT ![i] = "delay"]
    /\ s_last_beat_ms' = [s_last_beat_ms EXCEPT ![i] = loopNow[i]]
    /\ beatAge' = [beatAge EXCEPT ![i] = loopAge[i]]
    /\ UNCHANGED <<now, raising, bringUp, loopNow, loopAge, healthVars, faultVars,
                   driving, wdt, halted>>

-----------------------------------------------------------------------------
(* A fault raised by a monitored task: the IMU task gives up its bring-up, *)
(* or any task fails an allocation or an assertion and enters the hook.    *)

ImuReady ==
    /\ CanRun(ImuTask) /\ bringUp /\ pc[ImuTask] = "body"
    /\ bringUp' = FALSE
    /\ UNCHANGED <<now, pc, raising, loopNow, s_last_beat_ms, beatAge, loopAge,
                   healthVars, faultVars, driving, wdt, halted>>

\* What the raising task does next: the IMU task waits for ever, without
\* heartbeats; a hook goes on to disable interrupts.
AfterRaise(code) == IF code = "IMU" THEN "failed" ELSE "halting"

\* Mutant: the fault is latched without looking for an earlier one.
RaiseUntested(i, code) ==
    /\ CanRun(i) /\ pc[i] = "body"
    /\ code = "IMU" => i = ImuTask /\ bringUp
    /\ driving' = FALSE
    /\ pc' = [pc EXCEPT ![i] = "latching"] /\ raising' = [raising EXCEPT ![i] = code]
    /\ UNCHANGED <<now, bringUp, loopNow, s_last_beat_ms, beatAge, loopAge,
                   healthVars, faultVars, wdt, halted>>

\* System_Fault_Raise up to its test of s_code.
RaiseBegins(i, code) ==
    /\ CanRun(i) /\ pc[i] = "body"
    /\ code = "IMU" => i = ImuTask /\ bringUp
    /\ driving' = FALSE
    /\ \/ /\ s_code = "NONE"
          /\ pc' = [pc EXCEPT ![i] = "latching"]
          /\ raising' = [raising EXCEPT ![i] = code]
       \/ /\ s_code # "NONE"
          /\ pc' = [pc EXCEPT ![i] = AfterRaise(code)]
          /\ UNCHANGED raising
    /\ UNCHANGED <<now, bringUp, loopNow, s_last_beat_ms, beatAge, loopAge,
                   healthVars, faultVars, wdt, halted>>

StoreDetail(i) ==
    /\ CanRun(i) /\ pc[i] = "latching"
    /\ s_detail' = {}
    /\ pc' = [pc EXCEPT ![i] = "coding"]
    /\ UNCHANGED <<now, raising, bringUp, loopNow, s_last_beat_ms, beatAge, loopAge,
                   healthVars, s_code, driving, wdt, halted>>

StoreCode(i) ==
    /\ CanRun(i) /\ pc[i] = "coding"
    /\ s_code' = raising[i]
    /\ pc' = [pc EXCEPT ![i] = AfterRaise(raising[i])]
    /\ raising' = [raising EXCEPT ![i] = "NONE"]
    /\ UNCHANGED <<now, bringUp, loopNow, s_last_beat_ms, beatAge, loopAge,
                   healthVars, s_detail, driving, wdt, halted>>

\* taskDISABLE_INTERRUPTS, and the endless loop after it.
Halt(i) ==
    /\ CanRun(i) /\ pc[i] = "halting"
    /\ pc' = [pc EXCEPT ![i] = "halted"]
    /\ halted' = TRUE
    /\ UNCHANGED <<now, raising, bringUp, loopNow, s_last_beat_ms, beatAge, loopAge,
                   healthVars, faultVars, driving, wdt>>

-----------------------------------------------------------------------------
(* The health task.                                                        *)

HealthSample ==
    /\ ~halted /\ hpc = "ready"
    /\ hpc' = "check"
    /\ hnow' = now
    /\ UNCHANGED <<now, taskVars, phase, faultVars, driving, wdt, halted>>

\* System_Watchdog_Feed
Feed == wdt' = 0

\* Mutant: feeds although a fault is latched.
HealthVerdictFeeds ==
    /\ ~halted /\ hpc = "check"
    /\ LET stale == StaleTasks(hnow) IN
         \/ stale = {} /\ Feed /\ UNCHANGED <<faultVars, driving>>
         \/ stale # {} /\ Raise("TASK_STALE", stale) /\ UNCHANGED wdt
    /\ hpc' = "delay" /\ hnow' = 0
    /\ UNCHANGED <<now, taskVars, phase, halted>>

HealthVerdict ==
    /\ ~halted /\ hpc = "check"
    /\ LET stale == StaleTasks(hnow) IN
         \/ /\ stale = {} /\ s_code = "NONE"
            /\ Feed
            /\ UNCHANGED <<faultVars, driving>>
         \/ /\ stale # {}
            /\ Raise("TASK_STALE", stale)
            /\ UNCHANGED wdt
         \/ /\ stale = {} /\ s_code # "NONE"
            /\ UNCHANGED <<faultVars, driving, wdt>>
    /\ hpc' = "delay" /\ hnow' = 0
    /\ UNCHANGED <<now, taskVars, phase, halted>>

-----------------------------------------------------------------------------
(* A hook that no task preempts: the stack check of a context switch, with *)
(* interrupts masked, and an assertion that fails in an interrupt, in a    *)
(* critical section or in the health task.                                 *)

MaskedHook ==
    /\ ~halted
    /\ Raise("HOOK", {})
    /\ halted' = TRUE
    /\ UNCHANGED <<now, taskVars, healthVars, wdt>>

-----------------------------------------------------------------------------
(* The hardware.                                                           *)

\* A SysTick interrupt; a releasing one makes the health task ready.  The
\* next tick waits for a health job that has used up its latency.
Tick ==
    /\ ~halted
    /\ wdt < WdtPeriod
    /\ hpc # "delay" => phase < HealthLatency
    /\ now' = NextTick(now)
    /\ IF phase + 1 = HealthPeriod
       THEN phase' = 0 /\ hpc' = "ready"
       ELSE phase' = phase + 1 /\ UNCHANGED hpc
    /\ wdt' = wdt + 1
    /\ beatAge' = [i \in Tasks |-> Older(beatAge[i])]
    /\ loopAge' = [i \in Tasks |-> Older(loopAge[i])]
    /\ UNCHANGED <<pc, raising, bringUp, loopNow, s_last_beat_ms, hnow, faultVars,
                   driving, halted>>

\* Mutant: the watchdog stops with the processor.
MaskedTickWhileRunning ==
    /\ wdt < WdtPeriod
    /\ wdt' = IF halted THEN wdt ELSE wdt + 1
    /\ UNCHANGED <<now, taskVars, healthVars, faultVars, driving, halted>>

\* Time passes for the watchdog alone: ticks are masked or lost.
MaskedTick ==
    /\ wdt < WdtPeriod
    /\ wdt' = wdt + 1
    /\ UNCHANGED <<now, taskVars, healthVars, faultVars, driving, halted>>

\* The WWDT period ends without a restart: the MCU boots again.
Reset ==
    /\ wdt = WdtPeriod
    /\ now' = 0
    /\ pc' = [i \in Tasks |-> "delay"] /\ bringUp' = TRUE
    /\ raising' = [i \in Tasks |-> "NONE"]
    /\ loopNow' = [i \in Tasks |-> 0]
    /\ s_last_beat_ms' = [i \in Tasks |-> 0]
    /\ hpc' = "ready" /\ hnow' = 0 /\ phase' = 0
    /\ s_code' = "NONE" /\ s_detail' = {}
    /\ driving' = FALSE
    /\ wdt' = 0
    /\ halted' = FALSE
    /\ beatAge' = [i \in Tasks |-> 0]
    /\ loopAge' = [i \in Tasks |-> 0]

-----------------------------------------------------------------------------
Hardware == Tick \/ MaskedTick \/ Reset

TaskStep == \E i \in Tasks : LoopTop(i) \/ Beat(i)

RaiseStep ==
    \E i \in Tasks :
        \/ \E code \in {"IMU", "HOOK"} : RaiseBegins(i, code)
        \/ StoreDetail(i) \/ StoreCode(i) \/ Halt(i)

HealthStep == HealthSample \/ HealthVerdict

Next ==
    \/ TaskStep \/ Drive \/ ImuReady \/ RaiseStep
    \/ HealthStep \/ MaskedHook \/ Hardware

\* The oscillator behind the watchdog does not stop; nothing else is assumed
\* of the scheduler, the tasks or the interrupts.
Spec == Init /\ [][Next]_vars /\ WF_vars(Hardware)

-----------------------------------------------------------------------------
(* Properties.                                                             *)

\* Every variable keeps its C type: timestamps stay within 32 bits, the mask
\* names monitored tasks, the watchdog never counts past its period.
TypeOK ==
    /\ now \in Timestamps /\ hnow \in Timestamps
    /\ pc \in [Tasks -> PcValues]
    /\ raising \in [Tasks -> FaultCodes]
    /\ bringUp \in BOOLEAN
    /\ loopNow \in [Tasks -> Timestamps]
    /\ s_last_beat_ms \in [Tasks -> Timestamps]
    /\ hpc \in {"delay", "ready", "check"}
    /\ phase \in 0 .. (HealthPeriod - 1)
    /\ s_code \in FaultCodes /\ s_detail \in SUBSET Tasks
    /\ driving \in BOOLEAN /\ halted \in BOOLEAN
    /\ wdt \in 0 .. WdtPeriod
    /\ beatAge \in [Tasks -> Nat] /\ loopAge \in [Tasks -> Nat]

\* A heartbeat that is late is noticed in time: once the grace period is over
\* (again after each wrap of the tick counter), a running system without a
\* latched fault has no heartbeat older than its deadline by more than one
\* health period and the health task's latency.
DetectionBound ==
    (s_code = "NONE" /\ now >= Grace + HealthPeriod + HealthLatency) =>
        \A i \in Tasks :
            beatAge[i] <= Deadline[i] + HealthPeriod + HealthLatency

\* The health task never accuses a task falsely: every task named in the mask
\* of a latched TASK_STALE fault had a heartbeat truly older than its deadline
\* at that moment.  The unsigned subtraction of System_Health_Check would break
\* this if a heartbeat could be newer than the reading it is compared with.
AccusesOnlyStale ==
    [][(s_code = "NONE" /\ s_code' = "TASK_STALE") =>
        /\ s_detail' # {}
        /\ \A i \in s_detail' : beatAge[i] > Deadline[i]]_vars

\* A latched fault is final until the reset: it is never cleared and the
\* watchdog is never fed again, even if the stale task recovers.  Code and
\* detail of the first fault are kept, but for the stores of a task that had
\* found no fault before this one was latched and was preempted there: once a
\* fault is latched, no other task gets past its test.
FaultIsFinal ==
    [][s_code # "NONE" =>
        \/ Reset
        \/ /\ s_code' # "NONE" /\ wdt' >= wdt
           /\ UNCHANGED faultVars \/ \E i \in Tasks : StoreDetail(i) \/ StoreCode(i)
           /\ \A i \in Tasks : pc'[i] = "latching" => pc[i] = "latching"]_vars

\* A processor that spins in a hook has a fault latched, and its motors are off
\* unless the hook belongs to a task that control may preempt between the stop
\* and taskDISABLE_INTERRUPTS (the telemetry task): then control may have driven
\* them again, and they stay driven until the reset.
OffUnlessPreempted ==
    halted =>
        /\ s_code # "NONE"
        /\ driving => \E i \in Tasks \ {ControlTask} :
                          pc[i] = "halted" /\ Priority[i] <= Priority[ControlTask]

\* A latched fault always ends in a reset, even if the stale task recovers, a
\* hook spins with interrupts off or ticks stop altogether.
FaultResets == (s_code # "NONE") ~> (s_code = "NONE")

\* A task either completes heartbeats for ever or the MCU is reset again and
\* again: no task can hang silently.
NoSilentHang ==
    \A i \in Tasks : []<><<Beat(i)>>_vars \/ []<><<Reset>>_vars

-----------------------------------------------------------------------------
(* Why the safety properties hold: the inductive invariants.               *)

\* The age the code computes, modulo Wrap, is the true one while it fits.
AgesAreTrue ==
    \A i \in Tasks :
        /\ beatAge[i] < Wrap => Elapsed(now, s_last_beat_ms[i]) = beatAge[i]
        /\ loopAge[i] < Wrap => Elapsed(now, loopNow[i]) = loopAge[i]

\* A task's heartbeats do not go back in time.
BeatsAdvance == \A i \in Tasks : pc[i] = "body" => loopAge[i] <= beatAge[i]

\* The health task keeps its latency, its reading is as old as its job at
\* most, and no heartbeat is newer than the reading: no task ran in between.
CheckIsOrdered ==
    /\ hpc # "delay" => phase <= HealthLatency
    /\ hpc = "check" =>
         /\ Elapsed(now, hnow) <= phase
         /\ \A i \in Tasks : Elapsed(now, hnow) <= beatAge[i]

\* Ticks since the release whose verdict is the last one known.
Unchecked == IF hpc = "delay" THEN phase ELSE HealthPeriod + phase

\* The ages a system without a fault can have reached since the last verdict
\* or, within the grace period, since boot or since the counter's wrap.
AgesAreBounded ==
    s_code = "NONE" =>
        \A i \in Tasks :
            /\ beatAge[i] <= Deadline[i] + 2 * HealthPeriod + now
            /\ now >= Grace + Unchecked => beatAge[i] <= Deadline[i] + Unchecked

\* A task that control cannot preempt holds the motors off from its stop on.
StopHolds ==
    \A i \in Tasks :
        Busy(i) /\ (i = ControlTask \/ Priority[i] > Priority[ControlTask]) => ~driving

\* A hook comes to its end only with a fault latched.
HaltsFaulted ==
    \A i \in Tasks : pc[i] = "halting" => s_code # "NONE"

\* A task that latches a fault latches one of its own.
RaisesFault ==
    \A i \in Tasks :
        pc[i] \in {"latching", "coding"} => raising[i] \in {"IMU", "HOOK"}

HookInv == TypeOK /\ RaisesFault /\ HaltsFaulted /\ StopHolds /\ OffUnlessPreempted

HealthInv ==
    TypeOK /\ AgesAreTrue /\ BeatsAdvance /\ CheckIsOrdered /\ AgesAreBounded
=============================================================================
