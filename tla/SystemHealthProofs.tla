-------------------------- MODULE SystemHealthProofs --------------------------
(***************************************************************************)
(* The supervision of SystemHealth is correct for every number of tasks,   *)
(* every deadline, period and latency, and every width of the counter.     *)
(***************************************************************************)
EXTENDS SystemHealth, TLAPS

-----------------------------------------------------------------------------
(* What the modular timestamp arithmetic preserves, for every width of the *)
(* counter.                                                                *)

\* Sums and differences of timestamps are timestamps again: nothing leaves
\* the width of a uint32_t.
LEMMA TimestampsClosed ==
    ASSUME NEW a \in Timestamps, NEW b \in Timestamps
    PROVE  NextTick(a) \in Timestamps /\ Elapsed(a, b) \in Timestamps
  BY WrapAssumption DEF Timestamps, NextTick, Elapsed

\* A timestamp compared with itself has no age.
LEMMA ElapsedSelf ==
    ASSUME NEW a \in Timestamps
    PROVE  Elapsed(a, a) = 0
  BY WrapAssumption DEF Timestamps, Elapsed

\* One tick makes an age one larger, through the wrap too, until the age no
\* longer fits the counter.
LEMMA ElapsedTick ==
    ASSUME NEW a \in Timestamps, NEW b \in Timestamps,
           Elapsed(a, b) + 1 < Wrap
    PROVE  Elapsed(NextTick(a), b) = Elapsed(a, b) + 1
  BY WrapAssumption DEF Timestamps, Elapsed, NextTick

\* Measuring from an earlier reading m, between b and a, takes off exactly the
\* time from m to a: no underflow when m is not before b.
LEMMA ElapsedSplit ==
    ASSUME NEW a \in Timestamps, NEW m \in Timestamps, NEW b \in Timestamps,
           Elapsed(a, m) <= Elapsed(a, b)
    PROVE  Elapsed(m, b) = Elapsed(a, b) - Elapsed(a, m)
  BY WrapAssumption DEF Timestamps, Elapsed

-----------------------------------------------------------------------------
(* Type correctness.                                                       *)

\* The boot values of the counters lie in their ranges.
LEMMA BootValues ==
    /\ 0 \in Timestamps
    /\ 0 \in 0 .. (HealthPeriod - 1)
    /\ 0 \in 0 .. WdtPeriod
  BY HealthAssumption, WrapAssumption DEF Timestamps

LEMMA InitType == Init => TypeOK
  <1> SUFFICES ASSUME Init PROVE TypeOK
    OBVIOUS
  <1>1. /\ pc \in [Tasks -> PcValues] /\ raising \in [Tasks -> FaultCodes]
        /\ loopNow \in [Tasks -> Timestamps]
        /\ s_last_beat_ms \in [Tasks -> Timestamps]
        /\ beatAge \in [Tasks -> Nat] /\ loopAge \in [Tasks -> Nat]
    BY BootValues DEF Init, PcValues, FaultCodes
  <1>2. /\ now \in Timestamps /\ hnow \in Timestamps
        /\ phase \in 0 .. (HealthPeriod - 1)
        /\ wdt \in 0 .. WdtPeriod
    BY BootValues DEF Init
  <1>3. /\ hpc \in {"delay", "ready", "check"}
        /\ s_code \in FaultCodes /\ s_detail \in SUBSET Tasks
        /\ driving \in BOOLEAN /\ halted \in BOOLEAN
        /\ bringUp \in BOOLEAN
    BY DEF Init, FaultCodes
  <1> QED
    BY <1>1, <1>2, <1>3 DEF TypeOK

LEMMA NextType == TypeOK /\ [Next]_vars => TypeOK'
  <1> SUFFICES ASSUME TypeOK, [Next]_vars PROVE TypeOK'
    OBVIOUS
  <1> USE DEF TypeOK
  <1>1. ASSUME NEW i \in Tasks, LoopTop(i) PROVE TypeOK'
    BY <1>1 DEF LoopTop, PcValues, healthVars, faultVars
  <1>2. ASSUME NEW i \in Tasks, Beat(i) PROVE TypeOK'
    BY <1>2 DEF Beat, PcValues, healthVars, faultVars
  <1>3. CASE Drive
    BY <1>3 DEF Drive, taskVars, healthVars, faultVars
  <1>11. CASE ImuReady
    BY <1>11 DEF ImuReady, healthVars, faultVars
  <1>12. ASSUME NEW i \in Tasks, NEW code \in {"IMU", "HOOK"}, RaiseBegins(i, code)
         PROVE  TypeOK'
    BY <1>12 DEF RaiseBegins, AfterRaise, PcValues, FaultCodes, healthVars, faultVars
  <1>13. ASSUME NEW i \in Tasks, StoreDetail(i) PROVE TypeOK'
    BY <1>13 DEF StoreDetail, PcValues, healthVars
  <1>14. ASSUME NEW i \in Tasks, StoreCode(i) PROVE TypeOK'
    BY <1>14 DEF StoreCode, AfterRaise, PcValues, FaultCodes, healthVars
  <1>15. ASSUME NEW i \in Tasks, Halt(i) PROVE TypeOK'
    BY <1>15 DEF Halt, PcValues, healthVars, faultVars
  <1>4. CASE HealthSample
    BY <1>4 DEF HealthSample, taskVars, faultVars
  <1>5. CASE HealthVerdict
    <2>1. StaleTasks(hnow) \in SUBSET Tasks
      BY DEF StaleTasks
    <2>2. /\ s_code' \in FaultCodes /\ s_detail' \in SUBSET Tasks
          /\ driving' \in BOOLEAN /\ wdt' \in 0 .. WdtPeriod
      BY <1>5, <2>1, BootValues
         DEF HealthVerdict, Raise, Feed, faultVars, FaultCodes
    <2>3. hnow' \in Timestamps
      BY <1>5, WrapAssumption DEF HealthVerdict, Timestamps
    <2> QED
      BY <1>5, <2>2, <2>3 DEF HealthVerdict, taskVars
  <1>6. CASE MaskedHook
    BY <1>6 DEF MaskedHook, Raise, faultVars, FaultCodes, taskVars, healthVars
  <1>7. CASE Tick
    <2>1. now' \in Timestamps
      BY <1>7, TimestampsClosed DEF Tick
    <2>2. phase' \in 0 .. (HealthPeriod - 1) /\ wdt' \in 0 .. WdtPeriod
      BY <1>7, HealthAssumption DEF Tick
    <2>3. beatAge' \in [Tasks -> Nat] /\ loopAge' \in [Tasks -> Nat]
      BY <1>7, WrapAssumption DEF Tick, Older
    <2>4. hpc' \in {"delay", "ready", "check"}
      BY <1>7 DEF Tick
    <2> QED
      BY <1>7, <2>1, <2>2, <2>3, <2>4 DEF Tick, faultVars
  <1>8. CASE MaskedTick
    BY <1>8, HealthAssumption DEF MaskedTick, taskVars, healthVars, faultVars
  <1>9. CASE Reset
    BY <1>9, BootValues DEF Reset, PcValues, FaultCodes
  <1>10. CASE UNCHANGED vars
    BY <1>10 DEF vars, taskVars, healthVars, faultVars
  <1> QED
    BY <1>1, <1>2, <1>3, <1>4, <1>5, <1>6, <1>7, <1>8, <1>9, <1>10, <1>11,
       <1>12, <1>13, <1>14, <1>15
       DEF Next, TaskStep, RaiseStep, HealthStep, Hardware

\* Every variable keeps its C type in every reachable state.
THEOREM TypeCorrect == Spec => []TypeOK
  BY InitType, NextType, PTL DEF Spec

-----------------------------------------------------------------------------
(* Raising a fault: what holds while tasks and hooks are in the middle of  *)
(* System_Fault_Raise and others preempt them.                             *)

LEMMA InitHook == Init => HookInv
  <1> SUFFICES ASSUME Init PROVE HookInv
    OBVIOUS
  <1>1. TypeOK
    BY InitType
  <1> QED
    BY <1>1 DEF Init, HookInv, RaisesFault, HaltsFaulted, StopHolds, Busy,
                OffUnlessPreempted

\* A step of a task that neither starts nor ends a raise.
LEMMA UnraisedHook ==
    ASSUME HookInv, TypeOK',
           UNCHANGED <<raising, s_code, driving, halted>>,
           \A i \in Tasks : \/ pc'[i] = pc[i]
                            \/ pc[i] \in {"delay", "body"} /\ pc'[i] \in {"delay", "body"}
    PROVE  HookInv'
  <1> USE DEF HookInv, Busy
  <1>1. RaisesFault'
    BY DEF RaisesFault
  <1>2. HaltsFaulted'
    BY DEF HaltsFaulted
  <1>3. StopHolds'
    BY DEF StopHolds
  <1>4. OffUnlessPreempted'
    BY DEF OffUnlessPreempted
  <1> QED
    BY <1>1, <1>2, <1>3, <1>4

\* Control drives only if no task that it cannot preempt is raising a fault.
LEMMA DriveHook ==
    ASSUME HookInv, TypeOK', Drive
    PROVE  HookInv'
  <1> USE DEF HookInv
  <1>1. UNCHANGED <<pc, raising, s_code, halted>> /\ ~halted
    BY DEF Drive, CanRun, taskVars, faultVars
  <1>2. RaisesFault' /\ HaltsFaulted' /\ OffUnlessPreempted'
    BY <1>1 DEF RaisesFault, HaltsFaulted, OffUnlessPreempted
  <1>3. StopHolds'
    <2>1. pc[ControlTask] = "body"
          /\ \A j \in Tasks : Busy(j) => Priority[j] <= Priority[ControlTask]
      BY DEF Drive, CanRun
    <2>2. \A i \in Tasks : Priority[i] \in Nat /\ Priority[ControlTask] \in Nat
      BY HealthAssumption
    <2> QED
      BY <1>1, <2>1, <2>2 DEF StopHolds, Busy
  <1> QED
    BY <1>2, <1>3

\* Every raise stops the motors before it looks at the latched code.
LEMMA RaiseBeginsHook ==
    ASSUME HookInv, TypeOK', NEW i \in Tasks,
           NEW code \in {"IMU", "HOOK"}, RaiseBegins(i, code)
    PROVE  HookInv'
  <1> USE DEF HookInv, TypeOK
  <1>1. /\ driving' = FALSE /\ UNCHANGED <<s_code, halted>> /\ ~halted
        /\ \A j \in Tasks \ {i} : pc'[j] = pc[j] /\ raising'[j] = raising[j]
    BY DEF RaiseBegins, CanRun, faultVars
  <1>2. \/ pc'[i] = "latching" /\ raising'[i] = code
        \/ s_code # "NONE" /\ pc'[i] \in {"failed", "halting"}
    BY DEF RaiseBegins, AfterRaise
  <1>3. RaisesFault' /\ HaltsFaulted'
    BY <1>1, <1>2 DEF RaisesFault, HaltsFaulted
  <1>4. StopHolds' /\ OffUnlessPreempted'
    BY <1>1 DEF StopHolds, OffUnlessPreempted
  <1> QED
    BY <1>3, <1>4

LEMMA StoreHook ==
    ASSUME HookInv, TypeOK', NEW i \in Tasks, StoreDetail(i) \/ StoreCode(i)
    PROVE  HookInv'
  <1> USE DEF HookInv, TypeOK
  <1>1. /\ UNCHANGED <<driving, halted>> /\ ~halted /\ Busy(i)
        /\ \A j \in Tasks \ {i} : pc'[j] = pc[j] /\ raising'[j] = raising[j]
    BY DEF StoreDetail, StoreCode, CanRun, Busy
  <1>2. \/ pc'[i] = "coding" /\ raising' = raising /\ s_code' = s_code /\ pc[i] = "latching"
        \/ s_code' = raising[i] /\ pc'[i] \in {"failed", "halting"} /\ pc[i] = "coding"
    BY DEF StoreDetail, StoreCode, AfterRaise
  <1>3. s_code # "NONE" => s_code' # "NONE"
    BY <1>2 DEF RaisesFault
  <1>4. RaisesFault' /\ HaltsFaulted'
    BY <1>1, <1>2, <1>3 DEF RaisesFault, HaltsFaulted
  <1>5. \A j \in Tasks : Busy(j)' => Busy(j)
    BY <1>1 DEF Busy
  <1>6. StopHolds' /\ OffUnlessPreempted'
    BY <1>1, <1>5 DEF StopHolds, OffUnlessPreempted
  <1> QED
    BY <1>4, <1>6

\* A hook of a task that control cannot preempt still holds the motors off.
LEMMA HaltHook ==
    ASSUME HookInv, TypeOK', NEW i \in Tasks, Halt(i)
    PROVE  HookInv'
  <1> USE DEF HookInv, TypeOK
  <1>1. /\ UNCHANGED <<driving, raising, s_code>> /\ pc[i] = "halting" /\ pc'[i] = "halted"
        /\ \A j \in Tasks \ {i} : pc'[j] = pc[j]
    BY DEF Halt, faultVars
  <1>2. RaisesFault' /\ HaltsFaulted' /\ StopHolds'
    BY <1>1 DEF RaisesFault, HaltsFaulted, StopHolds, Busy
  <1>3. s_code # "NONE"
    BY <1>1 DEF HaltsFaulted
  <1>4. driving => i # ControlTask /\ ~(Priority[i] > Priority[ControlTask])
    BY <1>1 DEF StopHolds, Busy
  <1>5. driving => i # ControlTask /\ Priority[i] <= Priority[ControlTask]
    BY <1>4, HealthAssumption
  <1> QED
    BY <1>1, <1>2, <1>3, <1>5 DEF OffUnlessPreempted

\* A raise that nothing preempts, by the health task or with interrupts masked.
LEMMA WholeRaiseHook ==
    ASSUME HookInv, TypeOK', UNCHANGED <<pc, raising>>,
           driving' = FALSE \/ UNCHANGED <<driving, halted>>,
           s_code # "NONE" => s_code' # "NONE",
           halted' => s_code' # "NONE"
    PROVE  HookInv'
  <1> USE DEF HookInv
  <1>1. RaisesFault' /\ HaltsFaulted'
    BY DEF RaisesFault, HaltsFaulted
  <1>2. StopHolds' /\ OffUnlessPreempted'
    BY DEF StopHolds, Busy, OffUnlessPreempted
  <1> QED
    BY <1>1, <1>2

LEMMA NextHook == HookInv /\ [Next]_vars => HookInv'
  <1> SUFFICES ASSUME HookInv, [Next]_vars PROVE HookInv'
    OBVIOUS
  <1>0. TypeOK'
    BY NextType DEF HookInv
  <1>1. CASE TaskStep
    BY <1>0, <1>1, UnraisedHook
       DEF TaskStep, LoopTop, Beat, faultVars, HookInv, TypeOK
  <1>2. CASE Drive
    BY <1>0, <1>2, DriveHook
  <1>3. CASE ImuReady
    BY <1>0, <1>3, UnraisedHook DEF ImuReady, faultVars
  <1>4. CASE RaiseStep
    BY <1>0, <1>4, RaiseBeginsHook, StoreHook, HaltHook DEF RaiseStep
  <1>5. CASE HealthStep
    <2>1. CASE HealthSample
      BY <1>0, <2>1, UnraisedHook DEF HealthSample, taskVars, faultVars
    <2>2. CASE HealthVerdict
      BY <1>0, <2>2, WholeRaiseHook DEF HealthVerdict, Raise, taskVars, faultVars
    <2> QED
      BY <1>5, <2>1, <2>2 DEF HealthStep
  <1>6. CASE MaskedHook
    BY <1>0, <1>6, WholeRaiseHook DEF MaskedHook, Raise, taskVars, faultVars
  <1>7. CASE Hardware
    <2>1. CASE Tick
      BY <1>0, <2>1, UnraisedHook DEF Tick, faultVars
    <2>2. CASE MaskedTick
      BY <1>0, <2>2, UnraisedHook DEF MaskedTick, taskVars, faultVars
    <2>3. CASE Reset
      BY <1>0, <2>3 DEF Reset, HookInv, RaisesFault, HaltsFaulted, StopHolds, Busy,
                        OffUnlessPreempted
    <2> QED
      BY <1>7, <2>1, <2>2, <2>3 DEF Hardware
  <1>8. CASE UNCHANGED vars
    BY <1>0, <1>8, UnraisedHook DEF vars, taskVars, faultVars
  <1> QED
    BY <1>1, <1>2, <1>3, <1>4, <1>5, <1>6, <1>7, <1>8 DEF Next

\* A task on its way through System_Fault_Raise has a fault to latch, a hook
\* halts with one latched, and whoever control cannot preempt keeps the motors
\* off from its stop on.
THEOREM HookInvariant == Spec => []HookInv
  BY InitHook, NextHook, PTL DEF Spec

-----------------------------------------------------------------------------
(* The inductive invariant, one lemma per action that disturbs it.         *)

\* The constants as the provers need them.
LEMMA Sizes ==
    /\ HealthPeriod \in Nat /\ HealthPeriod > 0
    /\ HealthLatency \in Nat /\ HealthLatency < HealthPeriod
    /\ Grace \in Nat /\ Wrap \in Nat /\ 4 * HealthPeriod < Wrap
    /\ \A i \in Tasks : /\ Deadline[i] \in Nat
                        /\ Grace + Deadline[i] + 4 * HealthPeriod < Wrap
  <1>1. \A i \in Tasks : Deadline[i] \in Nat
    BY HealthAssumption
  <1>2. /\ HealthPeriod \in Nat /\ HealthPeriod > 0
        /\ HealthLatency \in Nat /\ HealthLatency < HealthPeriod
        /\ Grace \in Nat /\ Wrap \in Nat /\ ControlTask \in Tasks
    BY HealthAssumption, WrapAssumption
  <1> QED
    BY <1>1, <1>2, WidthAssumption

LEMMA InitInv == Init => HealthInv
  <1> SUFFICES ASSUME Init PROVE HealthInv
    OBVIOUS
  <1>1. TypeOK
    BY InitType
  <1>2. AgesAreTrue
    BY BootValues, ElapsedSelf DEF Init, AgesAreTrue
  <1>3. BeatsAdvance
    BY DEF Init, BeatsAdvance
  <1>4. CheckIsOrdered
    BY Sizes DEF Init, CheckIsOrdered
  <1>5. AgesAreBounded
    BY Sizes DEF Init, AgesAreBounded, Unchecked
  <1> QED
    BY <1>1, <1>2, <1>3, <1>4, <1>5 DEF HealthInv

\* A reset boots into the initial state.
LEMMA ResetInv ==
    ASSUME HealthInv, Reset
    PROVE  AgesAreTrue' /\ BeatsAdvance' /\ CheckIsOrdered' /\ AgesAreBounded'
  <1>1. AgesAreTrue'
    BY BootValues, ElapsedSelf DEF Reset, AgesAreTrue
  <1>2. BeatsAdvance'
    BY DEF Reset, BeatsAdvance
  <1>3. CheckIsOrdered'
    BY Sizes DEF Reset, CheckIsOrdered
  <1>4. AgesAreBounded'
    BY Sizes DEF Reset, AgesAreBounded, Unchecked
  <1> QED
    BY <1>1, <1>2, <1>3, <1>4

LEMMA LoopTopInv ==
    ASSUME HealthInv, NEW i \in Tasks, LoopTop(i)
    PROVE  AgesAreTrue' /\ BeatsAdvance' /\ CheckIsOrdered' /\ AgesAreBounded'
  <1> USE DEF HealthInv
  <1>1. AgesAreTrue'
    BY ElapsedSelf DEF LoopTop, AgesAreTrue, TypeOK
  <1>2. BeatsAdvance'
    BY DEF LoopTop, BeatsAdvance, TypeOK
  <1>3. CheckIsOrdered'
    BY DEF LoopTop, CheckIsOrdered, healthVars
  <1>4. AgesAreBounded'
    BY DEF LoopTop, AgesAreBounded, Unchecked, healthVars, faultVars
  <1> QED
    BY <1>1, <1>2, <1>3, <1>4

\* The heartbeat stored is younger than the one it replaces, and the health
\* task is not in the middle of a check: it has the higher priority.
LEMMA BeatInv ==
    ASSUME HealthInv, NEW i \in Tasks, Beat(i)
    PROVE  AgesAreTrue' /\ BeatsAdvance' /\ CheckIsOrdered' /\ AgesAreBounded'
  <1> USE DEF HealthInv
  <1>1. AgesAreTrue'
    BY DEF Beat, AgesAreTrue, TypeOK
  <1>2. BeatsAdvance'
    BY DEF Beat, BeatsAdvance, TypeOK
  <1>3. CheckIsOrdered'
    BY DEF Beat, CanRun, CheckIsOrdered, healthVars
  <1>4. AgesAreBounded'
    <2>1. loopAge[i] <= beatAge[i] /\ loopAge[i] \in Nat /\ beatAge[i] \in Nat
      BY DEF Beat, BeatsAdvance, TypeOK
    <2>2. \A j \in Tasks : beatAge'[j] \in Nat /\ beatAge[j] \in Nat /\ beatAge'[j] <= beatAge[j]
      BY <2>1 DEF Beat, TypeOK
    <2>3. UNCHANGED <<now, s_code, Unchecked>>
      BY DEF Beat, Unchecked, healthVars, faultVars
    <2>4. now \in Nat /\ Unchecked \in Nat
      BY Sizes DEF TypeOK, Timestamps, Unchecked
    <2> QED
      BY <2>2, <2>3, <2>4, Sizes DEF AgesAreBounded
  <1> QED
    BY <1>1, <1>2, <1>3, <1>4

LEMMA HealthSampleInv ==
    ASSUME HealthInv, HealthSample
    PROVE  AgesAreTrue' /\ BeatsAdvance' /\ CheckIsOrdered' /\ AgesAreBounded'
  <1> USE DEF HealthInv
  <1>1. AgesAreTrue' /\ BeatsAdvance'
    BY DEF HealthSample, taskVars, AgesAreTrue, BeatsAdvance
  <1>2. CheckIsOrdered'
    BY ElapsedSelf DEF HealthSample, CheckIsOrdered, taskVars, TypeOK
  <1>3. AgesAreBounded'
    BY DEF HealthSample, AgesAreBounded, Unchecked, taskVars, faultVars
  <1> QED
    BY <1>1, <1>2, <1>3

\* Without a fault, every heartbeat's age fits the counter.
LEMMA AgesFit ==
    ASSUME HealthInv, s_code = "NONE", NEW i \in Tasks
    PROVE  beatAge[i] < Wrap
  <1>1. /\ now \in Nat /\ phase \in Nat /\ phase < HealthPeriod
        /\ beatAge[i] \in Nat
    BY Sizes DEF HealthInv, TypeOK, Timestamps
  <1>2. Unchecked \in Nat /\ Unchecked < 2 * HealthPeriod
    BY <1>1, Sizes DEF Unchecked
  <1>3. /\ beatAge[i] <= Deadline[i] + 2 * HealthPeriod + now
        /\ now >= Grace + Unchecked => beatAge[i] <= Deadline[i] + Unchecked
    BY DEF HealthInv, AgesAreBounded
  <1> QED
    BY <1>1, <1>2, <1>3, Sizes

\* What the health task computes for a task is the true age of its heartbeat
\* at the moment the health task read the clock.
LEMMA CheckIsExact ==
    ASSUME HealthInv, s_code = "NONE", hpc = "check", NEW i \in Tasks
    PROVE  /\ Elapsed(hnow, s_last_beat_ms[i]) = beatAge[i] - Elapsed(now, hnow)
           /\ Elapsed(now, hnow) \in Nat /\ Elapsed(now, hnow) <= phase
  <1>1. /\ now \in Timestamps /\ hnow \in Timestamps
        /\ s_last_beat_ms[i] \in Timestamps
    BY DEF HealthInv, TypeOK
  <1>2. Elapsed(now, s_last_beat_ms[i]) = beatAge[i]
    BY AgesFit DEF HealthInv, AgesAreTrue
  <1>3. Elapsed(now, hnow) <= phase /\ Elapsed(now, hnow) <= beatAge[i]
    BY DEF HealthInv, CheckIsOrdered
  <1>4. Elapsed(now, hnow) \in Timestamps
    BY <1>1, TimestampsClosed
  <1>5. Elapsed(now, hnow) \in Nat
    BY <1>4, Sizes DEF Timestamps
  <1> QED
    BY <1>1, <1>2, <1>3, <1>5, ElapsedSplit

LEMMA HealthVerdictInv ==
    ASSUME HealthInv, HealthVerdict
    PROVE  AgesAreTrue' /\ BeatsAdvance' /\ CheckIsOrdered' /\ AgesAreBounded'
  <1>1. AgesAreTrue' /\ BeatsAdvance'
    BY DEF HealthInv, HealthVerdict, taskVars, AgesAreTrue, BeatsAdvance
  <1>2. CheckIsOrdered'
    BY DEF HealthVerdict, CheckIsOrdered
  <1>3. AgesAreBounded'
    <2> SUFFICES ASSUME s_code' = "NONE", NEW i \in Tasks
                 PROVE  /\ beatAge[i] <= Deadline[i] + 2 * HealthPeriod + now
                        /\ now >= Grace + phase => beatAge[i] <= Deadline[i] + phase
      BY DEF AgesAreBounded, Unchecked, HealthVerdict, taskVars
    <2>1. s_code = "NONE" /\ StaleTasks(hnow) = {} /\ hpc = "check"
      BY DEF HealthVerdict, Raise, faultVars
    <2>2. /\ now \in Nat /\ phase \in Nat /\ now < Wrap /\ beatAge[i] \in Nat
          /\ hnow \in Nat /\ phase < HealthPeriod
      BY Sizes DEF HealthInv, TypeOK, Timestamps
    <2>3. ASSUME now >= Grace + phase PROVE beatAge[i] <= Deadline[i] + phase
      <3>1. /\ Elapsed(hnow, s_last_beat_ms[i]) = beatAge[i] - Elapsed(now, hnow)
            /\ Elapsed(now, hnow) \in Nat /\ Elapsed(now, hnow) <= phase
        BY <2>1, CheckIsExact
      <3>2. Elapsed(hnow, 0) >= Grace
        BY <2>2, <2>3, <3>1, Sizes DEF Elapsed
      <3>3. Elapsed(hnow, s_last_beat_ms[i]) <= Deadline[i]
        BY <2>1, <2>2, <3>1, <3>2, Sizes DEF StaleTasks
      <3> QED
        BY <2>2, <3>1, <3>3, Sizes
    <2>4. beatAge[i] <= Deadline[i] + 2 * HealthPeriod + now
      BY <2>1 DEF HealthInv, AgesAreBounded
    <2> QED
      BY <2>3, <2>4
  <1> QED
    BY <1>1, <1>2, <1>3

\* One tick makes every true age and every computed age one larger; a release
\* of the health task counts towards the unchecked time like any other tick.
LEMMA TickInv ==
    ASSUME HealthInv, Tick
    PROVE  AgesAreTrue' /\ BeatsAdvance' /\ CheckIsOrdered' /\ AgesAreBounded'
  <1>1. \A i \in Tasks :
            /\ s_last_beat_ms[i] \in Timestamps /\ loopNow[i] \in Timestamps
            /\ beatAge[i] \in Nat /\ loopAge[i] \in Nat
            /\ beatAge'[i] = Older(beatAge[i]) /\ loopAge'[i] = Older(loopAge[i])
    BY DEF HealthInv, TypeOK, Tick
  <1>2. /\ now \in Timestamps /\ now' = NextTick(now) /\ hnow \in Timestamps
        /\ UNCHANGED <<pc, loopNow, s_last_beat_ms, hnow, s_code>>
    BY DEF HealthInv, TypeOK, Tick, faultVars
  <1>3. /\ phase \in Nat /\ phase < HealthPeriod
        /\ hpc # "delay" => phase < HealthLatency
    BY Sizes DEF HealthInv, TypeOK, Tick
  <1>4. \/ /\ phase' = phase + 1 /\ hpc' = hpc
        \/ /\ phase + 1 = HealthPeriod /\ phase' = 0
           /\ hpc = "delay" /\ hpc' = "ready"
    BY <1>3, Sizes DEF Tick
  <1>5. AgesAreTrue'
    <2> SUFFICES ASSUME NEW i \in Tasks
                 PROVE  /\ beatAge'[i] < Wrap =>
                                Elapsed(now', s_last_beat_ms[i]) = beatAge'[i]
                        /\ loopAge'[i] < Wrap =>
                                Elapsed(now', loopNow[i]) = loopAge'[i]
      BY <1>2 DEF AgesAreTrue
    <2>1. /\ beatAge[i] < Wrap => Elapsed(now, s_last_beat_ms[i]) = beatAge[i]
          /\ loopAge[i] < Wrap => Elapsed(now, loopNow[i]) = loopAge[i]
      BY DEF HealthInv, AgesAreTrue
    <2>2. CASE beatAge'[i] < Wrap
      BY <1>1, <1>2, <2>1, <2>2, ElapsedTick, Sizes DEF Older
    <2>3. CASE loopAge'[i] < Wrap
      BY <1>1, <1>2, <2>1, <2>3, ElapsedTick, Sizes DEF Older
    <2> QED
      BY <1>1, <1>2, <2>1, <2>2, <2>3, ElapsedTick, Sizes DEF Older
  <1>6. BeatsAdvance'
    BY <1>1, <1>2, Sizes DEF HealthInv, BeatsAdvance, Older
  <1>7. CheckIsOrdered'
    <2>1. hpc' # "delay" => phase' <= HealthLatency
      BY <1>3, <1>4, Sizes
    <2>2. ASSUME hpc' = "check"
          PROVE  /\ Elapsed(now', hnow) <= phase'
                 /\ \A i \in Tasks : Elapsed(now', hnow) <= beatAge'[i]
      <3>1. hpc = "check" /\ phase' = phase + 1
        BY <1>4, <2>2
      <3>2. /\ Elapsed(now, hnow) <= phase
            /\ \A i \in Tasks : Elapsed(now, hnow) <= beatAge[i]
        BY <3>1 DEF HealthInv, CheckIsOrdered
      <3>3. Elapsed(now, hnow) \in Nat
        BY <1>2, TimestampsClosed, Sizes DEF Timestamps
      <3>4. Elapsed(now', hnow) = Elapsed(now, hnow) + 1
        BY <1>2, <1>3, <3>2, <3>3, ElapsedTick, Sizes
      <3> QED
        BY <1>1, <1>3, <3>1, <3>2, <3>3, <3>4, Sizes DEF Older
    <2> QED
      BY <1>2, <2>1, <2>2 DEF CheckIsOrdered
  <1>8. AgesAreBounded'
    <2> SUFFICES ASSUME s_code = "NONE", NEW i \in Tasks
                 PROVE  /\ beatAge'[i] <= Deadline[i] + 2 * HealthPeriod + now'
                        /\ now' >= Grace + Unchecked' =>
                                beatAge'[i] <= Deadline[i] + Unchecked'
      BY <1>2 DEF AgesAreBounded
    <2>1. /\ beatAge[i] <= Deadline[i] + 2 * HealthPeriod + now
          /\ now >= Grace + Unchecked => beatAge[i] <= Deadline[i] + Unchecked
      BY DEF HealthInv, AgesAreBounded
    <2>2. /\ Unchecked' = Unchecked + 1
          /\ Unchecked \in Nat /\ Unchecked < 2 * HealthPeriod
      BY <1>3, <1>4, Sizes DEF Unchecked
    <2>3. CASE now + 1 < Wrap
      <3>1. now' = now + 1 /\ now \in Nat
        BY <1>2, <2>3, Sizes DEF NextTick, Timestamps
      <3> QED
        BY <1>1, <2>1, <2>2, <3>1, Sizes DEF Older
    <2>4. CASE now + 1 >= Wrap
      <3>1. now' = 0 /\ now \in Nat
        BY <1>2, <2>4, Sizes DEF NextTick, Timestamps
      <3> QED
        BY <1>1, <2>1, <2>2, <2>4, <3>1, Sizes DEF Older
    <2> QED
      BY <1>2, <2>3, <2>4, Sizes DEF Timestamps
  <1> QED
    BY <1>5, <1>6, <1>7, <1>8

\* A step that leaves heartbeats, clock and health task as they are, and lets no
\* task into its loop body.
LEMMA QuietInv ==
    ASSUME HealthInv,
           UNCHANGED <<now, loopNow, s_last_beat_ms, beatAge, loopAge, healthVars>>,
           \A i \in Tasks : pc'[i] = "body" => pc[i] = "body",
           s_code' = "NONE" => s_code = "NONE"
    PROVE  AgesAreTrue' /\ BeatsAdvance' /\ CheckIsOrdered' /\ AgesAreBounded'
  <1> USE DEF HealthInv, healthVars
  <1>1. AgesAreTrue'
    BY DEF AgesAreTrue
  <1>2. BeatsAdvance'
    BY DEF BeatsAdvance
  <1>3. CheckIsOrdered'
    BY DEF CheckIsOrdered
  <1>4. AgesAreBounded'
    BY DEF AgesAreBounded, Unchecked
  <1> QED
    BY <1>1, <1>2, <1>3, <1>4

LEMMA NextInv == HealthInv /\ HookInv /\ [Next]_vars => HealthInv'
  <1> SUFFICES ASSUME HealthInv, HookInv, [Next]_vars PROVE HealthInv'
    OBVIOUS
  <1> DEFINE Rest ==
        AgesAreTrue' /\ BeatsAdvance' /\ CheckIsOrdered' /\ AgesAreBounded'
  <1> TypeOK'
    BY NextType DEF HealthInv
  <1> SUFFICES Rest
    BY DEF HealthInv
  <1> HIDE DEF Rest
  <1>1. ASSUME NEW i \in Tasks, LoopTop(i) PROVE Rest
    BY <1>1, LoopTopInv DEF Rest
  <1>2. ASSUME NEW i \in Tasks, Beat(i) PROVE Rest
    BY <1>2, BeatInv DEF Rest
  <1>3. CASE Drive
    BY <1>3, QuietInv DEF Rest, Drive, taskVars, faultVars
  <1>4. CASE HealthSample
    BY <1>4, HealthSampleInv DEF Rest
  <1>5. CASE HealthVerdict
    BY <1>5, HealthVerdictInv DEF Rest
  <1>6. CASE MaskedHook
    BY <1>6, QuietInv DEF Rest, MaskedHook, Raise, taskVars, faultVars
  <1>7. CASE Tick
    BY <1>7, TickInv DEF Rest
  <1>8. CASE MaskedTick
    BY <1>8, QuietInv DEF Rest, MaskedTick, taskVars, faultVars
  <1>9. CASE Reset
    BY <1>9, ResetInv DEF Rest
  <1>10. CASE UNCHANGED vars
    BY <1>10, QuietInv DEF Rest, vars, taskVars, faultVars
  <1>11. CASE ImuReady
    BY <1>11, QuietInv DEF Rest, ImuReady, faultVars
  <1>12. CASE RaiseStep
    <2>1. UNCHANGED <<now, loopNow, s_last_beat_ms, beatAge, loopAge, healthVars>>
      BY <1>12 DEF RaiseStep, RaiseBegins, StoreDetail, StoreCode, Halt
    <2>2. \A i \in Tasks : pc'[i] = "body" => pc[i] = "body"
      BY <1>12 DEF RaiseStep, RaiseBegins, StoreDetail, StoreCode, Halt, AfterRaise,
                   HealthInv, TypeOK
    <2>3. s_code' = "NONE" => s_code = "NONE"
      BY <1>12 DEF RaiseStep, RaiseBegins, StoreDetail, StoreCode, Halt, faultVars,
                   HookInv, RaisesFault
    <2> QED
      BY <2>1, <2>2, <2>3, QuietInv DEF Rest
  <1> QED
    BY <1>1, <1>2, <1>3, <1>4, <1>5, <1>6, <1>7, <1>8, <1>9, <1>10, <1>11, <1>12
       DEF Next, TaskStep, HealthStep, Hardware

\* The supervision invariant: computed ages are the true ones, no heartbeat is
\* newer than the health task's reading, and a system without a fault has
\* bounded ages.
THEOREM SupervisionInvariant == Spec => []HealthInv
  BY InitInv, NextInv, HookInvariant, PTL DEF Spec

-----------------------------------------------------------------------------
(* What follows from it.                                                   *)

\* A late heartbeat is noticed within one health period and latency of its
\* deadline, for every number of tasks, every deadline and every width.
THEOREM LateHeartbeatNoticed == Spec => []DetectionBound
  <1>1. HealthInv => DetectionBound
    <2> SUFFICES ASSUME HealthInv, s_code = "NONE",
                        now >= Grace + HealthPeriod + HealthLatency,
                        NEW i \in Tasks
                 PROVE  beatAge[i] <= Deadline[i] + HealthPeriod + HealthLatency
      BY DEF DetectionBound
    <2>1. /\ now \in Nat /\ phase \in Nat /\ phase < HealthPeriod
          /\ beatAge[i] \in Nat
      BY Sizes DEF HealthInv, TypeOK, Timestamps
    <2>2. Unchecked \in Nat /\ Unchecked <= HealthPeriod + HealthLatency
      BY <2>1, Sizes DEF Unchecked, HealthInv, CheckIsOrdered
    <2>3. now >= Grace + Unchecked => beatAge[i] <= Deadline[i] + Unchecked
      BY DEF HealthInv, AgesAreBounded
    <2> QED
      BY <2>1, <2>2, <2>3, Sizes
  <1> QED
    BY <1>1, SupervisionInvariant, PTL

\* A latched TASK_STALE fault names only tasks whose heartbeat was truly older
\* than its deadline: System_Health_Check never underflows.
THEOREM NoFalseAccusation == Spec => AccusesOnlyStale
  <1>1. ASSUME HealthInv, HookInv, [Next]_vars, s_code = "NONE", s_code' = "TASK_STALE"
        PROVE  s_detail' # {} /\ \A i \in s_detail' : beatAge[i] > Deadline[i]
    <2>1. HealthVerdict
      <3>4. ~ImuReady /\ ~RaiseStep
        BY <1>1 DEF ImuReady, RaiseStep, RaiseBegins, StoreDetail, StoreCode, Halt,
                    faultVars, HookInv, RaisesFault
      <3>1. ~TaskStep /\ ~Drive
        BY <1>1 DEF TaskStep, LoopTop, Beat, Drive, faultVars
      <3>2. ~MaskedHook
        BY <1>1 DEF MaskedHook, Raise, faultVars
      <3>3. ~HealthSample /\ ~Hardware /\ ~UNCHANGED vars
        BY <1>1 DEF HealthSample, Hardware, Tick, MaskedTick, Reset, faultVars, vars
      <3> QED
        BY <1>1, <3>1, <3>2, <3>3, <3>4 DEF Next, HealthStep
    <2>2. /\ s_detail' = StaleTasks(hnow) /\ StaleTasks(hnow) # {}
          /\ hpc = "check"
      BY <1>1, <2>1 DEF HealthVerdict, Raise, faultVars
    <2>3. ASSUME NEW i \in StaleTasks(hnow) PROVE beatAge[i] > Deadline[i]
      <3>1. i \in Tasks /\ Elapsed(hnow, s_last_beat_ms[i]) > Deadline[i]
        BY <2>3 DEF StaleTasks
      <3>2. /\ Elapsed(hnow, s_last_beat_ms[i]) = beatAge[i] - Elapsed(now, hnow)
            /\ Elapsed(now, hnow) \in Nat
        BY <1>1, <2>2, <3>1, CheckIsExact
      <3>3. beatAge[i] \in Nat /\ Deadline[i] \in Nat
        BY <1>1, <3>1, Sizes DEF HealthInv, TypeOK
      <3> QED
        BY <3>1, <3>2, <3>3
    <2> QED
      BY <2>2, <2>3
  <1>2. HealthInv /\ HookInv /\ [Next]_vars =>
          [(s_code = "NONE" /\ s_code' = "TASK_STALE") =>
             /\ s_detail' # {}
             /\ \A i \in s_detail' : beatAge[i] > Deadline[i]]_vars
    BY <1>1
  <1> QED
    BY <1>2, SupervisionInvariant, HookInvariant, PTL DEF Spec, AccusesOnlyStale

\* A fault is kept and the watchdog is never fed again before a reset; code and
\* detail change only by the stores of a task that had tested before, and no
\* further task gets past its test.
THEOREM FaultKeptUntilReset == Spec => FaultIsFinal
  <1> DEFINE Kept ==
        \/ Reset
        \/ /\ s_code' # "NONE" /\ wdt' >= wdt
           /\ UNCHANGED faultVars \/ \E i \in Tasks : StoreDetail(i) \/ StoreCode(i)
           /\ \A i \in Tasks : pc'[i] = "latching" => pc[i] = "latching"
  <1>1. ASSUME HookInv, [Next]_vars, s_code # "NONE" PROVE Kept
    <2> USE DEF faultVars
    <2>1. wdt \in Nat /\ pc \in [Tasks -> PcValues]
      BY <1>1, HealthAssumption DEF HookInv, TypeOK
    <2>2. CASE TaskStep \/ Drive \/ ImuReady \/ HealthSample
      BY <1>1, <2>1, <2>2 DEF TaskStep, LoopTop, Beat, Drive, ImuReady, HealthSample,
                              taskVars
    <2>3. CASE HealthVerdict
      BY <1>1, <2>1, <2>3 DEF HealthVerdict, Raise, taskVars
    <2>4. CASE MaskedHook
      BY <1>1, <2>1, <2>4 DEF MaskedHook, Raise, taskVars
    <2>5. CASE Hardware
      BY <1>1, <2>1, <2>5 DEF Hardware, Tick, MaskedTick, taskVars
    <2>6. CASE UNCHANGED vars
      BY <1>1, <2>1, <2>6 DEF vars, taskVars
    <2>7. CASE RaiseStep
      <3>1. ASSUME NEW i \in Tasks, NEW code \in {"IMU", "HOOK"},
                   RaiseBegins(i, code)
            PROVE  Kept
        BY <1>1, <2>1, <3>1 DEF RaiseBegins, AfterRaise
      <3>2. ASSUME NEW i \in Tasks, StoreDetail(i) PROVE Kept
        <4>1. \E j \in Tasks : StoreDetail(j) \/ StoreCode(j)
          BY <3>2
        <4>2. /\ s_code' # "NONE" /\ wdt' >= wdt
              /\ \A j \in Tasks : pc'[j] = "latching" => pc[j] = "latching"
          BY <1>1, <2>1, <3>2 DEF StoreDetail
        <4> QED
          BY <4>1, <4>2
      <3>3. ASSUME NEW i \in Tasks, StoreCode(i) PROVE Kept
        <4>1. s_code' # "NONE"
          BY <1>1, <3>3 DEF StoreCode, HookInv, RaisesFault
        <4>2. \E j \in Tasks : StoreDetail(j) \/ StoreCode(j)
          BY <3>3
        <4>3. /\ wdt' >= wdt
              /\ \A j \in Tasks : pc'[j] = "latching" => pc[j] = "latching"
          BY <2>1, <3>3 DEF StoreCode, AfterRaise
        <4> QED
          BY <4>1, <4>2, <4>3
      <3>4. ASSUME NEW i \in Tasks, Halt(i) PROVE Kept
        BY <1>1, <2>1, <3>4 DEF Halt
      <3> QED
        BY <2>7, <3>1, <3>2, <3>3, <3>4 DEF RaiseStep
    <2> QED
      BY <1>1, <2>2, <2>3, <2>4, <2>5, <2>6, <2>7 DEF Next, HealthStep
  <1>2. HookInv /\ [Next]_vars => [s_code # "NONE" => Kept]_vars
    BY <1>1
  <1> QED
    BY <1>2, HookInvariant, PTL DEF Spec, FaultIsFinal

\* A halted processor drives its motors only if control preempted the hook
\* after its stop, so only if the hook's task has no higher priority.
THEOREM HaltedAfterStop == Spec => []OffUnlessPreempted
  <1>1. HookInv => OffUnlessPreempted
    BY DEF HookInv
  <1> QED
    BY <1>1, HookInvariant, PTL
=============================================================================
