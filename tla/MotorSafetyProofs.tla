-------------------------- MODULE MotorSafetyProofs --------------------------
(***************************************************************************)
(* The command timeout and the clamps of MotorSafety, for every set of     *)
(* requests, every timeout, period and latency.                            *)
(***************************************************************************)
EXTENDS MotorSafety, TLAPS

\* The constants as the provers need them.
LEMMA MotorSizes ==
    /\ PwmMax \in Nat /\ PwmMax > 0 /\ MaxAge \in Nat
    /\ CommandTimeout \in Nat
    /\ FastPeriod \in Nat /\ FastPeriod > 0
    /\ FastLatency \in Nat /\ FastLatency < FastPeriod
    /\ CommandTimeout + FastPeriod + FastLatency < MaxAge
  BY MotorAssumption

\* An age stays an age, grows by one below the bound and never shrinks.
LEMMA OlderFacts ==
    ASSUME NEW a \in Ages
    PROVE  /\ Older(a) \in Ages /\ a \in Nat /\ a <= Older(a)
           /\ Older(a) <= a + 1
           /\ \A b \in Ages : b <= a => Older(b) <= Older(a)
  BY MotorSizes DEF Ages, Older

\* Whatever is requested, SetDuty passes on a duty without sign, within PWM_MAX.
LEMMA ClampedDuty ==
    ASSUME NEW d \in Int
    PROVE  Clamped(d) \in Duties /\ Clamped(d) >= 0
  BY MotorSizes DEF Clamped, Duties

\* The pins of every duty in range are in range, and forward if it is not negative.
LEMMA TargetPins ==
    ASSUME NEW d \in Duties
    PROVE  Target(d) \in Pins /\ (d >= 0 => Target(d).in2 = 0)
  BY MotorSizes DEF Target, Coasting, Pins, Duties

LEMMA CoastingPins == Coasting \in Pins /\ Coasting.in2 = 0
  BY MotorSizes DEF Coasting, Pins

\* A single register write keeps the pins in range, and forward if both the old
\* and the aimed-at state are.
LEMMA WritePinFacts ==
    ASSUME NEW b \in Pins, NEW t \in Pins, NEW pin
    PROVE  /\ WritePin(b, pin, t) \in Pins
           /\ b.in2 = 0 /\ t.in2 = 0 => WritePin(b, pin, t).in2 = 0
  BY DEF WritePin, Pins

-----------------------------------------------------------------------------
(* Type correctness.                                                       *)

LEMMA MotorInitType == Init => TypeOK
  <1> SUFFICES ASSUME Init PROVE TypeOK
    OBVIOUS
  <1>1. 0 \in Duties /\ 0 \in Ages /\ 0 \in 0 .. (FastPeriod - 1)
    BY MotorSizes DEF Duties, Ages
  <1>2. /\ duty \in [Motors -> Duties] /\ bridge \in [Motors -> Pins]
        /\ request \in [Motors -> Duties]
    BY <1>1, CoastingPins DEF Init
  <1>3. /\ commandAge \in Ages /\ tickAge \in Ages /\ callAge \in Ages
        /\ cnowAge \in Ages /\ fnowAge \in Ages /\ tnowAge \in Ages
        /\ phase \in 0 .. (FastPeriod - 1)
    BY <1>1 DEF Init
  <1>4. /\ cpc \in {"delay", "store", "decide", "duty", "bridge", "stamp"}
        /\ after \in {"decide", "delay"}
        /\ fpc \in {"delay", "sample", "store", "safety"}
        /\ tpc \in {"delay", "store"} /\ stopped \in BOOLEAN
    BY DEF Init
  <1>5. ch \in Motors /\ wstep \in 1 .. 3
    BY DEF Init, Motors
  <1> QED
    BY <1>2, <1>3, <1>4, <1>5 DEF TypeOK

\* Both motors coasting is a legal state of the motor module.
LEMMA StopBothType ==
    ASSUME StopBoth
    PROVE  /\ duty' \in [Motors -> Duties] /\ bridge' \in [Motors -> Pins]
           /\ stopped \in BOOLEAN => stopped' \in BOOLEAN
           /\ \A m \in Motors : duty'[m] = 0 /\ bridge'[m].in2 = 0
  <1>1. 0 \in Duties
    BY MotorSizes DEF Duties
  <1> QED
    BY <1>1, CoastingPins DEF StopBoth

LEMMA BeginPairType ==
    ASSUME NEW l \in Int, NEW r \in Int, NEW a \in {"decide", "delay"},
           BeginPair(l, r, a)
    PROVE  /\ request' \in [Motors -> Duties] /\ ch' \in Motors
           /\ cpc' = "duty" /\ after' \in {"decide", "delay"}
           /\ \A m \in Motors : request'[m] >= 0
  <1>1. \A d \in {l, r} : Clamped(d) \in Duties /\ Clamped(d) >= 0
    BY ClampedDuty
  <1>2. \A m \in Motors : (IF m = 0 THEN l ELSE r) \in {l, r}
    OBVIOUS
  <1> QED
    BY <1>1, <1>2 DEF BeginPair, Motors

LEMMA MotorNextType == TypeOK /\ [Next]_vars => TypeOK'
  <1> SUFFICES ASSUME TypeOK, [Next]_vars PROVE TypeOK'
    OBVIOUS
  <1> USE DEF TypeOK
  <1>0. 0 \in Ages /\ 0 \in Duties /\ \A a \in Ages : Older(a) \in Ages
    BY MotorSizes, OlderFacts DEF Ages, Duties
  <1>1. CASE CtlSample
    BY <1>0, <1>1 DEF CtlSample, fastVars, telVars
  <1>2. CASE CtlStore
    BY <1>0, <1>2 DEF CtlStore, fastVars, telVars
  <1>3. CASE CtlStateStop
    BY <1>3, BeginPairType DEF CtlStateStop, fastVars, telVars
  <1>4. CASE CtlChassisTick
    <2>1. PICK l, r \in Requests : BeginPair(l, r, "delay")
      BY <1>4 DEF CtlChassisTick
    <2>2. l \in Int /\ r \in Int
      BY MotorAssumption
    <2> QED
      BY <1>4, <2>1, <2>2, BeginPairType DEF CtlChassisTick, fastVars, telVars
  <1>5. CASE CtlWriteDuty
    BY <1>0, <1>5 DEF CtlWriteDuty, fastVars, telVars
  <1>6. CASE CtlWriteBridge
    <2> DEFINE written ==
          WritePin(bridge[ch], WriteOrder(request[ch])[wstep], Target(request[ch]))
    <2>1. written \in Pins
      BY TargetPins, WritePinFacts
    <2>2. bridge' \in [Motors -> Pins]
      BY <1>6, <2>1 DEF CtlWriteBridge
    <2>3. wstep' \in 1 .. 3 /\ cpc' \in {"bridge", "stamp"}
      BY <1>6 DEF CtlWriteBridge
    <2> QED
      BY <1>6, <2>2, <2>3 DEF CtlWriteBridge, fastVars, telVars
  <1>7. CASE CtlStamp
    <2>1. request' \in [Motors -> Duties] /\ ch' \in Motors
      BY <1>0, <1>7 DEF CtlStamp, Motors
    <2>2. cpc' \in {"duty", "decide", "delay"} /\ after' \in {"decide", "delay"}
      BY <1>7 DEF CtlStamp
    <2> QED
      BY <1>0, <1>7, <2>1, <2>2 DEF CtlStamp, fastVars, telVars
  <1>8. CASE FastSample
    BY <1>0, <1>8 DEF FastSample, ctlVars, telVars
  <1>9. CASE FastStore
    BY <1>0, <1>9 DEF FastStore, ctlVars, telVars
  <1>10. CASE SafetyTick
    BY <1>0, <1>10, StopBothType DEF SafetyTick, ctlVars, telVars
  <1>11. CASE RaiseStop
    BY <1>0, <1>11, StopBothType DEF RaiseStop, ctlVars, fastVars, telVars
  <1>12. CASE TelSample
    BY <1>0, <1>12 DEF TelSample, ctlVars, fastVars
  <1>13. CASE TelStore
    BY <1>0, <1>13 DEF TelStore, ctlVars, fastVars
  <1>14. CASE Tick
    <2>1. phase' \in 0 .. (FastPeriod - 1)
      BY <1>14, MotorSizes DEF Tick
    <2>2. fpc' \in {"delay", "sample", "store", "safety"}
      BY <1>14 DEF Tick
    <2>3. /\ commandAge' \in Ages /\ tickAge' \in Ages /\ callAge' \in Ages
          /\ cnowAge' \in Ages /\ fnowAge' \in Ages /\ tnowAge' \in Ages
      BY <1>0, <1>14 DEF Tick
    <2> QED
      BY <1>14, <2>1, <2>2, <2>3 DEF Tick
  <1>15. CASE UNCHANGED vars
    BY <1>15 DEF vars, ctlVars, fastVars, telVars
  <1> QED
    BY <1>1, <1>2, <1>3, <1>4, <1>5, <1>6, <1>7, <1>8, <1>9, <1>10, <1>11,
       <1>12, <1>13, <1>14, <1>15
       DEF Next, ControlStep, FastStep, TelemetryStep

\* Every variable of the motor module and its callers keeps its type.
THEOREM MotorTypeCorrect == Spec => []TypeOK
  BY MotorInitType, MotorNextType, PTL DEF Spec

-----------------------------------------------------------------------------
(* The inductive invariant.                                                *)

\* Forward only: the clamps of BSP_Motor_SetDuty survive every mix of writes.
LEMMA NoReverseNext == TypeOK /\ NoReverse /\ [Next]_vars => NoReverse'
  <1> SUFFICES ASSUME TypeOK, NoReverse, [Next]_vars PROVE NoReverse'
    OBVIOUS
  <1> USE DEF NoReverse
  <1>1. CASE CtlStateStop
    BY <1>1, BeginPairType DEF CtlStateStop
  <1>2. CASE CtlChassisTick
    <2>1. PICK l, r \in Requests : BeginPair(l, r, "delay")
      BY <1>2 DEF CtlChassisTick
    <2>2. l \in Int /\ r \in Int
      BY MotorAssumption
    <2> QED
      BY <1>2, <2>1, <2>2, BeginPairType DEF CtlChassisTick
  <1>3. CASE CtlWriteDuty
    BY <1>3 DEF CtlWriteDuty, TypeOK
  <1>4. CASE CtlWriteBridge
    <2> DEFINE written ==
          WritePin(bridge[ch], WriteOrder(request[ch])[wstep], Target(request[ch]))
    <2>1. /\ bridge[ch] \in Pins /\ bridge[ch].in2 = 0
          /\ request[ch] \in Duties /\ request[ch] >= 0
      BY DEF TypeOK
    <2>2. Target(request[ch]) \in Pins /\ Target(request[ch]).in2 = 0
      BY <2>1, TargetPins
    <2>3. written.in2 = 0
      BY <2>1, <2>2, WritePinFacts
    <2> HIDE DEF written
    <2>4. bridge' = [bridge EXCEPT ![ch] = written]
      BY <1>4 DEF CtlWriteBridge, written
    <2>5. \A m \in Motors : bridge'[m].in2 = 0
      BY <2>3, <2>4 DEF TypeOK
    <2> QED
      BY <1>4, <2>5 DEF CtlWriteBridge
  <1>5. CASE CtlStamp
    BY <1>5 DEF CtlStamp
  <1>6. CASE SafetyTick
    BY <1>6, StopBothType DEF SafetyTick, ctlVars
  <1>7. CASE RaiseStop
    BY <1>7, StopBothType DEF RaiseStop, ctlVars
  <1>8. CASE CtlSample \/ CtlStore \/ FastSample \/ FastStore \/ TelemetryStep
    BY <1>8 DEF CtlSample, CtlStore, FastSample, FastStore, TelemetryStep,
                TelSample, TelStore, ctlVars
  <1>9. CASE Tick \/ UNCHANGED vars
    BY <1>9 DEF Tick, vars, ctlVars
  <1> QED
    BY <1>1, <1>2, <1>3, <1>4, <1>5, <1>6, <1>7, <1>8, <1>9
       DEF Next, ControlStep, FastStep

\* While the fast task runs, the tasks that could store a newer reading wait.
LEMMA StampNext == TypeOK /\ StampNotAhead /\ [Next]_vars => StampNotAhead'
  <1> SUFFICES ASSUME TypeOK, StampNotAhead, [Next]_vars PROVE StampNotAhead'
    OBVIOUS
  <1> USE DEF StampNotAhead
  <1>0. /\ phase \in Nat /\ commandAge \in Ages /\ tickAge \in Ages /\ fnowAge \in Ages
        /\ commandAge \in Nat /\ tickAge \in Nat /\ fnowAge \in Nat
    BY MotorSizes DEF TypeOK, Ages
  <1>1. CASE ControlStep \/ TelemetryStep
    <2>1. fpc = "delay" /\ fpc' = "delay"
      BY <1>1 DEF ControlStep, TelemetryStep, CtlRuns, TelRuns, CtlSample, CtlStore,
                  CtlStateStop, CtlChassisTick, CtlWriteDuty, CtlWriteBridge, CtlStamp,
                  TelSample, TelStore, fastVars
    <2> QED
      BY <2>1
  <1>2. CASE FastSample
    BY <1>0, <1>2, MotorSizes DEF FastSample
  <1>3. CASE FastStore
    BY <1>0, <1>3 DEF FastStore
  <1>4. CASE SafetyTick
    BY <1>4 DEF SafetyTick
  <1>5. CASE RaiseStop
    BY <1>0, <1>5 DEF RaiseStop, fastVars
  <1>6. CASE Tick
    <2>1. ASSUME fpc # "delay"
          PROVE  phase' = phase + 1 /\ fpc' = fpc /\ phase' <= FastLatency
      BY <1>0, <1>6, <2>1, MotorSizes DEF Tick, TypeOK
    <2>2. ASSUME fpc \in {"store", "safety"}
          PROVE  fnowAge' <= phase' /\ fnowAge' <= commandAge' /\ fnowAge' <= tickAge'
      BY <1>0, <1>6, <2>1, <2>2, OlderFacts DEF Tick, Ages
    <2>3. CASE fpc = "delay"
      <3>1. fpc' \in {"delay", "sample"} /\ (fpc' = "sample" => phase' = 0)
        BY <1>6, <2>3 DEF Tick
      <3> QED
        BY <3>1, MotorSizes
    <2> QED
      BY <2>1, <2>2, <2>3
  <1>7. CASE UNCHANGED vars
    BY <1>7 DEF vars, fastVars
  <1> QED
    BY <1>1, <1>2, <1>3, <1>4, <1>5, <1>6, <1>7 DEF Next, FastStep

\* A duty survives a SafetyTick only with a stamp younger than the timeout.
LEMMA RefreshNext ==
    TypeOK /\ StampNotAhead /\ RefreshBounded /\ [Next]_vars => RefreshBounded'
  <1> SUFFICES ASSUME TypeOK, StampNotAhead, RefreshBounded, [Next]_vars
               PROVE  RefreshBounded'
    OBVIOUS
  <1> DEFINE On == \E m \in Motors : duty[m] # 0
  <1>0. /\ phase \in Nat /\ Unchecked \in Nat /\ CommandTimeout \in Nat
        /\ callAge \in Ages /\ commandAge \in Ages /\ tickAge \in Ages
        /\ callAge \in Nat /\ commandAge \in Nat /\ tickAge \in Nat /\ fnowAge \in Nat
    BY MotorSizes DEF TypeOK, Ages, Unchecked
  <1>1. CASE CtlSample \/ CtlStore \/ CtlStateStop \/ CtlChassisTick \/ CtlWriteBridge
             \/ TelemetryStep
    <2>1. UNCHANGED <<duty, commandAge, callAge, fpc, phase>>
      BY <1>1 DEF CtlSample, CtlStore, CtlStateStop, CtlChassisTick, CtlWriteBridge,
                  TelemetryStep, TelSample, TelStore, fastVars
    <2> QED
      BY <2>1 DEF RefreshBounded, Unchecked
  <1>2. CASE CtlWriteDuty
    <2>1. callAge' = 0 /\ UNCHANGED <<commandAge, fpc, phase>>
      BY <1>2 DEF CtlWriteDuty, fastVars
    <2>2. Unchecked' \in Nat
      BY <1>0, <2>1, MotorSizes DEF Unchecked
    <2>3. callAge' <= commandAge' /\ \A u \in Nat : callAge' <= CommandTimeout + u
      BY <1>0, <2>1
    <2> QED
      BY <2>2, <2>3 DEF RefreshBounded
  <1>3. CASE CtlStamp
    <2>1. callAge' = 0 /\ commandAge' = tickAge /\ UNCHANGED <<fpc, phase>>
      BY <1>3 DEF CtlStamp, fastVars
    <2>2. Unchecked' \in Nat
      BY <1>0, <2>1, MotorSizes DEF Unchecked
    <2>3. callAge' <= commandAge' /\ \A u \in Nat : callAge' <= CommandTimeout + u
      BY <1>0, <2>1
    <2> QED
      BY <2>2, <2>3 DEF RefreshBounded
  <1>4. CASE FastSample \/ FastStore
    <2>1. /\ UNCHANGED <<duty, commandAge, callAge, phase>>
          /\ fpc # "delay" /\ fpc' # "delay"
      BY <1>4 DEF FastSample, FastStore
    <2> QED
      BY <2>1 DEF RefreshBounded, Unchecked
  <1>5. CASE SafetyTick
    <2>1. /\ fpc = "safety" /\ fpc' = "delay"
          /\ UNCHANGED <<commandAge, callAge, phase>>
      BY <1>5 DEF SafetyTick
    <2>2. /\ fnowAge <= phase /\ fnowAge <= commandAge /\ callAge <= commandAge
      BY <2>1 DEF StampNotAhead, RefreshBounded
    <2>3. CASE On /\ TimedOut
      <3>1. \A m \in Motors : duty'[m] = 0
        BY <1>5, <2>3, StopBothType DEF SafetyTick
      <3> QED
        BY <2>1, <2>2, <3>1 DEF RefreshBounded
    <2>4. CASE ~TimedOut
      <3>1. commandAge - fnowAge <= CommandTimeout
        BY <1>0, <2>2, <2>4 DEF TimedOut
      <3>2. callAge <= CommandTimeout + phase
        BY <1>0, <2>2, <3>1
      <3> QED
        BY <2>1, <2>2, <3>2 DEF RefreshBounded, Unchecked
    <2>5. CASE ~On
      <3>1. UNCHANGED duty
        BY <1>5, <2>5 DEF SafetyTick
      <3> QED
        BY <2>1, <2>2, <2>5, <3>1 DEF RefreshBounded
    <2> QED
      BY <2>3, <2>4, <2>5
  <1>6. CASE RaiseStop
    <2>1. callAge' = 0 /\ commandAge' = tickAge
      BY <1>6 DEF RaiseStop
    <2>2. \A m \in Motors : duty'[m] = 0
      BY <1>6, StopBothType DEF RaiseStop
    <2> QED
      BY <1>0, <2>1, <2>2 DEF RefreshBounded
  <1>7. CASE Tick
    <2>1. /\ callAge' = Older(callAge) /\ commandAge' = Older(commandAge)
          /\ UNCHANGED duty
      BY <1>7 DEF Tick
    <2>2. Unchecked' = Unchecked + 1
      BY <1>0, <1>7, MotorSizes DEF Tick, Unchecked, TypeOK
    <2>3. Older(callAge) \in Nat /\ Older(callAge) <= callAge + 1
      BY <1>0, OlderFacts DEF Ages
    <2>4. Older(callAge) <= Older(commandAge)
      BY <1>0, OlderFacts DEF RefreshBounded
    <2> QED
      BY <1>0, <2>1, <2>2, <2>3, <2>4 DEF RefreshBounded
  <1>8. CASE UNCHANGED vars
    BY <1>8 DEF vars, fastVars, RefreshBounded, Unchecked
  <1> QED
    BY <1>1, <1>2, <1>3, <1>4, <1>5, <1>6, <1>7, <1>8
       DEF Next, ControlStep, FastStep

LEMMA MotorInvInit == Init => MotorInv
  <1> SUFFICES ASSUME Init PROVE MotorInv
    OBVIOUS
  <1>1. TypeOK
    BY MotorInitType
  <1>2. StampNotAhead
    BY MotorSizes DEF Init, StampNotAhead
  <1>3. RefreshBounded
    BY DEF Init, RefreshBounded
  <1>4. NoReverse
    BY DEF Init, NoReverse, Coasting
  <1> QED
    BY <1>1, <1>2, <1>3, <1>4 DEF MotorInv

\* The invariant of the motor module under preemption by its callers.
THEOREM MotorInvariant == Spec => []MotorInv
  <1>1. MotorInv /\ [Next]_vars => MotorInv'
    BY MotorNextType, StampNext, RefreshNext, NoReverseNext DEF MotorInv
  <1> QED
    BY <1>1, MotorInvInit, PTL DEF Spec

-----------------------------------------------------------------------------
(* What follows from it.                                                   *)

\* Whatever is requested and however the register writes mix, no wheel is
\* driven backwards and no bridge has both inputs raised.
THEOREM NeverReversed == Spec => []ForwardOnly
  <1>1. MotorInv => ForwardOnly
    BY DEF MotorInv, NoReverse, ForwardOnly
  <1> QED
    BY <1>1, MotorInvariant, PTL

\* A recorded duty does not outlive the command timeout by more than one fast
\* period and the fast task's latency.
THEOREM TimeoutStops == Spec => []UnrefreshedStops
  <1>1. MotorInv => UnrefreshedStops
    <2> SUFFICES ASSUME MotorInv, \E m \in Motors : duty[m] # 0
                 PROVE  callAge <= CommandTimeout + FastPeriod + FastLatency
      BY DEF UnrefreshedStops
    <2>1. phase \in Nat /\ phase < FastPeriod /\ callAge \in Nat
      BY MotorSizes DEF MotorInv, TypeOK, Ages
    <2>2. Unchecked \in Nat /\ Unchecked <= FastPeriod + FastLatency
      BY <2>1, MotorSizes DEF Unchecked, MotorInv, StampNotAhead
    <2>3. callAge <= CommandTimeout + Unchecked
      BY DEF MotorInv, RefreshBounded
    <2> QED
      BY <2>1, <2>2, <2>3, MotorSizes
  <1> QED
    BY <1>1, MotorInvariant, PTL

\* SafetyTick zeroes a duty only if its stamp is truly older than the timeout:
\* the unsigned subtraction never underflows.
THEOREM NoEarlyStop == Spec => StopsOnlyUnrefreshed
  <1>1. ASSUME MotorInv, SafetyTick, duty' # duty
        PROVE  commandAge > CommandTimeout
    <2>1. fpc = "safety" /\ TimedOut
      BY <1>1 DEF SafetyTick
    <2>2. fnowAge <= commandAge /\ fnowAge \in Nat /\ commandAge \in Nat
      BY <1>1, <2>1, MotorSizes DEF MotorInv, StampNotAhead, TypeOK, Ages
    <2> QED
      BY <2>1, <2>2, MotorSizes DEF TimedOut
  <1>2. MotorInv /\ [Next]_vars =>
          [(SafetyTick /\ duty' # duty) => commandAge > CommandTimeout]_vars
    BY <1>1
  <1> QED
    BY <1>2, MotorInvariant, PTL DEF Spec, StopsOnlyUnrefreshed

-----------------------------------------------------------------------------
(* The bridge after a loop without a stop.                                 *)

\* The first n writes of the motor in progress have taken effect.
Written(n) ==
    \A k \in 1 .. n : LET pin == WriteOrder(request[ch])[k]
                      IN  bridge[ch][pin] = Target(request[ch])[pin]

\* The motors already written follow their duties, and so does the part of the
\* motor in progress that is written; what came before the pair does not matter.
WritesInv ==
    ~stopped =>
        /\ cpc = "delay" => \A m \in Motors : bridge[m] = Target(duty[m])
        /\ cpc \in {"duty", "bridge", "stamp"} /\ ch = 1 => bridge[0] = Target(duty[0])
        /\ cpc = "bridge" => duty[ch] = request[ch] /\ Written(wstep - 1)
        /\ cpc = "stamp" => bridge[ch] = Target(duty[ch])

\* Three writes make a bridge what was aimed at.
LEMMA WritesComplete ==
    ASSUME NEW d \in Duties, NEW b \in Pins,
           \A k \in 1 .. 3 : b[WriteOrder(d)[k]] = Target(d)[WriteOrder(d)[k]]
    PROVE  b = Target(d)
  <1>1. Target(d) \in Pins
    BY TargetPins
  <1>2. 1 \in 1 .. 3 /\ 2 \in 1 .. 3 /\ 3 \in 1 .. 3
    OBVIOUS
  <1>3. b.in1 = Target(d).in1 /\ b.in2 = Target(d).in2 /\ b.pwm = Target(d).pwm
    BY <1>2 DEF WriteOrder
  <1> QED
    BY <1>1, <1>3 DEF Pins

\* A write takes effect and leaves those before it alone.
LEMMA WriteAdds ==
    ASSUME NEW d \in Duties, NEW b \in Pins, NEW n \in 1 .. 3,
           \A k \in 1 .. (n - 1) : b[WriteOrder(d)[k]] = Target(d)[WriteOrder(d)[k]]
    PROVE  LET w == WritePin(b, WriteOrder(d)[n], Target(d))
           IN  \A k \in 1 .. n : w[WriteOrder(d)[k]] = Target(d)[WriteOrder(d)[k]]
  <1> DEFINE w == WritePin(b, WriteOrder(d)[n], Target(d))
  <1> SUFFICES ASSUME NEW k \in 1 .. n
               PROVE  w[WriteOrder(d)[k]] = Target(d)[WriteOrder(d)[k]]
    OBVIOUS
  <1>1. WriteOrder(d)[k] \in {"in1", "in2", "pwm"}
    BY DEF WriteOrder
  <1>2. CASE k = n
    BY <1>1, <1>2 DEF WritePin
  <1>3. CASE k < n
    <2>1. k \in 1 .. (n - 1)
      BY <1>3
    <2>2. b[WriteOrder(d)[k]] = Target(d)[WriteOrder(d)[k]]
      BY <2>1
    <2> QED
      BY <1>1, <2>2 DEF WritePin
  <1> QED
    BY <1>2, <1>3

LEMMA StopFollows ==
    ASSUME TypeOK, WritesInv, StopBoth, UNCHANGED ctlVars
    PROVE  WritesInv'
  <1>1. stopped' \/ cpc' = "delay"
    BY DEF StopBoth, ctlVars
  <1>2. \A m \in Motors : bridge'[m] = Target(duty'[m])
    BY DEF StopBoth, Target
  <1> QED
    BY <1>1, <1>2 DEF WritesInv

LEMMA WritesNext == TypeOK /\ WritesInv /\ [Next]_vars => WritesInv'
  <1> SUFFICES ASSUME TypeOK, WritesInv, [Next]_vars PROVE WritesInv'
    OBVIOUS
  <1>1. CASE CtlSample \/ CtlStore
    <2>1. cpc' \in {"store", "decide"}
      BY <1>1 DEF CtlSample, CtlStore
    <2> QED
      BY <2>1 DEF WritesInv
  <1>2. CASE CtlStateStop \/ CtlChassisTick
    <2>1. cpc' = "duty" /\ ch' = 0
      BY <1>2 DEF CtlStateStop, CtlChassisTick, BeginPair
    <2> QED
      BY <2>1 DEF WritesInv
  <1>3. CASE CtlWriteDuty
    <2>1. /\ cpc = "duty" /\ cpc' = "bridge" /\ wstep' = 1
          /\ duty' = [duty EXCEPT ![ch] = request[ch]]
          /\ UNCHANGED <<bridge, request, ch, stopped>>
      BY <1>3 DEF CtlWriteDuty
    <2>2. duty'[ch'] = request'[ch'] /\ (ch' = 1 => duty'[0] = duty[0])
      BY <2>1 DEF TypeOK, Motors
    <2>3. Written(wstep - 1)'
      BY <2>1 DEF Written
    <2> QED
      BY <2>1, <2>2, <2>3 DEF WritesInv
  <1>4. CASE CtlWriteBridge
    <2> DEFINE w == WritePin(bridge[ch], WriteOrder(request[ch])[wstep], Target(request[ch]))
    <2>1. /\ cpc = "bridge" /\ bridge' = [bridge EXCEPT ![ch] = w]
          /\ IF wstep < 3 THEN wstep' = wstep + 1 /\ cpc' = "bridge"
                          ELSE wstep' = 1 /\ cpc' = "stamp"
          /\ UNCHANGED <<duty, request, ch, stopped>>
      BY <1>4 DEF CtlWriteBridge
    <2>2. /\ request[ch] \in Duties /\ bridge[ch] \in Pins /\ wstep \in 1 .. 3
          /\ ch \in Motors /\ bridge \in [Motors -> Pins]
      BY DEF TypeOK
    <2>3. w \in Pins
      BY <2>2, TargetPins, WritePinFacts
    <2> SUFFICES ASSUME ~stopped PROVE WritesInv'
      BY <2>1 DEF WritesInv
    <2>4. duty[ch] = request[ch] /\ Written(wstep - 1)
      BY <2>1 DEF WritesInv
    <2>5. \A k \in 1 .. wstep : w[WriteOrder(request[ch])[k]]
                                = Target(request[ch])[WriteOrder(request[ch])[k]]
      BY <2>2, <2>4, WriteAdds DEF Written
    <2> HIDE DEF w
    <2>6. bridge'[ch] = w /\ (ch = 1 => bridge'[0] = bridge[0])
      BY <2>1, <2>2 DEF Motors
    <2>7. CASE wstep < 3
      <3>1. Written(wstep - 1)'
        BY <2>1, <2>2, <2>5, <2>6, <2>7 DEF Written
      <3> QED
        BY <2>1, <2>4, <2>6, <2>7, <3>1 DEF WritesInv
    <2>8. CASE wstep = 3
      <3>1. w = Target(request[ch])
        BY <2>2, <2>3, <2>5, <2>8, WritesComplete
      <3> QED
        BY <2>1, <2>4, <2>6, <2>8, <3>1 DEF WritesInv
    <2> QED
      BY <2>2, <2>7, <2>8
  <1>5. CASE CtlStamp
    BY <1>5 DEF CtlStamp, WritesInv, Motors, TypeOK
  <1>6. CASE SafetyTick
    BY <1>6, StopFollows DEF SafetyTick, ctlVars, WritesInv, Written
  <1>7. CASE RaiseStop
    BY <1>7, StopFollows DEF RaiseStop
  <1>8. CASE FastSample \/ FastStore \/ TelemetryStep \/ Tick \/ UNCHANGED vars
    <2>1. UNCHANGED <<duty, bridge, cpc, request, ch, wstep, stopped>>
      BY <1>8 DEF FastSample, FastStore, TelemetryStep, TelSample, TelStore, Tick,
                  vars, ctlVars
    <2> QED
      BY <2>1 DEF WritesInv, Written
  <1> QED
    BY <1>1, <1>2, <1>3, <1>4, <1>5, <1>6, <1>7, <1>8 DEF Next, ControlStep, FastStep

\* After a loop that no stop preempted the bridges do what the recorded duties
\* say, whatever was left behind by writes that mixed before.
THEOREM BridgeRepaired == Spec => []BridgeFollowsDuty
  <1>1. Init => WritesInv
    BY DEF Init, WritesInv, Target
  <1>2. WritesInv => BridgeFollowsDuty
    BY DEF WritesInv, BridgeFollowsDuty
  <1> QED
    BY <1>1, <1>2, WritesNext, MotorTypeCorrect, PTL DEF Spec
=============================================================================
