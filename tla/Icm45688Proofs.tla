--------------------------- MODULE Icm45688Proofs ---------------------------
(***************************************************************************)
(* The sensor's driver, for any hold and learning time, any number of      *)
(* set-up calls and any headings: what the SPI transfers deliver, and when *)
(* the handle is ready, learns a bias and holds its yaw.                   *)
(***************************************************************************)
EXTENDS Icm45688, SequenceTheorems, TLAPS

-----------------------------------------------------------------------------
(* The bus.  A byte that is still shifted when an access has given up is   *)
(* waited for, or makes the next access fail; one that has arrived is      *)
(* drained before the chip is selected.                                    *)

BusInv ==
  /\ at \in Steps
  /\ shifting \in Bytes \cup {"none"}
  /\ rx \in Seq(Bytes)
  /\ "old" \notin answers
  /\ at \in {"idle", "wait", "drain", "select"} => ~selected
  /\ at \in {"drain", "select"} => shifting = "none"
  /\ at = "select" => rx = <<>>
  /\ at \in {"send", "await", "deselect"} =>
       shifting # "old" /\ \A i \in DOMAIN rx : rx[i] = "own"

LEMMA BusInit == SpiInit => BusInv
BY DEF SpiInit, BusInv, Steps, Bytes

LEMMA CallKeeps == ASSUME BusInv, NEW n, Call(n) PROVE BusInv'
<1>1. rx' \in Seq(Bytes)
  <2>1. \A i \in DOMAIN rx : Aged(rx[i]) \in Bytes
    BY DEF BusInv, Bytes, Aged
  <2>2. DOMAIN rx = 1 .. Len(rx) /\ Len(rx) \in Nat
    BY DEF BusInv
  <2> QED BY <2>1, <2>2 DEF Call
<1> QED BY <1>1 DEF Call, BusInv, Steps, Bytes, Aged

LEMMA DriverKeeps == ASSUME BusInv, Driver PROVE BusInv'
<1> USE DEF BusInv, Steps, Bytes
<1>1. CASE BusyTimeout BY <1>1 DEF BusyTimeout
<1>2. CASE NotBusy BY <1>2 DEF NotBusy
<1>3. CASE Drain BY <1>3 DEF Drain
<1>4. CASE Select BY <1>4 DEF Select
<1>5. CASE Transmit BY <1>5 DEF Transmit
<1>6. CASE Receive
  <2>1. Head(rx) = rx[1] /\ 1 \in DOMAIN rx /\ Tail(rx) \in Seq(Bytes)
    BY <1>6 DEF Receive
  <2>2. \A i \in DOMAIN Tail(rx) : Tail(rx)[i] = "own"
    BY <1>6 DEF Receive
  <2> QED BY <1>6, <2>1, <2>2 DEF Receive
<1>7. CASE ReceiveTimeout BY <1>7 DEF ReceiveTimeout
<1>8. CASE Deselect BY <1>8 DEF Deselect
<1> QED BY <1>1, <1>2, <1>3, <1>4, <1>5, <1>6, <1>7, <1>8 DEF Driver

LEMMA ShiftKeeps == ASSUME BusInv, Shift PROVE BusInv'
<1>1. rx' = Append(rx, shifting) /\ shifting \in Bytes /\ rx \in Seq(Bytes)
  BY DEF Shift, BusInv
<1>2. rx' \in Seq(Bytes)
  BY <1>1
<1>3. ASSUME at \in {"send", "await", "deselect"}, NEW i \in DOMAIN rx'
      PROVE  rx'[i] = "own"
  <2>1. shifting = "own" /\ \A k \in DOMAIN rx : rx[k] = "own"
    BY <1>1, <1>3 DEF BusInv, Bytes
  <2>2. i \in DOMAIN rx \/ i = Len(rx) + 1
    BY <1>1, <1>3
  <2> QED BY <1>1, <2>1, <2>2
<1>4. at' = at /\ selected' = selected /\ answers' = answers /\ shifting' = "none"
      /\ shifting # "none"
  BY DEF Shift
<1> QED BY <1>2, <1>3, <1>4 DEF BusInv

\* The task's actions touch the bus by calling an access only.
LEMMA TaskUsesBus ==
    ASSUME [Next]_vars
    PROVE  Driver \/ Shift \/ (\E n \in {1, 2} : Call(n)) \/ UNCHANGED spi
<1> USE DEF AttemptFails, UpdateFails
<1>1. CASE Configure BY <1>1 DEF Configure
<1>2. ASSUME NEW right \in BOOLEAN, WhoAmI(right) PROVE (\E n \in {1, 2} : Call(n)) \/ UNCHANGED spi
  BY <1>2 DEF WhoAmI
<1>3. ASSUME NEW right \in BOOLEAN, BeginWhoAmI(right) PROVE (\E n \in {1, 2} : Call(n)) \/ UNCHANGED spi
  BY <1>3 DEF BeginWhoAmI
<1>4. CASE BeginDrive BY <1>4 DEF BeginDrive
<1>5. CASE BeginSetup BY <1>5 DEF BeginSetup
<1>6. CASE BeginStatus BY <1>6 DEF BeginStatus
<1>7. CASE BeginReady BY <1>7 DEF BeginReady
<1>8. CASE Poll BY <1>8 DEF Poll
<1>9. CASE PollFails BY <1>9 DEF PollFails
<1>10. CASE DataReady BY <1>10 DEF DataReady
<1>11. CASE DataFails BY <1>11 DEF DataFails
<1>12. ASSUME NEW g \in Gyros, NEW h \in Gyros, NEW raw \in Accels, Sample(g, h, raw)
       PROVE UNCHANGED spi
  BY <1>12 DEF Sample
<1>13. CASE ZeroAttitude BY <1>13 DEF ZeroAttitude
<1>14. CASE SpiStep BY <1>14 DEF SpiStep
<1>15. CASE Transfer BY <1>15 DEF Transfer
<1>16. CASE NewSample BY <1>16 DEF NewSample
<1>17. CASE UNCHANGED vars BY <1>17 DEF vars
<1> QED
  BY <1>1, <1>2, <1>3, <1>4, <1>5, <1>6, <1>7, <1>8, <1>9, <1>10, <1>11, <1>12,
     <1>13, <1>14, <1>15, <1>16, <1>17 DEF Next

LEMMA BusStep == BusInv /\ [Next]_vars => BusInv'
<1> SUFFICES ASSUME BusInv, [Next]_vars PROVE BusInv'
  OBVIOUS
<1>1. CASE UNCHANGED spi BY <1>1 DEF spi, BusInv
<1> QED BY <1>1, TaskUsesBus, CallKeeps, DriverKeeps, ShiftKeeps

\* A byte that comes after its access gave up is never taken for an answer.
THEOREM AnswersAreOwn == Spec => []OwnAnswers
<1>1. Init => BusInv
  BY BusInit DEF Init
<1>2. BusInv => OwnAnswers
  BY DEF BusInv, OwnAnswers
<1> QED BY <1>1, <1>2, BusStep, PTL DEF Spec

\* The chip is selected for whole accesses only, and sees no byte of an earlier one.
THEOREM FramesAreWhole == Spec => []WholeFrames
<1>1. Init => BusInv
  BY BusInit DEF Init
<1>2. BusInv => WholeFrames
  BY DEF BusInv, WholeFrames, Steps
<1> QED BY <1>1, <1>2, BusStep, PTL DEF Spec

-----------------------------------------------------------------------------
(* The handle.                                                             *)

Handles == [ready : BOOLEAN, stationary : BOOLEAN, count : 0..Hold, auto : BOOLEAN,
            learn : 0..LearnSamples, bias : 0..2, lpf : BOOLEAN, yaw : Headings]

\* The program counters before the sensor is set up.
SettingUp == pc \in {"configure", "whoami", "drive", "begin_whoami", "setup", "int_status"}

\* A handle that has seen n stationary samples in a row and m slow ones: it is
\* stationary after Hold of them, and what it has learned from came after that.
Agrees(d, n, m) ==
  /\ d.count = IF n < Hold THEN n ELSE Hold
  /\ d.stationary = (n >= Hold)
  /\ d.learn > 0 => d.auto /\ n >= Hold + d.learn - 1 /\ m >= d.learn

HandleInv ==
  /\ dev \in Handles
  /\ calls \in Nat /\ setup \in Nat
  /\ still \in 0..Longest /\ slow \in 0..Longest
  /\ Agrees(dev, still, slow)
  /\ SettingUp => ~dev.ready /\ still = 0 /\ slow = 0
  /\ dev.ready => setup = ConfigCalls
  /\ pc = "setup" /\ status => setup + calls = ConfigCalls
  /\ pc = "int_status" => setup = ConfigCalls

LEMMA Sizes ==
  /\ Hold \in Nat /\ Hold > 0 /\ LearnSamples \in Nat /\ LearnSamples > 0
  /\ ConfigCalls \in Nat /\ Longest \in Nat /\ Longest = Hold + LearnSamples + 1
  /\ 0 \in 0..Hold /\ 0 \in 0..LearnSamples /\ 0 \in Headings /\ 0 \in 0..2
BY IcmAssumption DEF Longest

\* What an operator does to a handle: everything but its own fields is kept.
LEMMA Defaults ==
  /\ InitHandleSPI \in Handles
  /\ ~InitHandleSPI.ready /\ InitHandleSPI.count = 0 /\ ~InitHandleSPI.stationary
  /\ InitHandleSPI.learn = 0
BY Sizes DEF InitHandleSPI, Handles

LEMMA HandleSetters ==
    ASSUME NEW d \in Handles
    PROVE  /\ SetStationaryDetection(d) \in Handles
           /\ SetStationaryDetection(d).ready = d.ready
           /\ SetStationaryDetection(d).count = 0
           /\ ~SetStationaryDetection(d).stationary
           /\ SetStationaryDetection(d).learn = 0
           /\ ResetAttitude(d) \in Handles
           /\ ResetAttitude(d).ready = d.ready /\ ResetAttitude(d).count = d.count
           /\ ResetAttitude(d).stationary = d.stationary
           /\ ResetAttitude(d).learn = d.learn /\ ResetAttitude(d).auto = d.auto
           /\ ResetSampleLowPass(d) \in Handles
           /\ ResetSampleLowPass(d).ready = d.ready /\ ResetSampleLowPass(d).count = d.count
           /\ ResetSampleLowPass(d).stationary = d.stationary
           /\ ResetSampleLowPass(d).learn = d.learn
<1>1. SetStationaryDetection(d) \in Handles
  BY Sizes, Zenon DEF SetStationaryDetection, Handles
<1>2. ResetAttitude(d) \in Handles
  BY Sizes, Zenon DEF ResetAttitude, Handles
<1>3. ResetSampleLowPass(d) \in Handles
  BY Sizes, Zenon DEF ResetSampleLowPass, Handles
<1> QED
  BY <1>1, <1>2, <1>3 DEF SetStationaryDetection, ResetAttitude, ResetSampleLowPass, Handles

LEMMA HandleBias ==
    ASSUME NEW d \in Handles, NEW b \in 0..2, NEW on \in BOOLEAN
    PROVE  /\ SetGyroBias(d, b) \in Handles
           /\ SetGyroBias(d, b).ready = d.ready /\ SetGyroBias(d, b).count = d.count
           /\ SetGyroBias(d, b).stationary = d.stationary /\ SetGyroBias(d, b).learn = 0
           /\ SetGyroBiasAutoUpdate(d, on) \in Handles
           /\ SetGyroBiasAutoUpdate(d, on).ready = d.ready
           /\ SetGyroBiasAutoUpdate(d, on).count = d.count
           /\ SetGyroBiasAutoUpdate(d, on).stationary = d.stationary
           /\ SetGyroBiasAutoUpdate(d, on).learn = 0
<1>1. SetGyroBias(d, b) \in Handles
  BY Sizes, Zenon DEF SetGyroBias, Handles
<1>2. SetGyroBiasAutoUpdate(d, on) \in Handles
  BY Sizes, Zenon DEF SetGyroBiasAutoUpdate, Handles
<1> QED BY <1>1, <1>2 DEF SetGyroBias, SetGyroBiasAutoUpdate, Handles

\* Both ends of the calibration keep the stationary count and forget the learning.
LEMMA CalibrationEnds ==
    ASSUME NEW d \in Handles, NEW e, e = StartCalibration(d) \/ e = EndCalibration(d)
    PROVE  /\ e \in Handles /\ e.ready = d.ready /\ e.count = d.count
           /\ e.stationary = d.stationary /\ e.learn = 0
<1>1. ASSUME NEW b \in 0..2, NEW on \in BOOLEAN,
             e = ResetAttitude(ResetSampleLowPass(SetGyroBiasAutoUpdate(SetGyroBias(d, b), on)))
      PROVE  /\ e \in Handles /\ e.ready = d.ready /\ e.count = d.count
             /\ e.stationary = d.stationary /\ e.learn = 0
  <2> DEFINE p == SetGyroBias(d, b)
             q == SetGyroBiasAutoUpdate(p, on)
             r == ResetSampleLowPass(q)
  <2>1. /\ p \in Handles /\ p.ready = d.ready /\ p.count = d.count
        /\ p.stationary = d.stationary
    BY HandleBias
  <2> HIDE DEF p
  <2>2. /\ q \in Handles /\ q.ready = d.ready /\ q.count = d.count
        /\ q.stationary = d.stationary /\ q.learn = 0
    BY <2>1, HandleBias
  <2> HIDE DEF q
  <2>3. /\ r \in Handles /\ r.ready = d.ready /\ r.count = d.count
        /\ r.stationary = d.stationary /\ r.learn = 0
    BY <2>2, HandleSetters
  <2> HIDE DEF r
  <2>4. e = ResetAttitude(r)
    BY <1>1 DEF p, q, r
  <2> QED BY <2>3, <2>4, HandleSetters
<1>2. 0 \in 0..2 /\ 1 \in 0..2
  OBVIOUS
<1> QED BY <1>1, <1>2 DEF StartCalibration, EndCalibration

LEMMA Cleared ==
    ASSUME NEW d \in Handles
    PROVE  LET e == ClearMeasurements(d) IN
           /\ e \in Handles /\ ~e.ready /\ e.count = 0 /\ ~e.stationary /\ e.learn = 0
<1> DEFINE c == [d EXCEPT !.ready = FALSE, !.stationary = FALSE, !.count = 0,
                          !.learn = 0, !.lpf = FALSE]
<1>1. c \in Handles
  BY Sizes, Zenon DEF Handles
<1>2. ~c.ready /\ c.count = 0 /\ ~c.stationary /\ c.learn = 0
  BY DEF Handles
<1> HIDE DEF c
<1>3. ClearMeasurements(d) = ResetAttitude(c)
  BY DEF ClearMeasurements, c
<1> QED BY <1>1, <1>2, <1>3, HandleSetters

-----------------------------------------------------------------------------
(* A sample.                                                               *)

\* UpdateStationary counts the sample and decides from the count alone.
LEMMA StationaryUpdate ==
    ASSUME NEW d \in Handles, NEW g \in Gyros, NEW a \in Accels
    PROVE  LET e == UpdateStationary(d, g, a) IN
           /\ e \in Handles
           /\ e.ready = d.ready /\ e.auto = d.auto /\ e.learn = d.learn
           /\ e.bias = d.bias /\ e.yaw = d.yaw
           /\ e.count = IF ~IsQuiet(g, a) THEN 0
                        ELSE IF d.count < Hold THEN d.count + 1 ELSE d.count
           /\ e.stationary = (e.count >= Hold)
<1> DEFINE n == IF ~IsQuiet(g, a) THEN 0
                ELSE IF d.count < Hold THEN d.count + 1 ELSE d.count
           b == n >= Hold
           e == [d EXCEPT !.count = n, !.stationary = b]
<1>1. n \in 0..Hold
  BY Sizes DEF Handles
<1>2. UpdateStationary(d, g, a) = e
  BY DEF UpdateStationary
<1>b. b \in BOOLEAN
  OBVIOUS
<1> HIDE DEF n, b
<1>3. e \in Handles
  BY <1>1, <1>b, Zenon DEF Handles
<1>4. /\ e.ready = d.ready /\ e.auto = d.auto /\ e.learn = d.learn
      /\ e.bias = d.bias /\ e.yaw = d.yaw
      /\ e.count = n
  BY DEF Handles
<1>5. e.stationary = b
  BY Zenon DEF Handles
<1> QED BY <1>2, <1>3, <1>4, <1>5 DEF n, b

\* UpdateBias learns from slow samples of a stationary sensor, and only then.
LEMMA BiasUpdate ==
    ASSUME NEW d \in Handles, NEW g \in Gyros
    PROVE  LET e == UpdateBias(d, g) IN
           /\ e \in Handles
           /\ e.ready = d.ready /\ e.auto = d.auto /\ e.count = d.count
           /\ e.stationary = d.stationary /\ e.yaw = d.yaw
           /\ \/ e.learn = 0
              \/ ~d.auto /\ e.learn = d.learn
              \/ d.auto /\ d.stationary /\ IsSlow(g) /\ e.learn \in {d.learn, d.learn + 1}
                   /\ (e.learn = d.learn => d.learn >= LearnSamples)
           /\ e.bias # d.bias =>
                d.auto /\ d.stationary /\ IsSlow(g) /\ d.learn >= LearnSamples
                /\ e.learn = d.learn
<1>1. CASE ~d.auto
  BY <1>1 DEF UpdateBias
<1>2. CASE d.auto /\ (~d.stationary \/ ~IsSlow(g))
  <2>1. UpdateBias(d, g) = [d EXCEPT !.learn = 0]
    BY <1>2 DEF UpdateBias
  <2>2. [d EXCEPT !.learn = 0] \in Handles
    BY Sizes, Zenon DEF Handles
  <2> QED BY <1>2, <2>1, <2>2 DEF Handles
<1>3. CASE d.auto /\ d.stationary /\ IsSlow(g) /\ d.learn < LearnSamples
  <2>1. UpdateBias(d, g) = [d EXCEPT !.learn = d.learn + 1]
    BY <1>3 DEF UpdateBias
  <2>2. d.learn + 1 \in 0..LearnSamples
    BY <1>3, Sizes DEF Handles
  <2>3. [d EXCEPT !.learn = d.learn + 1] \in Handles
    BY <2>2, Zenon DEF Handles
  <2> DEFINE f == [d EXCEPT !.learn = d.learn + 1]
  <2>4. /\ f.ready = d.ready /\ f.auto = d.auto /\ f.count = d.count
        /\ f.stationary = d.stationary /\ f.yaw = d.yaw /\ f.bias = d.bias
        /\ f.learn = d.learn + 1
    BY DEF Handles
  <2>5. d.learn + 1 # d.learn
    <3>1. d.learn \in Nat
      BY Sizes DEF Handles
    <3> QED BY <3>1
  <2> HIDE DEF f
  <2>6. UpdateBias(d, g) = f /\ f \in Handles
    BY <2>1, <2>3 DEF f
  <2>7. /\ f \in Handles
        /\ f.ready = d.ready /\ f.auto = d.auto /\ f.count = d.count
        /\ f.stationary = d.stationary /\ f.yaw = d.yaw
        /\ d.auto /\ d.stationary /\ IsSlow(g) /\ f.learn \in {d.learn, d.learn + 1}
             /\ (f.learn = d.learn => d.learn >= LearnSamples)
        /\ f.bias = d.bias
    BY <1>3, <2>4, <2>5, <2>6
  <2> QED BY <2>6, <2>7
<1>4. CASE d.auto /\ d.stationary /\ IsSlow(g) /\ ~(d.learn < LearnSamples)
  <2>1. UpdateBias(d, g) = [d EXCEPT !.bias = Learned(d.bias)]
    BY <1>4 DEF UpdateBias
  <2>2. Learned(d.bias) \in 0..2
    BY DEF Learned
  <2>3. [d EXCEPT !.bias = Learned(d.bias)] \in Handles
    BY <2>2, Zenon DEF Handles
  <2>4. d.learn >= LearnSamples
    BY <1>4, Sizes DEF Handles
  <2> QED BY <1>4, <2>1, <2>3, <2>4 DEF Handles
<1> QED BY <1>1, <1>2, <1>3, <1>4

LEMMA AttitudeUpdate ==
    ASSUME NEW d \in Handles, NEW h \in Gyros, NEW e \in UpdateAttitude(d, h)
    PROVE  /\ e \in Handles
           /\ e.ready = d.ready /\ e.auto = d.auto /\ e.count = d.count
           /\ e.stationary = d.stationary /\ e.learn = d.learn /\ e.bias = d.bias
           /\ d.stationary /\ h = "lock" => e.yaw = d.yaw
<1>1. PICK y \in (IF YawShouldLock(d, h) THEN {d.yaw} ELSE Headings) : e = [d EXCEPT !.yaw = y]
  BY DEF UpdateAttitude
<1>2. y \in Headings
  BY <1>1 DEF Handles
<1>3. [d EXCEPT !.yaw = y] \in Handles
  BY <1>2, Zenon DEF Handles
<1>4. d.stationary /\ h = "lock" => y = d.yaw
  BY <1>1 DEF YawShouldLock
<1> QED BY <1>1, <1>3, <1>4 DEF Handles

\* A sample keeps the handle in agreement with the true counts; it changes the
\* bias, or moves the yaw under lock, only as these counts allow.
LEMMA SampleAgrees ==
    ASSUME NEW d \in Handles, NEW g \in Gyros, NEW h \in Gyros, NEW a \in Accels,
           NEW n \in 0..Longest, NEW m \in 0..Longest, Agrees(d, n, m),
           NEW e \in Updated(d, g, h, a),
           NEW k, k = IF IsQuiet(g, a) THEN OneMore(n) ELSE 0,
           NEW l, l = IF IsSlow(g) THEN OneMore(m) ELSE 0
    PROVE  /\ e \in Handles /\ e.ready = d.ready
           /\ k \in 0..Longest /\ l \in 0..Longest
           /\ Agrees(e, k, l)
           /\ e.bias # d.bias => k >= Hold + LearnSamples /\ l > LearnSamples
           /\ h = "lock" /\ k >= Hold => e.yaw = d.yaw
<1> DEFINE p == [d EXCEPT !.lpf = TRUE]
           q == UpdateStationary(p, g, a)
           r == UpdateBias(q, g)
<1>1. p \in Handles
  BY Zenon DEF Handles
<1>2. /\ p.ready = d.ready /\ p.auto = d.auto /\ p.learn = d.learn
      /\ p.bias = d.bias /\ p.yaw = d.yaw /\ p.count = d.count
  BY DEF Handles
<1>3. e \in UpdateAttitude(r, h)
  BY DEF Updated
<1> HIDE DEF p
<1>4. /\ q \in Handles
      /\ q.ready = d.ready /\ q.auto = d.auto /\ q.learn = d.learn
      /\ q.bias = d.bias /\ q.yaw = d.yaw
      /\ q.count = IF ~IsQuiet(g, a) THEN 0
                   ELSE IF d.count < Hold THEN d.count + 1 ELSE d.count
      /\ q.stationary = (q.count >= Hold)
  BY <1>1, <1>2, StationaryUpdate
<1> HIDE DEF q
<1>5. /\ r \in Handles
      /\ r.ready = q.ready /\ r.auto = q.auto /\ r.count = q.count
      /\ r.stationary = q.stationary /\ r.yaw = q.yaw
      /\ \/ r.learn = 0
         \/ ~q.auto /\ r.learn = q.learn
         \/ q.auto /\ q.stationary /\ IsSlow(g) /\ r.learn \in {q.learn, q.learn + 1}
              /\ (r.learn = q.learn => q.learn >= LearnSamples)
      /\ r.bias # q.bias =>
           q.auto /\ q.stationary /\ IsSlow(g) /\ q.learn >= LearnSamples
           /\ r.learn = q.learn
  BY <1>4, BiasUpdate
<1> HIDE DEF r
<1>6. /\ e \in Handles /\ e.ready = d.ready /\ e.auto = d.auto
      /\ e.count = q.count /\ e.stationary = q.stationary /\ e.learn = r.learn
      /\ e.bias = r.bias
      /\ q.stationary /\ h = "lock" => e.yaw = d.yaw
  BY <1>3, <1>4, <1>5, AttitudeUpdate
<1>7. /\ d.count \in 0..Hold /\ d.learn \in 0..LearnSamples
      /\ r.learn \in 0..LearnSamples /\ q.count \in 0..Hold
  BY <1>4, <1>5 DEF Handles
<1>8. /\ k \in 0..Longest /\ l \in 0..Longest
      /\ q.count = IF k < Hold THEN k ELSE Hold
      /\ q.count >= Hold <=> k >= Hold
  BY <1>4, <1>7, Sizes DEF Agrees, OneMore
<1>9. e.stationary = (k >= Hold)
  <2>1. e.stationary = (q.count >= Hold)
    BY <1>4, <1>6
  <2> QED BY <1>8, <2>1
<1>10. q.stationary => k >= Hold
  BY <1>4, <1>8
<1>11. d.learn > 0 => d.auto /\ n >= Hold + d.learn - 1 /\ m >= d.learn
  BY DEF Agrees
<1>12. CASE r.learn = 0 \/ (~q.auto /\ r.learn = q.learn)
  <2>1. r.learn = 0
    BY <1>4, <1>7, <1>11, <1>12
  <2>2. e.learn > 0 => FALSE
    BY <1>6, <2>1
  <2>3. r.bias # q.bias => k >= Hold + LearnSamples /\ l > LearnSamples
    <3> SUFFICES ASSUME r.bias # q.bias PROVE FALSE
      OBVIOUS
    <3>1. q.auto /\ q.learn >= LearnSamples /\ r.learn = q.learn
      BY <1>5
    <3> QED BY <1>4, <1>7, <1>12, <3>1, Sizes
  <2> QED BY <1>4, <1>6, <1>8, <1>9, <1>10, <2>2, <2>3 DEF Agrees
<1>13. CASE q.auto /\ q.stationary /\ IsSlow(g) /\ r.learn \in {q.learn, q.learn + 1}
              /\ (r.learn = q.learn => q.learn >= LearnSamples)
  <2>1. IsQuiet(g, a) /\ k = OneMore(n) /\ l = OneMore(m)
    BY <1>4, <1>8, <1>10, <1>13, Sizes
  <2>2. k >= Hold + r.learn - 1 /\ l >= r.learn /\ d.auto
    BY <1>4, <1>7, <1>8, <1>10, <1>11, <1>13, <2>1, Sizes DEF OneMore
  <2>3. q.learn >= LearnSamples => k >= Hold + LearnSamples /\ l > LearnSamples
    BY <1>4, <1>7, <1>11, <2>1, Sizes DEF OneMore
  <2> QED BY <1>4, <1>5, <1>6, <1>8, <1>9, <1>10, <2>2, <2>3 DEF Agrees
<1> QED BY <1>5, <1>12, <1>13

-----------------------------------------------------------------------------
\* A handle with no learning progress agrees with any number of slow samples.
LEMMA AgreesAfter ==
    ASSUME NEW d \in Handles, NEW e \in Handles, NEW n \in 0..Longest, NEW m \in 0..Longest,
           Agrees(d, n, m), e.count = d.count, e.stationary = d.stationary, e.learn = 0
    PROVE  Agrees(e, n, m)
BY DEF Agrees

LEMMA AgreesFresh ==
    ASSUME NEW d \in Handles, d.count = 0, ~d.stationary, d.learn = 0
    PROVE  Agrees(d, 0, 0)
<1>1. d.count = IF 0 < Hold THEN 0 ELSE Hold
  BY Sizes
<1>2. (0 >= Hold) = FALSE
  BY Sizes
<1>3. d.stationary = FALSE
  BY Zenon DEF Handles
<1>4. d.stationary = (0 >= Hold)
  BY <1>2, <1>3, Zenon
<1>5. ~(d.learn > 0)
  OBVIOUS
<1> QED BY <1>1, <1>4, <1>5, Zenon DEF Agrees

LEMMA HandleInit == Init => HandleInv
<1> SUFFICES ASSUME Init PROVE HandleInv
  OBVIOUS
<1>1. /\ dev = InitHandleSPI /\ pc = "configure" /\ calls = 0 /\ status = TRUE
      /\ setup = 0 /\ still = 0 /\ slow = 0
  BY DEF Init
<1>2. /\ InitHandleSPI \in Handles /\ InitHandleSPI.count = 0 /\ InitHandleSPI.learn = 0
      /\ ~InitHandleSPI.stationary /\ ~InitHandleSPI.ready
  BY Defaults DEF InitHandleSPI
<1>3. Agrees(dev, still, slow)
  BY <1>1, <1>2, AgreesFresh
<1>4. 0 \in 0..Longest
  BY Sizes
<1> QED BY <1>1, <1>2, <1>3, <1>4, Sizes DEF HandleInv, SettingUp

LEMMA HandleStep == HandleInv /\ [Next]_vars => HandleInv'
<1> SUFFICES ASSUME HandleInv, [Next]_vars PROVE HandleInv'
  OBVIOUS
<1>0. HandleInv
  OBVIOUS
<1>f. ASSUME AttemptFails, SettingUp PROVE HandleInv'
  BY <1>f, <1>0 DEF AttemptFails, Goto, chip, rest, HandleInv, SettingUp
<1>u. ASSUME UpdateFails PROVE HandleInv'
  BY <1>u, <1>0 DEF UpdateFails, Goto, rest, HandleInv, SettingUp
<1>1. CASE Configure
  <2> DEFINE d == SetStationaryDetection(InitHandleSPI)
  <2>1. d \in Handles /\ ~d.ready /\ d.count = 0 /\ ~d.stationary /\ d.learn = 0
    BY Defaults, HandleSetters
  <2> HIDE DEF d
  <2>2. dev' = d /\ still' = 0 /\ slow' = 0 /\ pc' = "whoami" /\ UNCHANGED <<calls, setup>>
    BY <1>1 DEF Configure, Goto, chip, d
  <2> QED BY <1>0, <2>1, <2>2, AgreesFresh, Sizes DEF HandleInv, SettingUp
<1>2. ASSUME NEW right \in BOOLEAN, WhoAmI(right) PROVE HandleInv'
  <2>1. CASE ~ok
    BY <1>2, <1>f, <2>1 DEF WhoAmI, SettingUp
  <2>2. CASE ok /\ right
    <3> DEFINE d == ClearMeasurements(dev)
    <3>1. d \in Handles /\ ~d.ready /\ d.count = 0 /\ ~d.stationary /\ d.learn = 0
      BY <1>0, Cleared DEF HandleInv
    <3> HIDE DEF d
    <3>2. /\ dev' = d /\ pc = "whoami" /\ pc' = "drive"
          /\ UNCHANGED <<calls, setup, still, slow>>
      BY <1>2, <2>2 DEF WhoAmI, Goto, chip, rest, d
    <3>3. still = 0 /\ slow = 0
      BY <1>0, <3>2 DEF HandleInv, SettingUp
    <3> QED BY <1>0, <3>1, <3>2, <3>3, AgreesFresh DEF HandleInv, SettingUp
  <2>3. CASE ok /\ ~right
    <3> DEFINE d == StartCalibration(dev)
    <3>1. /\ d \in Handles /\ d.ready = dev.ready /\ d.count = dev.count
          /\ d.stationary = dev.stationary /\ d.learn = 0
      BY <1>0, CalibrationEnds DEF HandleInv
    <3> HIDE DEF d
    <3>2. /\ dev' = d /\ pc' = "poll"
          /\ UNCHANGED <<calls, setup, still, slow>>
      BY <1>2, <2>3 DEF WhoAmI, Goto, chip, rest, d
    <3>3. Agrees(d, still, slow)
      BY <1>0, <3>1, AgreesAfter DEF HandleInv
    <3> QED BY <1>0, <3>1, <3>2, <3>3 DEF HandleInv, SettingUp
  <2> QED BY <2>1, <2>2, <2>3
<1>3. CASE BeginDrive
  <2>1. CASE ok
    BY <1>0, <1>3, <2>1 DEF BeginDrive, Goto, chip, rest, HandleInv, SettingUp
  <2> QED BY <1>3, <1>f, <2>1 DEF BeginDrive, SettingUp
<1>4. ASSUME NEW right \in BOOLEAN, BeginWhoAmI(right) PROVE HandleInv'
  <2>1. CASE ok /\ right
    BY <1>0, <1>4, <2>1, Sizes DEF BeginWhoAmI, Goto, rest, HandleInv, SettingUp
  <2> QED BY <1>4, <1>f, <2>1 DEF BeginWhoAmI, SettingUp
<1>5. CASE BeginSetup
  <2>1. /\ pc = "setup" /\ pc' = pc /\ calls > 0 /\ calls' = calls - 1
        /\ status' = (status /\ ok) /\ setup' = IF ok THEN setup + 1 ELSE setup
        /\ UNCHANGED <<dev, still, slow>>
    BY <1>5 DEF BeginSetup, rest
  <2>2. calls' \in Nat /\ setup' \in Nat
    BY <1>0, <2>1 DEF HandleInv
  <2>3. status' => status /\ ok
    BY <2>1, Zenon
  <2>4. status => setup + calls = ConfigCalls /\ setup \in Nat /\ calls \in Nat
    BY <1>0, <2>1 DEF HandleInv
  <2>5. status' => setup' + calls' = ConfigCalls
    BY <2>1, <2>3, <2>4
  <2> QED BY <1>0, <2>1, <2>2, <2>5 DEF HandleInv, SettingUp
<1>6. CASE BeginStatus
  <2>1. CASE status
    <3>1. setup = ConfigCalls
      BY <1>0, <1>6, <2>1, Sizes DEF BeginStatus, HandleInv
    <3> QED BY <1>0, <1>6, <2>1, <3>1 DEF BeginStatus, Goto, chip, rest, HandleInv, SettingUp
  <2> QED BY <1>6, <1>f, <2>1 DEF BeginStatus, SettingUp
<1>7. CASE BeginReady
  <2>1. CASE ok
    <3> DEFINE c == [dev EXCEPT !.ready = TRUE]
               d == StartCalibration(c)
    <3>1. c \in Handles
      BY <1>0, Zenon DEF HandleInv, Handles
    <3>2. c.count = dev.count /\ c.stationary = dev.stationary
      BY <1>0 DEF HandleInv, Handles
    <3> HIDE DEF c
    <3>3. d \in Handles /\ d.count = dev.count /\ d.stationary = dev.stationary /\ d.learn = 0
      BY <3>1, <3>2, CalibrationEnds
    <3> HIDE DEF d
    <3>4. /\ pc = "int_status" /\ dev' = d /\ pc' = "poll"
          /\ UNCHANGED <<calls, setup, still, slow>>
      BY <1>7, <2>1 DEF BeginReady, Goto, chip, rest, c, d
    <3>5. Agrees(d, still, slow)
      BY <1>0, <3>3, AgreesAfter DEF HandleInv
    <3> QED BY <1>0, <3>3, <3>4, <3>5 DEF HandleInv, SettingUp
  <2> QED BY <1>7, <1>f, <2>1 DEF BeginReady, SettingUp
<1>8. CASE Poll
  BY <1>0, <1>8 DEF Poll, Goto, rest, HandleInv, SettingUp
<1>9. CASE PollFails
  BY <1>9, <1>u DEF PollFails
<1>10. CASE DataReady
  <2>1. CASE ok
    BY <1>0, <1>10, <2>1 DEF DataReady, Goto, chip, rest, HandleInv, SettingUp
  <2> QED BY <1>10, <1>u, <2>1 DEF DataReady
<1>11. CASE DataFails
  BY <1>11, <1>u DEF DataFails
<1>12. ASSUME NEW g \in Gyros, NEW h \in Gyros, NEW raw \in Accels, Sample(g, h, raw)
       PROVE  HandleInv'
  <2>1. PICK a \in Filtered(dev, raw) :
          /\ \E d \in Updated(dev, g, h, a) : AfterSample(d)
          /\ still' = IF IsQuiet(g, a) THEN OneMore(still) ELSE 0
          /\ slow' = IF IsSlow(g) THEN OneMore(slow) ELSE 0
    BY <1>12 DEF Sample
  <2>2. PICK d \in Updated(dev, g, h, a) : AfterSample(d)
    BY <2>1
  <2>3. a \in Accels
    BY DEF Filtered
  <2>4. /\ dev \in Handles /\ still \in 0..Longest /\ slow \in 0..Longest
        /\ Agrees(dev, still, slow)
    BY <1>0 DEF HandleInv
  <2>5. /\ d \in Handles /\ d.ready = dev.ready
        /\ still' \in 0..Longest /\ slow' \in 0..Longest
        /\ Agrees(d, still', slow')
    BY <2>1, <2>3, <2>4, SampleAgrees
  <2>6. /\ dev' \in Handles /\ dev'.ready = dev.ready /\ Agrees(dev', still', slow')
    <3>1. dev' = d \/ dev' = StartCalibration(d) \/ dev' = EndCalibration(d)
      BY <2>2 DEF AfterSample
    <3>2. CASE dev' = d
      BY <2>5, <3>2
    <3>3. CASE dev' = StartCalibration(d) \/ dev' = EndCalibration(d)
      <4>1. /\ dev' \in Handles /\ dev'.ready = d.ready /\ dev'.count = d.count
            /\ dev'.stationary = d.stationary /\ dev'.learn = 0
        BY <2>5, <3>3, CalibrationEnds
      <4> QED BY <2>5, <4>1, AgreesAfter
    <3> QED BY <3>1, <3>2, <3>3
  <2>7. pc' = "poll" /\ UNCHANGED <<calls, setup>>
    BY <1>12 DEF Sample, Goto
  <2> QED BY <1>0, <2>5, <2>6, <2>7 DEF HandleInv, SettingUp
<1>13. CASE ZeroAttitude
  <2> DEFINE d == ResetAttitude(dev)
  <2>1. /\ d \in Handles /\ d.ready = dev.ready /\ d.count = dev.count
        /\ d.stationary = dev.stationary /\ d.learn = dev.learn /\ d.auto = dev.auto
    BY <1>0, HandleSetters DEF HandleInv
  <2> HIDE DEF d
  <2>2. dev' = d /\ UNCHANGED <<pc, calls, status, setup, still, slow>>
    BY <1>13 DEF ZeroAttitude, chip, rest, d
  <2>3. Agrees(d, still, slow)
    BY <1>0, <2>1 DEF HandleInv, Agrees
  <2> QED BY <1>0, <2>1, <2>2, <2>3 DEF HandleInv, SettingUp
<1>14. CASE UNCHANGED <<dev, pc, calls, status, setup, still, slow>>
  BY <1>0, <1>14 DEF HandleInv, SettingUp
<1>15. CASE SpiStep
  BY <1>14, <1>15 DEF SpiStep, task, chip, rest
<1>16. CASE Transfer
  BY <1>14, <1>16 DEF Transfer, task, rest
<1>17. CASE NewSample
  BY <1>14, <1>17 DEF NewSample, task, rest
<1>18. CASE UNCHANGED vars
  BY <1>14, <1>18 DEF vars, task, chip, rest
<1> QED
  BY <1>1, <1>2, <1>3, <1>4, <1>5, <1>6, <1>7, <1>8, <1>9, <1>10, <1>11, <1>12,
     <1>13, <1>15, <1>16, <1>17, <1>18 DEF Next

\* The handle agrees with the samples the sensor has really delivered.
THEOREM HandleAgrees == Spec => []HandleInv
BY HandleInit, HandleStep, PTL DEF Spec

\* A handle is ready only if every set-up call since the sensor's reset succeeded.
THEOREM ReadyIsConfigured == Spec => []ReadyMeansConfigured
<1>1. HandleInv => ReadyMeansConfigured
  BY DEF HandleInv, ReadyMeansConfigured
<1> QED BY <1>1, HandleAgrees, PTL

-----------------------------------------------------------------------------
(* The bias and the yaw.                                                   *)

\* A sample in service leaves the handle as the update of one acceleration does.
LEMMA ServiceSample ==
    ASSUME HandleInv, phase = "ready", NEW g \in Gyros, NEW h \in Gyros,
           NEW raw \in Accels, Sample(g, h, raw)
    PROVE  /\ still' \in 0..Longest /\ slow' \in 0..Longest
           /\ dev'.bias # dev.bias => still' >= Hold + LearnSamples /\ slow' > LearnSamples
           /\ h = "lock" /\ still' >= Hold => dev'.yaw = dev.yaw
<1>1. PICK a \in Filtered(dev, raw) :
        /\ \E d \in Updated(dev, g, h, a) : AfterSample(d)
        /\ still' = IF IsQuiet(g, a) THEN OneMore(still) ELSE 0
        /\ slow' = IF IsSlow(g) THEN OneMore(slow) ELSE 0
  BY DEF Sample
<1>2. PICK d \in Updated(dev, g, h, a) : AfterSample(d)
  BY <1>1
<1>3. dev' = d
  BY <1>2 DEF AfterSample
<1>4. a \in Accels
  BY DEF Filtered
<1>5. /\ dev \in Handles /\ still \in 0..Longest /\ slow \in 0..Longest
      /\ Agrees(dev, still, slow)
  BY DEF HandleInv
<1>6. /\ still' \in 0..Longest /\ slow' \in 0..Longest
      /\ d.bias # dev.bias => still' >= Hold + LearnSamples /\ slow' > LearnSamples
      /\ h = "lock" /\ still' >= Hold => d.yaw = dev.yaw
  BY <1>1, <1>4, <1>5, SampleAgrees
<1> QED BY <1>3, <1>6

\* The bias is learned only from a sensor at rest for the hold and learning times.
THEOREM BiasIsLearnedSlowly == Spec => BiasLearnedAtRest
<1> DEFINE Slow == pc = "data" /\ phase = "ready" /\ dev'.bias # dev.bias
                     => still' >= Hold + LearnSamples /\ slow' > LearnSamples
<1>1. ASSUME HandleInv, [Next]_vars PROVE Slow
  <2> SUFFICES ASSUME pc = "data", phase = "ready", dev'.bias # dev.bias
               PROVE still' >= Hold + LearnSamples /\ slow' > LearnSamples
    OBVIOUS
  <2>1. dev' # dev
    OBVIOUS
  <2>2. \E g, h \in Gyros, raw \in Accels : Sample(g, h, raw)
    BY <1>1, <2>1, Zenon
    DEF Next, vars, task, chip, rest, Configure, WhoAmI, BeginDrive, BeginWhoAmI,
        BeginSetup, BeginStatus, BeginReady, Poll, PollFails, DataReady, DataFails,
        UpdateFails, ZeroAttitude, SpiStep, Transfer, NewSample
  <2> QED BY <1>1, <2>2, ServiceSample
<1>2. [][Slow]_vars => BiasLearnedAtRest
  BY DEF BiasLearnedAtRest
<1>3. HandleInv /\ [Next]_vars => [Slow]_vars
  BY <1>1
<1> HIDE DEF Slow
<1> QED BY <1>2, <1>3, HandleAgrees, PTL DEF Spec

\* A car at rest keeps its yaw as long as it turns no faster than the lock threshold.
THEOREM YawIsHeld == Spec => YawHeldAtRest
<1> DEFINE Held == \A g \in Gyros, raw \in Accels :
                     Sample(g, "lock", raw) /\ still' >= Hold /\ phase = "ready"
                       => dev'.yaw = dev.yaw
<1>1. HandleInv => [Held]_vars
  BY ServiceSample DEF Gyros
<1>2. [][Held]_vars => YawHeldAtRest
  BY DEF YawHeldAtRest
<1> HIDE DEF Held
<1> QED BY <1>1, <1>2, HandleAgrees, PTL DEF Spec
-----------------------------------------------------------------------------
(* Data-ready and the data.                                                *)

\* The sensor has not yet shifted the last byte of the access.
Unfinished == at \in {"wait", "drain", "select", "send"} \/ left > 1 \/ shifting # "none"

\* One byte at a time: the next one is sent when the last one was taken.
ByteInv ==
  /\ left \in Nat
  /\ at \in {"wait", "drain", "select", "send", "await"} => left > 0
  /\ at \in {"send", "await"} => selected
  /\ at = "send" => shifting = "none" /\ rx = <<>>
  /\ at = "await" => rx = <<>> \/ (shifting = "none" /\ Len(rx) = 1)

\* A sample that is announced was never read, or came early; once data-ready is
\* taken a further announcement is of an early one.
AnnounceInv ==
  /\ taken => pc \in {"drdy", "data"}
  /\ drdy \/ pc = "drdy" \/ (pc = "data" /\ Unfinished) => fresh \/ early
  /\ pc = "drdy" /\ taken => (drdy => early)
  /\ pc = "drdy" /\ at = "await" /\ left = 1 /\ rx # <<>> => taken
  /\ pc = "drdy" /\ at \in {"deselect", "idle"} /\ ok => taken
  /\ pc = "data" /\ Unfinished => taken /\ (drdy => early)

DataInv == BusInv /\ ByteInv /\ AnnounceInv

LEMMA DataInit == Init => DataInv
<1> SUFFICES ASSUME Init PROVE DataInv
  OBVIOUS
<1>1. BusInv
  BY BusInit DEF Init
<1>2. ByteInv /\ AnnounceInv
  BY DEF Init, SpiInit, ByteInv, AnnounceInv, Unfinished
<1> QED BY <1>1, <1>2 DEF DataInv

LEMMA CallBytes == ASSUME ByteInv, NEW n \in {1, 2}, Call(n) PROVE ByteInv'
BY DEF Call, ByteInv

LEMMA ShiftBytes == ASSUME BusInv, ByteInv, Shift PROVE ByteInv'
<1>1. rx \in Seq(Bytes) /\ shifting \in Bytes
  BY DEF Shift, BusInv
<1>2. rx = <<>> => Len(Append(rx, shifting)) = 1
  BY <1>1
<1> QED BY <1>2 DEF Shift, ByteInv

LEMMA DriverBytes == ASSUME BusInv, ByteInv, Driver PROVE ByteInv'
<1> USE DEF ByteInv
<1>1. CASE BusyTimeout BY <1>1 DEF BusyTimeout
<1>2. CASE NotBusy BY <1>2 DEF NotBusy
<1>3. CASE Drain BY <1>3 DEF Drain
<1>4. CASE Select BY <1>4 DEF Select, BusInv
<1>5. CASE Transmit BY <1>5 DEF Transmit
<1>6. CASE Receive
  <2>1. rx \in Seq(Bytes) /\ rx # <<>> /\ Len(rx) = 1 /\ shifting = "none"
    BY <1>6 DEF Receive, BusInv
  <2>2. Tail(rx) \in Seq(Bytes) /\ Len(Tail(rx)) = 0
    BY <2>1, HeadTailProperties
  <2>3. Tail(rx) = <<>>
    BY <2>2, EmptySeq
  <2> QED BY <1>6, <2>1, <2>3 DEF Receive
<1>7. CASE ReceiveTimeout BY <1>7 DEF ReceiveTimeout
<1>8. CASE Deselect BY <1>8 DEF Deselect
<1> QED BY <1>1, <1>2, <1>3, <1>4, <1>5, <1>6, <1>7, <1>8 DEF Driver

\* The last byte of an access is shifted once.
LEMMA DriverAnnounces ==
    ASSUME BusInv, ByteInv, AnnounceInv, SpiStep
    PROVE  AnnounceInv'
<1> USE DEF SpiStep, task, chip, ByteInv, AnnounceInv, Unfinished
<1>1. CASE BusyTimeout BY <1>1 DEF BusyTimeout
<1>2. CASE NotBusy BY <1>2 DEF NotBusy
<1>3. CASE Drain BY <1>3 DEF Drain
<1>4. CASE Select BY <1>4 DEF Select
<1>5. CASE Transmit BY <1>5 DEF Transmit
<1>6. CASE Receive BY <1>6 DEF Receive
<1>7. CASE ReceiveTimeout BY <1>7 DEF ReceiveTimeout
<1>8. CASE Deselect BY <1>8 DEF Deselect
<1> QED BY <1>1, <1>2, <1>3, <1>4, <1>5, <1>6, <1>7, <1>8 DEF Driver

LEMMA TransferAnnounces ==
    ASSUME BusInv, ByteInv, AnnounceInv, Transfer
    PROVE  AnnounceInv' /\ (again' => again \/ early)
<1> DEFINE seen == selected /\ shifting = "own" /\ left = 1
<1>1. /\ shifting # "none" /\ shifting' = "none"
      /\ UNCHANGED <<at, selected, left, ok, pc, early>>
      /\ drdy' = IF seen /\ pc \in {"drdy", "int_status"} THEN FALSE ELSE drdy
      /\ taken' = IF seen /\ pc = "data" THEN FALSE ELSE taken \/ (seen /\ pc = "drdy")
      /\ again' = IF seen /\ pc = "data" THEN ~fresh ELSE again
      /\ fresh' = IF seen /\ pc = "data" THEN FALSE ELSE fresh
  BY DEF Transfer, Shift, task
<1>2. at = "await" => shifting = "own" /\ selected
  BY <1>1 DEF BusInv, Bytes, ByteInv
<1>3. at \in {"wait", "drain", "select", "send"} => ~seen
  BY <1>1 DEF BusInv, ByteInv
<1>4. seen /\ pc = "data" => Unfinished /\ ~Unfinished'
  BY <1>1, <1>3 DEF Unfinished
<1>5. Unfinished' => Unfinished
  BY <1>1 DEF Unfinished
<1> HIDE DEF seen
<1>6. CASE seen /\ pc = "data"
  BY <1>1, <1>4, <1>6 DEF AnnounceInv
<1>7. CASE seen /\ pc # "data"
  BY <1>1, <1>7 DEF AnnounceInv
<1>8. CASE ~seen
  <2>1. at = "await" => left # 1
    BY <1>2, <1>8 DEF seen
  <2> QED BY <1>1, <1>5, <1>8, <2>1 DEF AnnounceInv
<1> QED BY <1>6, <1>7, <1>8

\* Actions that leave the chip alone but for a new access or sample.
LEMMA TaskAnnounces ==
    ASSUME DataInv, [Next]_vars, ~SpiStep, ~Transfer
    PROVE  AnnounceInv' /\ (again' => again)
<1> USE DEF DataInv, AnnounceInv, Unfinished, chip
<1>1. CASE Configure BY <1>1 DEF Configure, Call, Goto
<1>2. ASSUME NEW right \in BOOLEAN, WhoAmI(right) PROVE AnnounceInv' /\ again' = again
  BY <1>2 DEF WhoAmI, AttemptFails, spi, Call, Goto
<1>3. ASSUME NEW right \in BOOLEAN, BeginWhoAmI(right) PROVE AnnounceInv' /\ again' = again
  BY <1>3 DEF BeginWhoAmI, AttemptFails, spi, Call, Goto
<1>4. CASE BeginDrive BY <1>4 DEF BeginDrive, AttemptFails, spi, Call, Goto
<1>5. CASE BeginSetup BY <1>5 DEF BeginSetup, spi, Call
<1>6. CASE BeginStatus BY <1>6 DEF BeginStatus, AttemptFails, spi, Call, Goto
<1>7. CASE BeginReady BY <1>7 DEF BeginReady, AttemptFails, spi, Goto
<1>8. CASE Poll BY <1>8 DEF Poll, Call, Goto
<1>9. CASE PollFails BY <1>9 DEF PollFails, UpdateFails, spi, Goto
<1>10. CASE DataReady BY <1>10 DEF DataReady, UpdateFails, spi, Call, Goto
<1>11. CASE DataFails BY <1>11 DEF DataFails, UpdateFails, spi, Goto
<1>12. ASSUME NEW g \in Gyros, NEW h \in Gyros, NEW raw \in Accels, Sample(g, h, raw)
       PROVE AnnounceInv' /\ again' = again
  BY <1>12 DEF Sample, spi, Goto
<1>13. CASE ZeroAttitude BY <1>13 DEF ZeroAttitude, spi
<1>14. CASE NewSample BY <1>14 DEF NewSample, spi, task
<1>15. CASE UNCHANGED vars BY <1>15 DEF vars, spi, task
<1> QED
  BY <1>1, <1>2, <1>3, <1>4, <1>5, <1>6, <1>7, <1>8, <1>9, <1>10, <1>11, <1>12,
     <1>13, <1>14, <1>15 DEF Next

LEMMA DataStep == DataInv /\ [Next]_vars => DataInv' /\ (again' => again \/ early)
<1> SUFFICES ASSUME DataInv, [Next]_vars PROVE DataInv' /\ (again' => again \/ early)
  OBVIOUS
<1>1. BusInv'
  BY BusStep DEF DataInv
<1>2. ByteInv'
  <2>1. CASE UNCHANGED spi BY <2>1 DEF spi, DataInv, ByteInv
  <2> QED BY <2>1, TaskUsesBus, CallBytes, DriverBytes, ShiftBytes DEF DataInv
<1>3. AnnounceInv' /\ (again' => again \/ early)
  <2>1. CASE SpiStep BY <2>1, DriverAnnounces DEF DataInv, SpiStep, chip
  <2>2. CASE Transfer BY <2>2, TransferAnnounces DEF DataInv
  <2> QED BY <2>1, <2>2, TaskAnnounces
<1> QED BY <1>1, <1>2, <1>3 DEF DataInv

\* No sample is used twice unless it came between the reads of data-ready and of the data.
THEOREM UsedOnce == Spec => TwiceOnlyIfEarly
<1> DEFINE Once == again' => again \/ early
<1>1. DataInv /\ [Next]_vars => DataInv'
  BY DataStep
<1>2. DataInv /\ [Next]_vars => [Once]_vars
  BY DataStep
<1>3. [][Once]_vars => TwiceOnlyIfEarly
  BY DEF TwiceOnlyIfEarly
<1> HIDE DEF Once
<1> QED BY DataInit, <1>1, <1>2, <1>3, PTL DEF Spec
=============================================================================
