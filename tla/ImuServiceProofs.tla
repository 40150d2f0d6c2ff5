--------------------------- MODULE ImuServiceProofs ---------------------------
(***************************************************************************)
(* The safety of the IMU task for every number of retries and samples, any *)
(* yaws and any scale of the profile.                                      *)
(***************************************************************************)
EXTENDS ImuService, TLAPS

\* The constants as the provers need them.
LEMMA ImuSizes ==
    /\ Retries \in Nat /\ Retries > 0 /\ CalSamples \in Nat /\ CalSamples > 0
    /\ SettleSamples \in Nat /\ SettleSamples > 0
    /\ FourLap \in Nat /\ FourLap > 0 /\ PhaseYaws \subseteq Int
    /\ ProfileScale \in Scales /\ UnitScale \in Scales
  BY ImuAssumption DEF Scales, UnitScale

\* The cleared record is a calibration at rest.
LEMMA ClearedCalibration ==
    /\ NoCalibration \in Calibrations /\ NoCalibration.state = "IDLE"
    /\ NoCalibration.previous = 0 /\ NoCalibration.settle = 0
  BY ImuSizes DEF NoCalibration, Calibrations, CalStates

\* A scale the calibration accepts is a scale.
LEMMA ValidScales ==
    ASSUME NEW m \in Int, ScaleIsValid(m)
    PROVE  m \in Scales
  BY ImuSizes, SMTT(20) DEF ScaleIsValid, UnitScale, Scales

\* SetGyroScale keeps a scale a scale.
LEMMA GyroScales ==
    ASSUME NEW s \in Nat, scale \in Scales
    PROVE  /\ GyroScale(s) \in Scales
           /\ s \in Scales => GyroScale(s) = s
  BY DEF GyroScale, Scales

\* The count of a waiting state starts within its range.
LEMMA NoneSettled == 0 \in 0 .. SettleSamples
  BY ImuSizes

-----------------------------------------------------------------------------
(* What one sample does to the calibration, the scales and the count.      *)

CalibrationType ==
    /\ s_yaw_cal \in Calibrations /\ scale \in Scales /\ inForce \in Scales
    /\ yaw \in Int /\ restarted \in BOOLEAN /\ stillFor \in 0 .. SettleSamples

CalibrationScales ==
    ~restarted =>
       /\ s_yaw_cal.state \in AtRest => scale = inForce
       /\ s_yaw_cal.state \notin {"IDLE", "COMPLETE"} =>
             s_yaw_cal.previous = inForce

CalibrationInv == CalibrationType /\ CalibrationScales /\ CountIsTrue

\* The states that count.
Counting == s_yaw_cal.state \in {"WAIT_STILL", "POSITIVE_ACTIVE", "NEGATIVE_ACTIVE"}

LeavesWaiting == Counting /\ s_yaw_cal'.state # s_yaw_cal.state

\* The count after a sample: it stays a true count if it was not completed.
LEMMA CountKept ==
    ASSUME CalibrationInv, NEW still \in BOOLEAN, NEW captured \in BOOLEAN,
           captured => still, Counting,
           ~(captured /\ Settled), Count(captured), StillCounted(still)
    PROVE  /\ s_yaw_cal' \in Calibrations /\ CountIsTrue'
           /\ s_yaw_cal'.state = s_yaw_cal.state
           /\ s_yaw_cal'.previous = s_yaw_cal.previous
           /\ stillFor' \in 0 .. SettleSamples
  BY ImuSizes
     DEF CalibrationInv, CalibrationType, CountIsTrue, Calibrations, Settled,
         Count, Counting, AtRest, StillCounted

\* A completed count means SettleSamples stationary samples in a row.
LEMMA CountCompleted ==
    ASSUME CalibrationInv, Counting, Settled,
           StillCounted(TRUE)
    PROVE  /\ stillFor' = SettleSamples
           /\ s_yaw_cal.settle + 1 \in 0 .. SettleSamples
  BY ImuSizes
     DEF CalibrationInv, CalibrationType, CountIsTrue, Calibrations, Settled,
         Counting, AtRest, StillCounted

\* A failed calibration is at rest with the scale from before it.
LEMMA FailKeeps ==
    ASSUME CalibrationInv, s_yaw_cal.state \notin AtRest,
           NEW cal \in Calibrations, cal.previous = s_yaw_cal.previous, Fail(cal),
           stillFor' \in 0 .. SettleSamples
    PROVE  CalibrationInv' /\ s_yaw_cal'.state = "FAILED"
  <1>1. /\ s_yaw_cal' \in Calibrations /\ s_yaw_cal'.state = "FAILED"
        /\ s_yaw_cal'.previous = cal.previous
    BY DEF Fail, Calibrations, CalStates
  <1>2. /\ scale' \in Scales
        /\ cal.previous \in Scales => scale' = cal.previous
    BY GyroScales DEF Fail, Calibrations, CalibrationInv, CalibrationType
  <1> QED
    BY <1>1, <1>2
       DEF CalibrationInv, CalibrationType, CalibrationScales, CountIsTrue,
           AtRest, Fail

\* Every branch keeps the calibration, the scales and the count in agreement,
\* and leaves a waiting state with a completed count only.
LEMMA UpdateKeeps ==
    ASSUME CalibrationInv, NEW still \in BOOLEAN, NEW rate \in {-1, 0, 1},
           NEW y \in Int, Update(still, rate, y), StillCounted(still)
    PROVE  CalibrationInv' /\ (LeavesWaiting => stillFor' = SettleSamples)
  <1> USE DEF CalibrationInv
  <1>1. /\ s_yaw_cal \in Calibrations /\ scale \in Scales /\ inForce \in Scales
        /\ stillFor' \in 0 .. SettleSamples
        /\ stillFor \in Nat /\ s_yaw_cal.settle \in Nat
    BY ImuSizes DEF CalibrationType, StillCounted, Calibrations
  <1>2. CASE WaitStill(still, y)
    <2>1. CASE still /\ Settled
      <3>1. stillFor' = SettleSamples
        BY <1>2, <2>1, CountCompleted DEF WaitStill, Counting
      <3>2. /\ s_yaw_cal' \in Calibrations /\ s_yaw_cal'.settle = 0
            /\ s_yaw_cal'.state = "WAIT_POSITIVE"
            /\ s_yaw_cal'.previous = s_yaw_cal.previous
        <4>1. s_yaw_cal' = [s_yaw_cal EXCEPT !.state = "WAIT_POSITIVE",
                                             !.settle = 0, !.origin = 0]
          BY <1>2, <2>1 DEF WaitStill
        <4> QED
          <5>1. "WAIT_POSITIVE" \in CalStates /\ 0 \in Int
            BY DEF CalStates
          <5>2. /\ s_yaw_cal'.state = "WAIT_POSITIVE" /\ s_yaw_cal'.settle = 0
                /\ s_yaw_cal'.previous = s_yaw_cal.previous
            BY <1>1, <4>1 DEF Calibrations
          <5>3. s_yaw_cal' \in Calibrations
            BY <1>1, <4>1, <5>1, NoneSettled, Zenon DEF Calibrations
          <5> QED
            BY <5>2, <5>3
      <3>3. UNCHANGED <<scale, inForce, restarted>> /\ yaw' = 0
        BY <1>2, <2>1 DEF WaitStill
      <3> QED
        BY <1>1, <1>2, <3>1, <3>2, <3>3, ImuSizes
           DEF WaitStill, CalibrationType, CalibrationScales, CountIsTrue, AtRest
    <2>2. CASE ~(still /\ Settled)
      <3>1. /\ s_yaw_cal' \in Calibrations /\ CountIsTrue'
            /\ s_yaw_cal'.state = s_yaw_cal.state
            /\ s_yaw_cal'.previous = s_yaw_cal.previous
        <4>1. Counting /\ Count(still)
          BY <1>2, <2>2 DEF WaitStill, Counting
        <4> QED
          BY <2>2, <4>1, CountKept, Zenon
      <3> QED
        BY <1>1, <1>2, <2>2, <3>1
           DEF WaitStill, CalibrationType, CalibrationScales, LeavesWaiting
    <2> QED
      BY <2>1, <2>2
  <1>3. ASSUME NEW waiting, NEW active, NEW turns \in BOOLEAN,
               <<waiting, active>> \in {<<"WAIT_POSITIVE", "POSITIVE_ACTIVE">>,
                                        <<"WAIT_NEGATIVE", "NEGATIVE_ACTIVE">>},
               WaitMotion(waiting, active, turns, y)
        PROVE  CalibrationInv' /\ ~LeavesWaiting
    <2>1. /\ s_yaw_cal' \in Calibrations
          /\ s_yaw_cal'.state \in {waiting, active}
          /\ s_yaw_cal'.previous = s_yaw_cal.previous
          /\ s_yaw_cal'.settle = s_yaw_cal.settle
      BY <1>1, <1>3 DEF WaitMotion, Calibrations, CalStates
    <2>2. s_yaw_cal'.settle = 0
      BY <1>3, <2>1 DEF WaitMotion, CountIsTrue, AtRest
    <2> QED
      BY <1>1, <1>3, <2>1, <2>2, ImuSizes
         DEF WaitMotion, CalibrationType, CalibrationScales, CountIsTrue, AtRest,
             Counting, LeavesWaiting
  <1>4. CASE PositiveActive(still, y)
    <2> DEFINE phase == y - s_yaw_cal.origin
               captured == still /\ 100 * phase >= 90 * FourLap
               measured == [s_yaw_cal EXCEPT !.settle = @ + 1, !.positive = phase]
    <2>1. Counting /\ s_yaw_cal.state = "POSITIVE_ACTIVE" /\ phase \in Int
      BY <1>1, <1>4 DEF PositiveActive, Counting, Calibrations
    <2>2. CASE ~(captured /\ Settled)
      <3>1. Count(captured) /\ yaw' = y /\ UNCHANGED <<scale, inForce, restarted>>
        BY <1>4, <2>2 DEF PositiveActive
      <3>2. captured \in BOOLEAN /\ (captured => still)
        OBVIOUS
      <3> HIDE DEF captured
      <3>3. /\ s_yaw_cal' \in Calibrations /\ CountIsTrue'
            /\ s_yaw_cal'.state = s_yaw_cal.state
            /\ s_yaw_cal'.previous = s_yaw_cal.previous
        BY <2>1, <2>2, <3>1, <3>2, CountKept, Zenon
      <3> QED
        BY <1>1, <3>1, <3>3, <2>1
           DEF CalibrationType, CalibrationScales, AtRest, LeavesWaiting
    <2>3. CASE captured /\ Settled
      <3>1. /\ stillFor' = SettleSamples
            /\ s_yaw_cal.settle + 1 \in 0 .. SettleSamples
        BY <2>1, <2>3, CountCompleted
      <3>2. /\ measured \in Calibrations
            /\ measured.previous = s_yaw_cal.previous
        BY <1>1, <2>1, <3>1 DEF Calibrations
      <3>3. CASE ~ScaleIsValid(2 * phase)
        <4>1. Fail(measured)
          BY <1>4, <2>3, <3>3 DEF PositiveActive
        <4>2. s_yaw_cal.state \notin AtRest
          BY <2>1 DEF AtRest
        <4> HIDE DEF measured
        <4> QED
          BY <1>1, <3>1, <3>2, <4>1, <4>2, FailKeeps
      <3>4. CASE ScaleIsValid(2 * phase)
        <4>1. /\ s_yaw_cal' = [measured EXCEPT !.state = "WAIT_NEGATIVE",
                                               !.settle = 0, !.origin = y]
              /\ yaw' = y /\ UNCHANGED <<scale, inForce, restarted>>
          BY <1>4, <2>3, <3>4 DEF PositiveActive
        <4>2. /\ s_yaw_cal' \in Calibrations
              /\ s_yaw_cal'.state = "WAIT_NEGATIVE" /\ s_yaw_cal'.settle = 0
              /\ s_yaw_cal'.previous = s_yaw_cal.previous
          <5>1. "WAIT_NEGATIVE" \in CalStates
            BY DEF CalStates
          <5> HIDE DEF measured
          <5>2. /\ s_yaw_cal'.state = "WAIT_NEGATIVE" /\ s_yaw_cal'.settle = 0
                /\ s_yaw_cal'.previous = measured.previous
            BY <3>2, <4>1 DEF Calibrations
          <5>3. s_yaw_cal' \in Calibrations
            BY <3>2, <4>1, <5>1, NoneSettled, Zenon DEF Calibrations
          <5> QED
            BY <3>2, <5>2, <5>3
        <4> QED
          BY <1>1, <2>1, <3>1, <4>1, <4>2, ImuSizes
             DEF CalibrationType, CalibrationScales, CountIsTrue, AtRest
      <3> QED
        BY <3>3, <3>4
    <2> QED
      BY <2>2, <2>3
  <1>5. CASE NegativeActive(still, y)
    <2> DEFINE phase == y - s_yaw_cal.origin
               captured == still /\ 100 * phase <= -90 * FourLap
               measured == [s_yaw_cal EXCEPT !.settle = @ + 1, !.negative = phase]
               found == s_yaw_cal.positive - phase
    <2>1. /\ Counting /\ s_yaw_cal.state = "NEGATIVE_ACTIVE"
          /\ phase \in Int /\ found \in Int
      BY <1>1, <1>5 DEF NegativeActive, Counting, Calibrations
    <2>2. CASE ~(captured /\ Settled)
      <3>1. Count(captured) /\ yaw' = y /\ UNCHANGED <<scale, inForce, restarted>>
        BY <1>5, <2>2 DEF NegativeActive
      <3>2. captured \in BOOLEAN /\ (captured => still)
        OBVIOUS
      <3> HIDE DEF captured
      <3>3. /\ s_yaw_cal' \in Calibrations /\ CountIsTrue'
            /\ s_yaw_cal'.state = s_yaw_cal.state
            /\ s_yaw_cal'.previous = s_yaw_cal.previous
        BY <2>1, <2>2, <3>1, <3>2, CountKept, Zenon
      <3> QED
        BY <1>1, <3>1, <3>3, <2>1
           DEF CalibrationType, CalibrationScales, AtRest, LeavesWaiting
    <2>3. CASE captured /\ Settled
      <3>1. /\ stillFor' = SettleSamples
            /\ s_yaw_cal.settle + 1 \in 0 .. SettleSamples
        BY <2>1, <2>3, CountCompleted
      <3>2. /\ measured \in Calibrations
            /\ measured.previous = s_yaw_cal.previous
        BY <1>1, <2>1, <3>1 DEF Calibrations
      <3>3. CASE ~Agree(s_yaw_cal.positive, -phase)
        <4>1. Fail(measured)
          BY <1>5, <2>3, <3>3 DEF NegativeActive
        <4>2. s_yaw_cal.state \notin AtRest
          BY <2>1 DEF AtRest
        <4> HIDE DEF measured
        <4> QED
          BY <1>1, <3>1, <3>2, <4>1, <4>2, FailKeeps
      <3>4. CASE Agree(s_yaw_cal.positive, -phase)
        <4>1. /\ yaw' = 0 /\ scale' = found /\ inForce' = found
              /\ restarted' = FALSE
          BY <1>5, <2>3, <3>4 DEF NegativeActive
        <4>2. s_yaw_cal' \in Calibrations /\ s_yaw_cal'.state = "COMPLETE"
          <5>1. "COMPLETE" \in CalStates /\ 0 \in Int
            BY DEF CalStates
          <5>2. s_yaw_cal' = [measured EXCEPT !.state = "COMPLETE", !.origin = 0]
            BY <1>5, <2>3, <3>4 DEF NegativeActive
          <5> HIDE DEF measured
          <5> QED
            BY <3>2, <5>1, <5>2, Zenon DEF Calibrations
        <4>3. found \in Scales
          <5>1. s_yaw_cal.positive \in Int
            BY <1>1 DEF Calibrations
          <5>2. s_yaw_cal.positive + -phase = found
            BY <2>1, <5>1
          <5>3. ScaleIsValid(s_yaw_cal.positive + -phase)
            BY <3>4 DEF Agree
          <5> QED
            BY <2>1, <5>2, <5>3, ValidScales
        <4> HIDE DEF found, measured
        <4>4. CalibrationType'
          <5>1. restarted' \in BOOLEAN
            BY <4>1, Zenon
          <5>2. yaw' \in Int
            BY <4>1
          <5> QED
            BY <1>1, <4>1, <4>2, <4>3, <5>1, <5>2, Zenon DEF CalibrationType
        <4>5. CalibrationScales' /\ CountIsTrue'
          BY <4>1, <4>2 DEF CalibrationScales, CountIsTrue, AtRest
        <4> QED
          BY <3>1, <4>4, <4>5
      <3> QED
        BY <3>3, <3>4
    <2> QED
      BY <2>2, <2>3
  <1>6. CASE Inactive(y)
    BY <1>1, <1>6
       DEF Inactive, CalibrationType, CalibrationScales, CountIsTrue, AtRest,
           Counting, LeavesWaiting
  <1> QED
    BY <1>2, <1>3, <1>4, <1>5, <1>6 DEF Update

-----------------------------------------------------------------------------
(* The inductive invariant, step by step.                                  *)

\* What is published is a snapshot.
LEMMA PublishedSnapshot ==
    ASSUME NEW state \in {"INITIALIZING", "CALIBRATING", "READY", "FAULT"},
           NEW ok \in BOOLEAN, ready' \in BOOLEAN, Publish(state, ok)
    PROVE  s_snapshot' \in Snapshots
  BY Zenon DEF Publish, Snapshots

\* The task starts without snapshot, sensor and calibration.
LEMMA ImuInitInv == Init => ImuInv
  <1> SUFFICES ASSUME Init PROVE ImuInv
    OBVIOUS
  <1>1. s_yaw_cal \in Calibrations /\ s_yaw_cal.state = "IDLE"
    BY ClearedCalibration DEF Init
  <1>2. TypeOK
    <2>1. s_snapshot \in Snapshots
      BY Zenon DEF Init, Snapshots
    <2>2. /\ attempt \in 1 .. Retries /\ samples \in 0 .. (CalSamples - 1)
          /\ scale \in Scales /\ inForce \in Scales /\ yaw \in Int
          /\ stillFor \in 0 .. SettleSamples
      BY ImuSizes DEF Init
    <2> QED
      BY <1>1, <2>1, <2>2, Zenon DEF Init, TypeOK
  <1> QED
    BY <1>1, <1>2
       DEF Init, ImuInv, ReadySource, ScaleKept, CountIsTrue, InLoop, IsReady,
           AtRest

\* Nothing in bring-up publishes READY, and its last step puts the profile's
\* scale in force.
LEMMA BringUpStep == ImuInv /\ BringUp => ImuInv'
  <1> SUFFICES ASSUME ImuInv, BringUp PROVE ImuInv'
    OBVIOUS
  <1> USE DEF ImuInv, ReadySource, ScaleKept, InLoop, IsReady, Publish
  <1>1. CASE Attempt
    <2>1. ready' \in BOOLEAN /\ (pc' # "retry" => s_snapshot'.state = "CALIBRATING")
      BY <1>1 DEF Attempt, Begin
    <2>2. TypeOK'
      <3>1. s_snapshot' \in Snapshots
        BY <1>1, <2>1, PublishedSnapshot DEF Attempt, TypeOK
      <3>2. scale' \in Scales /\ yaw' \in Int
        BY <1>1, ImuSizes DEF Attempt
      <3> QED
        BY <1>1, <2>1, <3>1, <3>2, Zenon
           DEF Attempt, TypeOK, requestVars, ghostVars
    <2> QED
      BY <1>1, <2>1, <2>2
         DEF Attempt, CountIsTrue, requestVars, ghostVars
  <1>2. CASE Retry
    <2>1. TypeOK'
      <3>1. s_snapshot' \in Snapshots
        BY <1>2, PublishedSnapshot DEF Retry, TypeOK, sensorVars
      <3>2. attempt' \in 1 .. Retries
        BY <1>2, ImuSizes DEF Retry, TypeOK
      <3> QED
        BY <1>2, <3>1, <3>2, Zenon
           DEF Retry, TypeOK, sensorVars, requestVars, ghostVars
    <2> QED
      BY <1>2, <2>1 DEF Retry, CountIsTrue, sensorVars, requestVars, ghostVars
  <1>3. CASE CalSample
    BY <1>3, ImuSizes
       DEF CalSample, TypeOK, CountIsTrue, sensorVars, requestVars, ghostVars
  <1>4. CASE CalMoved
    BY <1>4, ImuSizes
       DEF CalMoved, TypeOK, CountIsTrue, sensorVars, requestVars, ghostVars
  <1>5. CASE CalDone
    <2>1. /\ s_yaw_cal' \in Calibrations /\ s_yaw_cal'.state = "IDLE"
      BY <1>5, ClearedCalibration DEF CalDone
    <2>2. TypeOK'
      BY <1>5, <2>1, ImuSizes DEF CalDone, TypeOK, requestVars, ghostVars
    <2> QED
      BY <1>5, <2>1, <2>2
         DEF CalDone, CountIsTrue, AtRest, requestVars, ghostVars
  <1>6. CASE CalFails
    <2>1. TypeOK'
      <3>1. s_snapshot' \in Snapshots
        BY <1>6, PublishedSnapshot DEF CalFails, TypeOK, sensorVars
      <3> QED
        BY <1>6, <3>1, Zenon
           DEF CalFails, TypeOK, sensorVars, requestVars, ghostVars
    <2> QED
      BY <1>6, <2>1 DEF CalFails, CountIsTrue, sensorVars, requestVars, ghostVars
  <1> QED
    BY <1>1, <1>2, <1>3, <1>4, <1>5, <1>6 DEF BringUp

\* A cancel or a start, or both: the scale from before the calibration is the
\* one that is restored, or remembered by the next one.
LEMMA ServeStep == ImuInv /\ Serve => ImuInv'
  <1> SUFFICES ASSUME ImuInv, Serve PROVE ImuInv'
    OBVIOUS
  <1> USE DEF ImuInv
  <1>1. /\ s_yaw_cal \in Calibrations /\ s_yaw_cal.previous \in Nat
        /\ scale \in Scales /\ inForce \in Scales /\ inForce' = inForce
    BY DEF Serve, TypeOK, Calibrations
  <1>2. ScaleAfterCancel \in Scales
    BY <1>1, GyroScales DEF ScaleAfterCancel
  <1>3. (/\ ~restarted
         /\ s_yaw_cal.state \in AtRest \/ s_yaw_cal_cancel_requested) =>
            ScaleAfterCancel = inForce
    BY <1>1, GyroScales DEF Serve, ScaleKept, InLoop, ScaleAfterCancel, AtRest
  <1>4. CASE s_yaw_cal_start_requested
    <2>1. s_yaw_cal' = [NoCalibration EXCEPT !.state = "WAIT_STILL",
                                             !.previous = ScaleAfterCancel]
      BY <1>4 DEF Serve
    <2>2. /\ s_yaw_cal' \in Calibrations /\ s_yaw_cal'.state = "WAIT_STILL"
          /\ s_yaw_cal'.settle = 0 /\ s_yaw_cal'.previous = ScaleAfterCancel
      BY <1>2, <2>1, ClearedCalibration DEF Calibrations, CalStates, Scales
    <2>3. TypeOK'
      <3>1. scale' \in Scales /\ yaw' \in Int
        BY <1>4, ImuSizes DEF Serve
      <3>2. restarted' \in BOOLEAN
        BY <1>4, Zenon DEF Serve, TypeOK
      <3> QED
        BY <2>2, <3>1, <3>2, Zenon DEF Serve, TypeOK
    <2>4. ScaleKept'
      BY <1>1, <1>3, <1>4, <2>2 DEF Serve, ScaleKept, InLoop, AtRest
    <2> QED
      BY <1>4, <2>2, <2>3, <2>4, ImuSizes
         DEF Serve, ReadySource, InLoop, CountIsTrue, AtRest, TypeOK
  <1>5. CASE ~s_yaw_cal_start_requested
    <2>1. CASE s_yaw_cal_cancel_requested
      <3>1. s_yaw_cal' \in Calibrations /\ s_yaw_cal'.state = "IDLE"
        BY <1>5, <2>1, ClearedCalibration DEF Serve
      <3>2. TypeOK'
        <4>1. yaw' \in Int
          BY <2>1 DEF Serve
        <4> QED
          BY <1>2, <1>5, <3>1, <4>1, Zenon DEF Serve, TypeOK
      <3> QED
        BY <1>3, <1>5, <2>1, <3>1, <3>2
           DEF Serve, ReadySource, ScaleKept, InLoop, CountIsTrue, AtRest
    <2>2. CASE ~s_yaw_cal_cancel_requested
      <3>1. UNCHANGED <<s_yaw_cal, scale, yaw, restarted>>
        BY <1>5, <2>2 DEF Serve, ScaleAfterCancel
      <3>2. TypeOK'
        BY <1>5, <3>1 DEF Serve, TypeOK
      <3> QED
        BY <1>5, <3>1, <3>2
           DEF Serve, ReadySource, ScaleKept, InLoop, CountIsTrue
    <2> QED
      BY <2>1, <2>2
  <1> QED
    BY <1>4, <1>5

\* A sample: the branch it takes is one of those of UpdateKeeps.
LEMMA SampleStep ==
    ASSUME ImuInv, Sample
    PROVE  ImuInv' /\ (LeavesWaiting => stillFor' = SettleSamples)
  <1> USE DEF ImuInv
  <1>1. CalibrationInv
    BY DEF Sample, CalibrationInv, CalibrationType, CalibrationScales, TypeOK,
           ScaleKept, InLoop
  <1>2. PICK still \in BOOLEAN, rate \in {-1, 0, 1}, phase \in PhaseYaws :
          Update(still, rate, s_yaw_cal.origin + phase) /\ StillCounted(still)
    BY DEF Sample
  <1>3. s_yaw_cal.origin + phase \in Int
    BY ImuSizes DEF TypeOK, Calibrations
  <1>4. CalibrationInv' /\ (LeavesWaiting => stillFor' = SettleSamples)
    BY <1>1, <1>2, <1>3, UpdateKeeps
  <1>5. TypeOK'
    <2>1. s_snapshot' \in Snapshots
      BY PublishedSnapshot DEF Sample, TypeOK
    <2> QED
      BY <1>4, <2>1, Zenon DEF Sample, TypeOK, CalibrationInv, CalibrationType,
                               requestVars
  <1>6. ScaleKept' /\ CountIsTrue'
    BY <1>4 DEF Sample, CalibrationInv, CalibrationScales, ScaleKept, InLoop
  <1>7. ReadySource'
    BY DEF Sample, Publish, ReadySource, InLoop, IsReady
  <1> QED
    BY <1>4, <1>5, <1>6, <1>7

\* Requests, a sample that fails and the copy leave the calibration alone.
LEMMA OtherSteps ==
    ASSUME ImuInv,
           SampleFails \/ RequestStart \/ RequestCancel \/ CopySnapshot \/ UNCHANGED vars
    PROVE  ImuInv' /\ UNCHANGED s_yaw_cal
  <1> USE DEF ImuInv, ReadySource, ScaleKept, InLoop, IsReady, sensorVars,
              requestVars, ghostVars
  <1>1. CASE SampleFails
    <2>1. s_snapshot' \in Snapshots
      BY <1>1, PublishedSnapshot DEF SampleFails, TypeOK
    <2>2. TypeOK'
      BY <1>1, <2>1, Zenon DEF SampleFails, TypeOK
    <2> QED
      BY <1>1, <2>2 DEF SampleFails, Publish, CountIsTrue
  <1>2. CASE RequestStart
    BY <1>2 DEF RequestStart, TypeOK, CountIsTrue
  <1>3. CASE RequestCancel
    BY <1>3 DEF RequestCancel, TypeOK, CountIsTrue
  <1>4. CASE CopySnapshot
    BY <1>4 DEF CopySnapshot, TypeOK, CountIsTrue
  <1>5. CASE UNCHANGED vars
    BY <1>5 DEF vars, TypeOK, CountIsTrue
  <1> QED
    BY <1>1, <1>2, <1>3, <1>4, <1>5

\* Every step keeps the invariant.
LEMMA ImuStep == ImuInv /\ [Next]_vars => ImuInv'
  BY BringUpStep, ServeStep, SampleStep, OtherSteps DEF Next, TaskStep

-----------------------------------------------------------------------------
(* The theorems.                                                           *)

\* Every reachable state satisfies the invariant: the published snapshot tells
\* the truth, the calibration remembers the scale, the count is true.
THEOREM ImuInvariant == Spec => []ImuInv
  BY ImuInitInv, ImuStep, PTL DEF Spec

\* Every variable of the IMU task keeps its type; the count keeps its limit.
THEOREM ImuTypeCorrect == Spec => []TypeOK
  <1>1. ImuInv => TypeOK
    BY DEF ImuInv
  <1> QED
    BY <1>1, ImuInvariant, PTL

\* The car can start only with a sensor that was begun and calibrated.
THEOREM StartsCalibrated == Spec => []ReadyMeansCalibrated
  <1>1. ImuInv => ReadyMeansCalibrated
    BY DEF ImuInv, ReadySource, InLoop, ReadyMeansCalibrated
  <1> QED
    BY <1>1, ImuInvariant, PTL

\* A cancelled or failed yaw calibration leaves the scale from before it.
THEOREM ScaleIsRestored == Spec => []ScaleRestored
  <1>1. ImuInv => ScaleRestored
    BY DEF ImuInv, ScaleKept, InLoop, ScaleRestored
  <1> QED
    BY <1>1, ImuInvariant, PTL

\* No state that waits for the car to rest is left on the move.
THEOREM NothingMeasuredOnTheMove == Spec => LeftAtRest
  <1> DEFINE Left == (/\ pc = "wait" /\ s_yaw_cal'.state # s_yaw_cal.state
                      /\ s_yaw_cal.state \in {"WAIT_STILL", "POSITIVE_ACTIVE",
                                              "NEGATIVE_ACTIVE"}) =>
                          stillFor' = SettleSamples
  <1>1. ASSUME ImuInv, [Next]_vars PROVE Left
    <2>1. CASE Sample
      BY <1>1, <2>1, SampleStep DEF LeavesWaiting, Counting
    <2>2. CASE SampleFails \/ RequestStart \/ RequestCancel \/ CopySnapshot
               \/ UNCHANGED vars
      BY <1>1, <2>2, OtherSteps
    <2>3. CASE BringUp \/ Serve
      BY <2>3 DEF BringUp, Attempt, Retry, CalSample, CalMoved, CalDone, CalFails,
                  Serve
    <2> QED
      BY <1>1, <2>1, <2>2, <2>3 DEF Next, TaskStep
  <1>2. ImuInv /\ [Next]_vars => [Left]_vars
    BY <1>1
  <1> QED
    BY <1>2, ImuInvariant, PTL DEF Spec, LeftAtRest
=============================================================================
