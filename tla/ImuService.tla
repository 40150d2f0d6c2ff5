------------------------------ MODULE ImuService ------------------------------
(***************************************************************************)
(* The IMU task (imu_service.c): bring-up of the ICM45688 with retries,    *)
(* the static calibration of the gyro bias, then one loop per sample with  *)
(* the yaw-scale calibration (four turns each way), whose requests come    *)
(* from the telemetry task, and the snapshot the fast task copies.         *)
(*                                                                         *)
(* The task has priority 4, telemetry 2: requests arrive while it waits,   *)
(* never between the end of one loop and the start of the next.  A wait,   *)
(* with its heartbeats, and a whole sample are one step each.              *)
(*                                                                         *)
(* A gyro scale s is represented by 2 * FourLap / s, what the uncorrected  *)
(* gyro measures over the turns of both directions together, so that the   *)
(* scale found by a calibration is an integer.                             *)
(***************************************************************************)
EXTENDS Integers

CONSTANTS
    Retries,            \* ICM45688_INIT_RETRIES
    CalSamples,         \* gyro_cal_warmup_samples + gyro_cal_samples
    SettleSamples,      \* YAW_CAL_SETTLE_SAMPLES
    FourLap,            \* YAW_CAL_FOUR_LAP_DEG
    PhaseYaws,          \* yaws since the phase's origin that a sample may show
    ProfileScale        \* gyro_z_scale of the calibrated profile

ASSUME ImuAssumption ==
    /\ Retries \in Nat \ {0}
    /\ CalSamples \in Nat \ {0}
    /\ SettleSamples \in Nat \ {0}
    /\ FourLap \in Nat \ {0}
    /\ PhaseYaws \subseteq Int
    /\ ProfileScale \in Nat \ {0}

VARIABLES
    pc,                 \* where IMU_Service_Task is
    attempt,            \* of its bring-up
    ready,              \* s_imu.ready: ICM45688_MSPM0_Begin has succeeded
    samples,            \* i of calibrate_gyro_bias
    scale, yaw,         \* s_imu.gyro_scale_z, s_imu.yaw_deg
    s_yaw_cal,
    s_yaw_cal_start_requested, s_yaw_cal_cancel_requested,
    s_snapshot,         \* state, status and ready of the published snapshot
    imu_ready,          \* AppContext_t: what a start of the car asks for
    \* Ghosts.
    inForce,            \* the scale in force before the present calibration
    restarted,          \* a calibration was restarted since inForce was set
    stillFor            \* stationary samples in a row, up to SettleSamples

sensorVars  == <<ready, scale, yaw>>
requestVars == <<s_yaw_cal_start_requested, s_yaw_cal_cancel_requested>>
ghostVars   == <<inForce, restarted, stillFor>>
vars == <<pc, attempt, samples, sensorVars, s_yaw_cal, requestVars, s_snapshot,
          imu_ready, ghostVars>>

UnitScale == 2 * FourLap

CalStates == {"IDLE", "WAIT_STILL", "WAIT_POSITIVE", "POSITIVE_ACTIVE",
              "WAIT_NEGATIVE", "NEGATIVE_ACTIVE", "COMPLETE", "FAILED"}
AtRest == {"IDLE", "COMPLETE", "FAILED"}

\* What memset leaves; measured yaws and scales are absent as 0.
NoCalibration == [state |-> "IDLE", settle |-> 0, origin |-> 0,
                  positive |-> 0, negative |-> 0, previous |-> 0]

-----------------------------------------------------------------------------
Init ==
    /\ pc = "whoami" /\ attempt = 1 /\ samples = 0
    /\ ready = FALSE /\ scale = UnitScale /\ yaw = 0
    /\ s_yaw_cal = NoCalibration
    /\ s_yaw_cal_start_requested = FALSE /\ s_yaw_cal_cancel_requested = FALSE
    /\ s_snapshot = [state |-> "INITIALIZING", ok |-> FALSE, ready |-> FALSE]
    /\ imu_ready = FALSE
    /\ inForce = ProfileScale /\ restarted = FALSE
    /\ stillFor = 0

\* publish_snapshot, within a critical section.
Publish(state, ok) ==
    s_snapshot' = [state |-> state, ok |-> ok, ready |-> ready']

-----------------------------------------------------------------------------
(* Bring-up.                                                               *)

\* ICM45688_MSPM0_Begin: the device is ready once every access has succeeded.
Begin(outcome) == ready' = (outcome = "begun")

\* One attempt: configure_imu_handle, ReadWhoAmI and, if it names the chip,
\* Begin.  A chip that answers with a wrong name leaves status OK: the loop
\* ends, without Begin.
Attempt ==
    /\ pc = "whoami"
    /\ scale' = UnitScale /\ yaw' = 0
    /\ \E outcome \in {"begun", "wrong_name", "error"} :
         /\ Begin(outcome)
         /\ IF outcome = "error"
            THEN pc' = "retry" /\ UNCHANGED s_snapshot
            ELSE pc' = "calibrate" /\ Publish("CALIBRATING", TRUE)
    /\ UNCHANGED <<attempt, samples, s_yaw_cal, requestVars, imu_ready, ghostVars>>

\* Mutant: the attempts are not counted.
RetryForEver ==
    /\ pc = "retry" /\ pc' = "whoami"
    /\ UNCHANGED <<attempt, samples, sensorVars, s_yaw_cal, requestVars,
                   s_snapshot, imu_ready, ghostVars>>

\* delay_with_heartbeat, then the next attempt or the fault.
Retry ==
    /\ pc = "retry"
    /\ UNCHANGED sensorVars
    /\ IF attempt < Retries
       THEN pc' = "whoami" /\ attempt' = attempt + 1 /\ UNCHANGED s_snapshot
       ELSE pc' = "fault" /\ UNCHANGED attempt /\ Publish("FAULT", FALSE)
    /\ UNCHANGED <<samples, s_yaw_cal, requestVars, imu_ready, ghostVars>>

\* calibrate_gyro_bias: a sample; no sample without Begin.
CalSample ==
    /\ pc = "calibrate" /\ ready /\ samples + 1 < CalSamples
    /\ samples' = samples + 1
    /\ UNCHANGED <<pc, attempt, sensorVars, s_yaw_cal, requestVars, s_snapshot,
                   imu_ready, ghostVars>>

\* ... the last one, of a gyro that was moved: again after a delay.
CalMoved ==
    /\ pc = "calibrate" /\ ready /\ samples + 1 = CalSamples
    /\ samples' = 0
    /\ UNCHANGED <<pc, attempt, sensorVars, s_yaw_cal, requestVars, s_snapshot,
                   imu_ready, ghostVars>>

\* ... the last one, of a gyro at rest.
CalDone ==
    /\ pc = "calibrate" /\ ready /\ samples + 1 = CalSamples
    /\ samples' = 0
    /\ scale' = ProfileScale /\ yaw' = 0
    /\ s_yaw_cal' = NoCalibration
    /\ pc' = "serve"
    /\ UNCHANGED <<attempt, ready, requestVars, s_snapshot, imu_ready, ghostVars>>

\* ... a sample that timed out or could not be read.
CalFails ==
    /\ pc = "calibrate"
    /\ pc' = "fault" /\ UNCHANGED sensorVars /\ Publish("FAULT", FALSE)
    /\ UNCHANGED <<attempt, samples, s_yaw_cal, requestVars, imu_ready, ghostVars>>

-----------------------------------------------------------------------------
(* service_yaw_requests: cancel, then start.                               *)

\* ICM45688_MSPM0_SetGyroScale leaves the scale alone if there is none to set.
GyroScale(s) == IF s > 0 THEN s ELSE scale

\* Mutant: a cancel leaves the scale as it is.
ScaleAfterCancelKept == scale

ScaleAfterCancel ==
    IF s_yaw_cal_cancel_requested /\ s_yaw_cal.state \notin {"IDLE", "COMPLETE"}
    THEN GyroScale(s_yaw_cal.previous) ELSE scale

Serve ==
    /\ pc = "serve" /\ pc' = "wait"
    /\ s_yaw_cal_cancel_requested' = FALSE /\ s_yaw_cal_start_requested' = FALSE
    /\ IF s_yaw_cal_start_requested
       THEN /\ s_yaw_cal' = [NoCalibration EXCEPT !.state = "WAIT_STILL",
                                                  !.previous = ScaleAfterCancel]
            /\ scale' = UnitScale
            /\ restarted' = (restarted \/ (/\ s_yaw_cal.state \notin AtRest
                                           /\ ~s_yaw_cal_cancel_requested))
       ELSE /\ s_yaw_cal' = IF s_yaw_cal_cancel_requested THEN NoCalibration
                            ELSE s_yaw_cal
            /\ scale' = ScaleAfterCancel
            /\ UNCHANGED restarted
    /\ yaw' = IF s_yaw_cal_start_requested \/ s_yaw_cal_cancel_requested THEN 0
              ELSE yaw
    /\ UNCHANGED <<attempt, samples, ready, s_snapshot, imu_ready, inForce,
                   stillFor>>

-----------------------------------------------------------------------------
(* update_yaw_calibration, with the sample's attitude y.                   *)

\* scale_is_valid: from 0.85 to 1.15.
ScaleIsValid(m) == 85 * m <= 100 * UnitScale /\ 100 * UnitScale <= 115 * m

\* ++settle_samples >= YAW_CAL_SETTLE_SAMPLES
Settled == s_yaw_cal.settle + 1 >= SettleSamples

\* Mutant: a sample in motion does not start the count again.
KeepCounting(still) ==
    s_yaw_cal' = IF still THEN [s_yaw_cal EXCEPT !.settle = @ + 1] ELSE s_yaw_cal

\* A sample that does not complete the count.
Count(still) ==
    s_yaw_cal' = [s_yaw_cal EXCEPT !.settle = IF still THEN @ + 1 ELSE 0]

\* fail_yaw_calibration
Fail(cal) ==
    /\ s_yaw_cal' = [cal EXCEPT !.state = "FAILED"]
    /\ scale' = GyroScale(cal.previous)
    /\ yaw' = 0
    /\ UNCHANGED <<inForce, restarted>>

WaitStill(still, y) ==
    /\ s_yaw_cal.state = "WAIT_STILL"
    /\ IF still /\ Settled
       THEN /\ s_yaw_cal' = [s_yaw_cal EXCEPT !.state = "WAIT_POSITIVE",
                                              !.settle = 0, !.origin = 0]
            /\ yaw' = 0
       ELSE Count(still) /\ yaw' = y
    /\ UNCHANGED <<scale, inForce, restarted>>

\* The turns begin: YAW_CAL_MOTION_START_DPS in the right direction.
WaitMotion(waiting, active, turns, y) ==
    /\ s_yaw_cal.state = waiting
    /\ s_yaw_cal' = IF turns THEN [s_yaw_cal EXCEPT !.state = active]
                    ELSE s_yaw_cal
    /\ yaw' = y
    /\ UNCHANGED <<scale, inForce, restarted>>

\* At rest after 0.9 of the four turns or more.
PositiveActive(still, y) ==
    LET phase == y - s_yaw_cal.origin
        captured == still /\ 100 * phase >= 90 * FourLap
        measured == [s_yaw_cal EXCEPT !.settle = @ + 1, !.positive = phase]
    IN  /\ s_yaw_cal.state = "POSITIVE_ACTIVE"
        /\ \/ /\ ~(captured /\ Settled)
              /\ Count(captured) /\ yaw' = y
              /\ UNCHANGED <<scale, inForce, restarted>>
           \/ /\ captured /\ Settled /\ ScaleIsValid(2 * phase)
              /\ s_yaw_cal' = [measured EXCEPT !.state = "WAIT_NEGATIVE",
                                               !.settle = 0, !.origin = y]
              /\ yaw' = y
              /\ UNCHANGED <<scale, inForce, restarted>>
           \/ /\ captured /\ Settled /\ ~ScaleIsValid(2 * phase)
              /\ Fail(measured)

\* complete_yaw_calibration: both directions measured, p and n degrees.
Agree(p, n) ==
    /\ ScaleIsValid(2 * p) /\ ScaleIsValid(2 * n)
    /\ 100 * (p - n) <= p + n /\ 100 * (n - p) <= p + n
    /\ ScaleIsValid(p + n)

NegativeActive(still, y) ==
    LET phase == y - s_yaw_cal.origin
        captured == still /\ 100 * phase <= -90 * FourLap
        measured == [s_yaw_cal EXCEPT !.settle = @ + 1, !.negative = phase]
        found == s_yaw_cal.positive - phase
    IN  /\ s_yaw_cal.state = "NEGATIVE_ACTIVE"
        /\ \/ /\ ~(captured /\ Settled)
              /\ Count(captured) /\ yaw' = y
              /\ UNCHANGED <<scale, inForce, restarted>>
           \/ /\ captured /\ Settled /\ Agree(s_yaw_cal.positive, -phase)
              /\ s_yaw_cal' = [measured EXCEPT !.state = "COMPLETE", !.origin = 0]
              /\ scale' = found /\ inForce' = found /\ restarted' = FALSE
              /\ yaw' = 0
           \/ /\ captured /\ Settled /\ ~Agree(s_yaw_cal.positive, -phase)
              /\ Fail(measured)

Inactive(y) ==
    /\ s_yaw_cal.state \in AtRest
    /\ yaw' = y
    /\ UNCHANGED <<s_yaw_cal, scale, inForce, restarted>>

\* Any branch of the switch, for a sample with any attitude.
Update(still, rate, y) ==
    \/ WaitStill(still, y)
    \/ WaitMotion("WAIT_POSITIVE", "POSITIVE_ACTIVE", rate = 1, y)
    \/ PositiveActive(still, y)
    \/ WaitMotion("WAIT_NEGATIVE", "NEGATIVE_ACTIVE", rate = -1, y)
    \/ NegativeActive(still, y)
    \/ Inactive(y)

-----------------------------------------------------------------------------
(* The loop after bring-up: a sample in time, or none.                     *)

StillCounted(still) ==
    stillFor' = IF ~still THEN 0
                ELSE IF stillFor < SettleSamples THEN stillFor + 1
                ELSE stillFor

\* rate is the sign of a yaw rate past the motion threshold.
Sample ==
    /\ pc = "wait" /\ pc' = "serve"
    /\ \E still \in BOOLEAN, rate \in {-1, 0, 1}, phase \in PhaseYaws :
         /\ still => rate = 0
         /\ Update(still, rate, s_yaw_cal.origin + phase)
         /\ StillCounted(still)
    /\ UNCHANGED ready /\ Publish("READY", TRUE)
    /\ UNCHANGED <<attempt, samples, requestVars, imu_ready>>

SampleFails ==
    /\ pc = "wait" /\ pc' = "serve"
    /\ UNCHANGED sensorVars /\ Publish("READY", FALSE)
    /\ UNCHANGED <<attempt, samples, s_yaw_cal, requestVars, imu_ready, ghostVars>>

-----------------------------------------------------------------------------
(* The other tasks.                                                        *)

\* IMU_RequestYawCalibration and IMU_CancelYawCalibration, by telemetry.
RequestStart ==
    /\ pc # "serve"
    /\ s_yaw_cal_start_requested' = TRUE
    /\ UNCHANGED <<pc, attempt, samples, sensorVars, s_yaw_cal, s_snapshot,
                   s_yaw_cal_cancel_requested, imu_ready, inForce, restarted,
                   stillFor>>

RequestCancel ==
    /\ pc # "serve"
    /\ s_yaw_cal_cancel_requested' = TRUE
    /\ UNCHANGED <<pc, attempt, samples, sensorVars, s_yaw_cal, s_snapshot,
                   s_yaw_cal_start_requested, imu_ready, inForce, restarted,
                   stillFor>>

\* Mutant: the snapshot's state and status are not looked at.
ReadyFlagOnly(snapshot) == snapshot.ready

IsReady(snapshot) == snapshot.ready /\ snapshot.state = "READY" /\ snapshot.ok

\* copy_imu_snapshot, by the fast task.
CopySnapshot ==
    /\ imu_ready' = IsReady(s_snapshot)
    /\ UNCHANGED <<pc, attempt, samples, sensorVars, s_yaw_cal, requestVars,
                   s_snapshot, ghostVars>>

-----------------------------------------------------------------------------
BringUp == Attempt \/ Retry \/ CalSample \/ CalMoved \/ CalDone \/ CalFails

TaskStep == BringUp \/ Serve \/ Sample \/ SampleFails

Next == TaskStep \/ RequestStart \/ RequestCancel \/ CopySnapshot

\* The task waits for bounded times only and has a high priority: it goes on.
Spec == Init /\ [][Next]_vars /\ WF_vars(TaskStep)

-----------------------------------------------------------------------------
(* Properties.                                                             *)

Scales == Nat \ {0}

Calibrations == [state : CalStates, settle : 0 .. SettleSamples, origin : Int,
                 positive : Int, negative : Int, previous : Nat]

Snapshots == [state : {"INITIALIZING", "CALIBRATING", "READY", "FAULT"},
              ok : BOOLEAN, ready : BOOLEAN]

\* Every variable keeps its type; no stationary count passes its limit.
TypeOK ==
    /\ pc \in {"whoami", "retry", "calibrate", "serve", "wait", "fault"}
    /\ attempt \in 1 .. Retries /\ samples \in 0 .. (CalSamples - 1)
    /\ ready \in BOOLEAN /\ scale \in Scales /\ yaw \in Int
    /\ s_yaw_cal \in Calibrations
    /\ s_yaw_cal_start_requested \in BOOLEAN
    /\ s_yaw_cal_cancel_requested \in BOOLEAN
    /\ s_snapshot \in Snapshots
    /\ imu_ready \in BOOLEAN
    /\ inForce \in Scales /\ restarted \in BOOLEAN
    /\ stillFor \in 0 .. SettleSamples

\* The car may start only after the whole bring-up: the sensor was begun and
\* its gyro bias found, also if the first answers were wrong or missing.
ReadyMeansCalibrated == imu_ready => ready /\ pc \in {"serve", "wait"}

\* Outside a yaw calibration the scale in force is the one before it, or the
\* one it found: a cancel or a failure in any state puts it back, unless a
\* running calibration was restarted.
ScaleRestored ==
    (/\ pc \in {"serve", "wait"} /\ s_yaw_cal.state \in AtRest
     /\ ~restarted) => scale = inForce

\* No yaw is measured and no attitude zeroed on the move: a calibration state
\* that waits for the car to rest is left by a sample only if that sample and
\* those before it, SettleSamples in a row, found the car stationary.
LeftAtRest ==
    [][(/\ pc = "wait" /\ s_yaw_cal'.state # s_yaw_cal.state
        /\ s_yaw_cal.state \in {"WAIT_STILL", "POSITIVE_ACTIVE",
                                "NEGATIVE_ACTIVE"}) =>
            stillFor' = SettleSamples]_vars

\* Bring-up ends, in the loop or in the fault, however the sensor answers,
\* unless the gyro is moved in every static calibration.
BringUpEnds ==
    <>(pc \in {"serve", "wait", "fault"}) \/ []<><<CalMoved>>_vars

-----------------------------------------------------------------------------
(* Why the safety properties hold: the inductive invariant.                *)

InLoop == pc \in {"serve", "wait"}

\* Only the loop publishes a good READY snapshot, and only a begun sensor, whose
\* calibration succeeded, gets it there.
ReadySource ==
    /\ InLoop => ready
    /\ IsReady(s_snapshot) => InLoop
    /\ imu_ready => InLoop

\* While the scale is not the one in force, the calibration remembers that one.
ScaleKept ==
    /\ ~InLoop => inForce = ProfileScale /\ ~restarted
    /\ (InLoop /\ ~restarted) =>
         /\ s_yaw_cal.state \in AtRest => scale = inForce
         /\ s_yaw_cal.state \notin {"IDLE", "COMPLETE"} =>
                s_yaw_cal.previous = inForce

\* The count of the calibration never runs ahead of the stationary samples, and
\* is complete only when a state is left.
CountIsTrue ==
    s_yaw_cal.state \notin AtRest =>
        /\ s_yaw_cal.settle <= stillFor /\ s_yaw_cal.settle < SettleSamples
        /\ s_yaw_cal.state \in {"WAIT_POSITIVE", "WAIT_NEGATIVE"} =>
              s_yaw_cal.settle = 0

\* The three parts, each of which a single state of the task can break long
\* before an observer sees it.
ImuInv == TypeOK /\ ReadySource /\ ScaleKept /\ CountIsTrue

=============================================================================
