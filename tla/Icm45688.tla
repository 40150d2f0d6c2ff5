------------------------------ MODULE Icm45688 ------------------------------
(***************************************************************************)
(* The driver of the motion sensor (modules/imu/device/dev_icm45688.c) on  *)
(* top of its SPI transfers, called in the order of the IMU task           *)
(* (modules/imu/imu_service.c): configure, identify, begin, calibrate at   *)
(* rest, then one update per data-ready interrupt.                         *)
(*                                                                         *)
(* A sample is known by what the driver's thresholds tell apart, angles    *)
(* and biases by whether they change.  The sensor produces samples on its  *)
(* own clock and latches data-ready until its status register is read.     *)
(***************************************************************************)
EXTENDS SpiBus

CONSTANTS
  Hold,         \* stationary_hold_samples
  LearnSamples, \* ICM45688_BIAS_LEARN_STATIONARY_SAMPLES
  ConfigCalls,  \* the calls of Begin that set up the sensor
  Headings      \* the yaw angles told apart, 0 the one after a reset

ASSUME IcmAssumption ==
  /\ Hold \in Nat \ {0}
  /\ LearnSamples \in Nat \ {0}
  /\ ConfigCalls \in Nat \ {0}
  /\ 0 \in Headings

VARIABLES
  dev,     \* the icm45688_mspm0_t handle
  pc,      \* the register access the IMU task waits for, or where it stands
  phase,   \* "start", "calibrating", "ready" or "fault"
  calls,   \* set-up calls of Begin still to make
  status,  \* the status Begin accumulates
  drdy,    \* the sensor's latched data-ready status and interrupt pin
  setup,   \* set-up calls the sensor carried out since its reset
  fresh,   \* the sensor holds a sample that was never read
  taken,   \* data-ready was read, the data were not yet
  early,   \* the newest sample came between those two reads
  again,   \* the data just read had been read before
  still,   \* samples in a row within the stationary thresholds
  slow     \* samples in a row slow enough to learn from

task == <<dev, pc, phase, calls, status>>
chip == <<drdy, setup, fresh, taken, early, again>>
rest == <<still, slow>>
vars == <<spi, task, chip, rest>>

(* Turn rates: within YAW_LOCK_GYRO_DPS, within BIAS_LEARN_GYRO_DPS, within *)
(* the stationary threshold, above it.  Accelerations: within the stationary*)
(* window around 1 g, or not.                                               *)
Gyros == {"lock", "slow", "quiet", "turning"}
Accels == {"gravity", "other"}

Longest == Hold + LearnSamples + 1
OneMore(n) == IF n < Longest THEN n + 1 ELSE n

(* The state of the handle that later steps read: memset and defaults. *)
InitHandleSPI ==
  [ready |-> FALSE, stationary |-> FALSE, count |-> 0, auto |-> FALSE,
   learn |-> 0, bias |-> 0, lpf |-> FALSE, yaw |-> 0]

(* The setters of the handle and its resets. *)
SetStationaryDetection(d) == [d EXCEPT !.stationary = FALSE, !.count = 0, !.learn = 0]
SetGyroBias(d, b) == [d EXCEPT !.bias = b, !.learn = 0]
SetGyroBiasAutoUpdate(d, on) == [d EXCEPT !.auto = on, !.learn = 0]
ResetSampleLowPass(d) == [d EXCEPT !.lpf = FALSE]
ResetAttitude(d) == [d EXCEPT !.yaw = 0]

(* clear_measurements, with what Begin does to ready. *)
ClearMeasurements(d) ==
  ResetAttitude([d EXCEPT !.ready = FALSE, !.stationary = FALSE, !.count = 0,
                          !.learn = 0, !.lpf = FALSE])

(* Both ends of calibrate_gyro_bias. *)
StartCalibration(d) ==
  ResetAttitude(ResetSampleLowPass(SetGyroBiasAutoUpdate(SetGyroBias(d, 0), FALSE)))
EndCalibration(d) ==
  ResetAttitude(ResetSampleLowPass(SetGyroBiasAutoUpdate(SetGyroBias(d, 1), TRUE)))

(* A new estimate of the bias, never equal to the last one. *)
Learned(b) == IF b = 1 THEN 2 ELSE 1

(* The acceleration after the low pass: the raw one when the filter starts, *)
(* any mixture with the earlier ones later.                                 *)
Filtered(d, raw) == IF d.lpf THEN Accels ELSE {raw}

IsQuiet(g, a) == g # "turning" /\ a = "gravity"
IsSlow(g) == g \in {"lock", "slow"}

(* Mutant: One sample more than the hold time is needed. *)
UpdateStationaryLate(d, g, a) ==
  LET n == IF ~IsQuiet(g, a) THEN 0
           ELSE IF d.count <= Hold THEN d.count + 1 ELSE d.count
  IN  [d EXCEPT !.count = n, !.stationary = (n > Hold)]

UpdateStationary(d, g, a) ==
  LET n == IF ~IsQuiet(g, a) THEN 0
           ELSE IF d.count < Hold THEN d.count + 1 ELSE d.count
  IN  [d EXCEPT !.count = n, !.stationary = (n >= Hold)]

(* Mutant: A sample too fast to learn from does not start the count over. *)
UpdateBiasKeeps(d, g) ==
  IF ~d.auto \/ ~d.stationary \/ ~IsSlow(g) THEN d
  ELSE IF d.learn < LearnSamples THEN [d EXCEPT !.learn = d.learn + 1]
  ELSE [d EXCEPT !.bias = Learned(d.bias)]

UpdateBias(d, g) ==
  IF ~d.auto THEN d
  ELSE IF ~d.stationary \/ ~IsSlow(g) THEN [d EXCEPT !.learn = 0]
  ELSE IF d.learn < LearnSamples THEN [d EXCEPT !.learn = d.learn + 1]
  ELSE [d EXCEPT !.bias = Learned(d.bias)]

(* A bias just learned is taken out of the turn rate that is left. *)
Corrected(before, after, g) ==
  IF after.bias = before.bias THEN {g} ELSE {"lock", "slow"}

YawShouldLock(d, g) == d.stationary /\ g = "lock"

(* update_mahony_attitude: the integrated yaw is thrown away under lock. *)
UpdateAttitude(d, g) ==
  {[d EXCEPT !.yaw = y] : y \in IF YawShouldLock(d, g) THEN {d.yaw} ELSE Headings}

(* ICM45688_MSPM0_Update after a successful read; h is the rate that the     *)
(* attitude is integrated with.                                             *)
Updated(d, g, h, a) ==
  LET e == UpdateBias(UpdateStationary([d EXCEPT !.lpf = TRUE], g, a), g)
  IN  IF h \in Corrected(d, e, g) THEN UpdateAttitude(e, h) ELSE {}

-----------------------------------------------------------------------------
Init ==
  /\ SpiInit
  /\ dev = InitHandleSPI
  /\ pc = "configure"
  /\ phase = "start"
  /\ calls = 0
  /\ status = TRUE
  /\ drdy = FALSE
  /\ setup = 0
  /\ fresh = FALSE /\ taken = FALSE /\ early = FALSE /\ again = FALSE
  /\ still = 0 /\ slow = 0

Goto(p) == pc' = p

(* InitHandleSPI, the setters, and the first access of the attempt. *)
Configure ==
  /\ pc = "configure"
  /\ Call(1)
  /\ dev' = SetStationaryDetection(InitHandleSPI)
  /\ still' = 0 /\ slow' = 0
  /\ Goto("whoami")
  /\ UNCHANGED <<phase, calls, status, chip>>

(* The attempt failed: IMU_Service_Task tries again, or gives up. *)
AttemptFails ==
  /\ \/ Goto("configure") /\ UNCHANGED phase
     \/ Goto("stop") /\ phase' = "fault"
  /\ UNCHANGED <<spi, dev, calls, status, chip, rest>>

(* IMU_Service_Task reads WHO_AM_I.  A wrong answer ends the attempts too, *)
(* and the calibration is tried with a sensor that is not ready.           *)
WhoAmI(right) ==
  /\ pc = "whoami" /\ at = "idle"
  /\ IF ~ok THEN AttemptFails
     ELSE IF right
     THEN /\ dev' = ClearMeasurements(dev)
          /\ Call(1)
          /\ Goto("drive")
          /\ UNCHANGED <<phase, calls, status, chip, rest>>
     ELSE /\ dev' = StartCalibration(dev)
          /\ phase' = "calibrating"
          /\ Goto("poll")
          /\ UNCHANGED <<spi, calls, status, chip, rest>>

(* Begin: the slew rate is written, or the attempt fails. *)
BeginDrive ==
  /\ pc = "drive" /\ at = "idle"
  /\ IF ok THEN /\ Call(1)
                /\ Goto("begin_whoami")
                /\ UNCHANGED <<dev, phase, calls, status, chip, rest>>
     ELSE AttemptFails

(* Begin: WHO_AM_I again, then the soft reset and the first set-up call. *)
BeginWhoAmI(right) ==
  /\ pc = "begin_whoami" /\ at = "idle"
  /\ IF ok /\ right
     THEN /\ Call(1)
          /\ Goto("setup")
          /\ calls' = ConfigCalls
          /\ status' = TRUE
          /\ setup' = 0
          /\ UNCHANGED <<dev, phase, drdy, fresh, taken, early, again, rest>>
     ELSE AttemptFails

(* Mutant: Begin keeps the status of the last set-up call only. *)
BeginSetupLast ==
  /\ pc = "setup" /\ at = "idle"
  /\ calls > 0
  /\ calls' = calls - 1
  /\ status' = ok
  /\ setup' = IF ok THEN setup + 1 ELSE setup
  /\ IF calls > 1 THEN Call(1) ELSE UNCHANGED spi
  /\ UNCHANGED <<dev, pc, phase, drdy, fresh, taken, early, again, rest>>

(* Begin: the status of each set-up call is accumulated; none is skipped. *)
BeginSetup ==
  /\ pc = "setup" /\ at = "idle"
  /\ calls > 0
  /\ calls' = calls - 1
  /\ status' = (status /\ ok)
  /\ setup' = IF ok THEN setup + 1 ELSE setup
  /\ IF calls > 1 THEN Call(1) ELSE UNCHANGED spi
  /\ UNCHANGED <<dev, pc, phase, drdy, fresh, taken, early, again, rest>>

BeginStatus ==
  /\ pc = "setup" /\ at = "idle"
  /\ calls = 0
  /\ IF status THEN /\ Call(1)
                    /\ Goto("int_status")
                    /\ UNCHANGED <<dev, phase, calls, status, chip, rest>>
     ELSE AttemptFails

(* Begin ends: the sensor is ready and IMU_Service_Task calibrates it. *)
BeginReady ==
  /\ pc = "int_status" /\ at = "idle"
  /\ IF ok THEN /\ dev' = StartCalibration([dev EXCEPT !.ready = TRUE])
                /\ phase' = "calibrating"
                /\ Goto("poll")
                /\ UNCHANGED <<spi, calls, status, chip, rest>>
     ELSE AttemptFails

-----------------------------------------------------------------------------
(* An error of wait_and_update_imu: fatal while calibrating, published with *)
(* the old values later.                                                    *)
UpdateFails ==
  /\ taken' = FALSE
  /\ IF phase = "calibrating"
     THEN Goto("stop") /\ phase' = "fault"
     ELSE Goto("poll") /\ UNCHANGED phase
  /\ UNCHANGED <<spi, dev, calls, status, drdy, setup, fresh, early, again, rest>>

(* Mutant: The sample is read whenever the loop comes around. *)
PollAlways ==
  /\ pc = "poll"
  /\ dev.ready
  /\ Call(1)
  /\ Goto("drdy")
  /\ again' = FALSE
  /\ UNCHANGED <<dev, phase, calls, status, drdy, setup, fresh, taken, early, rest>>

(* wait_and_update_imu: the data-ready pin is high. *)
Poll ==
  /\ pc = "poll" /\ drdy
  /\ dev.ready
  /\ Call(1)
  /\ Goto("drdy")
  /\ again' = FALSE
  /\ UNCHANGED <<dev, phase, calls, status, drdy, setup, fresh, taken, early, rest>>

(* The sensor is not ready, or the pin stays low until the timeout. *)
PollFails ==
  /\ pc = "poll"
  /\ dev.ready => ~drdy
  /\ UpdateFails

(* GetDataReady returned; the pin and the status are the same latch. *)
DataReady ==
  /\ pc = "drdy" /\ at = "idle"
  /\ IF ok THEN /\ Call(2)
                /\ Goto("data")
                /\ UNCHANGED <<dev, phase, calls, status, chip, rest>>
     ELSE UpdateFails

(* inv_imu_get_register_data failed: nothing else of the handle changes. *)
DataFails ==
  /\ pc = "data" /\ at = "idle"
  /\ ~ok
  /\ UpdateFails

(* What the calibration does after a sample: goes on, starts over because *)
(* the sensor moved, or ends.                                             *)
AfterSample(d) ==
  IF phase = "ready" THEN dev' = d /\ UNCHANGED phase
  ELSE \/ dev' = d /\ UNCHANGED phase
       \/ dev' = StartCalibration(d) /\ UNCHANGED phase
       \/ dev' = EndCalibration(d) /\ phase' = "ready"

(* ICM45688_MSPM0_Update with a sample of turn rate g, h once the bias is   *)
(* learned, and acceleration raw.                                           *)
Sample(g, h, raw) ==
  /\ pc = "data" /\ at = "idle"
  /\ ok
  /\ \E a \in Filtered(dev, raw) :
       /\ \E d \in Updated(dev, g, h, a) : AfterSample(d)
       /\ still' = IF IsQuiet(g, a) THEN OneMore(still) ELSE 0
       /\ slow' = IF IsSlow(g) THEN OneMore(slow) ELSE 0
  /\ taken' = FALSE
  /\ Goto("poll")
  /\ UNCHANGED <<spi, calls, status, drdy, setup, fresh, early, again>>

(* update_yaw_calibration zeroes the attitude between two samples. *)
ZeroAttitude ==
  /\ pc = "poll" /\ phase = "ready"
  /\ dev' = ResetAttitude(dev)
  /\ UNCHANGED <<spi, pc, phase, calls, status, chip, rest>>

-----------------------------------------------------------------------------
(* The sensor's clock: a new sample, and data-ready. *)
NewSample ==
  /\ setup > 0
  /\ drdy' = TRUE
  /\ fresh' = TRUE
  /\ early' = taken
  /\ UNCHANGED <<spi, task, setup, taken, again, rest>>

(* A byte is shifted.  The last one of a status read clears the latch, of a *)
(* data read it completes the sample.                                       *)
Transfer ==
  /\ Shift
  /\ LET seen == selected /\ shifting = "own" /\ left = 1
         reads == seen /\ pc = "data"
     IN  /\ drdy' = IF seen /\ pc \in {"drdy", "int_status"} THEN FALSE ELSE drdy
         /\ taken' = IF reads THEN FALSE ELSE taken \/ (seen /\ pc = "drdy")
         /\ again' = IF reads THEN ~fresh ELSE again
         /\ fresh' = IF reads THEN FALSE ELSE fresh
  /\ UNCHANGED <<task, setup, early, rest>>

SpiStep == Driver /\ UNCHANGED <<task, chip, rest>>

Next ==
  \/ Configure
  \/ \E right \in BOOLEAN : WhoAmI(right) \/ BeginWhoAmI(right)
  \/ BeginDrive
  \/ BeginSetup
  \/ BeginStatus
  \/ BeginReady
  \/ Poll
  \/ PollFails
  \/ DataReady
  \/ DataFails
  \/ \E g, h \in Gyros, raw \in Accels : Sample(g, h, raw)
  \/ ZeroAttitude
  \/ SpiStep
  \/ Transfer
  \/ NewSample

Spec == Init /\ [][Next]_vars

-----------------------------------------------------------------------------
(* Every field stays in its range; the counters keep their limits. *)
TypeOK ==
  /\ SpiTypeOK
  /\ dev \in [ready : BOOLEAN, stationary : BOOLEAN, count : 0..Hold, auto : BOOLEAN,
             learn : 0..LearnSamples, bias : 0..2, lpf : BOOLEAN, yaw : Headings]
  /\ pc \in {"configure", "whoami", "drive", "begin_whoami", "setup", "int_status",
            "poll", "drdy", "data", "stop"}
  /\ phase \in {"start", "calibrating", "ready", "fault"}
  /\ calls \in 0..ConfigCalls /\ setup \in 0..ConfigCalls
  /\ \A b \in {status, drdy, fresh, taken, early, again} : b \in BOOLEAN
  /\ still \in 0..Longest /\ slow \in 0..Longest

(* Every byte the driver takes as an answer was shifted for this access: a  *)
(* byte that comes after its access timed out (drv_spi.c:69) is never taken *)
(* for the value of the next register.                                      *)
OwnAnswers == "old" \notin answers

(* The sensor sees whole accesses only: between two accesses it is not      *)
(* selected, whatever failed, and while it is selected no byte of an        *)
(* earlier access is shifted (drv_spi.c:87-141).                            *)
WholeFrames ==
  /\ at \in {"idle", "wait", "drain", "select"} => ~selected
  /\ selected => shifting # "old"

(* A handle is ready only if the sensor carried out every set-up call of    *)
(* Begin since its reset, although Begin goes on after one that failed      *)
(* (dev_icm45688.c:751).                                                    *)
ReadyMeansConfigured == dev.ready => setup = ConfigCalls

(* No sample is integrated twice, except one that came between the reading  *)
(* of data-ready and of the data (imu_service.c:118-124): that one is       *)
(* announced again after it was used.                                       *)
TwiceOnlyIfEarly == [][again' => again \/ early]_vars

(* The bias is re-estimated only from a sensor that has been at rest for    *)
(* the hold time and all of the learning time, without a sample in between  *)
(* that was not (dev_icm45688.c:434-466); the calibration's own settings    *)
(* start that time over.                                                    *)
BiasLearnedAtRest ==
  [][pc = "data" /\ phase = "ready" /\ dev'.bias # dev.bias
       => still' >= Hold + LearnSamples /\ slow' > LearnSamples]_vars

(* The yaw of a car at rest does not drift: once Hold samples in a row were *)
(* within the thresholds, one within the lock threshold leaves it as it was *)
(* (dev_icm45688.c:137, 340, 386).                                          *)
YawHeldAtRest ==
  [][\A g \in Gyros, raw \in Accels :
       Sample(g, "lock", raw) /\ still' >= Hold /\ phase = "ready"
         => dev'.yaw = dev.yaw]_vars
=============================================================================
