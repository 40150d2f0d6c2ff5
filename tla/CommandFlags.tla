---------------------------- MODULE CommandFlags ----------------------------
(***************************************************************************)
(* How commands get from the UART receive interrupt to the tasks           *)
(* (telemetry.c).  The interrupt posts a command by setting a flag that    *)
(* its consumer reads and then clears, in two accesses without a critical  *)
(* section: control consumes stop, start and $DUTY, telemetry, of lower    *)
(* priority, the yaw-calibration command.  A $DUTY leaves its arguments in *)
(* a shared record of two words, which the consumer copies; nothing in the *)
(* source keeps a compiler from loading them one after the other.          *)
(*                                                                         *)
(* The interrupt runs between any two steps of a task and no task runs     *)
(* within it, so each received command is one step.                        *)
(***************************************************************************)
EXTENDS Integers

CONSTANT MaxDuty        \* bound: number of $DUTY requests received

ASSUME MaxDutyAssumption == MaxDuty \in Nat

VARIABLES
    s_stop_request, s_start_request, s_duty_request_pending,
    s_duty_request,     \* [pair, hold]: the number of the $DUTY each word is from
    s_imu_cal_request,  \* TelemetryImuCalRequest_t
    state,              \* AppState_t
    imu_ready,
    debug,              \* the [pair, hold] last given to the chassis
    cpc,                \* control task: the next access of App_State_Tick
    cvalue,             \* consume_flag's local value, FALSE once used
    duty,               \* App_State_Tick's local copy of the request, while it is used
    tpc, tvalue,        \* telemetry task, likewise
    calServed,          \* the calibration command last handed to the IMU service
    \* Ghosts.
    waiting,            \* waiting[k]: the last command k received is still unread
    missed,             \* missed[k]: a command k arrived between read and clear
    dutyNo              \* $DUTY requests received

flagVars == <<s_stop_request, s_start_request, s_duty_request_pending,
              s_duty_request, s_imu_cal_request>>
ctlVars  == <<state, debug, cpc, cvalue, duty>>
telVars  == <<tpc, tvalue, calServed>>
ghostVars == <<waiting, missed, dutyNo>>
mailVars == <<flagVars, imu_ready, ctlVars, telVars, ghostVars>>

Kinds == {"stop", "start", "duty", "cal"}
CalCommands == {"START", "CANCEL"}
NoDuty == [pair |-> 0, hold |-> 0]

FlagsInit ==
    /\ s_stop_request = FALSE /\ s_start_request = FALSE
    /\ s_duty_request_pending = FALSE /\ s_duty_request = NoDuty
    /\ s_imu_cal_request = "NONE"
    /\ state = "IDLE" /\ imu_ready = FALSE /\ debug = NoDuty
    /\ cpc = "delay" /\ cvalue = FALSE /\ duty = NoDuty
    /\ tpc = "delay" /\ tvalue = "NONE" /\ calServed = "NONE"
    /\ waiting = [k \in Kinds |-> FALSE]
    /\ missed = [k \in Kinds |-> FALSE]
    /\ dutyNo = 0

-----------------------------------------------------------------------------
(* The receive interrupt: Telemetry_OnRxByte with a byte that completes a  *)
(* command.                                                                *)

\* The consumer of k has read the flag and not yet cleared it.
InWindow(k) ==
    CASE k = "stop"  -> cpc = "stop_clear"
      [] k = "start" -> cpc = "start_clear"
      [] k = "duty"  -> cpc \in {"duty_pair", "duty_hold", "duty_clear"}
      [] k = "cal"   -> tpc = "clear"

Posted(k) ==
    /\ waiting' = [waiting EXCEPT ![k] = TRUE]
    /\ missed' = [missed EXCEPT ![k] = @ \/ InWindow(k)]

\* 'x' and $STOP
RxStop ==
    /\ s_stop_request' = TRUE
    /\ Posted("stop")
    /\ UNCHANGED <<s_start_request, s_duty_request_pending, s_duty_request,
                   s_imu_cal_request, imu_ready, ctlVars, telVars, dutyNo>>

\* 's', $START and $RUN
RxStart ==
    /\ s_start_request' = TRUE
    /\ Posted("start")
    /\ UNCHANGED <<s_stop_request, s_duty_request_pending, s_duty_request,
                   s_imu_cal_request, imu_ready, ctlVars, telVars, dutyNo>>

\* $DUTY: handle_duty
RxDuty ==
    /\ dutyNo < MaxDuty
    /\ dutyNo' = dutyNo + 1
    /\ s_duty_request' = [pair |-> dutyNo', hold |-> dutyNo']
    /\ s_duty_request_pending' = TRUE
    /\ Posted("duty")
    /\ UNCHANGED <<s_stop_request, s_start_request, s_imu_cal_request,
                   imu_ready, ctlVars, telVars>>

\* $IMUCAL,START and $IMUCAL,CANCEL
RxImuCal(command) ==
    /\ s_imu_cal_request' = command
    /\ Posted("cal")
    /\ UNCHANGED <<s_stop_request, s_start_request, s_duty_request_pending,
                   s_duty_request, imu_ready, ctlVars, telVars, dutyNo>>

\* The fast task's copy_imu_snapshot, which preempts control at any point.
ImuSnapshot ==
    /\ imu_ready' = ~imu_ready
    /\ UNCHANGED <<flagVars, ctlVars, telVars, ghostVars>>

-----------------------------------------------------------------------------
(* The control task: App_State_Tick, one shared access per step.           *)

\* A consumer has read k: if the flag was set, every k received is accounted for.
ReadBy(k, value) ==
    /\ waiting' = [waiting EXCEPT ![k] = @ /\ ~value]
    /\ missed' = [missed EXCEPT ![k] = @ /\ ~value]

ReadStop ==
    /\ cpc = "delay"
    /\ cvalue' = s_stop_request
    /\ ReadBy("stop", s_stop_request)
    /\ cpc' = "stop_clear"
    /\ UNCHANGED <<flagVars, imu_ready, state, debug, duty, telVars, dutyNo>>

\* Mutant: serving a stop forgets a pending start.
ClearStopAndStart ==
    /\ cpc = "stop_clear"
    /\ s_stop_request' = FALSE /\ s_start_request' = FALSE
    /\ state' = IF cvalue THEN "IDLE" ELSE state
    /\ cpc' = "start_read" /\ cvalue' = FALSE
    /\ UNCHANGED <<s_duty_request_pending, s_duty_request, s_imu_cal_request,
                   imu_ready, debug, duty, telVars, ghostVars>>

\* Mutant: `else if', no other request is looked at after a stop.
ClearStopElseIf ==
    /\ cpc = "stop_clear"
    /\ s_stop_request' = FALSE
    /\ state' = IF cvalue THEN "IDLE" ELSE state
    /\ cpc' = (IF cvalue THEN "delay" ELSE "start_read") /\ cvalue' = FALSE
    /\ UNCHANGED <<s_start_request, s_duty_request_pending, s_duty_request,
                   s_imu_cal_request, imu_ready, debug, duty, telVars, ghostVars>>

ClearStop ==
    /\ cpc = "stop_clear"
    /\ s_stop_request' = FALSE
    /\ state' = IF cvalue THEN "IDLE" ELSE state
    /\ cpc' = "start_read" /\ cvalue' = FALSE
    /\ UNCHANGED <<s_start_request, s_duty_request_pending, s_duty_request,
                   s_imu_cal_request, imu_ready, debug, duty, telVars, ghostVars>>

ReadStart ==
    /\ cpc = "start_read"
    /\ cvalue' = s_start_request
    /\ ReadBy("start", s_start_request)
    /\ cpc' = "start_clear"
    /\ UNCHANGED <<flagVars, imu_ready, state, debug, duty, telVars, dutyNo>>

\* Mutant: a start is obeyed without a calibrated IMU.
ClearStartUnready ==
    /\ cpc = "start_clear"
    /\ s_start_request' = FALSE
    /\ state' = IF cvalue THEN "RUN" ELSE state
    /\ cpc' = "duty_check" /\ cvalue' = FALSE
    /\ UNCHANGED <<s_stop_request, s_duty_request_pending, s_duty_request,
                   s_imu_cal_request, imu_ready, debug, duty, telVars, ghostVars>>

ClearStart ==
    /\ cpc = "start_clear"
    /\ s_start_request' = FALSE
    /\ state' = IF cvalue /\ imu_ready THEN "RUN" ELSE state
    /\ cpc' = "duty_check" /\ cvalue' = FALSE
    /\ UNCHANGED <<s_stop_request, s_duty_request_pending, s_duty_request,
                   s_imu_cal_request, imu_ready, debug, duty, telVars, ghostVars>>

\* if (!s_duty_request_pending) return 0
CheckDuty ==
    /\ cpc = "duty_check"
    /\ ReadBy("duty", s_duty_request_pending)
    /\ cpc' = IF s_duty_request_pending THEN "duty_pair" ELSE "delay"
    /\ UNCHANGED <<flagVars, imu_ready, state, debug, cvalue, duty, telVars, dutyNo>>

\* *request = s_duty_request: the word of the two duties, the word of the hold.
CopyDuty(word, from, to) ==
    /\ cpc = from
    /\ duty' = [duty EXCEPT ![word] = s_duty_request[word]]
    /\ cpc' = to
    /\ UNCHANGED <<flagVars, imu_ready, state, debug, cvalue, telVars, ghostVars>>

CopyDutyPair == CopyDuty("pair", "duty_pair", "duty_hold")
CopyDutyHold == CopyDuty("hold", "duty_hold", "duty_clear")

\* Mutant: the request is not marked as served.
ClearDutyStillPending ==
    /\ cpc = "duty_clear"
    /\ state' = "IDLE"
    /\ debug' = duty /\ duty' = NoDuty
    /\ cpc' = "delay"
    /\ UNCHANGED <<flagVars, imu_ready, cvalue, telVars, ghostVars>>

\* s_duty_request_pending = 0; then IDLE and Control_Chassis_SetDebugDuty.
ClearDuty ==
    /\ cpc = "duty_clear"
    /\ s_duty_request_pending' = FALSE
    /\ state' = "IDLE"
    /\ debug' = duty /\ duty' = NoDuty
    /\ cpc' = "delay"
    /\ UNCHANGED <<s_stop_request, s_start_request, s_duty_request,
                   s_imu_cal_request, imu_ready, cvalue, telVars, ghostVars>>

-----------------------------------------------------------------------------
(* The telemetry task: Telemetry_ConsumeImuCalRequest.                     *)

TelRuns == cpc = "delay"

ReadCal ==
    /\ TelRuns /\ tpc = "delay"
    /\ tvalue' = s_imu_cal_request
    /\ ReadBy("cal", s_imu_cal_request # "NONE")
    /\ tpc' = "clear"
    /\ UNCHANGED <<flagVars, imu_ready, ctlVars, calServed, dutyNo>>

\* The clearing, and IMU_RequestYawCalibration or IMU_CancelYawCalibration.
ClearCal ==
    /\ TelRuns /\ tpc = "clear"
    /\ s_imu_cal_request' = "NONE"
    /\ calServed' = IF tvalue = "NONE" THEN calServed ELSE tvalue
    /\ tpc' = "delay" /\ tvalue' = "NONE"
    /\ UNCHANGED <<s_stop_request, s_start_request, s_duty_request_pending,
                   s_duty_request, imu_ready, ctlVars, ghostVars>>

-----------------------------------------------------------------------------
Receive == RxStop \/ RxStart \/ RxDuty \/ \E command \in CalCommands : RxImuCal(command)

ControlStep ==
    \/ ReadStop \/ ClearStop \/ ReadStart \/ ClearStart
    \/ CheckDuty \/ CopyDutyPair \/ CopyDutyHold \/ ClearDuty

TelemetryStep == ReadCal \/ ClearCal

FlagsNext == Receive \/ ImuSnapshot \/ ControlStep \/ TelemetryStep

\* Both tasks are periodic and are run again and again (SystemHealth shows what
\* happens otherwise).  Telemetry is ready only while control waits, so it needs
\* strong fairness: control does not use up the processor.
FlagsSpec ==
    /\ FlagsInit /\ [][FlagsNext]_mailVars
    /\ WF_mailVars(ControlStep) /\ SF_mailVars(TelemetryStep)

-----------------------------------------------------------------------------
(* Properties.                                                             *)

DutyNumbers == [pair : 0 .. MaxDuty, hold : 0 .. MaxDuty]

\* The flags, local copies and program counters keep their types.
FlagsTypeOK ==
    /\ s_stop_request \in BOOLEAN /\ s_start_request \in BOOLEAN
    /\ s_duty_request_pending \in BOOLEAN /\ s_duty_request \in DutyNumbers
    /\ s_imu_cal_request \in CalCommands \cup {"NONE"}
    /\ state \in {"IDLE", "RUN"} /\ imu_ready \in BOOLEAN
    /\ debug \in DutyNumbers /\ duty \in DutyNumbers
    /\ cpc \in {"delay", "stop_clear", "start_read", "start_clear", "duty_check",
                "duty_pair", "duty_hold", "duty_clear"}
    /\ cvalue \in BOOLEAN
    /\ tpc \in {"delay", "clear"} /\ tvalue \in CalCommands \cup {"NONE"}
    /\ calServed \in CalCommands \cup {"NONE"}
    /\ waiting \in [Kinds -> BOOLEAN] /\ missed \in [Kinds -> BOOLEAN]
    /\ dutyNo \in 0 .. MaxDuty

\* The flag of k is set.
Pending(k) ==
    CASE k = "stop"  -> s_stop_request
      [] k = "start" -> s_start_request
      [] k = "duty"  -> s_duty_request_pending
      [] k = "cal"   -> s_imu_cal_request # "NONE"

\* A command is lost only in one place: an unread command whose flag is down
\* arrived between the read and the clearing of that very flag.  Neither the
\* other commands nor the other consumer can lose it.
LostOnlyInWindow == \A k \in Kinds : waiting[k] => Pending(k) \/ missed[k]

\* No $DUTY is served twice or after a newer one, and a mixed request combines
\* the duties of one with the hold time of a newer one, never the reverse.
DutyServedInOrder ==
    [][ClearDuty => /\ debug'.pair > debug.pair /\ debug'.hold > debug.hold
                    /\ debug'.hold >= debug'.pair]_mailVars

\* A command that did not fall into the window is read in the end, although the
\* consumers of the four kinds share one processor and two of them a variable.
CommandIsRead == \A k \in Kinds : (waiting[k] /\ ~missed[k]) ~> (~waiting[k] \/ missed[k])

-----------------------------------------------------------------------------
(* The refinement of Mailbox.                                              *)

\* The consumer of k works on a command that it has read.
Taken(k) ==
    CASE k \in {"stop", "start"} -> InWindow(k) /\ cvalue
      [] k = "duty" -> InWindow(k)
      [] k = "cal"  -> InWindow(k) /\ tvalue # "NONE"

\* While its flag still stands for the command taken, a newer one is told from
\* it by waiting[k]; otherwise the flag tells.
Unseen(k) == IF Taken(k) THEN waiting[k] ELSE Pending(k)

InBox(k) ==
    IF ~Unseen(k) THEN "none" ELSE IF k = "cal" THEN s_imu_cal_request ELSE k
InHand(k) == IF ~Taken(k) THEN "none" ELSE IF k = "cal" THEN tvalue ELSE k

Box == INSTANCE Mailbox WITH
    mail <- [k \in Kinds |-> InBox(k)],
    hand <- [k \in Kinds |-> InHand(k)],
    busy <- {k \in Kinds : InWindow(k)},
    received <- dutyNo

\* Whatever the interrupt falls between, each command has its effect at most
\* once, the effect of the last one received at the time, and nothing but a
\* command that was received and read has any.
KeepsMailbox == Box!Spec

=============================================================================
