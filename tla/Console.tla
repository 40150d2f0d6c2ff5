------------------------------ MODULE Console ------------------------------
(***************************************************************************)
(* The text console (telemetry.c).  The receive interrupt assembles a line *)
(* in s_cmd_buf, byte by byte, and executes it; the telemetry task emits   *)
(* the streams the settings ask for.  The interrupt can come between any   *)
(* two accesses of the task to a setting.  It is enabled before the        *)
(* streams are bound to their values.                                      *)
(***************************************************************************)
EXTENDS Commands

CONSTANTS
    Wrap,           \* 2^32, of the millisecond counter
    Poll            \* bound: ms between two calls of Telemetry_Tick

ASSUME TimeAssumption ==
    /\ Poll \in Nat \ {0}
    /\ Wrap \in Nat /\ Second + Poll <= Wrap

VARIABLES
    s_cmd_buf,      \* its first s_cmd_idx bytes
    settings,       \* s_enabled, s_raw_line_enabled, s_raw_imu_enabled, s_period_ms
    valid,          \* streams that are bound
    primed,         \* s_emit_primed
    elapsed,        \* ts_ms - s_last_emit_ms, modulo 2^32
    pc, enabled,    \* telemetry task: what it does next, its reading of s_enabled
    \* Ghosts.
    long,           \* the line received so far did not fit
    posted,         \* the request that the last byte posted
    tickAge,        \* time since Telemetry_Tick was last called
    quietFor,       \* time since the last $S record while s_enabled was set
    late            \* $S and $L records since s_enabled was cleared

lineVars == <<s_cmd_buf, settings, long, posted>>
streamVars == <<valid, primed, pc, enabled>>
vars == <<lineVars, streamVars, elapsed, tickAge, quietFor, late>>

Streams == {"chassis", "line", "imu"}

\* Longest time without a record of a stream that is on: a poll that missed the
\* end of a period before the wrap, a period, the poll that finds it over, and
\* its records.
QuietLimit == Second + 3 * Poll - 1
Older(age) == IF age > QuietLimit THEN age ELSE age + 1

Init ==
    /\ s_cmd_buf = <<>> /\ settings = AtReset
    /\ valid = {} /\ primed = FALSE /\ elapsed = 0
    /\ pc = "reset" /\ enabled = FALSE
    /\ long = FALSE /\ posted = NoRequest
    /\ tickAge = 0 /\ quietFor = 0 /\ late = 0

-----------------------------------------------------------------------------
(* The receive interrupt: Telemetry_OnRxByte.                              *)

\* BSP_Uart_Init comes after Telemetry_Init has set the callback.
Listening == pc # "reset"

RxAtOnce(request) ==
    /\ Listening
    /\ posted' = request
    /\ UNCHANGED <<s_cmd_buf, settings, long, streamVars, elapsed, tickAge,
                   quietFor, late>>

RxStart == RxAtOnce("start")                    \* 's'
RxStop == RxAtOnce("stop")                      \* 'x'
RxCarriageReturn == RxAtOnce(NoRequest)         \* '\r'

\* Mutant: one byte too many, none left for the 0 that ends the line.
RxSymbolOneMore(b) ==
    /\ Listening
    /\ IF Len(s_cmd_buf) < CMD_BUF_LEN
       THEN s_cmd_buf' = Append(s_cmd_buf, b) /\ long' = long
       ELSE s_cmd_buf' = <<>> /\ long' = TRUE
    /\ posted' = NoRequest
    /\ UNCHANGED <<settings, streamVars, elapsed, tickAge, quietFor, late>>

\* A byte that does not fit is dropped and the line begins anew.
RxSymbol(b) ==
    /\ Listening
    /\ IF Len(s_cmd_buf) < CMD_BUF_LEN - 1
       THEN s_cmd_buf' = Append(s_cmd_buf, b) /\ long' = long
       ELSE s_cmd_buf' = <<>> /\ long' = TRUE
    /\ posted' = NoRequest
    /\ UNCHANGED <<settings, streamVars, elapsed, tickAge, quietFor, late>>

\* Mutant: the index is not reset, the next line continues this one.
RxNewlineKeepsIndex ==
    /\ Listening
    /\ settings' = Effect(s_cmd_buf, settings)
    /\ posted' = Post(s_cmd_buf)
    /\ long' = FALSE
    /\ quietFor' = IF settings'.enabled THEN quietFor ELSE 0
    /\ late' = IF settings'.enabled THEN 0 ELSE late
    /\ UNCHANGED <<s_cmd_buf, streamVars, elapsed, tickAge>>

\* '\n': handle_line
RxNewline ==
    /\ Listening
    /\ s_cmd_buf' = <<>>
    /\ settings' = Effect(s_cmd_buf, settings)
    /\ posted' = Post(s_cmd_buf)
    /\ long' = FALSE
    /\ quietFor' = IF settings'.enabled THEN quietFor ELSE 0
    /\ late' = IF settings'.enabled THEN 0 ELSE late
    /\ UNCHANGED <<streamVars, elapsed, tickAge>>

Receive ==
    \/ RxStart \/ RxStop \/ RxCarriageReturn \/ RxNewline
    \/ \E b \in Text : RxSymbol(b)

-----------------------------------------------------------------------------
(* App_Init, then the telemetry task.                                      *)

EnableRx ==
    /\ pc = "reset" /\ pc' = "bind"
    /\ UNCHANGED <<lineVars, valid, primed, enabled, elapsed, tickAge, quietFor, late>>

\* Telemetry_BindChassis, then BindLine, then BindImu, all with addresses of
\* static objects; then the tasks start.
Bind(s) ==
    /\ pc = "bind"
    /\ s \notin valid
    /\ s = "line" => "chassis" \in valid
    /\ s = "imu" => "line" \in valid
    /\ valid' = valid \cup {s}
    /\ pc' = IF s = "imu" THEN "wait" ELSE "bind"
    /\ tickAge' = 0 /\ quietFor' = 0
    /\ UNCHANGED <<lineVars, primed, enabled, elapsed, late>>

\* Mutant: the time is stored on every call, due or not.
TickAlwaysStored ==
    /\ pc = "wait"
    /\ tickAge' = 0
    /\ LET on  == settings.enabled \/ settings.rawImu
           due == on /\ (~primed \/ elapsed >= settings.period)
       IN  /\ primed' = (primed \/ due)
           /\ elapsed' = 0
           /\ pc' = IF due THEN "chassis" ELSE "wait"
           /\ enabled' = settings.enabled
    /\ UNCHANGED <<lineVars, valid, quietFor, late>>

\* Telemetry_Tick up to the decision to emit.
TelemetryTick ==
    /\ pc = "wait"
    /\ tickAge' = 0
    /\ LET on  == settings.enabled \/ settings.rawImu
           due == on /\ (~primed \/ elapsed >= settings.period)
       IN  /\ primed' = (primed \/ due)
           /\ elapsed' = IF due THEN 0 ELSE elapsed
           /\ pc' = IF due THEN "chassis" ELSE "wait"
           /\ enabled' = settings.enabled
    /\ UNCHANGED <<lineVars, valid, quietFor, late>>

\* A record that nobody wants any more; LateCap bounds the ghost.
LateCap == 3
Late == late' = IF settings.enabled \/ late = LateCap THEN late ELSE late + 1

\* Mutant: only the test at the top of Telemetry_Tick.
EmitChassisAlways ==
    /\ pc = "chassis"
    /\ pc' = "line" /\ quietFor' = 0 /\ Late
    /\ UNCHANGED <<lineVars, valid, primed, enabled, elapsed, tickAge>>

\* if (s_enabled) emit_chassis: the flag is loaded again, or not.
EmitChassis ==
    /\ pc = "chassis"
    /\ \E on \in {enabled, settings.enabled} :
        IF on /\ "chassis" \in valid
        THEN /\ pc' = "line" /\ quietFor' = 0 /\ Late
        ELSE /\ pc' = IF on THEN "line" ELSE "imu"
             /\ UNCHANGED <<quietFor, late>>
    /\ UNCHANGED <<lineVars, valid, primed, enabled, elapsed, tickAge>>

\* if (s_raw_line_enabled) emit_line
EmitLine ==
    /\ pc = "line"
    /\ pc' = "imu"
    /\ IF settings.rawLine /\ "line" \in valid THEN Late ELSE UNCHANGED late
    /\ UNCHANGED <<lineVars, valid, primed, enabled, elapsed, tickAge, quietFor>>

\* if (s_raw_imu_enabled) emit_imu; then vTaskDelayUntil
EmitImu ==
    /\ pc = "imu"
    /\ pc' = "wait"
    /\ UNCHANGED <<lineVars, valid, primed, enabled, elapsed, tickAge, quietFor, late>>

Boot == EnableRx \/ \E s \in Streams : Bind(s)
Emit == EmitChassis \/ EmitLine \/ EmitImu

\* One millisecond; Telemetry_Tick is called again within Poll.
Tick ==
    /\ pc \in {"wait", "chassis", "line", "imu"}
    /\ tickAge < Poll
    /\ tickAge' = tickAge + 1
    /\ elapsed' = (elapsed + 1) % Wrap
    /\ quietFor' = IF settings.enabled THEN Older(quietFor) ELSE 0
    /\ UNCHANGED <<lineVars, streamVars, late>>

Next == Receive \/ Boot \/ TelemetryTick \/ Emit \/ Tick

Spec == Init /\ [][Next]_vars

-----------------------------------------------------------------------------
(* Properties.                                                             *)

\* The line stays within s_cmd_buf, with room for the 0 that ends it; the
\* period stays positive and below the counter's range.
TypeOK ==
    /\ s_cmd_buf \in Lines
    /\ settings \in Settings
    /\ valid \subseteq Streams /\ primed \in BOOLEAN /\ elapsed \in 0 .. (Wrap - 1)
    /\ pc \in {"reset", "bind", "wait", "chassis", "line", "imu"}
    /\ enabled \in BOOLEAN /\ long \in BOOLEAN
    /\ posted \in Requests \cup {NoRequest}
    /\ tickAge \in 0 .. Poll
    /\ quietFor \in Nat /\ late \in 0 .. LateCap

\* The byte-wise assembly implements the line discipline of CommandLines, with
\* s_cmd_buf as the line while it fits.
Promised == INSTANCE CommandLines WITH line <- IF long THEN <<>> ELSE s_cmd_buf
LineDiscipline == Promised!Spec

\* While streaming stays on, records keep coming: less than the longest period
\* and three polls apart, whatever $RATE and $PAUSE did before, across the wrap
\* too.
StreamAlive == quietFor <= QuietLimit

\* After $PAUSE no more than the records of one call of Telemetry_Tick, the one
\* that was interrupted, still go out.
PauseEndsStream == late <= 2
=============================================================================
