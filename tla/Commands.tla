------------------------------ MODULE Commands ------------------------------
(***************************************************************************)
(* The commands of the text console (handle_line of telemetry.c): what a   *)
(* line means for the settings of the streams and which request it posts.  *)
(* A line is a sequence of symbols: a keyword with the comma that follows  *)
(* it, a digit or a comma; each counts as one byte of the buffer.  Signs   *)
(* and blanks in numbers, and the wording of the replies, are left out.    *)
(***************************************************************************)
EXTENDS Integers, Sequences

CONSTANTS
    Text,           \* symbols that can be part of a line
    CMD_BUF_LEN,
    Second,         \* 1000 ms
    MaxHz,          \* the highest $RATE
    DefaultPeriod   \* of the streams, ms

ASSUME BufferAssumption == CMD_BUF_LEN \in Nat \ {0}
ASSUME RateAssumption ==
    /\ Second \in Nat \ {0} /\ MaxHz \in Nat \ {0}
    /\ DefaultPeriod \in 1 .. Second

\* The lines that the buffer holds, with the 0 that ends them.
Lines == UNION {[1 .. n -> Text] : n \in 0 .. (CMD_BUF_LEN - 1)}

Digits == <<"0", "1", "2", "3", "4", "5", "6", "7", "8", "9">>
DigitValue(c) == (CHOOSE n \in 1 .. 10 : Digits[n] = c) - 1
IsDigit(c) == \E n \in 1 .. 10 : Digits[n] = c

\* atoi: the leading digits, 0 if there are none.
atoi(text) ==
    LET Leading == {n \in 0 .. Len(text) : \A k \in 1 .. n : IsDigit(text[k])}
        value[n \in Nat] ==
            IF n = 0 THEN 0 ELSE 10 * value[n - 1] + DigitValue(text[n])
    IN  value[CHOOSE n \in Leading : \A m \in Leading : m <= n]

Settings == [enabled : BOOLEAN, rawLine : BOOLEAN, rawImu : BOOLEAN,
             period : 1 .. Second]

\* s_enabled, s_raw_line_enabled, s_raw_imu_enabled and s_period_ms at reset
AtReset == [enabled |-> TRUE, rawLine |-> FALSE, rawImu |-> FALSE,
            period |-> DefaultPeriod]

PeriodOf(hz) == IF Second \div hz = 0 THEN 1 ELSE Second \div hz

\* What handle_line does to the settings; $DUMP and unknown lines only reply.
Effect(line, s) ==
    IF line = <<>> THEN s
    ELSE LET arg == atoi(Tail(line)) IN
    CASE line = <<"$PAUSE">>  -> [s EXCEPT !.enabled = FALSE]
      [] line = <<"$RESUME">> -> [s EXCEPT !.enabled = TRUE]
      [] Head(line) = "$RATE," /\ arg \in 1 .. MaxHz -> [s EXCEPT !.period = PeriodOf(arg)]
      [] Head(line) = "$RAWLINE," -> [s EXCEPT !.rawLine = (arg # 0)]
      [] Head(line) = "$RAWIMU,"  -> [s EXCEPT !.rawImu = (arg # 0)]
      [] OTHER -> s

Requests == {"start", "stop", "duty", "cal start", "cal cancel"}
NoRequest == "none"

\* The request flag that handle_line or handle_duty sets.
Post(line) ==
    CASE line \in {<<"$START">>, <<"$RUN">>} -> "start"
      [] line = <<"$STOP">> -> "stop"
      [] line = <<"$IMUCAL,START">> -> "cal start"
      [] line = <<"$IMUCAL,CANCEL">> -> "cal cancel"
      [] line # <<>> /\ Head(line) = "$DUTY,"
            /\ \E k \in 2 .. Len(line) : line[k] = "," -> "duty"
      [] OTHER -> NoRequest
=============================================================================
