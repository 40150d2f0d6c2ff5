--------------------------- MODULE ConsoleProofs ---------------------------
(***************************************************************************)
(* The console, for any command symbols, buffer length, rates and polling  *)
(* time: it implements the line discipline of CommandLines, its streams    *)
(* stay alive, and a pause ends them.                                      *)
(***************************************************************************)
EXTENDS Console, TLAPS

-----------------------------------------------------------------------------
(* Lines and settings.                                                     *)

LEMMA Sizes ==
  /\ CMD_BUF_LEN \in Nat /\ CMD_BUF_LEN > 0
  /\ Second \in Nat /\ Second > 0 /\ MaxHz \in Nat /\ MaxHz > 0
  /\ DefaultPeriod \in 1 .. Second
  /\ Poll \in Nat /\ Poll > 0 /\ Wrap \in Nat /\ Second + Poll <= Wrap
BY BufferAssumption, RateAssumption, TimeAssumption

\* The lines are the texts that leave room for the 0 that ends them.
LEMMA LineLength ==
    ASSUME NEW s
    PROVE  s \in Lines <=> s \in Seq(Text) /\ Len(s) < CMD_BUF_LEN
<1>1. ASSUME s \in Lines PROVE s \in Seq(Text) /\ Len(s) < CMD_BUF_LEN
  <2>1. PICK n \in 0 .. (CMD_BUF_LEN - 1) : s \in [1 .. n -> Text]
    BY <1>1 DEF Lines
  <2> QED BY <2>1, Sizes
<1>2. ASSUME s \in Seq(Text), Len(s) < CMD_BUF_LEN PROVE s \in Lines
  <2>1. Len(s) \in 0 .. (CMD_BUF_LEN - 1) /\ s \in [1 .. Len(s) -> Text]
    BY <1>2, Sizes
  <2> QED BY <2>1 DEF Lines
<1> QED BY <1>1, <1>2

LEMMA EmptyLine == <<>> \in Lines
<1>1. <<>> \in Seq(Text) /\ Len(<<>>) = 0
  OBVIOUS
<1> QED BY <1>1, Sizes, LineLength

LEMMA LongerLine ==
    ASSUME NEW s \in Lines, NEW b \in Text
    PROVE  Append(s, b) \in Lines <=> Len(s) < CMD_BUF_LEN - 1
<1>1. s \in Seq(Text) /\ Len(s) \in Nat
  BY LineLength
<1>2. Append(s, b) \in Seq(Text) /\ Len(Append(s, b)) = Len(s) + 1
  BY <1>1
<1>3. Append(s, b) \in Lines <=> Len(Append(s, b)) < CMD_BUF_LEN
  BY <1>2, LineLength
<1> QED BY <1>1, <1>2, <1>3, Sizes

\* Every rate that is accepted gives a period between a millisecond and a second.
LEMMA PeriodRange ==
    ASSUME NEW hz \in 1 .. MaxHz
    PROVE  PeriodOf(hz) \in 1 .. Second
<1>1. /\ Second \div hz \in Int
      /\ 0 <= Second \div hz
      /\ Second \div hz <= Second
  BY Sizes
<1> QED BY <1>1, Sizes DEF PeriodOf

LEMMA SettingsAtReset == AtReset \in Settings
BY Sizes DEF AtReset, Settings

\* No line makes a setting illegal, the lines that are cut short included.
LEMMA EffectIsLegal ==
    ASSUME NEW text, NEW s \in Settings
    PROVE  Effect(text, s) \in Settings
<1> DEFINE arg == atoi(Tail(text))
<1>1. [s EXCEPT !.enabled = FALSE] \in Settings /\ [s EXCEPT !.enabled = TRUE] \in Settings
  BY Zenon DEF Settings
<1>2. arg \in 1 .. MaxHz => [s EXCEPT !.period = PeriodOf(arg)] \in Settings
  BY PeriodRange, Zenon DEF Settings
<1>3. (arg # 0) \in BOOLEAN
  OBVIOUS
<1>4. [s EXCEPT !.rawLine = (arg # 0)] \in Settings /\ [s EXCEPT !.rawImu = (arg # 0)] \in Settings
  BY <1>3, Zenon DEF Settings
<1> HIDE DEF arg
<1> DEFINE pause == text = <<"$PAUSE">>
           resume == text = <<"$RESUME">>
           rate == Head(text) = "$RATE," /\ arg \in 1 .. MaxHz
           rawLine == Head(text) = "$RAWLINE,"
           rawImu == Head(text) = "$RAWIMU,"
           paused == [s EXCEPT !.enabled = FALSE]
           resumed == [s EXCEPT !.enabled = TRUE]
           rated == [s EXCEPT !.period = PeriodOf(arg)]
           lined == [s EXCEPT !.rawLine = (arg # 0)]
           imued == [s EXCEPT !.rawImu = (arg # 0)]
<1>5. Effect(text, s) =
        IF text = <<>> THEN s
        ELSE CASE pause -> paused [] resume -> resumed [] rate -> rated
               [] rawLine -> lined [] rawImu -> imued [] OTHER -> s
  BY DEF Effect, arg
<1>6. rate => arg \in 1 .. MaxHz
  OBVIOUS
<1> HIDE DEF pause, resume, rate, rawLine, rawImu, paused, resumed, rated, lined, imued
<1>7. Effect(text, s) \in {s, paused, resumed, lined, imued}
     \/ (rate /\ Effect(text, s) = rated)
  BY <1>5
<1> QED BY <1>1, <1>2, <1>4, <1>6, <1>7 DEF paused, resumed, rated, lined, imued

LEMMA PostIsRequest ==
    ASSUME NEW text
    PROVE  Post(text) \in Requests \cup {NoRequest}
BY DEF Post, Requests

\* The counter of milliseconds wraps to 0.
LEMMA NextMillisecond ==
    ASSUME NEW a \in 0 .. (Wrap - 1)
    PROVE  (a + 1) % Wrap = IF a + 1 = Wrap THEN 0 ELSE a + 1
<1>1. Wrap \in Nat /\ Wrap > 0
  BY Sizes
<1> QED BY <1>1

-----------------------------------------------------------------------------
(* Types.  Every action keeps its own variables in range.                  *)

LEMMA TypeInit == Init => TypeOK
<1> SUFFICES ASSUME Init PROVE TypeOK
  OBVIOUS
<1>1. s_cmd_buf \in Lines /\ settings \in Settings /\ valid \subseteq Streams
  BY EmptyLine, SettingsAtReset DEF Init
<1>2. primed \in BOOLEAN /\ enabled \in BOOLEAN /\ long \in BOOLEAN
  BY Zenon DEF Init
<1>3. elapsed \in 0 .. (Wrap - 1) /\ tickAge \in 0 .. Poll /\ quietFor \in Nat /\ late \in 0 .. 3
  BY Sizes DEF Init
<1>4. pc = "reset" /\ posted = NoRequest
  BY DEF Init
<1> QED BY <1>1, <1>2, <1>3, <1>4 DEF TypeOK, LateCap

LEMMA TypeStep == TypeOK /\ [Next]_vars => TypeOK'
<1> SUFFICES ASSUME TypeOK, [Next]_vars PROVE TypeOK'
  OBVIOUS
<1>0. TypeOK
  OBVIOUS
<1>1. CASE RxStart
  BY <1>0, <1>1 DEF RxStart, RxAtOnce, streamVars, TypeOK, Requests
<1>2. CASE RxStop
  BY <1>0, <1>2 DEF RxStop, RxAtOnce, streamVars, TypeOK, Requests
<1>3. CASE RxCarriageReturn
  BY <1>0, <1>3 DEF RxCarriageReturn, RxAtOnce, streamVars, TypeOK
<1>4. CASE RxNewline
  <2>1. settings' \in Settings /\ posted' \in Requests \cup {NoRequest} /\ s_cmd_buf' \in Lines
    BY <1>0, <1>4, EffectIsLegal, PostIsRequest, EmptyLine DEF RxNewline, TypeOK
  <2>2. quietFor' \in Nat /\ late' \in 0 .. 3
    <3>1. quietFor' \in {quietFor, 0} /\ late' \in {late, 0}
      BY <1>4 DEF RxNewline
    <3> QED BY <1>0, <3>1 DEF TypeOK, LateCap
  <2>3. long' \in BOOLEAN
    BY <1>4, Zenon DEF RxNewline
  <2> QED BY <1>0, <1>4, <2>1, <2>2, <2>3 DEF RxNewline, streamVars, TypeOK, LateCap
<1>5. ASSUME NEW b \in Text, RxSymbol(b) PROVE TypeOK'
  <2>1. s_cmd_buf' \in Lines
    BY <1>0, <1>5, LongerLine, EmptyLine DEF RxSymbol, TypeOK
  <2>2. long' \in BOOLEAN
    BY <1>0, <1>5, Zenon DEF RxSymbol, TypeOK
  <2> QED BY <1>0, <1>5, <2>1, <2>2 DEF RxSymbol, streamVars, TypeOK
<1>6. CASE EnableRx
  BY <1>0, <1>6 DEF EnableRx, lineVars, TypeOK
<1>7. ASSUME NEW s \in Streams, Bind(s) PROVE TypeOK'
  BY <1>0, <1>7, Sizes DEF Bind, lineVars, TypeOK
<1>8. CASE TelemetryTick
  <2>1. primed' \in BOOLEAN /\ enabled' \in BOOLEAN
    BY <1>0, <1>8, Zenon DEF TelemetryTick, TypeOK, Settings
  <2>2. elapsed' \in 0 .. (Wrap - 1) /\ tickAge' \in 0 .. Poll
    BY <1>0, <1>8, Sizes DEF TelemetryTick, TypeOK
  <2>3. pc' \in {"wait", "chassis"}
    BY <1>8 DEF TelemetryTick
  <2> QED BY <1>0, <1>8, <2>1, <2>2, <2>3 DEF TelemetryTick, lineVars, TypeOK
<1>9. CASE EmitChassis
  BY <1>0, <1>9 DEF EmitChassis, Late, LateCap, lineVars, TypeOK
<1>10. CASE EmitLine
  BY <1>0, <1>10 DEF EmitLine, Late, LateCap, lineVars, TypeOK
<1>11. CASE EmitImu
  BY <1>0, <1>11 DEF EmitImu, lineVars, TypeOK
<1>12. CASE Tick
  <2>1. elapsed' \in 0 .. (Wrap - 1)
    BY <1>0, <1>12, NextMillisecond, Sizes DEF Tick, TypeOK
  <2>2. quietFor' \in Nat /\ tickAge' \in 0 .. Poll
    BY <1>0, <1>12, Sizes DEF Tick, Older, TypeOK
  <2> QED BY <1>0, <1>12, <2>1, <2>2 DEF Tick, lineVars, streamVars, TypeOK
<1>13. CASE UNCHANGED vars
  BY <1>0, <1>13 DEF vars, lineVars, streamVars, TypeOK
<1> QED
  BY <1>1, <1>2, <1>3, <1>4, <1>5, <1>6, <1>7, <1>8, <1>9, <1>10, <1>11, <1>12, <1>13
  DEF Next, Receive, Boot, Emit

\* Whatever the bytes, the line fits its buffer and the settings stay legal.
THEOREM ConsoleTypeCorrect == Spec => []TypeOK
BY TypeInit, TypeStep, PTL DEF Spec

-----------------------------------------------------------------------------
(* The refinement: the assembled bytes are the line while it fits.         *)

\* The abstract console has the same commands.
LEMMA SameCommands ==
  /\ Promised!Lines = Lines /\ Promised!AtReset = AtReset
  /\ Promised!NoRequest = NoRequest
  /\ \A text, s : Promised!Effect(text, s) = Effect(text, s)
  /\ \A text : Promised!Post(text) = Post(text)
<1>1. Promised!Lines = Lines /\ Promised!AtReset = AtReset /\ Promised!NoRequest = NoRequest
  BY DEF Lines, Promised!Lines, AtReset, Promised!AtReset, NoRequest, Promised!NoRequest
<1>2. ASSUME NEW text PROVE Promised!atoi(text) = atoi(text)
  BY DEF atoi, Promised!atoi, DigitValue, Promised!DigitValue, Digits, Promised!Digits,
         IsDigit, Promised!IsDigit
<1>3. ASSUME NEW hz PROVE Promised!PeriodOf(hz) = PeriodOf(hz)
  BY DEF PeriodOf, Promised!PeriodOf
<1>4. ASSUME NEW text, NEW s PROVE Promised!Effect(text, s) = Effect(text, s)
  BY <1>2, <1>3 DEF Effect, Promised!Effect
<1>5. ASSUME NEW text PROVE Promised!Post(text) = Post(text)
  BY DEF Post, Promised!Post, NoRequest, Promised!NoRequest
<1> QED BY <1>1, <1>4, <1>5

LEMMA PromiseInit == Init => Promised!Init
BY SameCommands DEF Init, Promised!Init

LEMMA PromiseStep == TypeOK /\ TypeOK' /\ [Next]_vars => [Promised!Next]_(Promised!vars)
<1> SUFFICES ASSUME TypeOK, TypeOK', [Next]_vars PROVE [Promised!Next]_(Promised!vars)
  OBVIOUS
<1>0. TypeOK
  OBVIOUS
<1>u. ASSUME UNCHANGED lineVars PROVE UNCHANGED Promised!vars
  BY <1>u DEF lineVars, Promised!vars
<1>1. ASSUME NEW request \in {"start", "stop", NoRequest}, RxAtOnce(request)
      PROVE  Promised!Next
  <2>1. Promised!AtOnce(request)
    BY <1>1 DEF RxAtOnce, Promised!AtOnce
  <2> QED BY <2>1, SameCommands DEF Promised!Next
<1>2. CASE RxNewline
  <2>1. ASSUME NEW text, text = s_cmd_buf PROVE Promised!Execute(text)
    BY <1>2, <2>1, SameCommands DEF RxNewline, Promised!Execute
  <2>2. CASE long
    BY <1>0, <2>1, <2>2, SameCommands DEF TypeOK, Promised!EndOfLongLine, Promised!Next
  <2>3. CASE ~long
    BY <2>1, <2>3 DEF Promised!EndOfLine, Promised!Next
  <2> QED BY <2>2, <2>3
<1>3. ASSUME NEW b \in Text, RxSymbol(b) PROVE Promised!Next
  <2>1. Append(s_cmd_buf, b) \in Lines <=> Len(s_cmd_buf) < CMD_BUF_LEN - 1
    BY <1>0, LongerLine DEF TypeOK
  <2>2. Promised!Symbol(b)
    <3>1. CASE long
      BY <1>3, <3>1, SameCommands DEF RxSymbol, Promised!Symbol
    <3>2. CASE ~long /\ Len(s_cmd_buf) < CMD_BUF_LEN - 1
      BY <1>0, <1>3, <2>1, <3>2, SameCommands DEF RxSymbol, Promised!Symbol, TypeOK
    <3>3. CASE ~long /\ ~(Len(s_cmd_buf) < CMD_BUF_LEN - 1)
      BY <1>3, <2>1, <3>3, SameCommands DEF RxSymbol, Promised!Symbol
    <3> QED BY <3>1, <3>2, <3>3
  <2> QED BY <2>2 DEF Promised!Next
<1>4. CASE Boot
  BY <1>4, <1>u DEF Boot, EnableRx, Bind
<1>5. CASE TelemetryTick
  BY <1>5, <1>u DEF TelemetryTick
<1>6. CASE Emit
  BY <1>6, <1>u DEF Emit, EmitChassis, EmitLine, EmitImu
<1>7. CASE Tick
  BY <1>7, <1>u DEF Tick
<1>8. CASE UNCHANGED vars
  BY <1>8, <1>u DEF vars
<1>9. CASE Receive
  BY <1>1, <1>2, <1>3, <1>9 DEF Receive, RxStart, RxStop, RxCarriageReturn
<1> QED BY <1>4, <1>5, <1>6, <1>7, <1>8, <1>9 DEF Next

\* The byte-wise assembly implements the line discipline of CommandLines.
THEOREM ConsoleKeepsDiscipline == Spec => LineDiscipline
BY PromiseInit, PromiseStep, TypeInit, TypeStep, PTL
DEF Spec, LineDiscipline, Promised!Spec

-----------------------------------------------------------------------------
(* The streams.  The time without a record is at most the time since the   *)
(* last poll, or it is covered by the time since the last emission.        *)

Running == pc \in {"wait", "chassis", "line", "imu"}

\* While the task waits: streaming was resumed since the last poll, or the
\* last poll found the period not over, and no wrap has happened since.
Waiting ==
  \/ quietFor <= tickAge
  \/ primed /\ quietFor <= elapsed + Poll /\ elapsed < Second + tickAge

AliveInv ==
  /\ ~settings.enabled => quietFor = 0
  /\ ~Running => quietFor = 0 /\ tickAge = 0
  /\ "line" \in valid => "chassis" \in valid
  /\ Running => "chassis" \in valid
  /\ pc = "wait" => Waiting
  /\ pc \in {"chassis", "line", "imu"} => elapsed = tickAge
  /\ pc = "chassis" => /\ quietFor <= Second + 2 * Poll - 1 + tickAge
                       /\ enabled \/ quietFor <= tickAge
  /\ pc \in {"line", "imu"} => quietFor <= tickAge

LEMMA AliveInit == Init => AliveInv
BY DEF Init, AliveInv, Running

LEMMA AliveBounds == TypeOK /\ AliveInv => StreamAlive
<1> SUFFICES ASSUME TypeOK, AliveInv PROVE quietFor <= Second + 3 * Poll - 1
  BY DEF StreamAlive, QuietLimit
<1>1. tickAge \in 0 .. Poll /\ quietFor \in Nat /\ elapsed \in Nat
  BY Sizes DEF TypeOK
<1>2. CASE ~Running
  BY <1>2, Sizes DEF AliveInv
<1>3. CASE pc = "wait"
  BY <1>1, <1>3, Sizes DEF AliveInv, Waiting
<1>4. CASE pc = "chassis"
  BY <1>1, <1>4, Sizes DEF AliveInv
<1>5. CASE pc \in {"line", "imu"}
  BY <1>1, <1>5, Sizes DEF AliveInv
<1> QED BY <1>2, <1>3, <1>4, <1>5 DEF Running

LEMMA AliveStep == TypeOK /\ TypeOK' /\ AliveInv /\ [Next]_vars => AliveInv'
<1> SUFFICES ASSUME TypeOK, TypeOK', AliveInv, [Next]_vars PROVE AliveInv'
  OBVIOUS
<1>0. AliveInv
  OBVIOUS
<1>t. /\ tickAge \in 0 .. Poll /\ quietFor \in Nat /\ elapsed \in 0 .. (Wrap - 1)
      /\ settings.period \in 1 .. Second
  BY DEF TypeOK, Settings
<1>u. ASSUME UNCHANGED <<streamVars, elapsed, tickAge>>, quietFor' \in {quietFor, 0},
             ~settings'.enabled => quietFor' = 0
      PROVE  AliveInv'
  BY <1>0, <1>t, <1>u, Sizes DEF streamVars, AliveInv, Waiting, Running
<1>1. CASE Receive
  <2>1. CASE RxNewline
    BY <1>u, <2>1 DEF RxNewline
  <2>2. CASE ~RxNewline
    <3>1. UNCHANGED <<streamVars, elapsed, tickAge, quietFor, settings>>
      BY <1>1, <2>2 DEF Receive, RxStart, RxStop, RxCarriageReturn, RxSymbol, RxAtOnce
    <3> QED BY <1>0, <1>u, <3>1 DEF AliveInv
  <2> QED BY <2>1, <2>2
<1>2. CASE EnableRx
  BY <1>0, <1>2 DEF EnableRx, lineVars, AliveInv, Running
<1>3. ASSUME NEW s \in Streams, Bind(s) PROVE AliveInv'
  BY <1>0, <1>3 DEF Bind, lineVars, AliveInv, Running, Waiting
<1>4. CASE TelemetryTick
  <2>1. /\ pc = "wait" /\ tickAge' = 0
        /\ UNCHANGED <<settings, valid, quietFor>>
        /\ enabled' = settings.enabled
    BY <1>4 DEF TelemetryTick, lineVars
  <2>2. \/ /\ pc' = "chassis" /\ elapsed' = 0
        \/ /\ pc' = "wait" /\ elapsed' = elapsed
           /\ settings.enabled => primed /\ primed' /\ ~(elapsed >= settings.period)
    BY <1>4 DEF TelemetryTick
  <2>3. quietFor <= Second + 2 * Poll - 1
    BY <1>0, <1>t, <2>1, Sizes DEF AliveInv, Waiting
  <2>4. CASE pc' = "chassis" /\ elapsed' = 0
    BY <1>0, <1>t, <2>1, <2>3, <2>4, Sizes DEF AliveInv, Running
  <2>5. CASE /\ pc' = "wait" /\ elapsed' = elapsed
             /\ settings.enabled => primed /\ primed' /\ ~(elapsed >= settings.period)
    <3>1. CASE ~settings.enabled
      BY <1>0, <1>t, <2>1, <2>5, <3>1, Sizes DEF AliveInv, Running, Waiting
    <3>2. CASE settings.enabled
      <4>1. quietFor <= elapsed + Poll /\ elapsed < Second /\ primed'
        BY <1>0, <1>t, <2>1, <2>5, <3>2, Sizes DEF AliveInv, Waiting
      <4> QED BY <1>0, <1>t, <2>1, <2>5, <3>2, <4>1, Sizes DEF AliveInv, Running, Waiting
    <3> QED BY <3>1, <3>2
  <2> QED BY <2>2, <2>4, <2>5
<1>5. CASE EmitChassis
  <2>1. /\ pc = "chassis" /\ pc' \in {"line", "imu"}
        /\ UNCHANGED <<settings, valid, elapsed, tickAge>>
    BY <1>5 DEF EmitChassis, lineVars
  <2>2. quietFor' = 0 \/ (quietFor' = quietFor /\ (~enabled \/ ~settings.enabled))
    BY <1>0, <1>5, <2>1 DEF EmitChassis, AliveInv, Running
  <2>3. quietFor' <= tickAge /\ (~settings.enabled => quietFor' = 0)
    BY <1>0, <1>t, <2>1, <2>2 DEF AliveInv
  <2> QED BY <1>0, <2>1, <2>3 DEF AliveInv, Running
<1>6. CASE EmitLine
  BY <1>0, <1>6 DEF EmitLine, lineVars, AliveInv, Running
<1>7. CASE EmitImu
  BY <1>0, <1>7 DEF EmitImu, lineVars, AliveInv, Running, Waiting
<1>8. CASE Tick
  <2>1. /\ Running /\ tickAge < Poll /\ tickAge' = tickAge + 1
        /\ elapsed' = IF elapsed + 1 = Wrap THEN 0 ELSE elapsed + 1
        /\ UNCHANGED <<pc, settings, valid, primed, enabled>>
    BY <1>8, <1>t, NextMillisecond DEF Tick, lineVars, streamVars, Running
  <2>2. /\ quietFor' <= quietFor + 1 /\ quietFor' \in Nat
        /\ ~settings.enabled => quietFor' = 0
    BY <1>8, <1>t, Sizes DEF Tick, Older
  <2>3. pc = "wait" => Waiting'
    BY <1>0, <1>t, <2>1, <2>2, Sizes DEF AliveInv, Waiting
  <2>4. pc \in {"chassis", "line", "imu"} => elapsed' = tickAge'
    BY <1>0, <1>t, <2>1, Sizes DEF AliveInv
  <2>5. pc = "chassis" => /\ quietFor' <= Second + 2 * Poll - 1 + tickAge'
                          /\ enabled \/ quietFor' <= tickAge'
    BY <1>0, <1>t, <2>1, <2>2, Sizes DEF AliveInv
  <2>6. pc \in {"line", "imu"} => quietFor' <= tickAge'
    BY <1>0, <1>t, <2>1, <2>2, Sizes DEF AliveInv
  <2> QED BY <1>0, <2>1, <2>2, <2>3, <2>4, <2>5, <2>6 DEF AliveInv, Running
<1>9. CASE UNCHANGED vars
  BY <1>0, <1>9, <1>u DEF vars, lineVars, AliveInv
<1> QED
  BY <1>1, <1>2, <1>3, <1>4, <1>5, <1>6, <1>7, <1>8, <1>9 DEF Next, Boot, Emit

\* While streaming is on, the records are less than a period and three polls
\* apart, whatever the commands did before, across the wrap too.
THEOREM ConsoleStreamAlive == Spec => []StreamAlive
BY TypeInit, TypeStep, AliveInit, AliveStep, AliveBounds, PTL DEF Spec

-----------------------------------------------------------------------------
(* The pause.                                                              *)

PauseInv ==
  /\ late <= 2
  /\ settings.enabled => late = 0
  /\ pc = "chassis" /\ enabled => late = 0
  /\ pc = "line" => late <= 1

LEMMA PauseStep == TypeOK /\ PauseInv /\ [Next]_vars => PauseInv'
<1> SUFFICES ASSUME TypeOK, PauseInv, [Next]_vars PROVE PauseInv'
  OBVIOUS
<1>0. PauseInv
  OBVIOUS
<1>t. late \in Nat
  BY DEF TypeOK
<1>u. ASSUME UNCHANGED <<settings, late>>, pc' \notin {"chassis", "line"}
      PROVE  PauseInv'
  BY <1>0, <1>u DEF PauseInv
<1>1. CASE Receive
  <2>1. CASE RxNewline
    BY <1>0, <1>t, <2>1 DEF RxNewline, streamVars, PauseInv
  <2>2. CASE ~RxNewline
    BY <1>0, <1>1, <2>2
    DEF Receive, RxStart, RxStop, RxCarriageReturn, RxSymbol, RxAtOnce, streamVars, PauseInv
  <2> QED BY <2>1, <2>2
<1>2. CASE Boot
  BY <1>2, <1>u DEF Boot, EnableRx, Bind, lineVars
<1>3. CASE TelemetryTick
  <2>1. /\ UNCHANGED <<settings, late>> /\ enabled' = settings.enabled
        /\ pc' \in {"wait", "chassis"}
    BY <1>3 DEF TelemetryTick, lineVars
  <2> QED BY <1>0, <2>1 DEF PauseInv
<1>4. CASE EmitChassis
  <2>1. /\ pc = "chassis" /\ pc' \in {"line", "imu"} /\ UNCHANGED settings
        /\ \/ late' = late /\ pc' = "imu"
           \/ (enabled \/ settings.enabled) /\ (Late \/ late' = late)
    BY <1>4 DEF EmitChassis, lineVars
  <2>2. CASE late' = late /\ pc' = "imu"
    BY <1>u, <2>1, <2>2
  <2>3. CASE (enabled \/ settings.enabled) /\ (Late \/ late' = late)
    <3>1. late = 0
      BY <1>0, <2>1, <2>3 DEF PauseInv
    <3>2. late' <= 1 /\ (settings.enabled => late' = 0)
      BY <2>3, <3>1 DEF Late, LateCap
    <3>3. late' \in {0, 1}
      BY <2>3, <3>1 DEF Late, LateCap
    <3> QED BY <2>1, <3>2, <3>3 DEF PauseInv
  <2> QED BY <2>1, <2>2, <2>3
<1>5. CASE EmitLine
  <2>1. pc = "line" /\ pc' = "imu" /\ UNCHANGED settings /\ (Late \/ late' = late)
    BY <1>5 DEF EmitLine, lineVars
  <2> QED BY <1>0, <1>t, <2>1 DEF Late, LateCap, PauseInv
<1>6. CASE EmitImu
  BY <1>6, <1>u DEF EmitImu, lineVars
<1>7. CASE Tick
  BY <1>0, <1>7 DEF Tick, lineVars, streamVars, PauseInv
<1>8. CASE UNCHANGED vars
  BY <1>0, <1>8 DEF vars, lineVars, streamVars, PauseInv
<1> QED BY <1>1, <1>2, <1>3, <1>4, <1>5, <1>6, <1>7, <1>8 DEF Next, Emit

\* After $PAUSE at most the records of the call that was interrupted go out.
THEOREM ConsolePauseEnds == Spec => []PauseEndsStream
<1>1. Init => PauseInv
  BY DEF Init, PauseInv
<1>2. PauseInv => PauseEndsStream
  BY DEF PauseInv, PauseEndsStream
<1> QED BY <1>1, <1>2, PauseStep, TypeInit, TypeStep, PTL DEF Spec
=============================================================================
