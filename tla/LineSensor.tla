----------------------------- MODULE LineSensor -----------------------------
(***************************************************************************)
(* The digital line sensor (modules/line_sensor/dev_line_sensor.c,         *)
(* bsp_adc.c, platform drv_line_sensor.c): one frame from the set of       *)
(* active channels.  A bias is an integer number of 1/Scale, a float of    *)
(* the code rounded to the nearest of those.                               *)
(***************************************************************************)
EXTENDS Integers, FiniteSets, FiniteSetsExt

CONSTANTS
  Count,          \* BSP_ADC_CCD_COUNT
  Alpha,          \* bias_alpha, in 1/Scale
  Scale,          \* units of a bias of 1
  ContrastTh,     \* contrast_threshold
  StrengthTh      \* strength_threshold

ASSUME LineSensorAssumption ==
  /\ Count \in Nat \ {0, 1}
  /\ Scale \in Nat \ {0}
  /\ Alpha \in 1..Scale
  /\ ContrastTh \in Nat \ {0} /\ StrengthTh \in Nat \ {0}

Channels == 0..Count - 1
LINE_HIGH_VALUE == 4095
LINE_LOW_VALUE == 0
UINT16_MAX == 65535

(* a/b rounded to the nearest integer, away from zero in the middle. *)
Nearest(a, b) == IF a >= 0 THEN (2 * a + b) \div (2 * b) ELSE -((b - 2 * a) \div (2 * b))

Clamp(x, lo, hi) == IF x < lo THEN lo ELSE IF x > hi THEN hi ELSE x

(* Drv_LineSensor_ReadRaw *)
ReadRaw(active) ==
  [i \in Channels |-> IF i \in active THEN LINE_HIGH_VALUE ELSE LINE_LOW_VALUE]

(* sensor_weight: the position of a channel, zero in the middle. *)
Weight(i) == 2 * i - (Count - 1)

MinValue(raw) == Min({raw[i] : i \in Channels})
MaxValue(raw) == Max({raw[i] : i \in Channels})
Contrast(raw) == MaxValue(raw) - MinValue(raw)
Strength(raw) == MapThenSumSet(LAMBDA i : raw[i] - MinValue(raw), Channels)
Weighted(raw) == MapThenSumSet(LAMBDA i : Weight(i) * (raw[i] - MinValue(raw)), Channels)

OnLine(raw) ==
  /\ Contrast(raw) >= ContrastTh
  /\ Min({Strength(raw), UINT16_MAX}) >= StrengthTh

(* raw_bias: the mean position of the line, in -Scale..Scale. *)
RawBias(raw) == Nearest(Scale * Weighted(raw), Strength(raw) * (Count - 1))

(* What a frame takes from the active channels. *)
Reading(raw) == [on_line |-> OnLine(raw), bias |-> IF OnLine(raw) THEN RawBias(raw) ELSE 0]
Readings == {Reading(ReadRaw(active)) : active \in SUBSET Channels}

(* Dev_LineSensor_Reset *)
NoFrame == [bias |-> 0, last_bias |-> 0, on_line |-> FALSE, primed |-> FALSE]

(* The low pass, which starts at its first input. *)
Smoothed(f, b) ==
  IF f.primed THEN Nearest(Alpha * b + (Scale - Alpha) * f.bias, Scale) ELSE b

(* Mutant: the bias to hold is stored before the new one is computed. *)
SeenEarly(f, b) ==
  [on_line |-> TRUE, primed |-> TRUE, bias |-> Smoothed(f, b), last_bias |-> f.bias]

(* The line is seen: its bias is smoothed and remembered. *)
Seen(f, b) ==
  [on_line |-> TRUE, primed |-> TRUE, bias |-> Smoothed(f, b), last_bias |-> Smoothed(f, b)]

(* The line is lost: the last bias is held. *)
Lost(f) == [f EXCEPT !.on_line = FALSE, !.bias = f.last_bias]

(* Dev_LineSensor_Update *)
FrameUpdate(f, reading) == IF reading.on_line THEN Seen(f, reading.bias) ELSE Lost(f)
=============================================================================
