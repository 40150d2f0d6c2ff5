------------------------------- MODULE Ticks -------------------------------
(***************************************************************************)
(* The 32-bit millisecond counters of the firmware.  Every timestamp is a  *)
(* TickType_t / uint32_t; the code only adds to it and subtracts two of    *)
(* them, both modulo 2^32.  Wrap stands for 2^32, so that the wrap-around  *)
(* is part of every model that extends this module.                       *)
(***************************************************************************)
EXTENDS Integers

CONSTANT Wrap           \* 2^32 in the firmware, a small number for TLC

ASSUME WrapAssumption == Wrap \in Nat \ {0}

Timestamps == 0 .. (Wrap - 1)

\* The SysTick increment of xTickCount.
NextTick(t) == IF t + 1 = Wrap THEN 0 ELSE t + 1

\* (uint32_t)(now - then): the unsigned difference of two timestamps.
Elapsed(now, then) == IF now >= then THEN now - then ELSE now - then + Wrap

\* Mutant: a sum that is not modulo 2^32.
LaterWide(t, d) == t + d

\* (uint32_t)(t + d), the unsigned sum.
Later(t, d) == IF t + d >= Wrap THEN t + d - Wrap ELSE t + d
=============================================================================
