------------------------------ MODULE Encoder ------------------------------
(***************************************************************************)
(* The quadrature encoders (bsp_encoder.c).  An edge of a phase sets its   *)
(* interrupt flag; GROUP1_IRQHandler reads the flags, decodes the wheels   *)
(* that have one and clears the flags it has read.  The wheels turn while  *)
(* it runs, and interrupts of the same priority (the UART, which sends its *)
(* replies by busy waiting) delay it for any time.                         *)
(***************************************************************************)
EXTENDS Integers

CONSTANTS
    Reach,      \* bound: Reach[w], the positions of w relative to its last reset
    MaxJumps    \* bound: late decodings of a wheel before it stops turning

Wheels == {"left", "right"}

ASSUME ReachAssumption == Reach \in [Wheels -> SUBSET Int] /\ MaxJumps \in Nat

VARIABLES
    position,       \* edges the wheel has really turned since it was reset
    start,          \* its phase then, 0 .. 3
    flags,          \* phases whose GPIO interrupt flag is set
    last_state,     \* s_left_last_state, s_right_last_state
    total, reported,
    isr,            \* GROUP1_IRQHandler runs
    pending, todo,  \* its reading of flags, the wheels it has yet to look at
    \* Ghosts.
    seenAt,         \* position when the wheel was last decoded or reset
    jumps,          \* decodings since its reset that found it two edges or more further
    both            \* since its reset the handler began with both its flags set

wheelVars == <<position, start, flags>>
countVars == <<last_state, total, reported, seenAt, jumps>>
isrVars == <<isr, pending, todo, both>>
vars == <<wheelVars, countVars, isrVars>>

Phases == {"A", "B"}

\* encoder_state, (a << 1) | b, in phase p; forwards it is 0, 1, 3, 2.
Gray == <<0, 1, 3, 2>>
encoder_state(p) == Gray[(p % 4) + 1]

State(w) == encoder_state(start[w] + position[w])

\* The phase that has an edge between p and p + 1.
EdgeAfter(p) == IF p % 2 = 0 THEN "B" ELSE "A"

Table == <<0, 1, -1, 0, -1, 0, 0, 1, 1, 0, 0, -1, 0, -1, 1, 0>>

decode_step(last, current) == Table[(4 * last) + current + 1]

\* Edges not decoded yet.
Lag(w) == position[w] - seenAt[w]

Magnitude(n) == IF n < 0 THEN -n ELSE n

Init ==
    /\ position = [w \in Wheels |-> 0]
    /\ start \in [Wheels -> 0 .. 3]
    /\ flags = [w \in Wheels |-> {}]
    /\ last_state = [w \in Wheels |-> encoder_state(start[w])]
    /\ total = [w \in Wheels |-> 0] /\ reported = [w \in Wheels |-> 0]
    /\ isr = FALSE /\ pending = [w \in Wheels |-> {}] /\ todo = {}
    /\ both = [w \in Wheels |-> FALSE]
    /\ seenAt = [w \in Wheels |-> 0] /\ jumps = [w \in Wheels |-> 0]

-----------------------------------------------------------------------------
(* The wheels.                                                             *)

Turn(w, by) ==
    /\ jumps[w] < MaxJumps /\ position[w] + by \in Reach[w]
    /\ position' = [position EXCEPT ![w] = @ + by]
    /\ LET p == start[w] + position[w]
       IN  flags' = [flags EXCEPT ![w] = @ \cup {EdgeAfter(IF by = 1 THEN p ELSE p - 1)}]
    /\ UNCHANGED <<start, countVars, isrVars>>

-----------------------------------------------------------------------------
(* GROUP1_IRQHandler.                                                      *)

Enter ==
    /\ ~isr
    /\ \E w \in Wheels : flags[w] # {}
    /\ pending' = flags
    /\ isr' = TRUE /\ todo' = Wheels
    /\ both' = [w \in Wheels |-> both[w] \/ flags[w] = Phases]
    /\ UNCHANGED <<wheelVars, countVars>>

\* if ((pending & left_pins) != 0u), and the same for the right
Decode(w) ==
    /\ w \in todo
    /\ w = "right" => "left" \notin todo
    /\ todo' = todo \ {w}
    /\ IF pending[w] = {}
       THEN UNCHANGED countVars
       ELSE /\ total' = [total EXCEPT ![w] = @ + decode_step(last_state[w], State(w))]
            /\ last_state' = [last_state EXCEPT ![w] = State(w)]
            /\ seenAt' = [seenAt EXCEPT ![w] = position[w]]
            /\ jumps' = [jumps EXCEPT ![w] = IF Magnitude(Lag(w)) > 1 THEN @ + 1 ELSE @]
            /\ UNCHANGED reported
    /\ UNCHANGED <<wheelVars, isr, pending, both>>

\* Mutant: every flag is cleared, not only those that were read.
LeaveClearsAll ==
    /\ isr /\ todo = {}
    /\ flags' = [w \in Wheels |-> {}]
    /\ isr' = FALSE /\ pending' = [w \in Wheels |-> {}]
    /\ UNCHANGED <<position, start, countVars, todo, both>>

\* DL_GPIO_clearInterruptStatus(GPIOB, pending)
Leave ==
    /\ isr /\ todo = {}
    /\ flags' = [w \in Wheels |-> flags[w] \ pending[w]]
    /\ isr' = FALSE /\ pending' = [w \in Wheels |-> {}]
    /\ UNCHANGED <<position, start, countVars, todo, both>>

-----------------------------------------------------------------------------
(* The tasks, with interrupts disabled: never within the handler.          *)

GetDelta(w) ==
    /\ ~isr
    /\ reported' = [reported EXCEPT ![w] = total[w]]
    /\ UNCHANGED <<wheelVars, isrVars, last_state, total, seenAt, jumps>>

\* Mutant: the state is not read again, an edge that waits counts for the new total.
ResetKeepsState(w) ==
    /\ ~isr
    /\ total' = [total EXCEPT ![w] = 0] /\ reported' = [reported EXCEPT ![w] = 0]
    /\ position' = [position EXCEPT ![w] = 0]
    /\ start' = [start EXCEPT ![w] = (@ + position[w]) % 4]
    /\ seenAt' = [seenAt EXCEPT ![w] = 0] /\ jumps' = [jumps EXCEPT ![w] = 0]
    /\ both' = [both EXCEPT ![w] = FALSE]
    /\ UNCHANGED <<flags, last_state, isr, pending, todo>>

\* BSP_Encoder_Reset, which reads the state again; a flag may be set already.
Reset(w) ==
    /\ ~isr
    /\ last_state' = [last_state EXCEPT ![w] = State(w)]
    /\ total' = [total EXCEPT ![w] = 0] /\ reported' = [reported EXCEPT ![w] = 0]
    /\ position' = [position EXCEPT ![w] = 0]
    /\ start' = [start EXCEPT ![w] = (@ + position[w]) % 4]
    /\ seenAt' = [seenAt EXCEPT ![w] = 0] /\ jumps' = [jumps EXCEPT ![w] = 0]
    /\ both' = [both EXCEPT ![w] = FALSE]
    /\ UNCHANGED <<flags, isr, pending, todo>>

Handler == Enter \/ Leave \/ \E w \in Wheels : Decode(w)

Next ==
    \/ Handler
    \/ \E w \in Wheels : Turn(w, 1) \/ Turn(w, -1) \/ GetDelta(w) \/ Reset(w)

Spec == Init /\ [][Next]_vars

-----------------------------------------------------------------------------
(* Properties.                                                             *)

TypeOK ==
    /\ position \in [Wheels -> Int] /\ start \in [Wheels -> 0 .. 3]
    /\ flags \in [Wheels -> SUBSET Phases] /\ last_state \in [Wheels -> 0 .. 3]
    /\ total \in [Wheels -> Int] /\ reported \in [Wheels -> Int]
    /\ isr \in BOOLEAN /\ todo \in SUBSET Wheels
    /\ pending \in [Wheels -> SUBSET Phases]
    /\ seenAt \in [Wheels -> Int] /\ jumps \in [Wheels -> Nat]
    /\ both \in [Wheels -> BOOLEAN]

\* Whatever order edges, interrupts and resets come in, a count differs from the
\* turn of the wheel by the edges not decoded yet and by nothing else, unless a
\* decoding came too late and found the wheel two edges further; even then what
\* is lost is a whole number of half periods.
CountsFollowWheel ==
    \A w \in Wheels :
        /\ last_state[w] = encoder_state(start[w] + seenAt[w])
        /\ jumps[w] = 0 => total[w] + Lag(w) = position[w]
        /\ (total[w] + Lag(w) - position[w]) % 2 = 0

\* The handler clears flags after the decoding, so it can clear one set by a later
\* edge.  If it begins with one flag of a wheel at a time, the wheel is never left
\* more than one edge behind with no flag to call the handler again.
EdgeIsServed ==
    \A w \in Wheels : ~isr /\ flags[w] = {} /\ ~both[w] => Lag(w) \in -1 .. 1
=============================================================================
