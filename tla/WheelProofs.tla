----------------------------- MODULE WheelProofs -----------------------------
(***************************************************************************)
(* What is measured at the wheels and what is asked of them.  Counts       *)
(* follow the wheels (Encoder), for wheels that turn any distance and any  *)
(* number of late decodings.  The loop from the line sensor to the duties  *)
(* (LineFollower) keeps its promises for any number of channels, any       *)
(* gains, limits and speeds within the assumptions of that module.         *)
(*                                                                         *)
(* The sums over the channels are folds, whose values only induction over  *)
(* the channels tells: MinimalMember gives it for families of sets, where  *)
(* the induction theorems of the library take an operator.                 *)
(***************************************************************************)
EXTENDS Encoder, LineFollower, FiniteSetTheorems, TLAPS

\* ENCODERS

\* encoder_state has period 4 and tells the four phases apart.
LEMMA StateOfPhase ==
    ASSUME NEW p \in Int
    PROVE  /\ p % 4 \in 0 .. 3
           /\ encoder_state(p) \in 0 .. 3
           /\ p % 4 = 0 => encoder_state(p) = 0
           /\ p % 4 = 1 => encoder_state(p) = 1
           /\ p % 4 = 2 => encoder_state(p) = 3
           /\ p % 4 = 3 => encoder_state(p) = 2
<1>1. p % 4 \in 0 .. 3
  OBVIOUS
<1>2. CASE p % 4 = 0 BY <1>2 DEF encoder_state, Gray
<1>3. CASE p % 4 = 1 BY <1>3 DEF encoder_state, Gray
<1>4. CASE p % 4 = 2 BY <1>4 DEF encoder_state, Gray
<1>5. CASE p % 4 = 3 BY <1>5 DEF encoder_state, Gray
<1>6. QED BY <1>1, <1>2, <1>3, <1>4, <1>5

\* decode_step: an edge counts one in its direction, no edge and two edges count
\* nothing, three look like one back; the count is always right modulo 2.
LEMMA DecodeStep ==
    ASSUME NEW p \in Int, NEW q \in Int
    PROVE  LET d == decode_step(encoder_state(p), encoder_state(q)) IN
           /\ d \in {-1, 0, 1}
           /\ q - p \in -1 .. 1 => d = q - p
           /\ (d - (q - p)) % 2 = 0
<1> DEFINE d == decode_step(encoder_state(p), encoder_state(q))
<1>1. CASE p % 4 = q % 4
  <2>1. d = 0
    BY <1>1, StateOfPhase DEF decode_step, Table
  <2>2. QED BY <1>1, <2>1
<1>2. CASE (p + 1) % 4 = q % 4
  <2>1. d = 1
    BY <1>2, StateOfPhase DEF decode_step, Table
  <2>2. QED BY <1>2, <2>1
<1>3. CASE (p + 2) % 4 = q % 4
  <2>1. d = 0
    BY <1>3, StateOfPhase DEF decode_step, Table
  <2>2. QED BY <1>3, <2>1
<1>4. CASE (p + 3) % 4 = q % 4
  <2>1. d = -1
    BY <1>4, StateOfPhase DEF decode_step, Table
  <2>2. QED BY <1>4, <2>1
<1>5. QED BY <1>1, <1>2, <1>3, <1>4

-----------------------------------------------------------------------------
LEMMA TypeInit == Init => TypeOK
<1> SUFFICES ASSUME Init PROVE TypeOK
  OBVIOUS
<1>1. \A w \in Wheels : start[w] \in Int /\ encoder_state(start[w]) \in 0 .. 3
  BY StateOfPhase DEF Init
<1>2. last_state \in [Wheels -> 0 .. 3]
  BY <1>1 DEF Init
<1>3. both \in [Wheels -> BOOLEAN]
  BY DEF Init
<1>4. /\ position \in [Wheels -> Int] /\ total \in [Wheels -> Int]
      /\ reported \in [Wheels -> Int] /\ seenAt \in [Wheels -> Int]
      /\ jumps \in [Wheels -> Nat]
  BY DEF Init
<1>5. flags \in [Wheels -> SUBSET Phases] /\ pending \in [Wheels -> SUBSET Phases]
  BY DEF Init
<1> QED BY <1>2, <1>3, <1>4, <1>5 DEF Init, TypeOK

LEMMA StateIsPhase ==
    ASSUME TypeOK, NEW w \in Wheels
    PROVE  /\ State(w) \in 0 .. 3
           /\ State(w) = encoder_state(start[w] + position[w])
<1>1. start[w] + position[w] \in Int
  BY DEF TypeOK
<1> QED BY <1>1, StateOfPhase DEF State

LEMMA TypeStep == TypeOK /\ [Next]_vars => TypeOK'
<1> SUFFICES ASSUME TypeOK, [Next]_vars PROVE TypeOK'
  OBVIOUS
<1> USE DEF TypeOK
<1>1. ASSUME NEW w \in Wheels, NEW by \in {-1, 1}, Turn(w, by) PROVE TypeOK'
  <2>1. position[w] + by \in Int /\ Phases = {"A", "B"}
    BY DEF Phases
  <2>2. position' \in [Wheels -> Int]
    BY <1>1, <2>1 DEF Turn
  <2>3. \A p : EdgeAfter(p) \in Phases
    BY DEF EdgeAfter, Phases
  <2>4. flags' \in [Wheels -> SUBSET Phases]
    BY <1>1, <2>3 DEF Turn
  <2> QED BY <1>1, <2>2, <2>4 DEF Turn, countVars, isrVars
<1>2. CASE Enter
  <2>1. both' \in [Wheels -> BOOLEAN]
    BY <1>2 DEF Enter
  <2> QED BY <1>2, <2>1 DEF Enter, wheelVars, countVars
<1>3. ASSUME NEW w \in Wheels, Decode(w) PROVE TypeOK'
  <2>1. todo' \in SUBSET Wheels
    BY <1>3 DEF Decode
  <2>2. CASE pending[w] = {}
    BY <1>3, <2>1, <2>2 DEF Decode, wheelVars, countVars
  <2>3. CASE pending[w] # {}
    <3>1. PICK p \in Int : last_state[w] = encoder_state(p)
      BY StateOfPhase
    <3>2. decode_step(last_state[w], State(w)) \in Int
      <4>1. start[w] + position[w] \in Int
        OBVIOUS
      <4>2. State(w) = encoder_state(start[w] + position[w])
        BY DEF State
      <4> DEFINE q == start[w] + position[w]
      <4>3. decode_step(encoder_state(p), encoder_state(q)) \in {-1, 0, 1}
        BY ONLY p \in Int, <4>1, DecodeStep
      <4> QED BY <3>1, <4>2, <4>3
    <3> DEFINE d == decode_step(last_state[w], State(w))
    <3>3. d \in Int
      BY <3>2
    <3> HIDE DEF d
    <3>4. /\ total' = [total EXCEPT ![w] = @ + d]
          /\ last_state' = [last_state EXCEPT ![w] = State(w)]
          /\ seenAt' = [seenAt EXCEPT ![w] = position[w]]
          /\ jumps' = [jumps EXCEPT ![w] = IF Magnitude(Lag(w)) > 1 THEN @ + 1 ELSE @]
          /\ UNCHANGED <<reported, wheelVars, isr, pending, both>>
      BY <1>3, <2>3 DEF Decode, d
    <3>5. total' \in [Wheels -> Int] /\ seenAt' \in [Wheels -> Int]
      BY <3>3, <3>4
    <3>6. last_state' \in [Wheels -> 0 .. 3]
      BY <3>4, StateIsPhase
    <3>7. jumps' \in [Wheels -> Nat]
      BY <3>4
    <3> QED BY <2>1, <3>4, <3>5, <3>6, <3>7 DEF wheelVars
  <2> QED BY <2>2, <2>3
<1>4. CASE Leave
  BY <1>4 DEF Leave, countVars
<1>5. ASSUME NEW w \in Wheels, GetDelta(w) PROVE TypeOK'
  BY <1>5 DEF GetDelta, wheelVars, isrVars
<1>6. ASSUME NEW w \in Wheels, Reset(w) PROVE TypeOK'
  <2>1. State(w) \in 0 .. 3 /\ (start[w] + position[w]) % 4 \in 0 .. 3
    <3>1. start[w] + position[w] \in Int
      OBVIOUS
    <3>2. (start[w] + position[w]) % 4 \in 0 .. 3
      BY <3>1, StateOfPhase
    <3> QED BY <3>2, StateIsPhase
  <2>2. last_state' \in [Wheels -> 0 .. 3]
    BY <1>6, <2>1 DEF Reset
  <2>3. start' \in [Wheels -> 0 .. 3]
    BY <1>6, <2>1 DEF Reset
  <2>4. both' \in [Wheels -> BOOLEAN]
    BY <1>6 DEF Reset
  <2> QED BY <1>6, <2>2, <2>3, <2>4 DEF Reset
<1>7. CASE UNCHANGED vars
  BY <1>7 DEF vars, wheelVars, countVars, isrVars
<1> QED BY <1>1, <1>2, <1>3, <1>4, <1>5, <1>6, <1>7 DEF Next, Handler

\* Every variable of the handler and of the counters keeps its range.
THEOREM EncoderTypeCorrect == Spec => []TypeOK
BY TypeInit, TypeStep, PTL DEF Spec

-----------------------------------------------------------------------------
LEMMA CountsInit == Init => CountsFollowWheel
<1> SUFFICES ASSUME Init, NEW w \in Wheels
             PROVE  /\ last_state[w] = encoder_state(start[w] + seenAt[w])
                    /\ jumps[w] = 0 => total[w] + Lag(w) = position[w]
                    /\ (total[w] + Lag(w) - position[w]) % 2 = 0
  BY DEF CountsFollowWheel
<1>1. start[w] + seenAt[w] = start[w]
  BY DEF Init
<1> QED BY <1>1 DEF Init, Lag

\* The count of one wheel, a predicate of its position, start, state and counts.
Counted(p, s, l, t, a, j) ==
    /\ l = encoder_state(s + a)
    /\ j = 0 => t = a
    /\ (t - a) % 2 = 0

LEMMA CountedIff ==
    ASSUME NEW p \in Int, NEW s, NEW l, NEW t \in Int, NEW a \in Int, NEW j
    PROVE  Counted(p, s, l, t, a, j) <=>
             /\ l = encoder_state(s + a)
             /\ j = 0 => t + (p - a) = p
             /\ ((t + (p - a)) - p) % 2 = 0
<1>1. (t + (p - a)) - p = t - a /\ (t + (p - a) = p <=> t = a)
  OBVIOUS
<1> QED BY <1>1 DEF Counted

LEMMA CountedDecode ==
    ASSUME NEW p \in Int, NEW s \in 0 .. 3, NEW l, NEW t \in Int, NEW a \in Int,
           NEW j \in Nat, Counted(p, s, l, t, a, j)
    PROVE  Counted(p, s, encoder_state(s + p), t + decode_step(l, encoder_state(s + p)), p,
                   IF Magnitude(p - a) > 1 THEN j + 1 ELSE j)
<1> DEFINE d == decode_step(l, encoder_state(s + p))
<1>1. s + p \in Int /\ s + a \in Int /\ (s + p) - (s + a) = p - a
  OBVIOUS
<1>2. /\ d \in {-1, 0, 1}
      /\ p - a \in -1 .. 1 => d = p - a
      /\ (d - (p - a)) % 2 = 0
  <2>1. l = encoder_state(s + a)
    BY DEF Counted
  <2>2. LET e == decode_step(encoder_state(s + a), encoder_state(s + p)) IN
        /\ e \in {-1, 0, 1}
        /\ (s + p) - (s + a) \in -1 .. 1 => e = (s + p) - (s + a)
        /\ (e - ((s + p) - (s + a))) % 2 = 0
    BY <1>1, DecodeStep
  <2> QED BY <1>1, <2>1, <2>2
<1> HIDE DEF d
<1>3. ((t + d) - p) % 2 = 0
  BY <1>2 DEF Counted
<1>4. (IF Magnitude(p - a) > 1 THEN j + 1 ELSE j) = 0 => t + d = p
  BY <1>2 DEF Counted, Magnitude
<1> QED BY <1>3, <1>4 DEF Counted, d

LEMMA CountedReset ==
    ASSUME NEW p \in Int, NEW s \in 0 .. 3
    PROVE  Counted(0, (s + p) % 4, encoder_state(s + p), 0, 0, 0)
<1>1. (s + p) % 4 \in 0 .. 3 /\ ((s + p) % 4) + 0 \in Int
  OBVIOUS
<1>2. (((s + p) % 4) + 0) % 4 = (s + p) % 4
  OBVIOUS
<1>3. encoder_state(((s + p) % 4) + 0) = encoder_state(s + p)
  BY <1>2 DEF encoder_state
<1> QED BY <1>3 DEF Counted

LEMMA CountsStep == TypeOK /\ TypeOK' /\ CountsFollowWheel /\ [Next]_vars => CountsFollowWheel'
<1> SUFFICES ASSUME TypeOK, TypeOK', CountsFollowWheel, [Next]_vars PROVE CountsFollowWheel'
  OBVIOUS
<1> SUFFICES ASSUME NEW v \in Wheels
             PROVE  Counted(position[v], start[v], last_state[v], total[v], seenAt[v], jumps[v])'
  <2>1. \A w \in Wheels : position'[w] \in Int /\ total'[w] \in Int /\ seenAt'[w] \in Int
    BY DEF TypeOK
  <2> QED BY <2>1, CountedIff DEF CountsFollowWheel, Lag
<1>0. /\ position[v] \in Int /\ start[v] \in 0 .. 3 /\ total[v] \in Int
      /\ seenAt[v] \in Int /\ jumps[v] \in Nat
      /\ Counted(position[v], start[v], last_state[v], total[v], seenAt[v], jumps[v])
  <2>1. /\ position[v] \in Int /\ start[v] \in 0 .. 3 /\ total[v] \in Int
        /\ seenAt[v] \in Int /\ jumps[v] \in Nat
    BY DEF TypeOK
  <2> QED BY <2>1, CountedIff DEF CountsFollowWheel, Lag
<1>1. ASSUME NEW w \in Wheels, NEW by \in {-1, 1}, Turn(w, by)
      PROVE  Counted(position[v], start[v], last_state[v], total[v], seenAt[v], jumps[v])'
  BY <1>0, <1>1 DEF Turn, countVars, Counted
<1>2. CASE UNCHANGED <<wheelVars, countVars>>
  BY <1>0, <1>2 DEF wheelVars, countVars, Counted
<1>3. ASSUME NEW w \in Wheels, Decode(w)
      PROVE  Counted(position[v], start[v], last_state[v], total[v], seenAt[v], jumps[v])'
  <2>1. CASE pending[w] = {}
    BY <1>2, <1>3, <2>1 DEF Decode
  <2>2. CASE w # v
    BY <1>0, <1>3, <2>2 DEF Decode, countVars, wheelVars, Counted, TypeOK
  <2>3. CASE pending[w] # {} /\ w = v
    <3> DEFINE d == decode_step(last_state[v], encoder_state(start[v] + position[v]))
               n == IF Magnitude(position[v] - seenAt[v]) > 1 THEN jumps[v] + 1 ELSE jumps[v]
               l == encoder_state(start[v] + position[v])
    <3>1. Counted(position[v], start[v], l, total[v] + d, position[v], n)
      BY <1>0, CountedDecode
    <3>2. /\ last_state'[v] = l /\ total'[v] = total[v] + d
          /\ seenAt'[v] = position[v] /\ jumps'[v] = n
          /\ position' = position /\ start' = start
      BY <1>3, <2>3 DEF Decode, wheelVars, State, Lag, TypeOK
    <3> QED BY <3>1, <3>2 DEF Counted
  <2> QED BY <2>1, <2>2, <2>3
<1>4. CASE Leave
  BY <1>0, <1>4 DEF Leave, countVars, Counted
<1>5. ASSUME NEW w \in Wheels, GetDelta(w)
      PROVE  Counted(position[v], start[v], last_state[v], total[v], seenAt[v], jumps[v])'
  BY <1>0, <1>5 DEF GetDelta, wheelVars, Counted
<1>6. ASSUME NEW w \in Wheels, Reset(w)
      PROVE  Counted(position[v], start[v], last_state[v], total[v], seenAt[v], jumps[v])'
  <2>1. CASE w # v
    BY <1>0, <1>6, <2>1 DEF Reset, Counted, TypeOK
  <2>2. CASE w = v
    <3>1. Counted(0, (start[v] + position[v]) % 4, encoder_state(start[v] + position[v]), 0, 0, 0)
      BY <1>0, CountedReset
    <3>2. /\ last_state'[v] = encoder_state(start[v] + position[v])
          /\ total'[v] = 0 /\ seenAt'[v] = 0 /\ jumps'[v] = 0 /\ position'[v] = 0
          /\ start'[v] = (start[v] + position[v]) % 4
      BY <1>6, <2>2 DEF Reset, State, TypeOK
    <3> QED BY <3>1, <3>2 DEF Counted
  <2> QED BY <2>1, <2>2
<1>7. CASE Enter
  BY <1>2, <1>7 DEF Enter
<1>8. CASE UNCHANGED vars
  BY <1>2, <1>8 DEF vars
<1> QED BY <1>1, <1>3, <1>4, <1>5, <1>6, <1>7, <1>8 DEF Next, Handler

\* Counts follow the wheels: a count is the turn of its wheel since the reset up
\* to edges not decoded yet, unless a decoding came two edges too late.
THEOREM CountsFollow == Spec => []CountsFollowWheel
<1>1. Init => TypeOK /\ CountsFollowWheel
  BY TypeInit, CountsInit
<1>2. TypeOK /\ CountsFollowWheel /\ [Next]_vars => (TypeOK /\ CountsFollowWheel)'
  BY TypeStep, CountsStep
<1> QED BY <1>1, <1>2, PTL DEF Spec

-----------------------------------------------------------------------------

\* At most one edge, and of phase f, between positions a and p of a wheel whose
\* phase was s.
OneEdge(p, a, s, f) ==
    \/ p = a
    \/ p = a + 1 /\ EdgeAfter(s + a) = f
    \/ p = a - 1 /\ EdgeAfter(s + p) = f

\* Why Leave may clear what it read: as long as the handler has read one flag f
\* of a wheel it has decoded, either another flag is set again or the wheel has
\* only gone back and forth over one edge since.
ServedWheel(w) ==
    /\ ~isr => pending[w] = {}
    /\ ~both[w] =>
         /\ pending[w] # Phases
         /\ pending[w] = {} /\ flags[w] = {} => Lag(w) \in -1 .. 1
         /\ \A f \in Phases : w \notin todo /\ pending[w] = {f} /\ flags[w] \subseteq {f}
              => OneEdge(position[w], seenAt[w], start[w], f)

ServedInv == \A w \in Wheels : ServedWheel(w)

LEMMA EdgesAlternate ==
    ASSUME NEW p \in Int
    PROVE  EdgeAfter(p) # EdgeAfter(p + 1) /\ EdgeAfter(p - 1) # EdgeAfter(p)
<1>1. CASE p % 2 = 0
  <2>1. (p + 1) % 2 = 1 /\ (p - 1) % 2 = 1
    BY <1>1
  <2> QED BY <1>1, <2>1 DEF EdgeAfter
<1>2. CASE p % 2 = 1
  <2>1. (p + 1) % 2 = 0 /\ (p - 1) % 2 = 0
    BY <1>2
  <2> QED BY <1>2, <2>1 DEF EdgeAfter
<1> QED BY <1>1, <1>2

LEMMA OneEdgeTurn ==
    ASSUME NEW p \in Int, NEW a \in Int, NEW s \in 0 .. 3, NEW f,
           OneEdge(p, a, s, f)
    PROVE  /\ EdgeAfter(s + p) = f => OneEdge(p + 1, a, s, f)
           /\ EdgeAfter(s + p - 1) = f => OneEdge(p - 1, a, s, f)
<1>1. CASE p = a
  <2>1. (p - 1) + 1 = a /\ p + 1 = a + 1 /\ p - 1 = a - 1 /\ s + p - 1 = s + (p - 1)
    BY <1>1
  <2> QED BY <1>1, <2>1 DEF OneEdge
<1>2. CASE p = a + 1 /\ EdgeAfter(s + a) = f
  <2>1. p - 1 = a /\ s + p = (s + a) + 1 /\ s + a \in Int
    BY <1>2
  <2> QED BY <1>2, <2>1, EdgesAlternate DEF OneEdge
<1>3. CASE p = a - 1 /\ EdgeAfter(s + p) = f
  <2>1. p + 1 = a /\ s + p \in Int
    BY <1>3
  <2> QED BY <1>3, <2>1, EdgesAlternate DEF OneEdge
<1> QED BY <1>1, <1>2, <1>3 DEF OneEdge

LEMMA ServedInit == Init => ServedInv
BY DEF Init, ServedInv, ServedWheel, Lag, Phases

LEMMA ServedStep == TypeOK /\ ServedInv /\ [Next]_vars => ServedInv'
<1> SUFFICES ASSUME TypeOK, ServedInv, [Next]_vars PROVE ServedInv'
  OBVIOUS
<1> SUFFICES ASSUME NEW v \in Wheels PROVE ServedWheel(v)'
  BY DEF ServedInv
<1>0. /\ ServedWheel(v)
      /\ position[v] \in Int /\ start[v] \in 0 .. 3 /\ seenAt[v] \in Int
      /\ flags[v] \subseteq Phases /\ pending[v] \subseteq Phases
  BY DEF ServedInv, TypeOK
<1>1. ASSUME NEW w \in Wheels, NEW by \in {-1, 1}, Turn(w, by) PROVE ServedWheel(v)'
  <2>1. CASE w # v
    BY <1>0, <1>1, <2>1 DEF Turn, countVars, isrVars, ServedWheel, Lag, TypeOK
  <2>2. CASE w = v
    <3> DEFINE e == EdgeAfter(IF by = 1 THEN start[v] + position[v]
                              ELSE start[v] + position[v] - 1)
    <3>1. /\ position'[v] = position[v] + by
          /\ flags'[v] = flags[v] \cup {e}
          /\ start' = start /\ seenAt' = seenAt
          /\ pending' = pending /\ todo' = todo /\ isr' = isr /\ both' = both
      BY <1>1, <2>2 DEF Turn, countVars, isrVars, TypeOK
    <3>2. ASSUME NEW f \in Phases, ~both[v], v \notin todo, pending[v] = {f},
                 flags'[v] \subseteq {f}
          PROVE  OneEdge(position[v] + by, seenAt[v], start[v], f)
      <4>1. flags[v] \subseteq {f} /\ e = f
        BY <3>1, <3>2
      <4>2. OneEdge(position[v], seenAt[v], start[v], f)
        BY <1>0, <3>2, <4>1 DEF ServedWheel
      <4> QED BY <1>0, <4>1, <4>2, OneEdgeTurn
    <3> QED BY <1>0, <3>1, <3>2 DEF ServedWheel
  <2> QED BY <2>1, <2>2
<1>2. CASE Enter
  BY <1>0, <1>2 DEF Enter, wheelVars, countVars, ServedWheel, Lag
<1>3. ASSUME NEW w \in Wheels, Decode(w) PROVE ServedWheel(v)'
  <2>1. CASE w # v
    BY <1>0, <1>3, <2>1 DEF Decode, wheelVars, countVars, ServedWheel, Lag, TypeOK
  <2>2. CASE w = v /\ pending[v] = {}
    BY <1>0, <1>3, <2>2 DEF Decode, wheelVars, countVars, ServedWheel, Lag
  <2>3. CASE w = v /\ pending[v] # {}
    <3>1. /\ seenAt'[v] = position[v] /\ position' = position
          /\ pending' = pending /\ isr' = isr /\ both' = both
      BY <1>3, <2>3 DEF Decode, wheelVars, TypeOK
    <3>2. \A f : OneEdge(position'[v], seenAt'[v], start'[v], f)
      BY <3>1 DEF OneEdge
    <3> QED BY <1>0, <2>3, <3>1, <3>2 DEF ServedWheel
  <2> QED BY <2>1, <2>2, <2>3
<1>4. CASE Leave
  <2>1. /\ flags'[v] = flags[v] \ pending[v] /\ pending'[v] = {}
        /\ position' = position /\ seenAt' = seenAt /\ both' = both
        /\ v \notin todo /\ isr' = FALSE
    BY <1>4 DEF Leave, countVars, TypeOK
  <2>2. ASSUME ~both[v], flags'[v] = {} PROVE Lag(v)' \in -1 .. 1
    <3>1. CASE pending[v] = {}
      BY <1>0, <2>1, <2>2, <3>1 DEF ServedWheel, Lag
    <3>2. CASE pending[v] # {}
      <4>1. pending[v] # Phases
        BY <1>0, <2>2 DEF ServedWheel
      <4>2. PICK f \in Phases : pending[v] = {f}
        BY <1>0, <3>2, <4>1 DEF Phases
      <4>3. OneEdge(position[v], seenAt[v], start[v], f)
        BY <1>0, <2>1, <2>2, <4>2 DEF ServedWheel
      <4>4. position[v] - seenAt[v] \in -1 .. 1
        BY <1>0, <4>3 DEF OneEdge
      <4> QED BY <2>1, <4>4 DEF Lag
    <3> QED BY <3>1, <3>2
  <2> QED BY <2>1, <2>2 DEF ServedWheel, Phases
<1>5. ASSUME NEW w \in Wheels, GetDelta(w) PROVE ServedWheel(v)'
  BY <1>0, <1>5 DEF GetDelta, wheelVars, isrVars, ServedWheel, Lag
<1>6. ASSUME NEW w \in Wheels, Reset(w) PROVE ServedWheel(v)'
  <2>1. CASE w # v
    <3>1. /\ position'[v] = position[v] /\ start'[v] = start[v] /\ seenAt'[v] = seenAt[v]
          /\ both'[v] = both[v]
          /\ flags' = flags /\ isr' = isr /\ pending' = pending /\ todo' = todo
      BY <1>6, <2>1 DEF Reset, TypeOK
    <3> QED BY <1>0, <3>1 DEF ServedWheel, Lag
  <2>2. CASE w = v
    <3>1. pending'[v] = {} /\ position'[v] = 0 /\ seenAt'[v] = 0
      BY <1>0, <1>6, <2>2 DEF Reset, ServedWheel, TypeOK
    <3>2. Lag(v)' = 0
      BY <3>1 DEF Lag
    <3> QED BY <3>1, <3>2 DEF ServedWheel, Phases
  <2> QED BY <2>1, <2>2
<1>7. CASE UNCHANGED vars
  BY <1>0, <1>7 DEF vars, wheelVars, countVars, isrVars, ServedWheel, Lag
<1> QED BY <1>1, <1>2, <1>3, <1>4, <1>5, <1>6, <1>7 DEF Next, Handler

\* No edge is stranded: if the handler never began with both flags of a wheel, the
\* wheel is at most one edge behind whenever no flag would call the handler again.
THEOREM EdgesServed == Spec => []EdgeIsServed
<1>1. Init => TypeOK /\ ServedInv
  BY TypeInit, ServedInit
<1>2. TypeOK /\ ServedInv /\ [Next]_vars => (TypeOK /\ ServedInv)'
  BY TypeStep, ServedStep
<1>3. ServedInv => EdgeIsServed
  BY DEF ServedInv, ServedWheel, EdgeIsServed
<1> QED BY <1>1, <1>2, <1>3, PTL DEF Spec
-----------------------------------------------------------------------------

\* INDUCTION AND SUMS

\* A family of subsets of a finite set that is not empty has a minimal member.
LEMMA MinimalMember ==
    ASSUME NEW S, IsFiniteSet(S), NEW F, F \subseteq SUBSET S, F # {}
    PROVE  \E T \in F : \A U \in F : U \subseteq T => U = T
<1>1. F \subseteq FiniteSubsetsOf(S)
  BY FS_Subset DEF FiniteSubsetsOf
<1>2. PICK T \in F : \A U \in F : ~ (<<U, T>> \in StrictSubsetOrdering(S))
  BY <1>1, FS_StrictSubsetOrderingWellFounded, WFMin
<1>3. QED
  BY <1>1, <1>2 DEF StrictSubsetOrdering, FiniteSubsetsOf

\* Induction over the subsets of a finite set, for a family instead of an operator.
LEMMA SubsetInduction ==
    ASSUME NEW S, IsFiniteSet(S), NEW F,
           \A T \in SUBSET S : (\A U \in SUBSET T : U # T => U \in F) => T \in F
    PROVE  SUBSET S \subseteq F
<1> DEFINE Bad == (SUBSET S) \ F
<1> SUFFICES ASSUME Bad # {} PROVE FALSE
  OBVIOUS
<1>1. PICK T \in Bad : \A U \in Bad : U \subseteq T => U = T
  <2>1. Bad \subseteq SUBSET S
    OBVIOUS
  <2> HIDE DEF Bad
  <2> QED BY <2>1, MinimalMember
<1> QED
  BY <1>1

\* Induction over the numbers up to n, for a set instead of an operator.
LEMMA NumberInduction ==
    ASSUME NEW n \in Nat, NEW P, 0 \in P, \A k \in 0 .. n : k \in P /\ k < n => k + 1 \in P
    PROVE  0 .. n \subseteq P
<1> DEFINE Bad == {0 .. k : k \in (0 .. n) \ P}
<1> SUFFICES ASSUME NEW b \in (0 .. n) \ P PROVE FALSE
  OBVIOUS
<1>1. IsFiniteSet(0 .. n)
  BY FS_Interval
<1>2. PICK T \in Bad : \A U \in Bad : U \subseteq T => U = T
  <2>1. Bad \subseteq SUBSET (0 .. n)
    OBVIOUS
  <2>2. Bad # {}
    OBVIOUS
  <2> DEFINE D == 0 .. n
  <2>3. IsFiniteSet(D) /\ Bad \subseteq SUBSET D
    BY <1>1, <2>1
  <2> HIDE DEF Bad, D
  <2> QED BY <2>2, <2>3, MinimalMember
<1>3. PICK k \in (0 .. n) \ P : T = 0 .. k
  BY <1>2
<1>4. k # 0 /\ k - 1 \in 0 .. n /\ k - 1 < n /\ (k - 1) + 1 = k
  BY <1>3
<1>5. k - 1 \in (0 .. n) \ P
  BY <1>3, <1>4
<1>6. 0 .. (k - 1) \subseteq T /\ k \notin 0 .. (k - 1) /\ k \in T
  BY <1>3, <1>4
<1>7. 0 .. (k - 1) \in Bad
  BY <1>5
<1> QED
  <2> HIDE DEF Bad
  <2> QED BY <1>2, <1>6, <1>7

\* The smaller of two.
LEMMA MinOfTwo ==
    ASSUME NEW a \in Int, NEW b \in Int
    PROVE  Min({a, b}) = IF a <= b THEN a ELSE b
BY DEF Min

\* The larger of two.
LEMMA MaxOfTwo ==
    ASSUME NEW a \in Int, NEW b \in Int
    PROVE  Max({a, b}) = IF a <= b THEN b ELSE a
BY DEF Max

\* No channel reads less than the smallest reading (ReadRaw, MinValue).
LEMMA RawValues ==
    ASSUME NEW active \in SUBSET Channels
    PROVE  \A i \in Channels : ReadRaw(active)[i] - MinValue(ReadRaw(active)) \in Nat
<1> DEFINE raw == ReadRaw(active)
           V == {raw[i] : i \in Channels}
<1>1. \A i \in Channels : raw[i] \in {0, 4095}
  BY DEF ReadRaw, LINE_HIGH_VALUE, LINE_LOW_VALUE
<1>2. 0 \in Channels
  BY LineSensorAssumption DEF Channels
<1>3. V \subseteq {0, 4095} /\ V # {}
  BY <1>1, <1>2
<1>4. \E x \in V : \A y \in V : x <= y
  <2> HIDE DEF V
  <2>1. CASE 0 \in V
    BY <1>3, <2>1
  <2>2. CASE 0 \notin V
    <3>1. \A y \in V : y = 4095
      BY <1>3, <2>2
    <3>2. PICK x : x \in V
      BY <1>3
    <3>3. \A y \in V : x <= y
      BY <3>1, <3>2
    <3> QED BY <3>2, <3>3
  <2> QED BY <2>1, <2>2
<1>5. MinValue(raw) \in V /\ \A y \in V : MinValue(raw) <= y
  <2>1. Min(V) \in V /\ \A y \in V : Min(V) <= y
    <3> HIDE DEF V
    <3> QED BY <1>4 DEF Min
  <2> QED BY <2>1 DEF MinValue
<1>6. \A i \in Channels : MinValue(raw) <= raw[i]
  BY <1>5
<1>7. MinValue(raw) \in Int /\ \A i \in Channels : raw[i] \in Int
  BY <1>1, <1>3, <1>5
<1>8. \A i \in Channels : raw[i] - MinValue(raw) \in Nat
  <2> HIDE DEF raw
  <2> QED BY <1>6, <1>7
<1> QED
  BY <1>8

\* The element MapThenSumSet takes next.
First(s) == CHOOSE x \in s : TRUE

\* The recursive function of MapThenSumSet, for a function to sum.
SumsOf(g, S, f) ==
    g = [s \in SUBSET S |-> IF s = {} THEN 0 ELSE f[First(s)] + g[s \ {First(s)}]]

\* A sum over a finite set has the recursive function that defines it.
LEMMA SumExists ==
    ASSUME NEW S, IsFiniteSet(S), NEW f
    PROVE  \E g : SumsOf(g, S, f)
<1> DEFINE Step(g, s) == IF s = {} THEN 0 ELSE f[First(s)] + g[s \ {First(s)}]
           Small(n) == {s \in SUBSET S : Cardinality(s) <= n}
           P == {n \in Nat : \E g : g = [s \in SUBSET S |-> IF s \in Small(n) THEN Step(g, s) ELSE 0]}
<1>0. \A s \in SUBSET S : s # {} => First(s) \in s
  BY DEF First
<1>1. \A s \in SUBSET S : IsFiniteSet(s) /\ Cardinality(s) \in Nat /\ Cardinality(s) <= Cardinality(S)
  BY FS_Subset, FS_CardinalityType
<1>2. \A s \in SUBSET S : s # {} =>
        s \ {First(s)} \in SUBSET S /\ Cardinality(s \ {First(s)}) = Cardinality(s) - 1
  BY <1>0, <1>1, FS_RemoveElement
<1>3. 0 \in P
  <2> DEFINE z == [s \in SUBSET S |-> 0]
  <2>1. \A s \in Small(0) : s = {}
    BY <1>1, FS_EmptySet
  <2>2. z = [s \in SUBSET S |-> IF s \in Small(0) THEN Step(z, s) ELSE 0]
    BY <2>1
  <2> QED
    BY <2>2
<1>4. ASSUME NEW n \in Nat, n \in P PROVE n + 1 \in P
  <2>1. PICK g : g = [s \in SUBSET S |-> IF s \in Small(n) THEN Step(g, s) ELSE 0]
    BY <1>4
  <2> DEFINE h == [s \in SUBSET S |-> IF s \in Small(n + 1) THEN Step(g, s) ELSE 0]
  <2>2. \A s \in Small(n) : s \in SUBSET S /\ s \in Small(n + 1) /\ h[s] = g[s]
    <3>1. \A s \in Small(n) : s \in SUBSET S /\ s \in Small(n + 1)
      BY <1>1
    <3> HIDE DEF Step, Small
    <3> QED BY <3>1, <2>1
  <2>3. \A s \in Small(n + 1) : s # {} => s \ {First(s)} \in Small(n)
    BY <1>1, <1>2
  <2>4. \A s \in Small(n + 1) : Step(g, s) = Step(h, s)
    <3> HIDE DEF Small, h
    <3> QED BY <2>2, <2>3
  <2>5. h = [s \in SUBSET S |-> IF s \in Small(n + 1) THEN Step(h, s) ELSE 0]
    <3>1. \A s \in SUBSET S : (IF s \in Small(n + 1) THEN Step(g, s) ELSE 0)
                            = (IF s \in Small(n + 1) THEN Step(h, s) ELSE 0)
      <4> HIDE DEF Step, Small, h
      <4> QED BY <2>4
    <3> HIDE DEF Step, Small
    <3> QED BY <3>1
  <2>6. \E u : u = [s \in SUBSET S |-> IF s \in Small(n + 1) THEN Step(u, s) ELSE 0]
    <3> HIDE DEF Step, Small, h
    <3> QED BY <2>5
  <2> QED
    <3> HIDE DEF Step, Small
    <3> QED BY <2>6
<1>5. Cardinality(S) \in P
  <2> HIDE DEF P
  <2>1. \A k \in 0 .. Cardinality(S) : k \in P /\ k < Cardinality(S) => k + 1 \in P
    BY <1>4
  <2> QED BY <1>1, <1>3, <2>1, NumberInduction
<1>6. PICK g : g = [s \in SUBSET S |-> IF s \in Small(Cardinality(S)) THEN Step(g, s) ELSE 0]
  BY <1>5
<1>7. \A s \in SUBSET S : s \in Small(Cardinality(S))
  BY <1>1
<1>8. g = [s \in SUBSET S |-> Step(g, s)]
  <2> HIDE DEF Step, Small
  <2> QED BY <1>6, <1>7
<1> QED
  BY <1>8 DEF SumsOf

\* Strength and Weighted are sums over the channels.
LEMMA StrengthIsSum ==
    ASSUME NEW raw
    PROVE  \E g : /\ Strength(raw) = g[Channels]
                  /\ \A s \in SUBSET Channels : g[s] =
                       IF s = {} THEN 0 ELSE (raw[First(s)] - MinValue(raw)) + g[s \ {First(s)}]
<1> DEFINE f == [i \in Channels |-> raw[i] - MinValue(raw)]
           IsSum(g) == g = [s \in SUBSET Channels |->
             IF s = {} THEN 0 ELSE (raw[First(s)] - MinValue(raw)) + g[s \ {First(s)}]]
           sum == CHOOSE g : IsSum(g)
<1>1. IsFiniteSet(Channels)
  BY FS_Interval, LineSensorAssumption DEF Channels
<1>2. \A s \in SUBSET Channels : s # {} => f[First(s)] = raw[First(s)] - MinValue(raw)
  BY DEF First
<1>3. PICK g : SumsOf(g, Channels, f)
  <2> HIDE DEF f
  <2> QED BY <1>1, SumExists
<1>4. IsSum(g)
  <2> HIDE DEF f
  <2> QED BY <1>2, <1>3 DEF SumsOf
<1>5. IsSum(sum)
  <2> HIDE DEF IsSum
  <2> QED BY <1>4
<1>6. Strength(raw) = sum[Channels]
  BY DEF Strength, MapThenSumSet, MapThenFoldSet, First
<1> HIDE DEF sum
<1> QED BY <1>5, <1>6

\* Weighted is a sum over the channels.
LEMMA WeightedIsSum ==
    ASSUME NEW raw
    PROVE  \E g : /\ Weighted(raw) = g[Channels]
                  /\ \A s \in SUBSET Channels : g[s] =
                       IF s = {} THEN 0
                       ELSE Weight(First(s)) * (raw[First(s)] - MinValue(raw)) + g[s \ {First(s)}]
<1> DEFINE f == [i \in Channels |-> Weight(i) * (raw[i] - MinValue(raw))]
           IsSum(g) == g = [s \in SUBSET Channels |->
             IF s = {} THEN 0
             ELSE Weight(First(s)) * (raw[First(s)] - MinValue(raw)) + g[s \ {First(s)}]]
           sum == CHOOSE g : IsSum(g)
<1>1. IsFiniteSet(Channels)
  BY FS_Interval, LineSensorAssumption DEF Channels
<1>2. \A s \in SUBSET Channels :
        s # {} => f[First(s)] = Weight(First(s)) * (raw[First(s)] - MinValue(raw))
  BY DEF First
<1>3. PICK g : SumsOf(g, Channels, f)
  <2> HIDE DEF f
  <2> QED BY <1>1, SumExists
<1>4. IsSum(g)
  <2> HIDE DEF f
  <2> QED BY <1>2, <1>3 DEF SumsOf
<1>5. IsSum(sum)
  <2> HIDE DEF IsSum
  <2> QED BY <1>4
<1>6. Weighted(raw) = sum[Channels]
  BY DEF Weighted, MapThenSumSet, MapThenFoldSet, First
<1> HIDE DEF sum
<1> QED BY <1>5, <1>6

\* Weights reach from the leftmost channel to the rightmost.
LEMMA WeightRange ==
    ASSUME NEW i \in Channels
    PROVE  Weight(i) \in Int /\ Weight(i) <= Count - 1 /\ -(Count - 1) <= Weight(i)
BY LineSensorAssumption DEF Channels, Weight

\* A product is within the largest one of its factors.
LEMMA ProductRange ==
    ASSUME NEW c \in Nat, NEW w \in Int, -c <= w, w <= c, NEW d \in Nat
    PROVE  w * d \in Int /\ c * d \in Nat /\ w * d <= c * d /\ -(c * d) <= w * d
<1>1. 0 <= (c - w) * d /\ 0 <= (c + w) * d
  OBVIOUS
<1> QED BY <1>1

\* The weighted sum is within the strength times the largest weight.
LEMMA SumsBounded ==
    ASSUME NEW raw, \A i \in Channels : raw[i] - MinValue(raw) \in Nat
    PROVE  /\ Strength(raw) \in Nat /\ Weighted(raw) \in Int
           /\ Weighted(raw) <= (Count - 1) * Strength(raw)
           /\ -((Count - 1) * Strength(raw)) <= Weighted(raw)
<1> DEFINE D(i) == raw[i] - MinValue(raw)
           c == Count - 1
<1>1. PICK g : /\ Strength(raw) = g[Channels]
               /\ \A s \in SUBSET Channels :
                    g[s] = IF s = {} THEN 0 ELSE D(First(s)) + g[s \ {First(s)}]
  BY StrengthIsSum
<1>2. PICK h : /\ Weighted(raw) = h[Channels]
               /\ \A s \in SUBSET Channels :
                    h[s] = IF s = {} THEN 0
                           ELSE Weight(First(s)) * D(First(s)) + h[s \ {First(s)}]
  BY WeightedIsSum
<1>c. c \in Nat
  BY LineSensorAssumption
<1> DEFINE Good(s) == g[s] \in Nat /\ h[s] \in Int /\ h[s] <= c * g[s] /\ -(c * g[s]) <= h[s]
           F == {s \in SUBSET Channels : Good(s)}
<1>3. ASSUME NEW T \in SUBSET Channels, \A U \in SUBSET T : U # T => U \in F
      PROVE  T \in F
  <2>1. CASE T = {}
    <3>1. g[T] = 0 /\ h[T] = 0
      BY <1>1, <1>2, <2>1
    <3> QED BY <3>1, <1>c
  <2>2. CASE T # {}
    <3> DEFINE x == First(T)
               U == T \ {x}
    <3>1. x \in T
      BY <2>2 DEF First
    <3>2. Good(U)
      <4>1. U \in SUBSET T /\ U # T
        BY <3>1
      <4> HIDE DEF U, Good
      <4> QED BY <4>1, <1>3
    <3>3. g[T] = D(x) + g[U] /\ h[T] = Weight(x) * D(x) + h[U]
      <4> HIDE DEF D
      <4> QED BY <1>1, <1>2, <2>2
    <3>4. D(x) \in Nat
      BY <3>1
    <3>5. Weight(x) \in Int /\ Weight(x) <= c /\ -c <= Weight(x)
      BY <3>1, WeightRange
    <3> HIDE DEF D, x, U, c
    <3>6. /\ Weight(x) * D(x) \in Int /\ c * D(x) \in Nat
          /\ Weight(x) * D(x) <= c * D(x) /\ -(c * D(x)) <= Weight(x) * D(x)
      BY <1>c, <3>4, <3>5, ProductRange
    <3>7. c * g[T] = c * D(x) + c * g[U]
      BY <1>c, <3>2, <3>3, <3>4
    <3>8. Good(T)
      BY <1>c, <3>2, <3>3, <3>4, <3>6, <3>7
    <3> QED BY <3>8
  <2> QED BY <2>1, <2>2
<1>4. Channels \in F
  <2>1. IsFiniteSet(Channels)
    BY FS_Interval, LineSensorAssumption DEF Channels
  <2> HIDE DEF F
  <2> QED BY <1>3, <2>1, SubsetInduction
<1>5. Good(Channels)
  BY <1>4
<1> QED
  <2> HIDE DEF D
  <2> QED BY <1>1, <1>2, <1>5
-----------------------------------------------------------------------------

\* ROUNDING

\* What \div leaves is less than the divisor.
LEMMA DivBounds ==
    ASSUME NEW x \in Int, NEW d \in Nat \ {0}
    PROVE  x \div d \in Int /\ d * (x \div d) <= x /\ x < d * (x \div d) + d
OBVIOUS

\* A common factor cancels, whatever is left over.
LEMMA FactorMono ==
    ASSUME NEW a \in Int, NEW b \in Int, NEW d \in Nat \ {0}, d * a < d * b + d
    PROVE  a <= b
OBVIOUS

\* Division keeps the order.
LEMMA DivMono ==
    ASSUME NEW x \in Int, NEW y \in Int, NEW d \in Nat \ {0}, x <= y
    PROVE  x \div d <= y \div d
<1>1. d * (x \div d) < d * (y \div d) + d
  BY DivBounds
<1> QED BY <1>1, FactorMono, DivBounds

\* Nearest of a number that is not negative: a plain division.
LEMMA NearestUp ==
    ASSUME NEW a \in Nat, NEW b \in Nat \ {0}
    PROVE  Nearest(a, b) = (2 * a + b) \div (2 * b) /\ Nearest(a, b) \in Nat
<1> DEFINE d == 2 * b
           q == (2 * a + b) \div d
<1>1. d \in Nat \ {0} /\ 2 * a + b \in Nat
  OBVIOUS
<1>2. q \in Int /\ 2 * a + b < d * q + d
  <2> HIDE DEF d
  <2> QED BY <1>1, DivBounds
<1>3. 0 <= q
  <2>1. d * 0 < d * q + d
    <3> HIDE DEF q
    <3> QED BY <1>1, <1>2
  <2> HIDE DEF q, d
  <2> QED BY <1>1, <1>2, <2>1, FactorMono
<1> QED
  BY <1>2, <1>3 DEF Nearest

\* Rounding treats both signs alike.
LEMMA NearestOdd ==
    ASSUME NEW a \in Int, NEW b \in Nat \ {0}
    PROVE  Nearest(-a, b) = -Nearest(a, b)
<1>1. CASE a = 0
  <2>1. (2 * 0 + b) \div (2 * b) = 0
    OBVIOUS
  <2> QED BY <1>1, <2>1 DEF Nearest
<1>2. CASE a > 0
  BY <1>2 DEF Nearest
<1>3. CASE a < 0
  <2>1. b - 2 * a = 2 * (-a) + b
    OBVIOUS
  <2> QED BY <1>3, <2>1 DEF Nearest
<1> QED BY <1>1, <1>2, <1>3

\* Nearest is a whole number.
LEMMA NearestInt ==
    ASSUME NEW a \in Int, NEW b \in Nat \ {0}
    PROVE  Nearest(a, b) \in Int
<1>1. CASE a \in Nat
  BY <1>1, NearestUp
<1>2. CASE -a \in Nat
  <2>1. Nearest(-a, b) \in Nat /\ Nearest(-(-a), b) = -Nearest(-a, b) /\ -(-a) = a
    BY <1>2, NearestUp, NearestOdd
  <2> QED BY <2>1
<1> QED BY <1>1, <1>2

\* Rounding keeps the order.
LEMMA NearestMono ==
    ASSUME NEW x \in Int, NEW y \in Int, NEW b \in Nat \ {0}, x <= y
    PROVE  Nearest(x, b) <= Nearest(y, b)
<1>1. \A u, v \in Nat : u <= v => Nearest(u, b) <= Nearest(v, b)
  <2> SUFFICES ASSUME NEW u \in Nat, NEW v \in Nat, u <= v PROVE Nearest(u, b) <= Nearest(v, b)
    OBVIOUS
  <2>1. 2 * u + b \in Int /\ 2 * v + b \in Int /\ 2 * u + b <= 2 * v + b /\ 2 * b \in Nat \ {0}
    OBVIOUS
  <2>2. (2 * u + b) \div (2 * b) <= (2 * v + b) \div (2 * b)
    BY <2>1, DivMono
  <2> QED BY <2>2, NearestUp
<1>2. CASE x >= 0
  BY <1>1, <1>2
<1>3. CASE x < 0 /\ y >= 0
  <2> DEFINE u == -x
  <2>1. Nearest(u, b) \in Nat /\ Nearest(y, b) \in Nat
    <3>1. u \in Nat /\ y \in Nat
      BY <1>3
    <3> HIDE DEF u
    <3> QED BY <3>1, NearestUp
  <2>2. Nearest(x, b) = -Nearest(-x, b)
    BY NearestOdd, NearestInt
  <2> QED BY <2>1, <2>2
<1>4. CASE y < 0
  <2> DEFINE u == -x
             v == -y
  <2>1. Nearest(v, b) <= Nearest(u, b)
    <3>1. u \in Nat /\ v \in Nat /\ v <= u
      BY <1>4
    <3> HIDE DEF u, v
    <3> QED BY <1>1, <3>1
  <2>2. /\ Nearest(-x, b) = -Nearest(x, b) /\ Nearest(-y, b) = -Nearest(y, b)
        /\ Nearest(x, b) \in Int /\ Nearest(y, b) \in Int
    BY NearestOdd, NearestInt
  <2> QED BY <2>1, <2>2
<1> QED BY <1>2, <1>3, <1>4

\* Rounding leaves whole numbers alone.
LEMMA NearestExact ==
    ASSUME NEW c \in Int, NEW b \in Nat \ {0}
    PROVE  Nearest(c * b, b) = c
<1>1. \A n \in Nat : Nearest(n * b, b) = n
  <2> SUFFICES ASSUME NEW n \in Nat PROVE Nearest(n * b, b) = n
    OBVIOUS
  <2> DEFINE q == (2 * (n * b) + b) \div (2 * b)
  <2>1. n * b \in Nat /\ 2 * b \in Nat \ {0} /\ 2 * (n * b) + b \in Int
    OBVIOUS
  <2>2. /\ q \in Int /\ (2 * b) * q <= 2 * (n * b) + b
        /\ 2 * (n * b) + b < (2 * b) * q + 2 * b
    BY <2>1, DivBounds
  <2>3. (2 * b) * n <= 2 * (n * b) + b /\ 2 * (n * b) + b < (2 * b) * n + 2 * b
    OBVIOUS
  <2>4. (2 * b) * q < (2 * b) * n + 2 * b /\ (2 * b) * n < (2 * b) * q + 2 * b
    <3> HIDE DEF q
    <3> QED BY <2>1, <2>2, <2>3
  <2>5. q = n
    <3> DEFINE d == 2 * b
    <3> HIDE DEF q, d
    <3>1. d \in Nat \ {0}
      BY <2>1 DEF d
    <3>2. d * q < d * n + d /\ d * n < d * q + d
      BY <2>4 DEF d
    <3>3. q <= n /\ n <= q
      BY <2>2, <3>1, <3>2, FactorMono
    <3> QED BY <2>2, <3>3
  <2> QED BY <2>1, <2>5, NearestUp
<1>2. CASE c >= 0
  BY <1>1, <1>2
<1>3. CASE c < 0
  <2>1. Nearest((-c) * b, b) = -c /\ (-c) * b = -(c * b) /\ c * b \in Int
    BY <1>1, <1>3
  <2>2. Nearest(-(c * b), b) = -Nearest(c * b, b) /\ Nearest(c * b, b) \in Int
    BY <2>1, NearestOdd, NearestInt
  <2> QED BY <2>1, <2>2
<1> QED BY <1>2, <1>3

\* Rounding keeps whole bounds.
LEMMA NearestBounds ==
    ASSUME NEW a \in Int, NEW b \in Nat \ {0}, NEW lo \in Int, NEW hi \in Int,
           lo * b <= a, a <= hi * b
    PROVE  Nearest(a, b) \in Int /\ lo <= Nearest(a, b) /\ Nearest(a, b) <= hi
<1>1. lo * b \in Int /\ hi * b \in Int
  OBVIOUS
<1> QED
  BY <1>1, NearestInt, NearestMono, NearestExact

\* Rounding keeps symmetric bounds.
LEMMA NearestWithin ==
    ASSUME NEW a \in Int, NEW b \in Nat \ {0}, NEW c \in Nat, -(c * b) <= a, a <= c * b
    PROVE  Nearest(a, b) \in Int /\ -c <= Nearest(a, b) /\ Nearest(a, b) <= c
<1> DEFINE lo == -c
<1>1. lo \in Int /\ c \in Int /\ lo * b <= a
  <2>1. lo * b = -(c * b)
    OBVIOUS
  <2> HIDE DEF lo
  <2> QED BY <2>1 DEF lo
<1>2. Nearest(a, b) \in Int /\ lo <= Nearest(a, b) /\ Nearest(a, b) <= c
  <2> HIDE DEF lo
  <2> QED BY <1>1, NearestBounds
<1> QED BY <1>2

-----------------------------------------------------------------------------

\* THE LINE SENSOR

Biases == -Scale .. Scale

\* Whatever the channels read, the bias of a reading is within the scale: the
\* weighted sum never exceeds the strength times the largest weight, and a line is
\* only seen where the strength is not zero (dev_line_sensor.c: update_frame).
THEOREM ReadingsInRange == \A r \in Readings : r.on_line \in BOOLEAN /\ r.bias \in Biases
<1> SUFFICES ASSUME NEW active \in SUBSET Channels
             PROVE  Reading(ReadRaw(active)).on_line \in BOOLEAN
                    /\ Reading(ReadRaw(active)).bias \in Biases
  BY DEF Readings
<1> DEFINE raw == ReadRaw(active)
           b == Strength(raw) * (Count - 1)
<1>1. /\ Strength(raw) \in Nat /\ Weighted(raw) \in Int
      /\ Weighted(raw) <= b /\ -b <= Weighted(raw)
  <2>1. \A i \in Channels : raw[i] - MinValue(raw) \in Nat
    BY RawValues
  <2> HIDE DEF raw
  <2>2. /\ Strength(raw) \in Nat /\ Weighted(raw) \in Int
        /\ Weighted(raw) <= (Count - 1) * Strength(raw)
        /\ -((Count - 1) * Strength(raw)) <= Weighted(raw)
    BY <2>1, SumsBounded
  <2>3. (Count - 1) * Strength(raw) = b
    BY <2>2, LineSensorAssumption
  <2> HIDE DEF b
  <2> QED BY <2>2, <2>3
<1>2. OnLine(raw) => b \in Nat \ {0}
  <2> SUFFICES ASSUME OnLine(raw) PROVE b \in Nat \ {0}
    OBVIOUS
  <2> HIDE DEF raw
  <2>1. Min({Strength(raw), 65535}) >= StrengthTh /\ StrengthTh >= 1 /\ StrengthTh \in Int
    BY LineSensorAssumption DEF OnLine, UINT16_MAX
  <2>2. Strength(raw) >= 1
    BY <1>1, <2>1, MinOfTwo
  <2> QED BY <1>1, <2>2, LineSensorAssumption
<1>3. OnLine(raw) => RawBias(raw) \in Biases
  <2> SUFFICES ASSUME OnLine(raw) PROVE RawBias(raw) \in Biases
    OBVIOUS
  <2> HIDE DEF raw
  <2> DEFINE W == Weighted(raw)
  <2>1. Scale \in Nat \ {0} /\ W \in Int /\ b \in Nat \ {0} /\ W <= b /\ -b <= W
    BY <1>1, <1>2, LineSensorAssumption
  <2>2. RawBias(raw) = Nearest(Scale * W, b)
    BY DEF RawBias
  <2> HIDE DEF W, b
  <2>3. Scale * W \in Int /\ -(Scale * b) <= Scale * W /\ Scale * W <= Scale * b
    <3>1. 0 <= Scale * (b - W) /\ 0 <= Scale * (b + W)
      BY <2>1
    <3> QED BY <2>1, <3>1
  <2>4. /\ Nearest(Scale * W, b) \in Int
        /\ -Scale <= Nearest(Scale * W, b) /\ Nearest(Scale * W, b) <= Scale
    BY <2>1, <2>3, NearestWithin
  <2> QED BY <2>1, <2>2, <2>4 DEF Biases
<1> HIDE DEF raw
<1>4. Reading(raw).on_line \in BOOLEAN
  BY DEF Reading, OnLine
<1>5. Reading(raw).bias \in Biases
  BY <1>3, LineSensorAssumption DEF Reading, Biases
<1> QED BY <1>4, <1>5 DEF raw

\* The low pass stays within the range of what it mixes (Smoothed).
LEMMA LowPassRange ==
    ASSUME NEW b \in Biases, NEW x \in Biases
    PROVE  Nearest(Alpha * b + (Scale - Alpha) * x, Scale) \in Biases
<1>1. /\ Scale \in Nat \ {0} /\ Alpha \in Nat /\ Scale - Alpha \in Nat
      /\ b \in Int /\ x \in Int /\ -Scale <= b /\ b <= Scale /\ -Scale <= x /\ x <= Scale
  BY LineSensorAssumption DEF Biases
<1> DEFINE beta == Scale - Alpha
           v == Alpha * b + beta * x
<1>2. /\ Alpha * b \in Int /\ beta * x \in Int
      /\ Alpha * b <= Alpha * Scale /\ -(Alpha * Scale) <= Alpha * b
      /\ beta * x <= beta * Scale /\ -(beta * Scale) <= beta * x
  <2>1. beta \in Nat
    BY <1>1
  <2> HIDE DEF beta
  <2>2. \A n \in Nat, y \in Int : -Scale <= y /\ y <= Scale =>
          n * y \in Int /\ n * y <= n * Scale /\ -(n * Scale) <= n * y
    <3> SUFFICES ASSUME NEW n \in Nat, NEW y \in Int, -Scale <= y, y <= Scale
                 PROVE  n * y \in Int /\ n * y <= n * Scale /\ -(n * Scale) <= n * y
      OBVIOUS
    <3>1. 0 <= n * (Scale - y) /\ 0 <= n * (Scale + y)
      BY <1>1
    <3> QED BY <1>1, <3>1
  <2> QED BY <1>1, <2>1, <2>2
<1>3. Alpha * Scale + beta * Scale = Scale * Scale
  BY <1>1
<1>4. v \in Int /\ -(Scale * Scale) <= v /\ v <= Scale * Scale
  <2> DEFINE p == Alpha * b
             q == beta * x
             ps == Alpha * Scale
             qs == beta * Scale
             ss == Scale * Scale
  <2>1. /\ p \in Int /\ q \in Int /\ ps \in Int /\ qs \in Int /\ ps + qs = ss /\ v = p + q
        /\ p <= ps /\ -ps <= p /\ q <= qs /\ -qs <= q
    BY <1>1, <1>2, <1>3
  <2>2. v \in Int /\ -ss <= v /\ v <= ss
    <3> HIDE DEF p, q, ps, qs, ss, v
    <3> QED BY <2>1
  <2> QED BY <2>2
<1>5. Nearest(v, Scale) \in Int /\ -Scale <= Nearest(v, Scale) /\ Nearest(v, Scale) <= Scale
  <2> HIDE DEF v
  <2> QED BY <1>1, <1>4, NearestWithin
<1> QED BY <1>5 DEF Biases
-----------------------------------------------------------------------------

\* THE LINE FOLLOWER

Sides == {"left", "right"}
Frames == {f \in [bias : Biases, last_bias : Biases, on_line : BOOLEAN, primed : BOOLEAN] :
             f.bias = f.last_bias /\ (~f.primed => f.bias = 0)}

\* Every variable stays within its range; the bias and its memory agree.
LineTypeOK ==
    /\ run \in BOOLEAN
    /\ frame \in Frames
    /\ line_pid \in Biases
    /\ target \in [Sides -> Int]
    /\ speed \in [active : BOOLEAN, age : 0 .. Delay]
    /\ integral \in [Driven -> Int]
    /\ inRun \in 0 .. Delay
    /\ side \in -Streak .. Streak

\* The chassis has measured its delay since the first loop of the run.
AgesAgree == speed.active = run /\ (run => speed.age = inRun)

\* A reading leaves a frame whose bias and memory agree (FrameUpdate).
LEMMA FrameStep ==
    ASSUME NEW f \in Frames, NEW r, r.on_line \in BOOLEAN, r.bias \in Biases
    PROVE  /\ FrameUpdate(f, r) \in Frames
           /\ r.on_line => FrameUpdate(f, r).last_bias = Smoothed(f, r.bias)
           /\ ~r.on_line => FrameUpdate(f, r).last_bias = f.last_bias
<1>1. f.bias \in Biases /\ f.last_bias \in Biases /\ f.primed \in BOOLEAN
  BY DEF Frames
<1>2. CASE r.on_line
  <2> DEFINE s == Smoothed(f, r.bias)
  <2>1. s \in Biases
    BY <1>1, LowPassRange DEF Smoothed
  <2>2. FrameUpdate(f, r) = [on_line |-> TRUE, primed |-> TRUE, bias |-> s, last_bias |-> s]
    BY <1>2 DEF FrameUpdate, Seen
  <2> HIDE DEF s
  <2>3. FrameUpdate(f, r) \in Frames /\ FrameUpdate(f, r).last_bias = s
    BY <2>1, <2>2 DEF Frames
  <2> QED BY <1>2, <2>3 DEF s
<1>3. CASE ~r.on_line
  <2>1. FrameUpdate(f, r) = [f EXCEPT !.on_line = FALSE, !.bias = f.last_bias]
    BY <1>3 DEF FrameUpdate, Lost
  <2> QED BY <1>1, <1>3, <2>1 DEF Frames
<1> QED BY <1>2, <1>3

\* The magnitude of a turn.
TurnBound == Min({TurnLimit, LargestTurn})

\* The assumptions on the constants, one by one.
LEMMA Follower ==
    /\ LineKp \in Nat /\ LineKd \in Nat /\ LineDen \in Nat \ {0}
    /\ TurnLimit \in Nat /\ LostDiff \in Nat /\ MinPulse \in Nat /\ CorrectionLimit \in Nat
    /\ Delay \in Nat /\ Ki \in Nat \ {0} /\ Den \in Nat \ {0} /\ Streak \in Nat \ {0}
    /\ Driven \subseteq Sides /\ Speeds \subseteq Nat
    /\ Base["left"] \in Nat /\ Base["right"] \in Nat
BY FollowerAssumption DEF Sides

\* The largest turn that is ever applied leaves both wheels forward.
LEMMA TurnBounds ==
    /\ LargestTurn \in Nat /\ LostDiff <= LargestTurn
    /\ Nearest((LineKp + 2 * LineKd) * Scale, LineDen) <= LargestTurn
    /\ TurnBound \in Nat /\ TurnBound <= TurnLimit /\ TurnBound <= LargestTurn
    /\ TurnBound \in {TurnLimit, LargestTurn}
    /\ \A w \in Sides : Base[w] - TurnBound > MinPulse
<1> DEFINE n == Nearest((LineKp + 2 * LineKd) * Scale, LineDen)
<1>1. n \in Nat
  <2>1. (LineKp + 2 * LineKd) * Scale \in Nat
    BY Follower, LineSensorAssumption
  <2> QED BY <2>1, Follower, NearestUp
<1> HIDE DEF n
<1>2. LargestTurn = IF LostDiff <= n THEN n ELSE LostDiff
  <2>1. LargestTurn = Max({LostDiff, n})
    BY DEF LargestTurn, n
  <2> QED BY <1>1, <2>1, Follower, MaxOfTwo
<1>3. LargestTurn \in Nat /\ LostDiff <= LargestTurn /\ n <= LargestTurn
  BY <1>1, <1>2, Follower
<1>4. TurnBound = IF TurnLimit <= LargestTurn THEN TurnLimit ELSE LargestTurn
  BY <1>3, Follower, MinOfTwo DEF TurnBound
<1>5. \A w \in Sides : Base[w] - TurnBound > MinPulse
  BY TurnAssumption DEF TurnBound, Sides
<1> QED BY <1>3, <1>4, <1>5, Follower DEF n

\* A turn within the largest one, clamped to the limit.
LEMMA ClampedTurn ==
    ASSUME NEW x \in Int, -LargestTurn <= x, x <= LargestTurn
    PROVE  LET t == Clamp(x, -TurnLimit, TurnLimit)
           IN  t \in Int /\ -TurnBound <= t /\ t <= TurnBound
<1>1. /\ TurnLimit \in Nat /\ LargestTurn \in Nat /\ TurnBound \in {TurnLimit, LargestTurn}
      /\ TurnBound <= TurnLimit /\ TurnBound <= LargestTurn
  BY TurnBounds, Follower
<1> QED BY <1>1 DEF Clamp

\* The PID of the line stays within the largest turn.
LEMMA LineOutRange ==
    ASSUME NEW f, f.bias \in Biases, NEW p \in Biases
    PROVE  LineOut(f, p) \in Int /\ -TurnBound <= LineOut(f, p) /\ LineOut(f, p) <= TurnBound
<1> DEFINE e == -f.bias
           x == LineKp * e + LineKd * (e - p)
           g == LineKp + 2 * LineKd
           n == Nearest(x, LineDen)
           m == Nearest(g * Scale, LineDen)
<1>1. /\ e \in Int /\ -Scale <= e /\ e <= Scale /\ p \in Int /\ -Scale <= p /\ p <= Scale
      /\ Scale \in Nat /\ LineKp \in Nat /\ LineKd \in Nat /\ LineDen \in Nat \ {0} /\ g \in Nat
  BY Follower, LineSensorAssumption DEF Biases
<1>2. x \in Int /\ -(g * Scale) <= x /\ x <= g * Scale /\ g * Scale \in Nat
  <2> DEFINE d == e - p
  <2> HIDE DEF e
  <2>1. 0 <= LineKp * (Scale - e) /\ 0 <= LineKp * (Scale + e)
    BY <1>1
  <2>2. 0 <= LineKd * (2 * Scale - d) /\ 0 <= LineKd * (2 * Scale + d)
    BY <1>1
  <2>3. /\ d \in Int /\ LineKp * e \in Int /\ LineKd * d \in Int
        /\ LineKp * Scale \in Int /\ LineKd * Scale \in Int
    BY <1>1
  <2> HIDE DEF d
  <2>4. /\ LineKp * e <= LineKp * Scale /\ -(LineKp * Scale) <= LineKp * e
        /\ LineKd * d <= 2 * (LineKd * Scale) /\ -(2 * (LineKd * Scale)) <= LineKd * d
    BY <1>1, <2>1, <2>2, <2>3
  <2>5. g * Scale = LineKp * Scale + 2 * (LineKd * Scale)
    BY <1>1
  <2>6. x = LineKp * e + LineKd * d
    BY DEF d
  <2> QED
    <3> DEFINE a == LineKp * e
               b == LineKd * d
               ka == LineKp * Scale
               kb == LineKd * Scale
    <3>1. /\ a \in Int /\ b \in Int /\ ka \in Int /\ kb \in Int /\ x = a + b
          /\ g * Scale = ka + 2 * kb /\ g * Scale \in Nat
          /\ a <= ka /\ -ka <= a /\ b <= 2 * kb /\ -(2 * kb) <= b
      BY <1>1, <2>3, <2>4, <2>5, <2>6
    <3> DEFINE kg == g * Scale
    <3>2. kg = ka + 2 * kb /\ kg \in Nat
      BY <3>1
    <3>3. x \in Int /\ -kg <= x /\ x <= kg
      <4> HIDE DEF a, b, ka, kb, kg, x, g
      <4> QED BY <3>1, <3>2
    <3> QED BY <3>2, <3>3
<1>3. n \in Int /\ m \in Nat /\ n <= m /\ -m <= n
  <2> DEFINE y == g * Scale
             z == -y
  <2>1. x \in Int /\ y \in Nat /\ z \in Int /\ z <= x /\ x <= y
    <3> HIDE DEF x, g
    <3> QED BY <1>2
  <2>2. Nearest(z, LineDen) = -Nearest(y, LineDen) /\ Nearest(y, LineDen) \in Nat
    <3> HIDE DEF y
    <3> QED BY <1>1, <2>1, NearestOdd, NearestUp
  <2>3. /\ Nearest(z, LineDen) <= Nearest(x, LineDen)
        /\ Nearest(x, LineDen) <= Nearest(y, LineDen) /\ Nearest(x, LineDen) \in Int
    <3> HIDE DEF x, y, z
    <3> QED BY <1>1, <2>1, NearestMono, NearestInt
  <2> HIDE DEF z
  <2> QED BY <2>2, <2>3
<1>4. LineOut(f, p) = Clamp(n, -TurnLimit, TurnLimit)
  BY DEF LineOut, LineError
<1>5. m <= LargestTurn /\ LargestTurn \in Nat
  BY TurnBounds
<1> HIDE DEF n, m
<1>6. -LargestTurn <= n /\ n <= LargestTurn
  BY <1>3, <1>5
<1> QED BY <1>3, <1>4, <1>6, ClampedTurn

\* So does the turn of the tracker, with a line or without.
LEMMA TurnRange ==
    ASSUME NEW f \in Frames, line_pid \in Biases
    PROVE  LET t == Clamp(TrackerTurn(f), -TurnLimit, TurnLimit)
           IN  t \in Int /\ -TurnBound <= t /\ t <= TurnBound
<1>1. f.bias \in Biases /\ f.on_line \in BOOLEAN
  BY DEF Frames
<1>2. TrackerTurn(f) \in Int /\ -LargestTurn <= TrackerTurn(f) /\ TrackerTurn(f) <= LargestTurn
  <2>1. CASE f.on_line
    <3>1. TrackerTurn(f) = LineOut(f, line_pid)
      BY <2>1 DEF TrackerTurn
    <3> QED BY <1>1, <3>1, LineOutRange, TurnBounds
  <2>2. CASE ~f.on_line
    <3>1. TrackerTurn(f) \in {LostDiff, -LostDiff, 0}
      BY <2>2 DEF TrackerTurn, LostTurn
    <3> QED BY <3>1, TurnBounds, Follower
  <2> QED BY <1>1, <2>1, <2>2
<1> HIDE DEF TrackerTurn
<1> QED BY <1>2, ClampedTurn

\* The integral's share of a correction is within the limit (Accumulated).
LEMMA AccumulatedRange ==
    ASSUME NEW i \in Int, NEW err \in Int
    PROVE  /\ Accumulated(i, err) \in Int
           /\ Ki * Accumulated(i, err) \in -(CorrectionLimit * Den) .. (CorrectionLimit * Den)
<1> DEFINE top == CorrectionLimit * Den
           limit == top \div Ki
           a == Accumulated(i, err)
<1>1. top \in Nat /\ Ki \in Nat \ {0}
  BY Follower
<1>2. limit \in Nat /\ Ki * limit <= top
  <2> HIDE DEF top
  <2>1. limit \in Int /\ Ki * limit <= top /\ top < Ki * limit + Ki
    BY <1>1, DivBounds
  <2>2. 0 <= limit
    <3>1. Ki * 0 < Ki * limit + Ki
      <4> HIDE DEF limit
      <4> QED BY <1>1, <2>1
    <3> HIDE DEF limit
    <3> QED BY <1>1, <2>1, <3>1, FactorMono
  <2> QED BY <2>1, <2>2
<1>3. a \in -limit .. limit
  <2>1. a = Clamp(i + err, -limit, limit)
    BY DEF Accumulated
  <2> HIDE DEF limit, a
  <2> QED BY <1>2, <2>1 DEF Clamp
<1> HIDE DEF top, limit, a
<1>4. 0 <= Ki * (limit - a) /\ 0 <= Ki * (limit + a) /\ Ki * a \in Int /\ Ki * limit \in Int
  BY <1>1, <1>2, <1>3
<1>5. Ki * a <= Ki * limit /\ -(Ki * limit) <= Ki * a
  BY <1>1, <1>2, <1>3, <1>4
<1>6. Ki * a \in -top .. top
  <2> DEFINE x == Ki * a
             y == Ki * limit
  <2>1. x \in Int /\ y \in Int /\ x <= y /\ -y <= x /\ y <= top
    BY <1>2, <1>4, <1>5
  <2> HIDE DEF x, y
  <2>2. x \in -top .. top
    BY <1>1, <2>1
  <2> QED BY <2>2 DEF x
<1> QED BY <1>3, <1>2, <1>6 DEF top, a

\* How the ghost side counts.
LEMMA SideStep ==
    ASSUME NEW s \in -Streak .. Streak
    PROVE  /\ Min({Max({s, 0}) + 1, Streak}) = IF s < 0 THEN 1 ELSE IF s < Streak THEN s + 1 ELSE Streak
           /\ Max({Min({s, 0}) - 1, -Streak}) = IF s > 0 THEN -1 ELSE IF s > -Streak THEN s - 1 ELSE -Streak
<1>1. Streak \in Nat \ {0} /\ s \in Int
  BY Follower
<1>2. Max({s, 0}) = IF s <= 0 THEN 0 ELSE s
  BY <1>1, MaxOfTwo
<1>3. Min({s, 0}) = IF s <= 0 THEN s ELSE 0
  BY <1>1, MinOfTwo
<1> DEFINE u == Max({s, 0}) + 1
           v == Min({s, 0}) - 1
           t == -Streak
<1>4. u \in Int /\ v \in Int /\ t \in Int
  BY <1>1, <1>2, <1>3
<1>5. Min({u, Streak}) = IF u <= Streak THEN u ELSE Streak
  <2> HIDE DEF u
  <2> QED BY <1>1, <1>4, MinOfTwo
<1>6. Max({v, t}) = IF v <= t THEN t ELSE v
  <2> HIDE DEF v, t
  <2> QED BY <1>4, MaxOfTwo
<1>7. Min({u, Streak}) = IF s < 0 THEN 1 ELSE IF s < Streak THEN s + 1 ELSE Streak
  BY <1>1, <1>2, <1>5
<1>8. Max({v, t}) = IF s > 0 THEN -1 ELSE IF s > -Streak THEN s - 1 ELSE -Streak
  BY <1>1, <1>3, <1>6
<1> QED BY <1>7, <1>8

\* The first state is in range.
LEMMA LineTypeInit == LineInit => LineTypeOK
<1> SUFFICES ASSUME LineInit PROVE LineTypeOK
  OBVIOUS
<1>1. NoFrame \in Frames /\ 0 \in Biases
  BY LineSensorAssumption DEF NoFrame, Frames, Biases
<1>2. Idle \in [Driven -> Int]
  BY DEF Idle
<1>3. speed \in [active : BOOLEAN, age : 0 .. Delay] /\ 0 \in -Streak .. Streak
  BY Follower DEF LineInit
<1>4. target \in [Sides -> Int]
  BY DEF LineInit, Sides
<1>5. /\ run = FALSE /\ frame = NoFrame /\ line_pid = 0
      /\ integral = Idle /\ side = 0 /\ inRun \in 0 .. Delay
  BY Follower DEF LineInit
<1> QED BY <1>1, <1>2, <1>3, <1>4, <1>5 DEF LineTypeOK

\* What a loop in RUN leaves behind.
LEMMA RunKeeps ==
    ASSUME LineTypeOK, AgesAgree, NEW reading \in Readings, NEW measured \in [Driven -> Speeds],
           RunTick(reading, measured)
    PROVE  LineTypeOK' /\ AgesAgree' /\ BothWheelsForward' /\ IntegralEarned'
<1>1. reading.on_line \in BOOLEAN /\ reading.bias \in Biases /\ frame \in Frames
  BY ReadingsInRange DEF LineTypeOK
<1>2. frame' \in Frames
  BY <1>1, FrameStep DEF RunTick, Follow
<1>3. line_turn' \in Int /\ -TurnBound <= line_turn' /\ line_turn' <= TurnBound
  <2>1. line_turn' = Clamp(TrackerTurn(frame'), -TurnLimit, TurnLimit)
    BY DEF RunTick, Follow
  <2>2. line_pid \in Biases
    BY DEF LineTypeOK
  <2> QED BY <1>2, <2>1, <2>2, TurnRange
<1>4. line_pid' \in Biases
  <2>1. frame'.bias \in Biases
    BY <1>2 DEF Frames
  <2>2. -frame'.bias \in Biases
    BY <2>1, LineSensorAssumption DEF Biases
  <2> QED BY <2>2 DEF RunTick, Follow, LineError, LineTypeOK
<1>5. /\ target' \in [Sides -> Int]
      /\ \A w \in Sides : target'[w] > MinPulse
  <2>1. target' = [left |-> Base["left"] - line_turn', right |-> Base["right"] + line_turn']
    BY DEF RunTick, Follow
  <2>2. /\ Base["left"] - line_turn' \in Int /\ Base["left"] - line_turn' > MinPulse
        /\ Base["right"] + line_turn' \in Int /\ Base["right"] + line_turn' > MinPulse
    <3>1. Base["left"] - TurnBound > MinPulse /\ Base["right"] - TurnBound > MinPulse
      BY TurnBounds DEF Sides
    <3> QED BY <1>3, <3>1, TurnBounds, Follower
  <2> QED BY <2>1, <2>2 DEF Sides
<1>6. side' \in -Streak .. Streak
  <2>1. side \in -Streak .. Streak /\ Streak \in Nat \ {0}
    BY Follower DEF LineTypeOK
  <2>2. side' \in {side, 0, Min({Max({side, 0}) + 1, Streak}), Max({Min({side, 0}) - 1, -Streak})}
    BY DEF RunTick, Follow
  <2>3. /\ Min({Max({side, 0}) + 1, Streak}) \in -Streak .. Streak
        /\ Max({Min({side, 0}) - 1, -Streak}) \in -Streak .. Streak
    BY <2>1, SideStep
  <2> QED BY <2>1, <2>2, <2>3
<1> DEFINE age == IF speed.active THEN Min({speed.age + 1, Delay}) ELSE 0
           before == IF speed.active THEN integral ELSE Idle
           err == [w \in Driven |-> target'[w] - measured[w]]
<1>7. speed' = [active |-> TRUE, age |-> age] /\ age \in 0 .. Delay
  <2>1. speed.active \in BOOLEAN /\ speed.age \in 0 .. Delay /\ Delay \in Nat
    BY Follower DEF LineTypeOK
  <2>2. age \in 0 .. Delay
    <3> DEFINE n == speed.age + 1
    <3>1. n \in 1 .. (Delay + 1)
      BY <2>1
    <3>2. Min({n, Delay}) \in 0 .. Delay
      <4> HIDE DEF n
      <4> QED BY <2>1, <3>1, MinOfTwo
    <3> QED BY <2>1, <3>2
  <2> QED BY <2>2 DEF RunTick, Drive
<1>8. \A w \in Driven : err[w] \in Int /\ before[w] \in Int
  <2>1. \A w \in Driven : measured[w] \in Int
    <3>1. \A w \in Driven : measured[w] \in Speeds
      OBVIOUS
    <3>2. \A x \in Speeds : x \in Int
      BY Follower
    <3> QED BY <3>1, <3>2
  <2>2. \A w \in Driven : w \in Sides
    BY Follower
  <2>4. \A w \in Driven : integral[w] \in Int /\ Idle[w] \in Int
    BY DEF LineTypeOK, Idle
  <2>3. \A w \in Driven : target'[w] \in Int
    BY <1>5, <2>2
  <2>5. \A w \in Driven : err[w] \in Int
    BY <2>1, <2>3
  <2>6. \A w \in Driven : before[w] \in Int
    BY <2>4
  <2> QED BY <2>5, <2>6
<1>9. /\ DOMAIN integral' = Driven /\ integral' = [w \in Driven |-> integral'[w]]
      /\ \A w \in Driven : integral'[w] \in {0, IntegralAfter(before[w], err[w], age >= Delay)}
  <2> DEFINE after(w) == IF FeedForward(w, target'[w]) > 0
                         THEN IntegralAfter(before[w], err[w], age >= Delay) ELSE 0
  <2>1. integral' = [w \in Driven |-> after(w)]
    BY DEF RunTick, Drive
  <2>2. \A w \in Driven : after(w) \in {0, IntegralAfter(before[w], err[w], age >= Delay)}
    OBVIOUS
  <2> HIDE DEF after
  <2> QED BY <2>1, <2>2
<1>15. inRun' = age
  BY DEF RunTick, AgesAgree
<1> HIDE DEF before, err, age
<1>10. \A w \in Driven :
         /\ integral'[w] \in Int
         /\ integral'[w] # 0 => age >= Delay
         /\ Ki * integral'[w] \in -(CorrectionLimit * Den) .. (CorrectionLimit * Den)
  <2> SUFFICES ASSUME NEW w \in Driven
               PROVE  /\ integral'[w] \in Int
                      /\ integral'[w] # 0 => age >= Delay
                      /\ Ki * integral'[w] \in -(CorrectionLimit * Den) .. (CorrectionLimit * Den)
    OBVIOUS
  <2>1. CASE integral'[w] = 0
    <3>1. Ki * 0 = 0 /\ CorrectionLimit * Den \in Nat
      BY Follower
    <3> HIDE DEF Follower
    <3> QED BY <2>1, <3>1
  <2>2. CASE integral'[w] # 0
    <3>1. age >= Delay /\ integral'[w] = Accumulated(before[w], err[w])
      BY <1>9, <2>2 DEF IntegralAfter
    <3>2. before[w] \in Int /\ err[w] \in Int
      BY <1>8
    <3> QED BY <3>1, <3>2, AccumulatedRange
  <2> QED BY <2>1, <2>2
<1>11. run' = TRUE
  BY DEF RunTick
<1>12. LineTypeOK'
  <2>1. integral' \in [Driven -> Int]
    BY <1>9, <1>10
  <2>2. speed' \in [active : BOOLEAN, age : 0 .. Delay]
    BY <1>7
  <2> QED BY <1>2, <1>4, <1>5, <1>6, <1>11, <1>15, <1>7, <2>1, <2>2 DEF LineTypeOK
<1>13. BothWheelsForward'
  BY <1>5 DEF BothWheelsForward, Sides
<1>14. IntegralEarned'
  BY <1>10, <1>11, <1>15 DEF IntegralEarned
<1>16. AgesAgree'
  BY <1>7, <1>11, <1>15 DEF AgesAgree
<1> QED BY <1>12, <1>13, <1>14, <1>16

\* What a loop outside of RUN leaves behind.
LEMMA StandKeeps ==
    ASSUME LineTypeOK, StandTick
    PROVE  LineTypeOK' /\ AgesAgree' /\ BothWheelsForward' /\ IntegralEarned'
<1>1. run' = FALSE /\ inRun' = 0 /\ UNCHANGED <<frame, line_pid, side>> /\ integral' = Idle
  BY DEF StandTick, Stand, Coast
<1>2. target' \in [Sides -> Int]
  BY DEF StandTick, Stand, Sides
<1>3. speed' \in [active : BOOLEAN, age : 0 .. Delay] /\ speed'.active = FALSE
  BY DEF StandTick, Coast, LineTypeOK
<1>4. integral' \in [Driven -> Int] /\ \A w \in Driven : integral'[w] = 0
  BY <1>1 DEF Idle
<1>5. Ki * 0 \in -(CorrectionLimit * Den) .. (CorrectionLimit * Den)
  <2>1. Ki * 0 = 0 /\ CorrectionLimit * Den \in Nat
    BY Follower
  <2> QED BY <2>1
<1>6. LineTypeOK'
  <2>1. 0 \in 0 .. Delay
    BY Follower
  <2>2. run' \in BOOLEAN /\ inRun' \in 0 .. Delay
    BY <1>1, <2>1
  <2>3. frame' \in Frames /\ line_pid' \in Biases /\ side' \in -Streak .. Streak
    BY <1>1 DEF LineTypeOK
  <2> QED BY <1>2, <1>3, <1>4, <2>2, <2>3 DEF LineTypeOK
<1>7. BothWheelsForward' /\ IntegralEarned'
  BY <1>1, <1>4, <1>5 DEF BothWheelsForward, IntegralEarned
<1>8. AgesAgree'
  BY <1>1, <1>3 DEF AgesAgree
<1> QED BY <1>6, <1>7, <1>8

\* Inductive.
LineInv == LineTypeOK /\ AgesAgree /\ BothWheelsForward /\ IntegralEarned

\* The first state satisfies the invariant.
LEMMA LineInvInit == LineInit => LineInv
<1> SUFFICES ASSUME LineInit PROVE LineInv
  OBVIOUS
<1>1. LineTypeOK
  BY LineTypeInit
<1>2. run = FALSE /\ \A w \in Driven : integral[w] = 0
  BY DEF LineInit, Idle
<1>3. Ki * 0 \in -(CorrectionLimit * Den) .. (CorrectionLimit * Den)
  <2>1. Ki * 0 = 0 /\ CorrectionLimit * Den \in Nat
    BY Follower
  <2> QED BY <2>1
<1>4. BothWheelsForward /\ IntegralEarned
  BY <1>2, <1>3 DEF BothWheelsForward, IntegralEarned
<1>5. AgesAgree
  BY DEF LineInit, AgesAgree
<1> QED BY <1>1, <1>4, <1>5 DEF LineInv

\* Every step keeps it.
LEMMA LineInvStep == LineInv /\ [LineNext]_lineVars => LineInv'
<1> SUFFICES ASSUME LineInv, [LineNext]_lineVars PROVE LineInv'
  OBVIOUS
<1>1. CASE StandTick
  BY <1>1, StandKeeps DEF LineInv
<1>2. CASE \E reading \in Readings, measured \in [Driven -> Speeds] : RunTick(reading, measured)
  BY <1>2, RunKeeps DEF LineInv
<1>3. CASE UNCHANGED lineVars
  BY <1>3 DEF LineInv, LineTypeOK, AgesAgree, BothWheelsForward, IntegralEarned, lineVars
<1> QED BY <1>1, <1>2, <1>3 DEF LineNext

\* LineInv holds in every state.
THEOREM LineInvariant == LineSpec => []LineInv
BY LineInvInit, LineInvStep, PTL DEF LineSpec

\* Neither a line nor the loss of one stops or reverses a wheel, for all gains that
\* TurnAssumption calls mild.
THEOREM NoWheelStops == LineSpec => []BothWheelsForward
<1>1. LineInv => BothWheelsForward
  BY DEF LineInv
<1> QED BY <1>1, LineInvariant, PTL

\* A wheel has an integral only after every loop of the delay ended in RUN, and never
\* one that outgrows the correction (update_speed_pid).
THEOREM IntegralsAreEarned == LineSpec => []IntegralEarned
<1>1. LineInv => IntegralEarned
  BY DEF LineInv
<1> QED BY <1>1, LineInvariant, PTL
-----------------------------------------------------------------------------

\* THE SEARCH

\* One more sample of bias b or -b on a side, from a bias that reached low[k].
LEMMA FollowsOnce ==
    ASSUME NEW low, FollowsWithin(low), NEW k \in 0 .. Streak - 1,
           NEW r \in Readings, NEW b \in {r.bias, -r.bias}, b > 0,
           NEW x \in Biases, low[k] <= x
    PROVE  /\ low[k + 1] \in Int
           /\ low[k + 1] <= Nearest(Alpha * b + (Scale - Alpha) * x, Scale)
           /\ k = 0 => low[k + 1] <= b
<1> DEFINE beta == Scale - Alpha
           q(y) == Alpha * b + beta * y
<1>1. /\ Alpha \in Nat /\ beta \in Nat /\ Scale \in Nat \ {0} /\ x \in Int /\ Streak \in Nat \ {0}
      /\ Alpha + beta = Scale
  BY LineSensorAssumption, Follower DEF Biases
<1>2. b \in Int /\ -Scale <= b
  <2>1. r.bias \in Int /\ -Scale <= r.bias /\ r.bias <= Scale
    BY ReadingsInRange, LineSensorAssumption DEF Biases
  <2>2. CASE b = r.bias
    BY <2>1, <2>2
  <2>3. CASE b = -r.bias
    BY <2>1, <2>3, LineSensorAssumption
  <2> QED BY <2>2, <2>3
<1>3. /\ k \in 0 .. Streak /\ k + 1 \in 0 .. Streak /\ low[k] \in Int /\ low[k + 1] \in Int
      /\ low[0] <= -Scale
  BY <1>1 DEF FollowsWithin
<1>4. low[k + 1] <= Nearest(q(low[k]), Scale)
  BY DEF FollowsWithin
<1>5. \A y \in Int : low[k] <= y =>
        q(low[k]) \in Int /\ q(y) \in Int /\ q(low[k]) <= q(y)
  <2> SUFFICES ASSUME NEW y \in Int, low[k] <= y
               PROVE  q(low[k]) \in Int /\ q(y) \in Int /\ q(low[k]) <= q(y)
    OBVIOUS
  <2> DEFINE z == low[k]
  <2>1. z \in Int /\ z <= y
    BY <1>3
  <2> HIDE DEF z, beta
  <2>2. 0 <= beta * (y - z) /\ beta * y \in Int /\ beta * z \in Int /\ Alpha * b \in Int
    BY <1>1, <1>2, <2>1
  <2>3. beta * z <= beta * y
    BY <1>1, <2>1, <2>2
  <2>4. q(z) \in Int /\ q(y) \in Int /\ q(z) <= q(y)
    BY <2>2, <2>3
  <2> QED BY <2>4 DEF z
<1>6. \A y \in Int : low[k] <= y => low[k + 1] <= Nearest(q(y), Scale)
  <2> SUFFICES ASSUME NEW y \in Int, low[k] <= y PROVE low[k + 1] <= Nearest(q(y), Scale)
    OBVIOUS
  <2> DEFINE u == q(low[k])
             v == q(y)
  <2>1. u \in Int /\ v \in Int /\ u <= v
    BY <1>5
  <2> HIDE DEF u, v
  <2>2. Nearest(u, Scale) <= Nearest(v, Scale) /\ Nearest(u, Scale) \in Int /\ Nearest(v, Scale) \in Int
    BY <1>1, <2>1, NearestMono, NearestInt
  <2>3. low[k + 1] <= Nearest(u, Scale)
    BY <1>4 DEF u
  <2> QED BY <1>3, <2>2, <2>3 DEF v
<1>7. k = 0 => low[k + 1] <= b
  <2> SUFFICES ASSUME k = 0 PROVE low[k + 1] <= b
    OBVIOUS
  <2>1. low[k] <= b
    BY <1>1, <1>2, <1>3
  <2>2. q(b) = b * Scale
    <3>1. Alpha * b + beta * b = b * (Alpha + beta)
      <4> HIDE DEF beta
      <4> QED BY <1>1, <1>2
    <3> QED BY <1>1, <3>1
  <2>3. Nearest(b * Scale, Scale) = b
    BY <1>1, <1>2, NearestExact
  <2> HIDE DEF q
  <2> QED BY <1>2, <1>6, <2>1, <2>2, <2>3
<1>8. low[k + 1] <= Nearest(q(x), Scale)
  BY <1>1, <1>6
<1> QED BY <1>3, <1>7, <1>8

\* Inductive: after k samples in a row on one side the bias has come as far as low[k].
SideInv(low) ==
    /\ LineTypeOK
    /\ side >= 0 => low[side] <= frame.bias
    /\ side <= 0 => low[-side] <= -frame.bias
    /\ ~frame.primed => side = 0

\* The sample that makes a streak longer, or leaves it at its greatest length.
LEMMA StreakGrows ==
    ASSUME NEW low, FollowsWithin(low), NEW f \in Frames, NEW k \in 0 .. Streak,
           NEW r \in Readings, NEW b \in {r.bias, -r.bias}, b > 0,
           NEW x \in {f.bias, -f.bias}, NEW y \in Int,
           low[k] <= x, f.primed => y = Nearest(Alpha * b + (Scale - Alpha) * x, Scale),
           ~f.primed => y = b /\ k = 0
    PROVE  low[IF k < Streak THEN k + 1 ELSE Streak] <= y
<1> DEFINE j == IF k < Streak THEN k ELSE k - 1
<1>1. /\ j \in 0 .. Streak - 1 /\ j + 1 = (IF k < Streak THEN k + 1 ELSE Streak)
      /\ Streak \in Nat \ {0} /\ (k = 0 => j = 0)
  BY Follower
<1>2. x \in Biases /\ x \in Int
  <2>1. f.bias \in Int /\ -Scale <= f.bias /\ f.bias <= Scale /\ Scale \in Nat
    BY LineSensorAssumption DEF Frames, Biases
  <2> QED BY <2>1 DEF Biases
<1>3. low[j] <= x
  <2>1. CASE k < Streak
    BY <2>1
  <2>2. CASE k = Streak
    <3>1. j = k - 1 /\ k = j + 1
      BY <1>1, <2>2
    <3>2. low[j] <= low[k] /\ low[j] \in Int /\ low[k] \in Int
      BY <1>1, <3>1 DEF FollowsWithin
    <3> QED BY <1>2, <3>2
  <2> QED BY <2>1, <2>2, <1>1
<1>4. /\ low[j + 1] <= Nearest(Alpha * b + (Scale - Alpha) * x, Scale)
      /\ j = 0 => low[j + 1] <= b
  <2> HIDE DEF j
  <2> QED BY <1>1, <1>2, <1>3, FollowsOnce
<1>5. f.primed \in BOOLEAN
  BY DEF Frames
<1>6. low[j + 1] <= y
  <2> HIDE DEF j
  <2> QED BY <1>1, <1>4, <1>5
<1> QED BY <1>1, <1>6

\* One more sample of positive bias.
LEMMA SideUp ==
    ASSUME NEW s \in -Streak .. Streak
    PROVE  Min({Max({s, 0}) + 1, Streak}) = IF s < 0 THEN 1 ELSE IF s < Streak THEN s + 1 ELSE Streak
BY SideStep

\* One more sample of negative bias.
LEMMA SideDown ==
    ASSUME NEW s \in -Streak .. Streak
    PROVE  Max({Min({s, 0}) - 1, -Streak}) = IF s > 0 THEN -1 ELSE IF s > -Streak THEN s - 1 ELSE -Streak
BY SideStep

\* No sample was seen yet.
LEMMA SideInit ==
    ASSUME NEW low, FollowsWithin(low), LineInit PROVE SideInv(low)
<1>1. LineTypeOK /\ side = 0 /\ frame.bias = 0 /\ Scale \in Nat /\ Streak \in Nat
  BY LineTypeInit, LineSensorAssumption, Follower DEF LineInit, NoFrame
<1>2. low[0] \in Int /\ low[0] <= -Scale
  BY <1>1 DEF FollowsWithin
<1>3. low[side] <= frame.bias /\ low[-side] <= -frame.bias
  BY <1>1, <1>2
<1> QED BY <1>1, <1>3 DEF SideInv

\* A loop in RUN keeps SideInv: the sample moves bias and side together.
LEMMA SideFollows ==
    ASSUME NEW low, FollowsWithin(low), SideInv(low), NEW reading \in Readings,
           LineTypeOK', Follow(reading)
    PROVE  SideInv(low)'
<1>1. /\ frame \in Frames /\ frame' \in Frames /\ side \in -Streak .. Streak
      /\ reading.on_line \in BOOLEAN /\ reading.bias \in Biases /\ Streak \in Nat \ {0}
      /\ low[0] <= -Scale /\ low[0] \in Int /\ Scale \in Nat
  BY ReadingsInRange, Follower, LineSensorAssumption DEF SideInv, LineTypeOK, FollowsWithin
<1>2. /\ frame.bias \in Int /\ frame'.bias \in Int /\ frame.primed \in BOOLEAN
      /\ reading.bias \in Int /\ -Scale <= frame'.bias /\ frame'.bias <= Scale
  BY <1>1 DEF Frames, Biases
<1>3. CASE ~reading.on_line
  <2>1. /\ side' = side /\ frame'.bias = frame.bias /\ frame'.primed = frame.primed
    BY <1>1, <1>3 DEF Follow, FrameUpdate, Lost, Frames
  <2> QED BY <2>1 DEF SideInv
<1>4. CASE reading.on_line
  <2>1. frame'.bias = Smoothed(frame, reading.bias) /\ frame'.primed = TRUE
    BY <1>4 DEF Follow, FrameUpdate, Seen
  <2>2. CASE reading.bias > 0
    <3> DEFINE k == IF side < 0 THEN 0 ELSE side
    <3>1. side' = IF k < Streak THEN k + 1 ELSE Streak
      <4>1. side' = Min({Max({side, 0}) + 1, Streak})
        BY <1>4, <2>2 DEF Follow
      <4>2. side' = IF side < 0 THEN 1 ELSE IF side < Streak THEN side + 1 ELSE Streak
        BY <1>1, <4>1, SideUp
      <4> QED BY <1>1, <4>2
    <3>2. k \in 0 .. Streak /\ low[k] <= frame.bias /\ (~frame.primed => k = 0)
      BY <1>1, <1>2 DEF SideInv, Frames, Biases
    <3>3. low[side'] <= frame'.bias
      <4>1. /\ frame.primed => frame'.bias = Nearest(Alpha * reading.bias + (Scale - Alpha) * frame.bias, Scale)
            /\ ~frame.primed => frame'.bias = reading.bias
        BY <2>1 DEF Smoothed
      <4> HIDE DEF k
      <4> QED BY <1>1, <1>2, <2>2, <3>1, <3>2, <4>1, StreakGrows
    <3>4. side' \in Int /\ side' > 0
      <4> HIDE DEF k
      <4> QED BY <1>1, <3>1, <3>2
    <3> QED BY <1>1, <2>1, <3>3, <3>4 DEF SideInv
  <2>3. CASE reading.bias < 0
    <3> DEFINE k == IF side > 0 THEN 0 ELSE -side
               b == -reading.bias
               x == -frame.bias
               y == -frame'.bias
    <3>1. -side' = (IF k < Streak THEN k + 1 ELSE Streak) /\ side' < 0
      <4>1. side' = Max({Min({side, 0}) - 1, -Streak})
        BY <1>2, <1>4, <2>3 DEF Follow
      <4>2. side' = IF side > 0 THEN -1 ELSE IF side > -Streak THEN side - 1 ELSE -Streak
        BY <1>1, <4>1, SideDown
      <4> QED BY <1>1, <4>2
    <3>2. k \in 0 .. Streak /\ low[k] <= x /\ (~frame.primed => k = 0)
      BY <1>1, <1>2 DEF SideInv, Frames, Biases
    <3>3. low[-side'] <= y
      <4>1. frame.primed => y = Nearest(Alpha * b + (Scale - Alpha) * x, Scale)
        <5> SUFFICES ASSUME frame.primed
                     PROVE  y = Nearest(Alpha * b + (Scale - Alpha) * x, Scale)
          OBVIOUS
        <5> DEFINE v == Alpha * reading.bias + (Scale - Alpha) * frame.bias
        <5>1. frame'.bias = Nearest(v, Scale)
          BY <2>1 DEF Smoothed
        <5>2. v \in Int /\ Alpha * b + (Scale - Alpha) * x = -v /\ Scale \in Nat \ {0}
          <6> DEFINE rb == reading.bias
                     fb == frame.bias
                     beta == Scale - Alpha
          <6>1. Alpha \in Int /\ beta \in Int /\ Scale \in Nat \ {0} /\ rb \in Int /\ fb \in Int
            BY <1>2, LineSensorAssumption
          <6>2. /\ Alpha * (-rb) = -(Alpha * rb) /\ beta * (-fb) = -(beta * fb)
                /\ Alpha * rb \in Int /\ beta * fb \in Int
            <7> HIDE DEF rb, fb, beta
            <7> QED BY <6>1
          <6> HIDE DEF rb, fb, beta
          <6>3. Alpha * rb + beta * fb \in Int /\ Alpha * (-rb) + beta * (-fb) = -(Alpha * rb + beta * fb)
            BY <6>2
          <6> QED BY <6>1, <6>3 DEF rb, fb, beta
        <5> HIDE DEF v
        <5> QED BY <5>1, <5>2, NearestOdd
      <4>2. ~frame.primed => y = b
        BY <2>1 DEF Smoothed
      <4>3. b > 0 /\ b \in {reading.bias, -reading.bias} /\ x \in {frame.bias, -frame.bias} /\ y \in Int
        BY <1>2, <2>3
      <4>4. low[IF k < Streak THEN k + 1 ELSE Streak] <= y
        <5> HIDE DEF k, b, x, y
        <5> QED BY <1>1, <3>2, <4>1, <4>2, <4>3, StreakGrows
      <4> QED BY <3>1, <4>4
    <3>4. side' \in Int
      BY <1>1 DEF LineTypeOK
    <3> QED BY <1>1, <2>1, <3>1, <3>3, <3>4 DEF SideInv
  <2>4. CASE reading.bias = 0
    <3>1. side' = 0
      BY <1>4, <2>4 DEF Follow
    <3> QED BY <1>1, <1>2, <2>1, <3>1 DEF SideInv
  <2> QED BY <1>2, <2>2, <2>3, <2>4
<1> QED BY <1>1, <1>3, <1>4

\* What leaves frame and side alone keeps SideInv.
LEMMA SideStays ==
    ASSUME NEW low, SideInv(low), LineTypeOK', UNCHANGED <<frame, side>>
    PROVE  SideInv(low)'
BY DEF SideInv

\* Every step keeps SideInv.
LEMMA SideInvStep ==
    ASSUME NEW low, FollowsWithin(low), AgesAgree, SideInv(low), [LineNext]_lineVars
    PROVE  SideInv(low)'
<1>1. LineTypeOK
  BY DEF SideInv
<1>2. CASE StandTick
  <2>1. UNCHANGED <<frame, side>>
    BY <1>2 DEF StandTick, Stand
  <2>2. LineTypeOK'
    BY <1>1, <1>2, StandKeeps
  <2> QED BY <2>1, <2>2, SideStays
<1>3. CASE \E reading \in Readings, measured \in [Driven -> Speeds] : RunTick(reading, measured)
  <2>1. PICK reading \in Readings, measured \in [Driven -> Speeds] : RunTick(reading, measured)
    BY <1>3
  <2>2. LineTypeOK' /\ Follow(reading)
    BY <1>1, <2>1, RunKeeps DEF RunTick
  <2> QED BY <2>1, <2>2, SideFollows
<1>4. CASE UNCHANGED lineVars
  <2>1. UNCHANGED <<frame, side>>
    BY <1>4 DEF lineVars
  <2>2. LineTypeOK'
    BY <1>1, <1>4 DEF LineTypeOK, lineVars
  <2> QED BY <2>1, <2>2, SideStays
<1> QED BY <1>2, <1>3, <1>4 DEF LineNext

\* A whole streak has pulled the bias over.
LEMMA SideInvHolds ==
    ASSUME NEW low, FollowsWithin(low), SideInv(low)
    PROVE  SeekRemembersSide
<1>1. /\ Streak \in Nat \ {0} /\ side \in -Streak .. Streak /\ frame \in Frames
  BY Follower DEF SideInv, LineTypeOK
<1>2. frame.bias \in Int /\ frame.last_bias = frame.bias
  BY <1>1, LineSensorAssumption DEF Frames, Biases
<1>3. low[Streak] \in Int /\ low[Streak] > 0
  BY <1>1 DEF FollowsWithin
<1>4. side = Streak => frame.last_bias > 0
  BY <1>1, <1>2, <1>3 DEF SideInv
<1>5. side = -Streak => frame.last_bias < 0
  <2> SUFFICES ASSUME side = -Streak PROVE frame.bias < 0
    BY <1>2
  <2>1. -side = Streak /\ side <= 0
    BY <1>1
  <2>2. low[Streak] <= -frame.bias
    BY <2>1 DEF SideInv
  <2> QED BY <1>2, <1>3, <2>2
<1> QED BY <1>4, <1>5 DEF SeekRemembersSide

\* The search starts on the side where the line was last seen for a while, for
\* every low pass and streak that FollowsWithin.
THEOREM SeekStartsOnSide ==
    ASSUME NEW low, FollowsWithin(low)
    PROVE  LineSpec => []SeekRemembersSide
<1>1. LineInit => SideInv(low)
  BY SideInit
<1>2. LineInv /\ SideInv(low) /\ [LineNext]_lineVars => SideInv(low)'
  BY SideInvStep DEF LineInv
<1>3. SideInv(low) => SeekRemembersSide
  BY SideInvHolds
<1> QED BY <1>1, <1>2, <1>3, LineInvariant, PTL DEF LineSpec
=============================================================================
