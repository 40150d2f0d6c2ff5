--------------------------- MODULE ExchangeProofs ---------------------------
(***************************************************************************)
(* What the receive interrupt and the tasks exchange without a lock: the   *)
(* RTT ring, for any size and any records, and the command flags, for any  *)
(* number of $DUTY requests.  Both writers of the ring stay within the     *)
(* buffer whatever they do to each other, and the probe gets whole records *)
(* while they do not meet.  A command is lost only if it falls between the *)
(* read and the clear of its flag, and $DUTY requests are served in order. *)
(***************************************************************************)
EXTENDS RttRing, CommandFlags, SequenceTheorems, TLAPS

-----------------------------------------------------------------------------
(* Offsets.                                                                *)

\* Bytes written from rd on before w.
Used(w, rd) == IF w >= rd THEN w - rd ELSE Size - rd + w

LEMMA Sizes == Size \in Nat /\ Size > 0
BY SizeAssumption

LEMMA OffsetsClosed ==
    ASSUME NEW o \in Offsets, NEW n \in Nat, n < Size
    PROVE  After(o) \in Offsets /\ Moved(o, n) \in Offsets
BY Sizes DEF Offsets, After, Moved

LEMMA MovedSteps ==
    ASSUME NEW o \in Offsets, NEW n \in Nat, n + 1 < Size
    PROVE  /\ Moved(o, 0) = o /\ Moved(o, n) \in Offsets
           /\ After(Moved(o, n)) = Moved(o, n + 1)
BY Sizes DEF Offsets, After, Moved

LEMMA UsedRange ==
    ASSUME NEW w \in Offsets, NEW rd \in Offsets
    PROVE  /\ Used(w, rd) \in 0 .. (Size - 1)
           /\ space_available(w, rd) = Size - 1 - Used(w, rd)
BY Sizes DEF Offsets, Used, space_available

\* Writing n bytes that fit makes n more unread.
LEMMA UsedGrows ==
    ASSUME NEW w \in Offsets, NEW rd \in Offsets, NEW n \in Nat, Used(w, rd) + n < Size
    PROVE  Used(Moved(w, n), rd) = Used(w, rd) + n
BY Sizes DEF Offsets, Used, Moved

\* Byte n from the write offset on is byte Used + n from the read offset on.
LEMMA WriteIsPastRead ==
    ASSUME NEW w \in Offsets, NEW rd \in Offsets, NEW n \in Nat, Used(w, rd) + n < Size
    PROVE  Moved(w, n) = Moved(rd, Used(w, rd) + n)
BY Sizes DEF Offsets, Used, Moved

\* Different distances from one offset are different offsets.
LEMMA MovedInjective ==
    ASSUME NEW o \in Offsets, NEW m \in Nat, NEW n \in Nat, m < Size, n < Size, m # n
    PROVE  Moved(o, m) # Moved(o, n)
BY Sizes DEF Offsets, Moved

-----------------------------------------------------------------------------
(* Types.                                                                  *)

LEMMA RingTypeStep == TypeOK /\ [Next]_vars => TypeOK'
<1> SUFFICES ASSUME TypeOK, [Next]_vars PROVE TypeOK'
  OBVIOUS
<1>0. TypeOK
  OBVIOUS
<1>b. mixed' \in BOOLEAN
  BY <1>0, Zenon
  DEF TypeOK, Next, TaskBegin, IsrWrite, TaskCheck, TaskLoad, TaskCopy, TaskPublish,
      HostRead, vars, Owe
<1>1. ASSUME NEW r \in Records, TaskBegin(r) PROVE TypeOK'
  BY <1>0, <1>1, <1>b, LengthAssumption DEF TaskBegin, ringVars, TypeOK
<1>2. ASSUME NEW r \in Records, IsrWrite(r) PROVE TypeOK'
  <2>1. wr_off' \in Offsets
    BY <1>0, <1>2, OffsetsClosed, LengthAssumption DEF IsrWrite, Writable, TypeOK
  <2>2. DOMAIN buffer' = Offsets
    BY <1>2 DEF IsrWrite, Written
  <2> QED BY <1>0, <1>2, <1>b, <2>1, <2>2 DEF IsrWrite, taskVars, TypeOK
<1>3. CASE TaskCheck
  BY <1>0, <1>3, <1>b DEF TaskCheck, ringVars, TypeOK
<1>4. CASE TaskLoad
  BY <1>0, <1>4, <1>b DEF TaskLoad, ringVars, TypeOK
<1>5. CASE TaskCopy
  <2>1. wr' \in Offsets
    BY <1>0, <1>5, OffsetsClosed, Sizes DEF TaskCopy, TypeOK
  <2>2. DOMAIN buffer' = Offsets
    BY <1>0, <1>5 DEF TaskCopy, TypeOK
  <2>3. i' \in 0 .. Length[record]
    BY <1>0, <1>5, LengthAssumption DEF TaskCopy, TypeOK
  <2> QED BY <1>0, <1>5, <1>b, <2>1, <2>2, <2>3 DEF TaskCopy, TypeOK
<1>6. CASE TaskPublish
  BY <1>0, <1>6, <1>b DEF TaskPublish, TypeOK
<1>7. CASE HostRead
  <2>1. Size # 1
    BY <1>0, <1>7, Sizes DEF HostRead, TypeOK, Offsets
  <2>2. rd_off' \in Offsets
    <3>1. 1 \in Nat /\ 1 < Size
      BY <2>1, Sizes
    <3>2. Moved(rd_off, 1) \in Offsets
      BY <1>0, <3>1, OffsetsClosed DEF TypeOK
    <3> QED BY <1>7, <3>2 DEF HostRead
  <2> QED BY <1>0, <1>7, <1>b, <2>2 DEF HostRead, taskVars, TypeOK
<1>8. CASE UNCHANGED vars
  BY <1>0, <1>8 DEF vars, ringVars, taskVars, TypeOK
<1> QED BY <1>1, <1>2, <1>3, <1>4, <1>5, <1>6, <1>7, <1>8 DEF Next

LEMMA RingTypeInit == Init => TypeOK
<1> SUFFICES ASSUME Init PROVE TypeOK
  OBVIOUS
<1>1. wr_off \in Offsets /\ rd_off \in Offsets /\ wr \in Offsets
  BY Sizes DEF Init, Offsets
<1>2. mixed \in BOOLEAN
  BY Zenon DEF Init
<1>3. DOMAIN buffer = Offsets /\ pc = "idle" /\ record = NoRecord
  BY DEF Init
<1> QED BY <1>1, <1>2, <1>3 DEF TypeOK

\* Both writers stay within the buffer, whatever they do to each other.
THEOREM RingTypeCorrect == Spec => []TypeOK
BY RingTypeInit, RingTypeStep, PTL DEF Spec

-----------------------------------------------------------------------------
(* The records.  While no reply falls into a write, the unread bytes are   *)
(* the ones owed, and the task's copy lies beyond them.                    *)

\* The unread bytes are the ones owed.
Delivers ==
  /\ Len(owed) = Used(wr_off, rd_off)
  /\ \A n \in 0 .. (Used(wr_off, rd_off) - 1) : owed[n + 1] = buffer[Moved(rd_off, n)]

\* What the task has copied follows the unread bytes, and all of it will fit.
Copies ==
  /\ wr = Moved(wr_off, i)
  /\ Used(wr_off, rd_off) + Length[record] < Size
  /\ \A n \in 0 .. (i - 1) : buffer[Moved(wr_off, n)] = <<record, n + 1>>

RecordInv ==
  /\ owed \in Seq(Records \X Nat)
  /\ mixed => owed = <<>>
  /\ pc \in {"space", "load"} => Writable(record) /\ i = 0
  /\ ~mixed => /\ Delivers
               /\ pc \in {"space", "load"} => wr = wr_off
               /\ pc = "load" => Used(wr_off, rd_off) + Length[record] < Size
               /\ pc = "copy" => Copies

LEMMA RecordInit == Init => RecordInv
BY DEF Init, RecordInv, Delivers, Used

\* The bytes of a record are owed after the ones before it.
LEMMA OwedGrows ==
    ASSUME NEW q \in Seq(Records \X Nat), NEW r \in Records
    PROVE  /\ q \o Text(r) \in Seq(Records \X Nat)
           /\ Len(q \o Text(r)) = Len(q) + Length[r]
           /\ \A n \in 1 .. Len(q) : (q \o Text(r))[n] = q[n]
           /\ \A n \in 1 .. Length[r] : (q \o Text(r))[Len(q) + n] = <<r, n>>
<1>1. Length[r] \in Nat
  BY LengthAssumption
<1>2. Text(r) \in Seq(Records \X Nat) /\ Len(Text(r)) = Length[r]
  BY <1>1 DEF Text
<1>3. \A n \in 1 .. Length[r] : Text(r)[n] = <<r, n>>
  BY DEF Text
<1> DEFINE t == Text(r)
<1>4. /\ q \o t \in Seq(Records \X Nat) /\ Len(q \o t) = Len(q) + Len(t)
      /\ \A n \in 1 .. (Len(q) + Len(t)) :
           (q \o t)[n] = IF n <= Len(q) THEN q[n] ELSE t[n - Len(q)]
  BY <1>2, ConcatProperties
<1>5. Len(q) \in Nat
  OBVIOUS
<1> HIDE DEF t
<1>6. \A n \in 1 .. Len(q) : (q \o t)[n] = q[n]
  BY <1>1, <1>2, <1>4, <1>5 DEF t
<1>7. ASSUME NEW n \in 1 .. Length[r] PROVE (q \o t)[Len(q) + n] = <<r, n>>
  <2>1. /\ Len(q) + n \in 1 .. (Len(q) + Len(t)) /\ ~(Len(q) + n <= Len(q))
        /\ (Len(q) + n) - Len(q) = n
    BY <1>1, <1>2, <1>5 DEF t
  <2>2. (q \o t)[Len(q) + n] = t[n]
    BY <1>4, <2>1
  <2> QED BY <1>3, <2>2 DEF t
<1> QED BY <1>2, <1>4, <1>6, <1>7 DEF t

\* A record written behind the unread bytes, and then published, is owed.
LEMMA Published ==
    ASSUME TypeOK, NEW r \in Records, Delivers, owed \in Seq(Records \X Nat),
           Used(wr_off, rd_off) + Length[r] < Size,
           wr_off' = Moved(wr_off, Length[r]), rd_off' = rd_off,
           owed' = owed \o Text(r),
           \A n \in 0 .. (Used(wr_off, rd_off) - 1) :
             buffer'[Moved(rd_off, n)] = buffer[Moved(rd_off, n)],
           \A n \in 0 .. (Length[r] - 1) : buffer'[Moved(wr_off, n)] = <<r, n + 1>>
    PROVE  owed' \in Seq(Records \X Nat) /\ Delivers'
<1> DEFINE u == Used(wr_off, rd_off)
<1>1. /\ wr_off \in Offsets /\ rd_off \in Offsets /\ Length[r] \in Nat /\ u \in Nat
      /\ Size \in Nat
  BY UsedRange, LengthAssumption, Sizes DEF TypeOK
<1>g. u + Length[r] < Size
  OBVIOUS
<1>2. Used(wr_off', rd_off') = u + Length[r]
  BY <1>1, UsedGrows
<1>e. /\ Len(owed) = u
      /\ \A n \in 0 .. (u - 1) : owed[n + 1] = buffer[Moved(rd_off, n)]
  BY DEF Delivers
<1>f. \A n \in 0 .. (u - 1) : buffer'[Moved(rd_off, n)] = buffer[Moved(rd_off, n)]
  OBVIOUS
<1> HIDE DEF u
<1>3. /\ owed' \in Seq(Records \X Nat) /\ Len(owed') = u + Length[r]
      /\ \A n \in 1 .. u : owed'[n] = owed[n]
      /\ \A n \in 1 .. Length[r] : owed'[u + n] = <<r, n>>
  BY <1>e, OwedGrows
<1>4. ASSUME NEW n \in 0 .. (u + Length[r] - 1)
      PROVE  owed'[n + 1] = buffer'[Moved(rd_off, n)]
  <2>1. CASE n < u
    <3>1. n \in 0 .. (u - 1) /\ n + 1 \in 1 .. u
      BY <1>1, <2>1
    <3> QED BY <1>3, <1>e, <1>f, <3>1
  <2>2. CASE n >= u
    <3>1. n - u \in 0 .. (Length[r] - 1)
      BY <1>1, <2>2
    <3>2. Moved(wr_off, n - u) = Moved(rd_off, u + (n - u))
      <4>1. n - u \in Nat /\ u + (n - u) < Size
        BY <1>1, <1>g, <3>1
      <4> QED BY <1>1, <4>1, WriteIsPastRead DEF u
    <3>3. buffer'[Moved(wr_off, n - u)] = <<r, (n - u) + 1>>
      BY <3>1
    <3>4. owed'[u + ((n - u) + 1)] = <<r, (n - u) + 1>>
      <4>1. (n - u) + 1 \in 1 .. Length[r]
        BY <1>1, <3>1
      <4> QED BY <1>3, <4>1
    <3>5. u + (n - u) = n /\ u + ((n - u) + 1) = n + 1
      BY <1>1
    <3> QED BY <3>2, <3>3, <3>4, <3>5
  <2>3. n < u \/ n >= u
    BY <1>1
  <2> QED BY <2>1, <2>2, <2>3
<1>5. Used(wr_off', rd_off') = u + Length[r] /\ rd_off' = rd_off
  BY <1>2 DEF u
<1>6. \A n \in 0 .. (Used(wr_off', rd_off') - 1) : owed'[n + 1] = buffer'[Moved(rd_off', n)]
  <2>1. \A n \in 0 .. (u + Length[r] - 1) : owed'[n + 1] = buffer'[Moved(rd_off, n)]
    BY <1>4
  <2>2. Used(wr_off', rd_off') - 1 = u + Length[r] - 1
    BY <1>1, <1>5
  <2>3. 0 .. (Used(wr_off', rd_off') - 1) = 0 .. (u + Length[r] - 1)
    BY <2>2
  <2>4. rd_off' = rd_off
    OBVIOUS
  <2> QED BY <2>1, <2>3, <2>4
<1>7. Len(owed') = Used(wr_off', rd_off')
  BY <1>3, <1>5
<1> QED BY <1>3, <1>6, <1>7 DEF Delivers

\* A whole write from the write offset on puts its bytes there and nothing else.
LEMMA WrittenAt ==
    ASSUME NEW o \in Offsets, NEW r \in Records, NEW n \in 0 .. (Size - 1)
    PROVE  Written(r, o)[Moved(o, n)] =
             IF n + 1 <= Length[r] THEN <<r, n + 1>> ELSE buffer[Moved(o, n)]
<1> DEFINE p == Moved(o, n)
<1>1. /\ p \in Offsets
      /\ (IF p >= o THEN p - o + 1 ELSE p - o + 1 + Size) = n + 1
  BY Sizes DEF Offsets, Moved
<1> HIDE DEF p
<1>2. Written(r, o)[p] = IF n + 1 <= Length[r] THEN <<r, n + 1>> ELSE buffer[p]
  BY <1>1 DEF Written
<1> QED BY <1>2 DEF p

\* The unread bytes are the last ones from the write offset on.
LEMMA UnreadIsLast ==
    ASSUME NEW w \in Offsets, NEW rd \in Offsets, NEW n \in 0 .. (Used(w, rd) - 1)
    PROVE  Moved(rd, n) = Moved(w, Size - Used(w, rd) + n)
BY Sizes DEF Offsets, Used, Moved

LEMMA RecordStep == TypeOK /\ TypeOK' /\ RecordInv /\ [Next]_vars => RecordInv'
<1> SUFFICES ASSUME TypeOK, TypeOK', RecordInv, [Next]_vars PROVE RecordInv'
  OBVIOUS
<1>0. TypeOK /\ RecordInv
  OBVIOUS
<1>t. /\ wr_off \in Offsets /\ rd_off \in Offsets /\ wr \in Offsets
      /\ mixed \in BOOLEAN /\ Size \in Nat /\ Size > 0
      /\ Used(wr_off, rd_off) \in 0 .. (Size - 1)
  BY Sizes, UsedRange DEF TypeOK
<1>1. ASSUME NEW r \in Records, TaskBegin(r) PROVE RecordInv'
  BY <1>0, <1>1 DEF TaskBegin, ringVars, RecordInv, Delivers
<1>2. ASSUME NEW r \in Records, IsrWrite(r) PROVE RecordInv'
  <2>1. /\ mixed' = (mixed \/ pc # "idle") /\ UNCHANGED <<pc, record, i, wr, rd_off>>
        /\ owed' = IF mixed' THEN <<>> ELSE owed \o Text(r)
    BY <1>2 DEF IsrWrite, taskVars, Owe
  <2>2. CASE mixed'
    BY <1>0, <2>1, <2>2 DEF RecordInv
  <2>3. CASE ~mixed'
    <3>1. ~mixed /\ pc = "idle" /\ owed' = owed \o Text(r)
      BY <1>t, <2>1, <2>3
    <3>2. Length[r] \in Nat /\ Used(wr_off, rd_off) + Length[r] < Size
      BY <1>2, <1>t, UsedRange, LengthAssumption DEF IsrWrite
    <3>3. buffer' = Written(r, wr_off)
      BY <1>2 DEF IsrWrite
    <3>4. ASSUME NEW n \in 0 .. (Used(wr_off, rd_off) - 1)
          PROVE  buffer'[Moved(rd_off, n)] = buffer[Moved(rd_off, n)]
      <4> DEFINE k == Size - Used(wr_off, rd_off) + n
      <4>1. Moved(rd_off, n) = Moved(wr_off, k)
        BY <1>t, UnreadIsLast
      <4>2. k \in 0 .. (Size - 1) /\ ~(k + 1 <= Length[r])
        BY <1>t, <3>2
      <4> HIDE DEF k
      <4> QED BY <1>t, <3>3, <4>1, <4>2, WrittenAt
    <3>5. ASSUME NEW n \in 0 .. (Length[r] - 1)
          PROVE  buffer'[Moved(wr_off, n)] = <<r, n + 1>>
      <4>1. n \in 0 .. (Size - 1) /\ n + 1 <= Length[r]
        BY <1>t, <3>2
      <4> QED BY <1>t, <3>3, <4>1, WrittenAt
    <3>6. owed' \in Seq(Records \X Nat) /\ Delivers'
      BY <1>0, <1>2, <2>1, <3>1, <3>2, <3>4, <3>5, Published DEF IsrWrite, RecordInv
    <3> QED BY <2>1, <2>3, <3>1, <3>6 DEF RecordInv
  <2> QED BY <2>2, <2>3
<1>3. CASE TaskCheck
  <2>1. /\ pc = "space" /\ UNCHANGED <<ringVars, record, i, wr, owed, mixed>>
        /\ pc' \in {"idle", "load"}
        /\ pc' = "load" => ~(space_available(wr, rd_off) < Length[record])
    BY <1>3 DEF TaskCheck
  <2>2. Length[record] \in Nat
    BY <1>0, <2>1, LengthAssumption DEF TypeOK
  <2>3. ~mixed /\ pc' = "load" => Used(wr_off, rd_off) + Length[record] < Size
    BY <1>0, <1>t, <2>1, <2>2, UsedRange DEF RecordInv
  <2> QED BY <1>0, <2>1, <2>3 DEF ringVars, RecordInv, Delivers
<1>4. CASE TaskLoad
  <2>1. /\ pc = "load" /\ pc' = "copy" /\ wr' \in {wr, wr_off}
        /\ UNCHANGED <<ringVars, record, i, owed, mixed>>
    BY <1>4 DEF TaskLoad
  <2>2. ~mixed => Copies'
    BY <1>0, <1>t, <2>1, Sizes DEF ringVars, RecordInv, Copies, Moved, Offsets
  <2> QED BY <1>0, <2>1, <2>2 DEF ringVars, RecordInv, Delivers
<1>5. CASE TaskCopy
  <2>1. /\ pc = "copy" /\ i < Length[record] /\ i' = i + 1 /\ wr' = After(wr)
        /\ buffer' = [buffer EXCEPT ![wr] = <<record, i + 1>>]
        /\ UNCHANGED <<wr_off, rd_off, pc, record, owed, mixed>>
    BY <1>5 DEF TaskCopy
  <2>2. i \in Nat /\ Length[record] \in Nat /\ DOMAIN buffer = Offsets
    BY <1>0, <2>1, LengthAssumption DEF TypeOK
  <2>3. CASE mixed
    BY <1>0, <2>1, <2>3 DEF RecordInv
  <2>4. CASE ~mixed
    <3> DEFINE u == Used(wr_off, rd_off)
    <3>1. /\ Delivers /\ wr = Moved(wr_off, i) /\ u + Length[record] < Size
          /\ \A n \in 0 .. (i - 1) : buffer[Moved(wr_off, n)] = <<record, n + 1>>
      BY <1>0, <2>1, <2>4 DEF RecordInv, Copies
    <3>2. u \in Nat /\ u + i < Size /\ i + 1 < Size
      BY <1>t, <2>1, <2>2, <3>1
    <3>3. wr = Moved(rd_off, u + i)
      BY <1>t, <2>2, <3>1, <3>2, WriteIsPastRead
    <3> HIDE DEF u
    <3>4. ASSUME NEW n \in 0 .. (u - 1) PROVE buffer'[Moved(rd_off, n)] = buffer[Moved(rd_off, n)]
      <4>1. n \in Nat /\ n < Size /\ u + i \in Nat /\ n # u + i
        BY <1>t, <2>2, <3>2
      <4>2. Moved(rd_off, n) # wr /\ Moved(rd_off, n) \in Offsets
        BY <1>t, <3>2, <3>3, <4>1, MovedInjective, OffsetsClosed
      <4> QED BY <2>1, <2>2, <4>2
    <3>5. Delivers'
      BY <2>1, <3>1, <3>4 DEF Delivers, u
    <3>6. ASSUME NEW n \in 0 .. i PROVE buffer'[Moved(wr_off, n)] = <<record, n + 1>>
      <4>1. CASE n = i
        BY <1>t, <2>1, <2>2, <3>1, <4>1
      <4>2. CASE n # i
        <5>1. n \in Nat /\ n < Size /\ i < Size /\ n \in 0 .. (i - 1)
          BY <1>t, <2>2, <3>2, <4>2
        <5>2. Moved(wr_off, n) # wr /\ Moved(wr_off, n) \in Offsets
          BY <1>t, <2>2, <3>1, <4>2, <5>1, MovedInjective, OffsetsClosed
        <5> QED BY <2>1, <2>2, <3>1, <5>1, <5>2
      <4> QED BY <4>1, <4>2
    <3>7. wr' = Moved(wr_off', i')
      BY <1>t, <2>1, <2>2, <3>1, <3>2, MovedSteps
    <3>8. Copies'
      BY <2>1, <2>2, <3>1, <3>6, <3>7 DEF Copies, u
    <3> QED BY <1>0, <2>1, <2>4, <3>5, <3>8 DEF RecordInv
  <2> QED BY <2>3, <2>4
<1>6. CASE TaskPublish
  <2>1. /\ pc = "copy" /\ i = Length[record] /\ wr_off' = wr /\ pc' = "idle"
        /\ mixed' = mixed /\ owed' = IF mixed' THEN <<>> ELSE owed \o Text(record)
        /\ UNCHANGED <<buffer, rd_off, record, i, wr>>
    BY <1>6 DEF TaskPublish, Owe
  <2>2. CASE mixed
    BY <1>0, <2>1, <2>2 DEF RecordInv
  <2>3. CASE ~mixed
    <3>1. Copies /\ Delivers /\ owed \in Seq(Records \X Nat) /\ record \in Records
      BY <1>0, <2>1, <2>3 DEF RecordInv, TypeOK
    <3>2. /\ Used(wr_off, rd_off) + Length[record] < Size
          /\ wr_off' = Moved(wr_off, Length[record])
          /\ \A n \in 0 .. (Length[record] - 1) : buffer'[Moved(wr_off, n)] = <<record, n + 1>>
      BY <2>1, <3>1 DEF Copies
    <3>3. owed' \in Seq(Records \X Nat) /\ Delivers'
      BY <1>0, <2>1, <2>3, <3>1, <3>2, Published
    <3> QED BY <2>1, <2>3, <3>3 DEF RecordInv
  <2> QED BY <2>2, <2>3
<1>7. CASE HostRead
  <2>1. /\ rd_off # wr_off /\ rd_off' = Moved(rd_off, 1)
        /\ mixed' = (mixed /\ ~(rd_off' = wr_off /\ pc = "idle"))
        /\ owed' = IF mixed THEN <<>> ELSE Tail(owed)
        /\ UNCHANGED <<buffer, wr_off, pc, record, i, wr>>
    BY <1>7 DEF HostRead, taskVars
  <2>2. /\ Used(wr_off, rd_off) \in Nat /\ Used(wr_off, rd_off) > 0
        /\ Used(wr_off', rd_off') = Used(wr_off, rd_off) - 1
    BY <1>t, <2>1 DEF Used, Moved, Offsets
  <2>3. CASE mixed
    <3>1. owed' = <<>> /\ (~mixed' => rd_off' = wr_off /\ pc = "idle")
      BY <1>t, <2>1, <2>3
    <3>2. rd_off' = wr_off => Used(wr_off', rd_off') = 0
      BY <1>t, <2>1 DEF Used, Offsets
    <3>3. ~mixed' => Delivers'
      BY <3>1, <3>2 DEF Delivers
    <3>4. owed' \in Seq(Records \X Nat) /\ (mixed' => owed' = <<>>)
      BY <3>1
    <3>5. pc \in {"space", "load"} => Writable(record)' /\ i' = 0
      BY <1>0, <2>1 DEF RecordInv, Writable
    <3>6. pc \in {"space", "load", "copy"} => mixed'
      BY <3>1
    <3> QED BY <2>1, <3>3, <3>4, <3>5, <3>6 DEF RecordInv
  <2>4. CASE ~mixed
    <3> DEFINE u == Used(wr_off, rd_off)
    <3>1. /\ owed \in Seq(Records \X Nat) /\ Len(owed) = u /\ owed' = Tail(owed) /\ ~mixed'
          /\ \A n \in 0 .. (u - 1) : owed[n + 1] = buffer[Moved(rd_off, n)]
      BY <1>0, <2>1, <2>4 DEF RecordInv, Delivers
    <3>2. u \in Nat /\ u > 0 /\ u < Size /\ Used(wr_off', rd_off') = u - 1
      BY <1>t, <2>2
    <3> HIDE DEF u
    <3>3. /\ owed' \in Seq(Records \X Nat) /\ Len(owed') = u - 1
          /\ \A n \in 1 .. (u - 1) : owed'[n] = owed[n + 1]
      BY <3>1, <3>2
    <3>4. ASSUME NEW n \in 0 .. (u - 2) PROVE owed'[n + 1] = buffer'[Moved(rd_off', n)]
      <4>1. n + 1 \in 1 .. (u - 1) /\ n + 1 \in 0 .. (u - 1)
        BY <3>2
      <4>2. Moved(rd_off', n) = Moved(rd_off, n + 1)
        BY <1>t, <2>1, <3>2 DEF Moved, Offsets
      <4> QED BY <2>1, <3>1, <3>3, <4>1, <4>2
    <3>5. Delivers'
      <4>1. (u - 1) - 1 = u - 2
        BY <3>2
      <4> QED BY <3>2, <3>3, <3>4, <4>1 DEF Delivers
    <3>6. /\ pc = "load" => Used(wr_off', rd_off') + Length[record] < Size
          /\ pc = "copy" => Copies'
      <4>1. pc # "idle" => Length[record] \in Nat
        BY <1>0, LengthAssumption DEF TypeOK
      <4> QED BY <1>0, <1>t, <2>1, <2>4, <3>2, <4>1 DEF RecordInv, Copies, u
    <3> QED BY <1>0, <2>1, <2>4, <3>1, <3>3, <3>5, <3>6 DEF RecordInv
  <2> QED BY <2>3, <2>4
<1>8. CASE UNCHANGED vars
  BY <1>0, <1>8 DEF vars, ringVars, taskVars, RecordInv, Delivers, Copies
<1> QED BY <1>1, <1>2, <1>3, <1>4, <1>5, <1>6, <1>7, <1>8 DEF Next

\* The probe gets every record that was not dropped, whole, in order and once,
\* unless a reply fell into a write of the task.
THEOREM RecordsAreWhole == Spec => []WholeRecords
<1>1. TypeOK /\ RecordInv => WholeRecords
  <2> SUFFICES ASSUME TypeOK, RecordInv, ~mixed PROVE Unread = owed
    BY DEF WholeRecords
  <2> DEFINE u == Used(wr_off, rd_off)
  <2>1. /\ owed \in Seq(Records \X Nat) /\ Len(owed) = u
        /\ \A n \in 0 .. (u - 1) : owed[n + 1] = buffer[Moved(rd_off, n)]
    BY DEF RecordInv, Delivers
  <2>2. Unread = [n \in 1 .. u |-> buffer[Moved(rd_off, n - 1)]]
    BY DEF Unread, Used
  <2>3. u \in Nat
    BY UsedRange DEF TypeOK
  <2> HIDE DEF u
  <2>4. ASSUME NEW n \in 1 .. u PROVE owed[n] = buffer[Moved(rd_off, n - 1)]
    <3>1. n - 1 \in 0 .. (u - 1) /\ (n - 1) + 1 = n
      BY <2>3
    <3> QED BY <2>1, <3>1
  <2>5. owed = [n \in 1 .. u |-> owed[n]]
    BY <2>1
  <2>6. [n \in 1 .. u |-> owed[n]] = [n \in 1 .. u |-> buffer[Moved(rd_off, n - 1)]]
    BY <2>4
  <2> QED BY <2>2, <2>5, <2>6
<1> QED BY <1>1, RecordInit, RecordStep, RingTypeInit, RingTypeStep, PTL DEF Spec

-----------------------------------------------------------------------------
(* The command flags: types.                                               *)

LEMMA FlagsTypeInit == FlagsInit => FlagsTypeOK
<1>1. NoDuty \in DutyNumbers /\ 0 \in 0 .. MaxDuty
  BY MaxDutyAssumption DEF DutyNumbers, NoDuty
<1> QED
  BY <1>1 DEF FlagsInit, FlagsTypeOK

\* The windows and the flags, kind by kind.
LEMMA WindowIs ==
    /\ InWindow("stop") = (cpc = "stop_clear") /\ InWindow("start") = (cpc = "start_clear")
    /\ InWindow("duty") = (cpc \in {"duty_pair", "duty_hold", "duty_clear"})
    /\ InWindow("cal") = (tpc = "clear")
BY DEF InWindow

\* The ghosts keep their types whatever is posted or read.
LEMMA GhostsTyped ==
    ASSUME FlagsTypeOK, NEW k \in Kinds, NEW value \in BOOLEAN, Posted(k) \/ ReadBy(k, value)
    PROVE  waiting' \in [Kinds -> BOOLEAN] /\ missed' \in [Kinds -> BOOLEAN]
<1>1. InWindow(k) \in BOOLEAN
  <2>1. (cpc = "stop_clear") \in BOOLEAN /\ (cpc = "start_clear") \in BOOLEAN
        /\ (cpc \in {"duty_pair", "duty_hold", "duty_clear"}) \in BOOLEAN
        /\ (tpc = "clear") \in BOOLEAN
    OBVIOUS
  <2> QED
    BY <2>1, WindowIs DEF Kinds
<1>2. waiting \in [Kinds -> BOOLEAN] /\ missed \in [Kinds -> BOOLEAN]
  BY DEF FlagsTypeOK
<1>3. CASE Posted(k)
  BY <1>1, <1>2, <1>3 DEF Posted
<1>4. CASE ReadBy(k, value)
  BY <1>2, <1>4 DEF ReadBy
<1> QED
  BY <1>3, <1>4

LEMMA FlagsTypeStep == FlagsTypeOK /\ [FlagsNext]_mailVars => FlagsTypeOK'
<1> SUFFICES ASSUME FlagsTypeOK, [FlagsNext]_mailVars PROVE FlagsTypeOK'
  OBVIOUS
<1> USE DEF FlagsTypeOK, mailVars, flagVars, ctlVars, telVars, ghostVars
<1>1. CASE RxStop
  BY <1>1, GhostsTyped DEF RxStop, Kinds
<1>2. CASE RxStart
  BY <1>2, GhostsTyped DEF RxStart, Kinds
<1>3. CASE RxDuty
  <2>1. waiting' \in [Kinds -> BOOLEAN] /\ missed' \in [Kinds -> BOOLEAN]
    BY <1>3, GhostsTyped DEF RxDuty, Kinds
  <2>2. dutyNo' \in 0 .. MaxDuty
    BY <1>3, MaxDutyAssumption DEF RxDuty
  <2>3. s_duty_request' \in DutyNumbers
    BY <1>3, <2>2 DEF RxDuty, DutyNumbers
  <2> QED
    BY <1>3, <2>1, <2>2, <2>3 DEF RxDuty
<1>4. CASE \E command \in CalCommands : RxImuCal(command)
  BY <1>4, GhostsTyped DEF RxImuCal, Kinds
<1>5. CASE ImuSnapshot
  BY <1>5 DEF ImuSnapshot
<1>6. CASE ReadStop
  BY <1>6, GhostsTyped DEF ReadStop, Kinds
<1>7. CASE ClearStop
  BY <1>7 DEF ClearStop
<1>8. CASE ReadStart
  BY <1>8, GhostsTyped DEF ReadStart, Kinds
<1>9. CASE ClearStart
  BY <1>9 DEF ClearStart
<1>10. CASE CheckDuty
  BY <1>10, GhostsTyped DEF CheckDuty, Kinds
<1>11. CASE CopyDutyPair \/ CopyDutyHold
  <2>1. duty' \in DutyNumbers
    BY <1>11 DEF CopyDutyPair, CopyDutyHold, CopyDuty, DutyNumbers
  <2> QED
    BY <1>11, <2>1 DEF CopyDutyPair, CopyDutyHold, CopyDuty
<1>12. CASE ClearDuty
  <2>1. NoDuty \in DutyNumbers
    BY MaxDutyAssumption DEF NoDuty, DutyNumbers
  <2> QED
    BY <1>12, <2>1 DEF ClearDuty
<1>13. CASE ReadCal
  <2>1. (s_imu_cal_request # "NONE") \in BOOLEAN /\ "cal" \in Kinds
    BY DEF Kinds
  <2>2. ReadBy("cal", s_imu_cal_request # "NONE")
    BY <1>13 DEF ReadCal
  <2>3. waiting' \in [Kinds -> BOOLEAN] /\ missed' \in [Kinds -> BOOLEAN]
    BY <2>1, <2>2, GhostsTyped
  <2> QED
    BY <1>13, <2>3 DEF ReadCal
<1>14. CASE ClearCal
  BY <1>14 DEF ClearCal
<1>15. CASE UNCHANGED mailVars
  BY <1>15
<1> QED
  BY <1>1, <1>2, <1>3, <1>4, <1>5, <1>6, <1>7, <1>8, <1>9, <1>10, <1>11, <1>12, <1>13,
     <1>14, <1>15 DEF FlagsNext, Receive, ControlStep, TelemetryStep

\* Every access leaves flags, copies and program counters typed.
THEOREM FlagsTypeCorrect == FlagsSpec => []FlagsTypeOK
BY FlagsTypeInit, FlagsTypeStep, PTL DEF FlagsSpec

-----------------------------------------------------------------------------
(* Where commands are lost.                                                *)

\* Inductive: what arrives within a window is noted as missed, so the clear
\* that ends the window has nothing else to lose.
LossInv ==
    /\ FlagsTypeOK
    /\ LostOnlyInWindow
    /\ \A k \in Kinds : InWindow(k) /\ waiting[k] => missed[k]

\* Posting sets the flag; a window open at the time is noted.
LEMMA PostedIsKept ==
    ASSUME LossInv, NEW k \in Kinds, Posted(k), Pending(k)',
           \A j \in Kinds \ {k} : Pending(j)' = Pending(j),
           \A j \in Kinds : InWindow(j)' = InWindow(j)
    PROVE  /\ LostOnlyInWindow'
           /\ \A j \in Kinds : InWindow(j)' /\ waiting'[j] => missed'[j]
BY DEF LossInv, LostOnlyInWindow, Posted, FlagsTypeOK

\* Reading opens the window of k with nothing unread in it, or an unread flag
\* that was down and had been missed before.
LEMMA ReadIsKept ==
    ASSUME LossInv, NEW k \in Kinds, ReadBy(k, Pending(k)),
           \A j \in Kinds : Pending(j)' = Pending(j),
           \A j \in Kinds \ {k} : InWindow(j)' => InWindow(j)
    PROVE  /\ LostOnlyInWindow'
           /\ \A j \in Kinds : InWindow(j)' /\ waiting'[j] => missed'[j]
<1>1. Pending(k) \in BOOLEAN
  BY DEF Pending, LossInv, FlagsTypeOK, Kinds
<1> QED
  BY <1>1 DEF LossInv, LostOnlyInWindow, ReadBy, FlagsTypeOK

\* A clear within a window, and every other step of a consumer.
LEMMA ClearIsKept ==
    ASSUME LossInv, UNCHANGED ghostVars,
           \A j \in Kinds : Pending(j) => Pending(j)' \/ InWindow(j),
           \A j \in Kinds : InWindow(j)' => InWindow(j)
    PROVE  /\ LostOnlyInWindow'
           /\ \A j \in Kinds : InWindow(j)' /\ waiting'[j] => missed'[j]
BY DEF LossInv, LostOnlyInWindow, ghostVars, FlagsTypeOK

LEMMA LossInit == FlagsInit => LossInv
<1> SUFFICES ASSUME FlagsInit PROVE LossInv
  OBVIOUS
<1>1. FlagsTypeOK
  BY FlagsTypeInit
<1>2. \A k \in Kinds : ~waiting[k]
  BY DEF FlagsInit
<1> QED
  BY <1>1, <1>2 DEF LossInv, LostOnlyInWindow

LEMMA LossStep == LossInv /\ [FlagsNext]_mailVars => LossInv'
<1> SUFFICES ASSUME LossInv, [FlagsNext]_mailVars PROVE LossInv'
  OBVIOUS
<1>t. FlagsTypeOK /\ FlagsTypeOK'
  BY FlagsTypeStep DEF LossInv
<1> SUFFICES /\ LostOnlyInWindow'
             /\ \A j \in Kinds : InWindow(j)' /\ waiting'[j] => missed'[j]
  BY <1>t DEF LossInv
<1> DEFINE SameFlags == \A j \in Kinds : Pending(j)' = Pending(j)
           SameWindows == \A j \in Kinds : InWindow(j)' = InWindow(j)
<1> USE DEF flagVars, ctlVars, telVars, ghostVars
<1>1. CASE RxStop
  <2>1. Posted("stop") /\ Pending("stop")' /\ SameWindows
    BY <1>1 DEF RxStop, Pending, InWindow, Kinds
  <2>2. \A j \in Kinds \ {"stop"} : Pending(j)' = Pending(j)
    BY <1>1 DEF RxStop, Pending, Kinds
  <2> QED
    BY <2>1, <2>2, PostedIsKept DEF Kinds
<1>2. CASE RxStart
  <2>1. Posted("start") /\ Pending("start")' /\ SameWindows
    BY <1>2 DEF RxStart, Pending, InWindow, Kinds
  <2>2. \A j \in Kinds \ {"start"} : Pending(j)' = Pending(j)
    BY <1>2 DEF RxStart, Pending, Kinds
  <2> QED
    BY <2>1, <2>2, PostedIsKept DEF Kinds
<1>3. CASE RxDuty
  <2>1. Posted("duty") /\ Pending("duty")' /\ SameWindows
    BY <1>3 DEF RxDuty, Pending, InWindow, Kinds
  <2>2. \A j \in Kinds \ {"duty"} : Pending(j)' = Pending(j)
    BY <1>3 DEF RxDuty, Pending, Kinds
  <2> QED
    BY <2>1, <2>2, PostedIsKept DEF Kinds
<1>4. ASSUME NEW command \in CalCommands, RxImuCal(command)
      PROVE  /\ LostOnlyInWindow'
             /\ \A j \in Kinds : InWindow(j)' /\ waiting'[j] => missed'[j]
  <2>1. Posted("cal") /\ Pending("cal")' /\ SameWindows
    BY <1>4 DEF RxImuCal, CalCommands, Pending, InWindow, Kinds
  <2>2. \A j \in Kinds \ {"cal"} : Pending(j)' = Pending(j)
    BY <1>4 DEF RxImuCal, Pending, Kinds
  <2> QED
    BY <2>1, <2>2, PostedIsKept DEF Kinds
<1>5. CASE ReadStop
  <2>1. ReadBy("stop", Pending("stop")) /\ SameFlags
    BY <1>5 DEF ReadStop, Pending, Kinds
  <2>2. \A j \in Kinds \ {"stop"} : InWindow(j)' => InWindow(j)
    BY <1>5 DEF ReadStop, InWindow, Kinds
  <2> QED
    BY <2>1, <2>2, ReadIsKept DEF Kinds
<1>6. CASE ReadStart
  <2>1. ReadBy("start", Pending("start")) /\ SameFlags
    BY <1>6 DEF ReadStart, Pending, Kinds
  <2>2. \A j \in Kinds \ {"start"} : InWindow(j)' => InWindow(j)
    BY <1>6 DEF ReadStart, InWindow, Kinds
  <2> QED
    BY <2>1, <2>2, ReadIsKept DEF Kinds
<1>7. CASE CheckDuty
  <2>1. ReadBy("duty", Pending("duty")) /\ SameFlags
    BY <1>7 DEF CheckDuty, Pending, Kinds
  <2>2. \A j \in Kinds \ {"duty"} : InWindow(j)' => InWindow(j)
    BY <1>7 DEF CheckDuty, InWindow, Kinds
  <2> QED
    BY <2>1, <2>2, ReadIsKept DEF Kinds
<1>8. CASE ReadCal
  <2>1. ReadBy("cal", Pending("cal")) /\ SameFlags
    BY <1>8 DEF ReadCal, Pending, Kinds
  <2>2. \A j \in Kinds \ {"cal"} : InWindow(j)' => InWindow(j)
    BY <1>8 DEF ReadCal, InWindow, Kinds
  <2> QED
    BY <2>1, <2>2, ReadIsKept DEF Kinds
<1>9. CASE ClearStop \/ ClearStart \/ ClearDuty \/ ClearCal \/ CopyDutyPair \/ CopyDutyHold
           \/ ImuSnapshot \/ UNCHANGED mailVars
  <2> USE DEF ClearStop, ClearStart, ClearDuty, ClearCal, CopyDutyPair, CopyDutyHold,
              CopyDuty, ImuSnapshot, mailVars
  <2>1. UNCHANGED ghostVars
    BY <1>9
  <2>2. \A j \in Kinds : Pending(j) => Pending(j)' \/ InWindow(j)
    <3>1. CASE ClearStop
      BY <3>1 DEF Pending, InWindow, Kinds
    <3>2. CASE ClearStart
      BY <3>2 DEF Pending, InWindow, Kinds
    <3>3. CASE ClearDuty
      BY <3>3 DEF Pending, InWindow, Kinds
    <3>4. CASE ClearCal
      BY <3>4 DEF Pending, InWindow, Kinds
    <3>5. CASE UNCHANGED flagVars
      BY <3>5 DEF Pending, Kinds
    <3>6. ClearStop \/ ClearStart \/ ClearDuty \/ ClearCal \/ UNCHANGED flagVars
      BY <1>9
    <3> QED
      BY <3>1, <3>2, <3>3, <3>4, <3>5, <3>6
  <2>3. \A j \in Kinds : InWindow(j)' => InWindow(j)
    BY <1>9 DEF InWindow, Kinds
  <2> QED
    BY <2>1, <2>2, <2>3, ClearIsKept
<1> QED
  BY <1>1, <1>2, <1>3, <1>4, <1>5, <1>6, <1>7, <1>8, <1>9
  DEF FlagsNext, Receive, ControlStep, TelemetryStep

\* A command is lost only if it arrives between the read and the clear of its flag.
THEOREM CommandsLostInWindow == FlagsSpec => []LostOnlyInWindow
<1>1. LossInv => LostOnlyInWindow
  BY DEF LossInv
<1> QED
  BY <1>1, LossInit, LossStep, PTL DEF FlagsSpec

-----------------------------------------------------------------------------
(* The order of the duties.                                                *)

\* Inductive: the request is that of the last $DUTY, a pending one is newer than
\* both words the chassis was given, and the copies are taken in their order.
DutyInv ==
    /\ FlagsTypeOK
    /\ s_duty_request = [pair |-> dutyNo, hold |-> dutyNo]
    /\ debug.pair <= debug.hold /\ debug.hold <= dutyNo
    /\ s_duty_request_pending => debug.hold < dutyNo
    /\ InWindow("duty") => s_duty_request_pending
    /\ cpc \in {"duty_hold", "duty_clear"} => debug.hold < duty.pair /\ duty.pair <= dutyNo
    /\ cpc = "duty_clear" => duty.pair <= duty.hold /\ duty.hold <= dutyNo

LEMMA DutyInit == FlagsInit => DutyInv
BY FlagsTypeInit DEF FlagsInit, DutyInv, NoDuty, InWindow

LEMMA DutyStep == DutyInv /\ [FlagsNext]_mailVars => DutyInv'
<1> SUFFICES ASSUME DutyInv, [FlagsNext]_mailVars PROVE DutyInv'
  OBVIOUS
<1>t. FlagsTypeOK /\ FlagsTypeOK'
  BY FlagsTypeStep DEF DutyInv
<1>i. /\ dutyNo \in Int /\ debug.pair \in Int /\ debug.hold \in Int
      /\ duty.pair \in Int /\ duty.hold \in Int /\ duty \in DutyNumbers
  BY <1>t DEF FlagsTypeOK, DutyNumbers
<1> USE DEF DutyInv, InWindow, flagVars, ctlVars, telVars, ghostVars
<1>1. CASE RxDuty
  BY <1>1, <1>t, <1>i DEF RxDuty
<1>2. CASE CheckDuty
  BY <1>2, <1>t, <1>i DEF CheckDuty
<1>3. CASE CopyDutyPair
  <2>1. duty'.pair = dutyNo /\ cpc' = "duty_hold" /\ cpc = "duty_pair"
    BY <1>3, <1>i DEF CopyDutyPair, CopyDuty, DutyNumbers
  <2>2. UNCHANGED <<flagVars, debug, dutyNo>>
    BY <1>3 DEF CopyDutyPair, CopyDuty
  <2> QED
    BY <2>1, <2>2, <1>t, <1>i
<1>4. CASE CopyDutyHold
  <2>1. duty'.hold = dutyNo /\ duty'.pair = duty.pair /\ cpc' = "duty_clear" /\ cpc = "duty_hold"
    BY <1>4, <1>i DEF CopyDutyHold, CopyDuty, DutyNumbers
  <2>2. UNCHANGED <<flagVars, debug, dutyNo>>
    BY <1>4 DEF CopyDutyHold, CopyDuty
  <2> QED
    BY <2>1, <2>2, <1>t, <1>i
<1>5. CASE ClearDuty
  BY <1>5, <1>t, <1>i DEF ClearDuty
<1>6. CASE /\ UNCHANGED <<s_duty_request_pending, s_duty_request, debug, duty, dutyNo>>
           /\ cpc' \notin {"duty_pair", "duty_hold", "duty_clear"} \/ cpc' = cpc
  BY <1>6, <1>t
<1>7. \/ RxDuty \/ CheckDuty \/ CopyDutyPair \/ CopyDutyHold \/ ClearDuty
      \/ /\ UNCHANGED <<s_duty_request_pending, s_duty_request, debug, duty, dutyNo>>
         /\ cpc' \notin {"duty_pair", "duty_hold", "duty_clear"} \/ cpc' = cpc
  BY DEF FlagsNext, Receive, ControlStep, TelemetryStep, RxStop, RxStart, RxImuCal, ImuSnapshot,
         ReadStop, ClearStop, ReadStart, ClearStart, ReadCal, ClearCal, mailVars
<1> QED
  BY <1>1, <1>2, <1>3, <1>4, <1>5, <1>6, <1>7

\* No $DUTY is served twice or after a newer one, and a mixed one has the newer hold.
THEOREM DutiesInOrder == FlagsSpec => DutyServedInOrder
<1> DEFINE Ordered == /\ debug'.pair > debug.pair /\ debug'.hold > debug.hold
                      /\ debug'.hold >= debug'.pair
<1>1. DutyInv /\ [FlagsNext]_mailVars => [ClearDuty => Ordered]_mailVars
  <2> SUFFICES ASSUME DutyInv, ClearDuty PROVE Ordered
    OBVIOUS
  <2>1. /\ debug.pair \in Int /\ debug.hold \in Int
        /\ duty.pair \in Int /\ duty.hold \in Int
    BY DEF DutyInv, FlagsTypeOK, DutyNumbers
  <2> QED
    BY <2>1 DEF DutyInv, ClearDuty
<1> QED
  BY <1>1, DutyInit, DutyStep, PTL DEF FlagsSpec, DutyServedInOrder

-----------------------------------------------------------------------------
(* The abstract mailbox.                                                   *)

\* A step that leaves the slot of k alone.
Same(k) == /\ InBox(k)' = InBox(k) /\ InHand(k)' = InHand(k)
           /\ InWindow(k)' <=> InWindow(k)

\* The slot of a command depends on its flag, its consumer and waiting.
LEMMA SameStop ==
    ASSUME cpc' = "stop_clear" <=> cpc = "stop_clear",
           cpc = "stop_clear" => UNCHANGED cvalue,
           UNCHANGED <<s_stop_request, waiting["stop"]>>
    PROVE  Same("stop")
BY DEF Same, InBox, InHand, Unseen, Taken, Pending, InWindow

LEMMA SameStart ==
    ASSUME cpc' = "start_clear" <=> cpc = "start_clear",
           cpc = "start_clear" => UNCHANGED cvalue,
           UNCHANGED <<s_start_request, waiting["start"]>>
    PROVE  Same("start")
BY DEF Same, InBox, InHand, Unseen, Taken, Pending, InWindow

LEMMA SameDuty ==
    ASSUME cpc' \in {"duty_pair", "duty_hold", "duty_clear"}
             <=> cpc \in {"duty_pair", "duty_hold", "duty_clear"},
           UNCHANGED <<s_duty_request_pending, waiting["duty"]>>
    PROVE  Same("duty")
BY DEF Same, InBox, InHand, Unseen, Taken, Pending, InWindow

LEMMA SameCal ==
    ASSUME UNCHANGED <<tpc, tvalue, s_imu_cal_request, waiting["cal"]>>
    PROVE  Same("cal")
BY DEF Same, InBox, InHand, Unseen, Taken, Pending, InWindow

\* Posting and reading change waiting for their own kind only.
LEMMA WaitingAt ==
    ASSUME FlagsTypeOK, NEW k \in Kinds, NEW v,
           waiting' = [waiting EXCEPT ![k] = v]
    PROVE  waiting'[k] = v /\ \A j \in Kinds \ {k} : waiting'[j] = waiting[j]
BY DEF FlagsTypeOK

\* What a step must do to be an arrival, a look, an effect or none of them.
LEMMA BoxArrives ==
    ASSUME NEW k \in Kinds, NEW c \in Box!Commands(k),
           InBox(k)' = c, InHand(k)' = InHand(k), InWindow(k)' <=> InWindow(k),
           \A j \in Kinds \ {k} : Same(j),
           dutyNo' = IF k = "duty" THEN dutyNo + 1 ELSE dutyNo,
           UNCHANGED <<imu_ready, state, debug, calServed>>
    PROVE  Box!Next
<1> DEFINE mail == [j \in Kinds |-> InBox(j)]
           hand == [j \in Kinds |-> InHand(j)]
           busy == {j \in Kinds : InWindow(j)}
<1>1. mail' = [mail EXCEPT ![k] = c]
  BY DEF Same
<1>2. hand' = hand /\ busy' = busy
  BY DEF Same
<1>3. Box!Arrive(k)
  BY <1>1, <1>2 DEF Box!Arrive, Box!effects
<1> QED
  BY <1>3 DEF Box!Next, Kinds, Box!Kinds

LEMMA BoxLooks ==
    ASSUME NEW k \in Kinds, ~InWindow(k), InWindow(k)',
           InBox(k)' = "none", InHand(k)' = InBox(k),
           \A j \in Kinds \ {k} : Same(j),
           UNCHANGED <<dutyNo, imu_ready, state, debug, calServed>>
    PROVE  Box!Next
<1> DEFINE mail == [j \in Kinds |-> InBox(j)]
           hand == [j \in Kinds |-> InHand(j)]
           busy == {j \in Kinds : InWindow(j)}
<1>1. mail' = [mail EXCEPT ![k] = "none"]
  BY DEF Same
<1>2. hand' = [hand EXCEPT ![k] = mail[k]]
  BY DEF Same
<1>3. k \notin busy /\ busy' = busy \cup {k}
  BY DEF Same
<1>4. Box!Look(k)
  BY <1>1, <1>2, <1>3 DEF Box!Look, Box!effects
<1> QED
  BY <1>4 DEF Box!Next, Kinds, Box!Kinds

LEMMA BoxFinishes ==
    ASSUME NEW k \in Kinds, InWindow(k), ~InWindow(k)',
           InBox(k)' = "none", InHand(k)' = "none",
           \A j \in Kinds \ {k} : Same(j),
           UNCHANGED <<dutyNo, imu_ready>>,
           InHand(k) = "none" => UNCHANGED <<state, debug, calServed>>,
           InHand(k) # "none" => Box!Effect(k, InHand(k))
    PROVE  Box!Next
<1> DEFINE mail == [j \in Kinds |-> InBox(j)]
           hand == [j \in Kinds |-> InHand(j)]
           busy == {j \in Kinds : InWindow(j)}
<1>1. mail' = [mail EXCEPT ![k] = "none"]
  BY DEF Same
<1>2. hand' = [hand EXCEPT ![k] = "none"] /\ hand[k] = InHand(k)
  BY DEF Same
<1>3. k \in busy /\ busy' = busy \ {k}
  BY DEF Same
<1>4. Box!Finish(k)
  BY <1>1, <1>2, <1>3 DEF Box!Finish, Box!effects
<1> QED
  BY <1>4 DEF Box!Next, Kinds, Box!Kinds

LEMMA BoxStays ==
    ASSUME \A j \in Kinds : Same(j),
           UNCHANGED <<dutyNo, state, debug, calServed>>
    PROVE  /\ UNCHANGED imu_ready => UNCHANGED Box!vars
           /\ imu_ready' = ~imu_ready => Box!Next
<1> DEFINE mail == [j \in Kinds |-> InBox(j)]
           hand == [j \in Kinds |-> InHand(j)]
           busy == {j \in Kinds : InWindow(j)}
<1>1. mail' = mail /\ hand' = hand /\ busy' = busy
  BY DEF Same
<1> QED
  BY <1>1 DEF Box!vars, Box!effects, Box!Next, Box!ImuChange

\* The mailbox is empty at first.
LEMMA BoxInit == FlagsInit => Box!Init
<1> SUFFICES ASSUME FlagsInit PROVE Box!Init
  OBVIOUS
<1>1. \A j \in Kinds : InBox(j) = "none" /\ InHand(j) = "none" /\ ~InWindow(j)
  BY DEF FlagsInit, Kinds, InBox, InHand, Unseen, Taken, Pending, InWindow
<1>2. /\ [j \in Kinds |-> InBox(j)] = Box!Empty /\ [j \in Kinds |-> InHand(j)] = Box!Empty
      /\ {j \in Kinds : InWindow(j)} = {}
  BY <1>1 DEF Box!Empty, Kinds, Box!Kinds
<1> QED
  BY <1>2 DEF FlagsInit, Box!Init, NoDuty

\* A received command arrives.
LEMMA BoxReceive ==
    ASSUME FlagsTypeOK, Receive
    PROVE  Box!Next
<1>t. s_imu_cal_request \in CalCommands \cup {"NONE"} /\ tvalue \in CalCommands \cup {"NONE"}
  BY DEF FlagsTypeOK
<1>1. CASE RxStop
  <2>1. "stop" \in Kinds
    BY DEF Kinds
  <2>2. waiting'["stop"] = TRUE /\ \A j \in Kinds \ {"stop"} : waiting'[j] = waiting[j]
    BY <1>1, <2>1, WaitingAt DEF RxStop, Posted, ctlVars, telVars
  <2>3. waiting'["start"] = waiting["start"] /\ waiting'["duty"] = waiting["duty"] /\ waiting'["cal"] = waiting["cal"]
    BY <2>2 DEF Kinds
  <2>4. \A j \in Kinds \ {"stop"} : Same(j)
    <3>1. Same("start")
      BY <1>1, <2>3, SameStart DEF RxStop, Posted, ctlVars, telVars
    <3>2. Same("duty")
      BY <1>1, <2>3, SameDuty DEF RxStop, Posted, ctlVars, telVars
    <3>3. Same("cal")
      BY <1>1, <2>3, SameCal DEF RxStop, Posted, ctlVars, telVars
    <3> QED
      BY <3>1, <3>2, <3>3 DEF Kinds
  <2>5. InBox("stop")' = "stop" /\ InHand("stop")' = InHand("stop") /\ (InWindow("stop")' <=> InWindow("stop"))
    BY <1>1, <2>2 DEF RxStop, Posted, ctlVars, telVars, InBox, InHand, Unseen, Taken, Pending, InWindow
  <2>6. dutyNo' = (IF "stop" = "duty" THEN dutyNo + 1 ELSE dutyNo) /\ UNCHANGED <<imu_ready, state, debug, calServed>>
    BY <1>1 DEF RxStop, Posted, ctlVars, telVars
  <2>7. "stop" \in Box!Commands("stop")
    BY DEF Box!Commands
  <2> QED
    BY <2>1, <2>4, <2>5, <2>6, <2>7, BoxArrives
<1>2. CASE RxStart
  <2>1. "start" \in Kinds
    BY DEF Kinds
  <2>2. waiting'["start"] = TRUE /\ \A j \in Kinds \ {"start"} : waiting'[j] = waiting[j]
    BY <1>2, <2>1, WaitingAt DEF RxStart, Posted, ctlVars, telVars
  <2>3. waiting'["stop"] = waiting["stop"] /\ waiting'["duty"] = waiting["duty"] /\ waiting'["cal"] = waiting["cal"]
    BY <2>2 DEF Kinds
  <2>4. \A j \in Kinds \ {"start"} : Same(j)
    <3>1. Same("stop")
      BY <1>2, <2>3, SameStop DEF RxStart, Posted, ctlVars, telVars
    <3>2. Same("duty")
      BY <1>2, <2>3, SameDuty DEF RxStart, Posted, ctlVars, telVars
    <3>3. Same("cal")
      BY <1>2, <2>3, SameCal DEF RxStart, Posted, ctlVars, telVars
    <3> QED
      BY <3>1, <3>2, <3>3 DEF Kinds
  <2>5. InBox("start")' = "start" /\ InHand("start")' = InHand("start") /\ (InWindow("start")' <=> InWindow("start"))
    BY <1>2, <2>2 DEF RxStart, Posted, ctlVars, telVars, InBox, InHand, Unseen, Taken, Pending, InWindow
  <2>6. dutyNo' = (IF "start" = "duty" THEN dutyNo + 1 ELSE dutyNo) /\ UNCHANGED <<imu_ready, state, debug, calServed>>
    BY <1>2 DEF RxStart, Posted, ctlVars, telVars
  <2>7. "start" \in Box!Commands("start")
    BY DEF Box!Commands
  <2> QED
    BY <2>1, <2>4, <2>5, <2>6, <2>7, BoxArrives
<1>3. CASE RxDuty
  <2>1. "duty" \in Kinds
    BY DEF Kinds
  <2>2. waiting'["duty"] = TRUE /\ \A j \in Kinds \ {"duty"} : waiting'[j] = waiting[j]
    BY <1>3, <2>1, WaitingAt DEF RxDuty, Posted, ctlVars, telVars
  <2>3. waiting'["stop"] = waiting["stop"] /\ waiting'["start"] = waiting["start"] /\ waiting'["cal"] = waiting["cal"]
    BY <2>2 DEF Kinds
  <2>4. \A j \in Kinds \ {"duty"} : Same(j)
    <3>1. Same("stop")
      BY <1>3, <2>3, SameStop DEF RxDuty, Posted, ctlVars, telVars
    <3>2. Same("start")
      BY <1>3, <2>3, SameStart DEF RxDuty, Posted, ctlVars, telVars
    <3>3. Same("cal")
      BY <1>3, <2>3, SameCal DEF RxDuty, Posted, ctlVars, telVars
    <3> QED
      BY <3>1, <3>2, <3>3 DEF Kinds
  <2>5. InBox("duty")' = "duty" /\ InHand("duty")' = InHand("duty") /\ (InWindow("duty")' <=> InWindow("duty"))
    BY <1>3, <2>2 DEF RxDuty, Posted, ctlVars, telVars, InBox, InHand, Unseen, Taken, Pending, InWindow
  <2>6. dutyNo' = (IF "duty" = "duty" THEN dutyNo + 1 ELSE dutyNo) /\ UNCHANGED <<imu_ready, state, debug, calServed>>
    BY <1>3 DEF RxDuty, Posted, ctlVars, telVars
  <2>7. "duty" \in Box!Commands("duty")
    BY DEF Box!Commands
  <2> QED
    BY <2>1, <2>4, <2>5, <2>6, <2>7, BoxArrives
<1>4. CASE \E command \in CalCommands : RxImuCal(command)
  <2>0. PICK command \in CalCommands : RxImuCal(command)
    BY <1>4
  <2>1. "cal" \in Kinds
    BY DEF Kinds
  <2>2. waiting'["cal"] = TRUE /\ \A j \in Kinds \ {"cal"} : waiting'[j] = waiting[j]
    BY <2>0, <2>1, WaitingAt DEF RxImuCal, Posted, ctlVars, telVars
  <2>3. waiting'["stop"] = waiting["stop"] /\ waiting'["start"] = waiting["start"] /\ waiting'["duty"] = waiting["duty"]
    BY <2>2 DEF Kinds
  <2>4. \A j \in Kinds \ {"cal"} : Same(j)
    <3>1. Same("stop")
      BY <2>0, <2>3, SameStop DEF RxImuCal, Posted, ctlVars, telVars
    <3>2. Same("start")
      BY <2>0, <2>3, SameStart DEF RxImuCal, Posted, ctlVars, telVars
    <3>3. Same("duty")
      BY <2>0, <2>3, SameDuty DEF RxImuCal, Posted, ctlVars, telVars
    <3> QED
      BY <3>1, <3>2, <3>3 DEF Kinds
  <2>5. InBox("cal")' = command /\ InHand("cal")' = InHand("cal") /\ (InWindow("cal")' <=> InWindow("cal"))
    BY <2>0, <2>2, <1>t DEF RxImuCal, Posted, ctlVars, telVars, CalCommands, InBox, InHand, Unseen, Taken, Pending, InWindow
  <2>6. dutyNo' = (IF "cal" = "duty" THEN dutyNo + 1 ELSE dutyNo) /\ UNCHANGED <<imu_ready, state, debug, calServed>>
    BY <2>0 DEF RxImuCal, Posted, ctlVars, telVars
  <2>7. command \in Box!Commands("cal")
    BY <2>0 DEF Box!Commands, CalCommands
  <2> QED
    BY <2>1, <2>4, <2>5, <2>6, <2>7, BoxArrives
<1> QED
  BY <1>1, <1>2, <1>3, <1>4 DEF Receive

\* A consumer that reads its flag looks.
LEMMA BoxRead ==
    ASSUME FlagsTypeOK, ReadStop \/ ReadStart \/ ReadCal
    PROVE  Box!Next
<1>t. /\ s_stop_request \in BOOLEAN /\ s_start_request \in BOOLEAN /\ s_duty_request_pending \in BOOLEAN
      /\ s_imu_cal_request \in CalCommands \cup {"NONE"} /\ waiting \in [Kinds -> BOOLEAN]
  BY DEF FlagsTypeOK
<1>1. CASE ReadStop
  <2>1. "stop" \in Kinds
    BY DEF Kinds
  <2>2. waiting'["stop"] = (waiting["stop"] /\ ~s_stop_request) /\ \A j \in Kinds \ {"stop"} : waiting'[j] = waiting[j]
    BY <1>1, <2>1, WaitingAt DEF ReadStop, ReadBy, flagVars, telVars
  <2>3. waiting'["start"] = waiting["start"] /\ waiting'["duty"] = waiting["duty"] /\ waiting'["cal"] = waiting["cal"]
    BY <2>2 DEF Kinds
  <2>4. \A j \in Kinds \ {"stop"} : Same(j)
    <3>1. Same("start")
      BY <1>1, <2>3, SameStart DEF ReadStop, ReadBy, flagVars, telVars
    <3>2. Same("duty")
      BY <1>1, <2>3, SameDuty DEF ReadStop, ReadBy, flagVars, telVars
    <3>3. Same("cal")
      BY <1>1, <2>3, SameCal DEF ReadStop, ReadBy, flagVars, telVars
    <3> QED
      BY <3>1, <3>2, <3>3 DEF Kinds
  <2>5. ~InWindow("stop") /\ InWindow("stop")'
    BY <1>1 DEF ReadStop, ReadBy, flagVars, telVars, InWindow
  <2>6. InBox("stop")' = "none"
    BY <1>1, <2>2 DEF ReadStop, ReadBy, flagVars, telVars, InBox, InHand, Unseen, Taken, Pending, InWindow
  <2>7. InHand("stop")' = InBox("stop")
    BY <1>1 DEF ReadStop, ReadBy, flagVars, telVars, InBox, InHand, Unseen, Taken, Pending, InWindow
  <2>8. UNCHANGED <<dutyNo, imu_ready, state, debug, calServed>>
    BY <1>1 DEF ReadStop, ReadBy, flagVars, telVars
  <2> QED
    BY <2>1, <2>4, <2>5, <2>6, <2>7, <2>8, BoxLooks
<1>2. CASE ReadStart
  <2>1. "start" \in Kinds
    BY DEF Kinds
  <2>2. waiting'["start"] = (waiting["start"] /\ ~s_start_request) /\ \A j \in Kinds \ {"start"} : waiting'[j] = waiting[j]
    BY <1>2, <2>1, WaitingAt DEF ReadStart, ReadBy, flagVars, telVars
  <2>3. waiting'["stop"] = waiting["stop"] /\ waiting'["duty"] = waiting["duty"] /\ waiting'["cal"] = waiting["cal"]
    BY <2>2 DEF Kinds
  <2>4. \A j \in Kinds \ {"start"} : Same(j)
    <3>1. Same("stop")
      BY <1>2, <2>3, SameStop DEF ReadStart, ReadBy, flagVars, telVars
    <3>2. Same("duty")
      BY <1>2, <2>3, SameDuty DEF ReadStart, ReadBy, flagVars, telVars
    <3>3. Same("cal")
      BY <1>2, <2>3, SameCal DEF ReadStart, ReadBy, flagVars, telVars
    <3> QED
      BY <3>1, <3>2, <3>3 DEF Kinds
  <2>5. ~InWindow("start") /\ InWindow("start")'
    BY <1>2 DEF ReadStart, ReadBy, flagVars, telVars, InWindow
  <2>6. InBox("start")' = "none"
    BY <1>2, <2>2 DEF ReadStart, ReadBy, flagVars, telVars, InBox, InHand, Unseen, Taken, Pending, InWindow
  <2>7. InHand("start")' = InBox("start")
    BY <1>2 DEF ReadStart, ReadBy, flagVars, telVars, InBox, InHand, Unseen, Taken, Pending, InWindow
  <2>8. UNCHANGED <<dutyNo, imu_ready, state, debug, calServed>>
    BY <1>2 DEF ReadStart, ReadBy, flagVars, telVars
  <2> QED
    BY <2>1, <2>4, <2>5, <2>6, <2>7, <2>8, BoxLooks
<1>3. CASE ReadCal
  <2>1. "cal" \in Kinds
    BY DEF Kinds
  <2>2. waiting'["cal"] = (waiting["cal"] /\ ~(s_imu_cal_request # "NONE")) /\ \A j \in Kinds \ {"cal"} : waiting'[j] = waiting[j]
    BY <1>3, <2>1, WaitingAt DEF ReadCal, ReadBy, flagVars, ctlVars, TelRuns
  <2>3. waiting'["stop"] = waiting["stop"] /\ waiting'["start"] = waiting["start"] /\ waiting'["duty"] = waiting["duty"]
    BY <2>2 DEF Kinds
  <2>4. \A j \in Kinds \ {"cal"} : Same(j)
    <3>1. Same("stop")
      BY <1>3, <2>3, SameStop DEF ReadCal, ReadBy, flagVars, ctlVars, TelRuns
    <3>2. Same("start")
      BY <1>3, <2>3, SameStart DEF ReadCal, ReadBy, flagVars, ctlVars, TelRuns
    <3>3. Same("duty")
      BY <1>3, <2>3, SameDuty DEF ReadCal, ReadBy, flagVars, ctlVars, TelRuns
    <3> QED
      BY <3>1, <3>2, <3>3 DEF Kinds
  <2>5. ~InWindow("cal") /\ InWindow("cal")'
    BY <1>3 DEF ReadCal, ReadBy, flagVars, ctlVars, TelRuns, InWindow
  <2>6. InBox("cal")' = "none"
    BY <1>3, <2>2 DEF ReadCal, ReadBy, flagVars, ctlVars, TelRuns, InBox, InHand, Unseen, Taken, Pending, InWindow
  <2>7. InHand("cal")' = InBox("cal")
    BY <1>3 DEF ReadCal, ReadBy, flagVars, ctlVars, TelRuns, InBox, InHand, Unseen, Taken, Pending, InWindow
  <2>8. UNCHANGED <<dutyNo, imu_ready, state, debug, calServed>>
    BY <1>3 DEF ReadCal, ReadBy, flagVars, ctlVars, TelRuns
  <2> QED
    BY <2>1, <2>4, <2>5, <2>6, <2>7, <2>8, BoxLooks
<1> QED
  BY <1>1, <1>2, <1>3

\* CheckDuty looks if it finds a request; the copying is not seen.
LEMMA BoxDuty ==
    ASSUME FlagsTypeOK, CheckDuty \/ CopyDutyPair \/ CopyDutyHold
    PROVE  Box!Next \/ UNCHANGED Box!vars
<1>1. CASE CheckDuty /\ s_duty_request_pending
  <2>1. "duty" \in Kinds
    BY DEF Kinds
  <2>2. waiting'["duty"] = (waiting["duty"] /\ ~s_duty_request_pending) /\ \A j \in Kinds \ {"duty"} : waiting'[j] = waiting[j]
    BY <1>1, <2>1, WaitingAt DEF CheckDuty, ReadBy, flagVars, telVars
  <2>3. waiting'["stop"] = waiting["stop"] /\ waiting'["start"] = waiting["start"] /\ waiting'["cal"] = waiting["cal"]
    BY <2>2 DEF Kinds
  <2>4. \A j \in Kinds \ {"duty"} : Same(j)
    <3>1. Same("stop")
      BY <1>1, <2>3, SameStop DEF CheckDuty, ReadBy, flagVars, telVars
    <3>2. Same("start")
      BY <1>1, <2>3, SameStart DEF CheckDuty, ReadBy, flagVars, telVars
    <3>3. Same("cal")
      BY <1>1, <2>3, SameCal DEF CheckDuty, ReadBy, flagVars, telVars
    <3> QED
      BY <3>1, <3>2, <3>3 DEF Kinds
  <2>5. ~InWindow("duty") /\ InWindow("duty")'
    BY <1>1 DEF CheckDuty, ReadBy, flagVars, telVars, InWindow
  <2>6. InBox("duty")' = "none"
    BY <1>1, <2>2 DEF CheckDuty, ReadBy, flagVars, telVars, InBox, InHand, Unseen, Taken, Pending, InWindow
  <2>7. InHand("duty")' = InBox("duty")
    BY <1>1 DEF CheckDuty, ReadBy, flagVars, telVars, InBox, InHand, Unseen, Taken, Pending, InWindow
  <2>8. UNCHANGED <<dutyNo, imu_ready, state, debug, calServed>>
    BY <1>1 DEF CheckDuty, ReadBy, flagVars, telVars
  <2> QED
    BY <2>1, <2>4, <2>5, <2>6, <2>7, <2>8, BoxLooks
<1>2. CASE CheckDuty /\ ~s_duty_request_pending
  <2>1. waiting' = waiting
    BY <1>2 DEF CheckDuty, ReadBy, FlagsTypeOK
  <2>2. /\ \A j \in Kinds : Same(j)
        /\ UNCHANGED <<dutyNo, imu_ready, state, debug, calServed>>
    BY <1>2, <2>1, SameStop, SameStart, SameDuty, SameCal DEF CheckDuty, flagVars, telVars, Kinds
  <2> QED
    BY <2>2, BoxStays
<1>3. CASE CopyDutyPair \/ CopyDutyHold
  <2>1. /\ \A j \in Kinds : Same(j)
        /\ UNCHANGED <<dutyNo, imu_ready, state, debug, calServed>>
    BY <1>3, SameStop, SameStart, SameDuty, SameCal
    DEF CopyDutyPair, CopyDutyHold, CopyDuty, flagVars, telVars, ghostVars, Kinds
  <2> QED
    BY <2>1, BoxStays
<1> QED
  BY <1>1, <1>2, <1>3

\* Clearing the flag and using the value is the effect.
LEMMA BoxClear ==
    ASSUME FlagsTypeOK, ClearStop \/ ClearStart \/ ClearCal
    PROVE  Box!Next
<1>1. CASE ClearStop
  <2>1. "stop" \in Kinds
    BY DEF Kinds
  <2>2. \A j \in Kinds : waiting'[j] = waiting[j]
    BY <1>1 DEF ClearStop, telVars, ghostVars
  <2>3. waiting'["start"] = waiting["start"] /\ waiting'["duty"] = waiting["duty"] /\ waiting'["cal"] = waiting["cal"]
    BY <2>2 DEF Kinds
  <2>4. \A j \in Kinds \ {"stop"} : Same(j)
    <3>1. Same("start")
      BY <1>1, <2>3, SameStart DEF ClearStop, telVars, ghostVars
    <3>2. Same("duty")
      BY <1>1, <2>3, SameDuty DEF ClearStop, telVars, ghostVars
    <3>3. Same("cal")
      BY <1>1, <2>3, SameCal DEF ClearStop, telVars, ghostVars
    <3> QED
      BY <3>1, <3>2, <3>3 DEF Kinds
  <2>5. /\ InWindow("stop") /\ ~InWindow("stop")'
        /\ InBox("stop")' = "none" /\ InHand("stop")' = "none"
    BY <1>1 DEF ClearStop, telVars, ghostVars, InBox, InHand, Unseen, Taken, Pending, InWindow
  <2>6. InHand("stop") = "none" => UNCHANGED <<state, debug, calServed>>
    BY <1>1 DEF ClearStop, telVars, ghostVars, FlagsTypeOK, CalCommands, InBox, InHand, Unseen, Taken, Pending, InWindow
  <2>7. InHand("stop") # "none" => state' = "IDLE" /\ UNCHANGED <<debug, calServed>>
    BY <1>1 DEF ClearStop, telVars, ghostVars, InBox, InHand, Unseen, Taken, Pending, InWindow
  <2>8. InHand("stop") # "none" => Box!Effect("stop", InHand("stop"))
    BY <2>7 DEF Box!Effect
  <2>9. UNCHANGED <<dutyNo, imu_ready>>
    BY <1>1 DEF ClearStop, telVars, ghostVars
  <2> QED
    BY <2>1, <2>4, <2>5, <2>6, <2>8, <2>9, BoxFinishes
<1>2. CASE ClearStart
  <2>1. "start" \in Kinds
    BY DEF Kinds
  <2>2. \A j \in Kinds : waiting'[j] = waiting[j]
    BY <1>2 DEF ClearStart, telVars, ghostVars
  <2>3. waiting'["stop"] = waiting["stop"] /\ waiting'["duty"] = waiting["duty"] /\ waiting'["cal"] = waiting["cal"]
    BY <2>2 DEF Kinds
  <2>4. \A j \in Kinds \ {"start"} : Same(j)
    <3>1. Same("stop")
      BY <1>2, <2>3, SameStop DEF ClearStart, telVars, ghostVars
    <3>2. Same("duty")
      BY <1>2, <2>3, SameDuty DEF ClearStart, telVars, ghostVars
    <3>3. Same("cal")
      BY <1>2, <2>3, SameCal DEF ClearStart, telVars, ghostVars
    <3> QED
      BY <3>1, <3>2, <3>3 DEF Kinds
  <2>5. /\ InWindow("start") /\ ~InWindow("start")'
        /\ InBox("start")' = "none" /\ InHand("start")' = "none"
    BY <1>2 DEF ClearStart, telVars, ghostVars, InBox, InHand, Unseen, Taken, Pending, InWindow
  <2>6. InHand("start") = "none" => UNCHANGED <<state, debug, calServed>>
    BY <1>2 DEF ClearStart, telVars, ghostVars, FlagsTypeOK, CalCommands, InBox, InHand, Unseen, Taken, Pending, InWindow
  <2>7. InHand("start") # "none" => state' = (IF imu_ready THEN "RUN" ELSE state) /\ UNCHANGED <<debug, calServed>>
    BY <1>2 DEF ClearStart, telVars, ghostVars, InBox, InHand, Unseen, Taken, Pending, InWindow
  <2>8. InHand("start") # "none" => Box!Effect("start", InHand("start"))
    BY <2>7 DEF Box!Effect
  <2>9. UNCHANGED <<dutyNo, imu_ready>>
    BY <1>2 DEF ClearStart, telVars, ghostVars
  <2> QED
    BY <2>1, <2>4, <2>5, <2>6, <2>8, <2>9, BoxFinishes
<1>3. CASE ClearCal
  <2>1. "cal" \in Kinds
    BY DEF Kinds
  <2>2. \A j \in Kinds : waiting'[j] = waiting[j]
    BY <1>3 DEF ClearCal, ctlVars, ghostVars, TelRuns
  <2>3. waiting'["stop"] = waiting["stop"] /\ waiting'["start"] = waiting["start"] /\ waiting'["duty"] = waiting["duty"]
    BY <2>2 DEF Kinds
  <2>4. \A j \in Kinds \ {"cal"} : Same(j)
    <3>1. Same("stop")
      BY <1>3, <2>3, SameStop DEF ClearCal, ctlVars, ghostVars, TelRuns
    <3>2. Same("start")
      BY <1>3, <2>3, SameStart DEF ClearCal, ctlVars, ghostVars, TelRuns
    <3>3. Same("duty")
      BY <1>3, <2>3, SameDuty DEF ClearCal, ctlVars, ghostVars, TelRuns
    <3> QED
      BY <3>1, <3>2, <3>3 DEF Kinds
  <2>5. /\ InWindow("cal") /\ ~InWindow("cal")'
        /\ InBox("cal")' = "none" /\ InHand("cal")' = "none"
    BY <1>3 DEF ClearCal, ctlVars, ghostVars, TelRuns, InBox, InHand, Unseen, Taken, Pending, InWindow
  <2>6. InHand("cal") = "none" => UNCHANGED <<state, debug, calServed>>
    BY <1>3 DEF ClearCal, ctlVars, ghostVars, TelRuns, FlagsTypeOK, CalCommands, InBox, InHand, Unseen, Taken, Pending, InWindow
  <2>7. InHand("cal") # "none" => calServed' = InHand("cal") /\ UNCHANGED <<state, debug>>
    BY <1>3 DEF ClearCal, ctlVars, ghostVars, TelRuns, InBox, InHand, Unseen, Taken, Pending, InWindow
  <2>8. InHand("cal") # "none" => Box!Effect("cal", InHand("cal"))
    BY <2>7 DEF Box!Effect
  <2>9. UNCHANGED <<dutyNo, imu_ready>>
    BY <1>3 DEF ClearCal, ctlVars, ghostVars, TelRuns
  <2> QED
    BY <2>1, <2>4, <2>5, <2>6, <2>8, <2>9, BoxFinishes
<1> QED
  BY <1>1, <1>2, <1>3

\* So it is for a $DUTY, whose words DutyInv orders.
LEMMA BoxClearDuty ==
    ASSUME FlagsTypeOK, ClearDuty,
           cpc = "duty_clear" => /\ debug.hold < duty.pair
                                 /\ duty.pair <= duty.hold /\ duty.hold <= dutyNo
    PROVE  Box!Next
<1>1. "duty" \in Kinds /\ UNCHANGED <<dutyNo, imu_ready, waiting>>
  BY DEF Kinds, ClearDuty, ghostVars
<1>2. \A j \in Kinds \ {"duty"} : Same(j)
  BY SameStop, SameStart, SameCal DEF ClearDuty, telVars, ghostVars, Kinds
<1>3. /\ InWindow("duty") /\ ~InWindow("duty")'
      /\ InBox("duty")' = "none" /\ InHand("duty") # "none" /\ InHand("duty")' = "none"
  BY DEF ClearDuty, InBox, InHand, Unseen, Taken, Pending, InWindow
<1>4. /\ state' = "IDLE" /\ UNCHANGED calServed /\ debug.hold < debug'.pair
      /\ debug'.pair <= debug'.hold /\ debug'.hold <= dutyNo
  BY DEF ClearDuty, telVars
<1>5. Box!Effect("duty", InHand("duty"))
  BY <1>4 DEF Box!Effect
<1> QED
  BY <1>1, <1>2, <1>3, <1>5, BoxFinishes

LEMMA BoxStep == DutyInv /\ [FlagsNext]_mailVars => [Box!Next]_(Box!vars)
<1> SUFFICES ASSUME DutyInv, [FlagsNext]_mailVars PROVE Box!Next \/ UNCHANGED Box!vars
  BY DEF Box!vars
<1>0. /\ FlagsTypeOK
      /\ cpc = "duty_clear" => /\ debug.hold < duty.pair
                               /\ duty.pair <= duty.hold /\ duty.hold <= dutyNo
  BY DEF DutyInv
<1>1. CASE Receive
  BY <1>0, <1>1, BoxReceive
<1>2. CASE ImuSnapshot
  <2>1. /\ \A j \in Kinds : Same(j)
        /\ UNCHANGED <<dutyNo, state, debug, calServed>> /\ imu_ready' = ~imu_ready
    BY <1>2, SameStop, SameStart, SameDuty, SameCal
    DEF ImuSnapshot, flagVars, ctlVars, telVars, ghostVars, Kinds
  <2> QED
    BY <2>1, BoxStays
<1>3. CASE ReadStop \/ ReadStart \/ ReadCal
  BY <1>0, <1>3, BoxRead
<1>4. CASE CheckDuty \/ CopyDutyPair \/ CopyDutyHold
  BY <1>0, <1>4, BoxDuty
<1>5. CASE ClearStop \/ ClearStart \/ ClearCal
  BY <1>0, <1>5, BoxClear
<1>6. CASE ClearDuty
  BY <1>0, <1>6, BoxClearDuty
<1>7. CASE UNCHANGED mailVars
  <2>1. /\ \A j \in Kinds : Same(j)
        /\ UNCHANGED <<dutyNo, imu_ready, state, debug, calServed>>
    BY <1>7, SameStop, SameStart, SameDuty, SameCal
    DEF mailVars, flagVars, ctlVars, telVars, ghostVars, Kinds
  <2> QED
    BY <2>1, BoxStays
<1> QED
  BY <1>1, <1>2, <1>3, <1>4, <1>5, <1>6, <1>7 DEF FlagsNext, ControlStep, TelemetryStep

\* Each command that arrives has at most one effect, as the last one received when
\* it is read, and no effect comes from anywhere else: the accesses of the two
\* consumers and of the interrupt implement the abstract mailbox.
THEOREM MailboxKept == FlagsSpec => KeepsMailbox
<1>1. DutyInv /\ [FlagsNext]_mailVars => DutyInv'
  BY DutyStep
<1> QED
  BY <1>1, DutyInit, BoxInit, BoxStep, PTL DEF FlagsSpec, KeepsMailbox, Box!Spec

=============================================================================
