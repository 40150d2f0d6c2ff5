------------------------------ MODULE RttRing ------------------------------
(***************************************************************************)
(* The RTT up-buffer (rtt_log.c): a ring of bytes that a debug probe reads *)
(* while the firmware runs.  Two contexts write it, without a lock and on  *)
(* the same write offset: the telemetry task with its streams and the      *)
(* receive interrupt with its command replies, which can come between any  *)
(* two steps of the task's write.  The probe moves only the read offset.   *)
(*                                                                         *)
(* A record is the text of one BSP_Uart_Printf; its bytes are <<id, i>>.   *)
(***************************************************************************)
EXTENDS Integers, Sequences

CONSTANTS
    Size,           \* RTT_UP_BUFFER_SIZE
    Records,        \* identities of records
    NoRecord,       \* none of them
    Length          \* Length[r]: bytes of record r

ASSUME SizeAssumption == Size \in Nat \ {0}
ASSUME LengthAssumption == Length \in [Records -> Nat]

VARIABLES
    buffer,         \* up[0].buffer
    wr_off, rd_off,
    pc,             \* the telemetry task in RTT_Log_Write
    record,         \* the record it writes
    i, wr,          \* its local variables
    \* Ghosts.
    owed,           \* bytes written and not yet read by the probe, while ~mixed
    mixed           \* a reply was written within a write of the task and the
                    \* probe has not emptied the ring since

ringVars == <<buffer, wr_off, rd_off>>
taskVars == <<pc, record, i, wr>>
vars == <<ringVars, taskVars, owed, mixed>>

Offsets == 0 .. (Size - 1)
NoByte == <<>>

Text(r) == [n \in 1 .. Length[r] |-> <<r, n>>]

Init ==
    /\ buffer = [o \in Offsets |-> NoByte]
    /\ wr_off = 0 /\ rd_off = 0
    /\ pc = "idle" /\ record = NoRecord /\ i = 0 /\ wr = 0
    /\ owed = <<>> /\ mixed = FALSE

-----------------------------------------------------------------------------
\* Mutant: one byte more, so that a full ring looks empty.
SpaceForAll(w, rd) == IF rd > w THEN rd - w ELSE Size - w + rd

space_available(w, rd) == IF rd > w THEN rd - w - 1 ELSE Size - w + rd - 1

\* if (!data || len == 0u) return; if (len >= buf->size) return
Writable(r) == 0 < Length[r] /\ Length[r] < Size

\* Mutant: the offset wraps one byte late.
AfterLate(o) == IF o + 1 > Size THEN 0 ELSE o + 1

\* wr++; if (wr >= buf->size) wr = 0u
After(o) == IF o + 1 >= Size THEN 0 ELSE o + 1

Moved(o, n) == IF o + n >= Size THEN o + n - Size ELSE o + n

Owe(r) == owed' = IF mixed' THEN <<>> ELSE owed \o Text(r)

-----------------------------------------------------------------------------
(* The telemetry task, one access of the ring per step.                    *)

\* space_available: wr = buf->wr_off
TaskBegin(r) ==
    /\ pc = "idle"
    /\ Writable(r)
    /\ pc' = "space" /\ record' = r /\ i' = 0
    /\ wr' = wr_off
    /\ UNCHANGED <<ringVars, owed, mixed>>

\* rd = buf->rd_off and the test; the record is dropped if there is no room.
TaskCheck ==
    /\ pc = "space"
    /\ pc' = IF space_available(wr, rd_off) < Length[record] THEN "idle" ELSE "load"
    /\ UNCHANGED <<ringVars, record, i, wr, owed, mixed>>

\* wr = buf->wr_off, which is not volatile: the compiler may keep the earlier load.
TaskLoad ==
    /\ pc = "load"
    /\ pc' = "copy"
    /\ wr' \in {wr, wr_off}
    /\ UNCHANGED <<ringVars, record, i, owed, mixed>>

\* buf->buffer[wr++] = data[i]
TaskCopy ==
    /\ pc = "copy" /\ i < Length[record]
    /\ buffer' = [buffer EXCEPT ![wr] = <<record, i + 1>>]
    /\ wr' = After(wr)
    /\ i' = i + 1
    /\ UNCHANGED <<wr_off, rd_off, pc, record, owed, mixed>>

\* buf->wr_off = wr
TaskPublish ==
    /\ pc = "copy" /\ i = Length[record]
    /\ wr_off' = wr
    /\ pc' = "idle"
    /\ mixed' = mixed
    /\ Owe(record)
    /\ UNCHANGED <<buffer, rd_off, record, i, wr>>

-----------------------------------------------------------------------------
\* The ring after the bytes of r have been written from offset o on.
Written(r, o) ==
    [p \in Offsets |->
        LET n == IF p >= o THEN p - o + 1 ELSE p - o + 1 + Size
        IN  IF n <= Length[r] THEN <<r, n>> ELSE buffer[p]]

\* A reply of the receive interrupt: a whole RTT_Log_Write, for no task runs in it.
IsrWrite(r) ==
    /\ Writable(r)
    /\ Length[r] <= space_available(wr_off, rd_off)
    /\ buffer' = Written(r, wr_off)
    /\ wr_off' = Moved(wr_off, Length[r])
    /\ mixed' = (mixed \/ pc # "idle")
    /\ Owe(r)
    /\ UNCHANGED <<rd_off, taskVars>>

\* The probe takes one byte.  Once it has emptied the ring and no write is in
\* progress, what went before no longer matters.
HostRead ==
    /\ rd_off # wr_off
    /\ rd_off' = Moved(rd_off, 1)
    /\ mixed' = (mixed /\ ~(rd_off' = wr_off /\ pc = "idle"))
    /\ owed' = IF mixed THEN <<>> ELSE Tail(owed)
    /\ UNCHANGED <<buffer, wr_off, taskVars>>

Next ==
    \/ \E r \in Records : TaskBegin(r) \/ IsrWrite(r)
    \/ TaskCheck \/ TaskLoad \/ TaskCopy \/ TaskPublish \/ HostRead

Spec == Init /\ [][Next]_vars

-----------------------------------------------------------------------------
(* Properties.                                                             *)

\* However replies and streams mix, both writers stay within the buffer and
\* publish an offset within it.
TypeOK ==
    /\ wr_off \in Offsets /\ rd_off \in Offsets /\ wr \in Offsets
    /\ DOMAIN buffer = Offsets
    /\ pc \in {"idle", "space", "load", "copy"}
    /\ record \in Records \cup {NoRecord}
    /\ pc # "idle" => record \in Records /\ i \in 0 .. Length[record]
    /\ mixed \in BOOLEAN

Unread ==
    LET count == IF wr_off >= rd_off THEN wr_off - rd_off ELSE Size - rd_off + wr_off
    IN  [n \in 1 .. count |-> buffer[Moved(rd_off, n - 1)]]

\* Unless a reply fell into a write of the task, the probe gets every record
\* that was not dropped, whole, in order and once, across the ring's end and
\* with the ring full; a mixture is over when the probe has emptied the ring.
WholeRecords == ~mixed => Unread = owed
=============================================================================
