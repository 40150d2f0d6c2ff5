------------------------------- MODULE SpiBus -------------------------------
(***************************************************************************)
(* A register access over SPI (platform/mspm0g3507/drivers/drv_spi.c):     *)
(* Drv_Spi_WriteReg8 and Drv_Spi_ReadReg8, step by step, against the SPI   *)
(* peripheral, which shifts a byte whenever it likes and may do so after   *)
(* the driver gave up waiting.                                             *)
(*                                                                         *)
(* A byte is known only by the access it belongs to: "own" for the access  *)
(* in progress, "old" for an earlier one.  The transmit FIFO is empty      *)
(* whenever transfer8 is entered (the peripheral was idle before the       *)
(* access and each byte is awaited), so its full branch is not reachable.  *)
(***************************************************************************)
EXTENDS Naturals, Sequences

VARIABLES
  at,        \* where the driver stands in the access; "idle" outside of one
  selected,  \* the chip select line is low
  shifting,  \* the byte in the transmit FIFO or shift register
  rx,        \* the receive FIFO
  left,      \* bytes of the access still to be received, the register included
  answers,   \* the accesses to which the bytes received in this one belong
  ok         \* the status the last access returned

spi == <<at, selected, shifting, rx, left, answers, ok>>

Steps == {"idle", "wait", "drain", "select", "send", "await", "deselect"}
Bytes == {"own", "old"}

Aged(b) == IF b = "own" THEN "old" ELSE b

SpiInit ==
  /\ at = "idle"
  /\ selected = FALSE
  /\ shifting = "none"
  /\ rx = <<>>
  /\ left = 0
  /\ answers = {}
  /\ ok = FALSE

(* Drv_Spi_ReadReg8 or Drv_Spi_WriteReg8 is called for n bytes. *)
Call(n) ==
  /\ at = "idle"
  /\ at' = "wait"
  /\ left' = n + 1
  /\ answers' = {}
  /\ shifting' = Aged(shifting)
  /\ rx' = [i \in DOMAIN rx |-> Aged(rx[i])]
  /\ UNCHANGED <<selected, ok>>

(* wait_not_busy before the access: still busy, give up and return -1. *)
BusyTimeout ==
  /\ at = "wait" /\ shifting # "none"
  /\ at' = "idle"
  /\ ok' = FALSE
  /\ UNCHANGED <<selected, shifting, rx, left, answers>>

NotBusy ==
  /\ at = "wait" /\ shifting = "none"
  /\ at' = "drain"
  /\ UNCHANGED <<selected, shifting, rx, left, answers, ok>>

(* Mutant: The receive FIFO is not emptied before an access. *)
DrainNothing ==
  /\ at = "drain"
  /\ at' = "select"
  /\ UNCHANGED <<selected, shifting, rx, left, answers, ok>>

(* drain_rx *)
Drain ==
  /\ at = "drain"
  /\ at' = "select"
  /\ rx' = <<>>
  /\ UNCHANGED <<selected, shifting, left, answers, ok>>

(* select *)
Select ==
  /\ at = "select"
  /\ at' = "send"
  /\ selected' = TRUE
  /\ UNCHANGED <<shifting, rx, left, answers, ok>>

(* transfer8: the byte goes to the transmit FIFO. *)
Transmit ==
  /\ at = "send"
  /\ at' = "await"
  /\ shifting' = "own"
  /\ UNCHANGED <<selected, rx, left, answers, ok>>

(* transfer8: a byte is there.  The access goes on with its next byte; its *)
(* last one leaves the peripheral idle and the access successful.          *)
Receive ==
  /\ at = "await" /\ rx # <<>>
  /\ rx' = Tail(rx)
  /\ answers' = answers \cup {Head(rx)}
  /\ left' = left - 1
  /\ at' = IF left = 1 THEN "deselect" ELSE "send"
  /\ ok' = (left = 1)
  /\ UNCHANGED <<selected, shifting>>

(* Mutant: A byte that does not come ends the access with the chip still selected. *)
ReceiveTimeoutReturns ==
  /\ at = "await" /\ rx = <<>>
  /\ at' = "idle"
  /\ ok' = FALSE
  /\ UNCHANGED <<selected, shifting, rx, left, answers>>

(* transfer8: no byte came in time. *)
ReceiveTimeout ==
  /\ at = "await" /\ rx = <<>>
  /\ at' = "deselect"
  /\ ok' = FALSE
  /\ UNCHANGED <<selected, shifting, rx, left, answers>>

(* Drv_Spi_Deselect, on every way out of a selected access. *)
Deselect ==
  /\ at = "deselect"
  /\ at' = "idle"
  /\ selected' = FALSE
  /\ UNCHANGED <<shifting, rx, left, answers, ok>>

Driver ==
  \/ BusyTimeout
  \/ NotBusy
  \/ Drain
  \/ Select
  \/ Transmit
  \/ Receive
  \/ ReceiveTimeout
  \/ Deselect

(* The peripheral finishes a byte, in time or not. *)
Shift ==
  /\ shifting # "none"
  /\ shifting' = "none"
  /\ rx' = Append(rx, shifting)
  /\ UNCHANGED <<at, selected, left, answers, ok>>

SpiTypeOK ==
  /\ at \in Steps
  /\ selected \in BOOLEAN
  /\ shifting \in Bytes \cup {"none"}
  /\ Len(rx) <= 1 /\ \A i \in DOMAIN rx : rx[i] \in Bytes
  /\ left \in Nat
  /\ answers \subseteq Bytes
  /\ ok \in BOOLEAN
=============================================================================
