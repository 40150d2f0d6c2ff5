------------------------------ MODULE Mailbox ------------------------------
(***************************************************************************)
(* What the mailbox promises to who sends commands to the car.  It holds   *)
(* one command of each kind, the last received.  A consumer looks into it, *)
(* takes what is there and gives it its effect, once; nothing else changes *)
(* the state of the car, the $DUTY request it follows or the calibration.  *)
(* What arrives between the look and the effect is thrown away unread, but *)
(* for the arguments of a $DUTY, which may replace those taken, the hold   *)
(* time before the duties.  CommandFlags implements this specification.    *)
(***************************************************************************)
EXTENDS Integers

VARIABLES
    mail,           \* the command of each kind that waits, or "none"
    hand,           \* the command of each kind that was taken, or "none"
    busy,           \* the kinds whose consumer has looked and not finished
    received,       \* number of $DUTY requests received
    imu_ready,
    state, debug, calServed     \* what commands have an effect on

effects == <<state, debug, calServed>>
vars == <<mail, hand, busy, received, imu_ready, effects>>

Kinds == {"stop", "start", "duty", "cal"}
Commands(kind) == IF kind = "cal" THEN {"START", "CANCEL"} ELSE {kind}

Empty == [kind \in Kinds |-> "none"]

Init ==
    /\ mail = Empty /\ hand = Empty /\ busy = {} /\ received = 0
    /\ imu_ready = FALSE /\ state = "IDLE" /\ calServed = "NONE"
    /\ debug = [pair |-> 0, hold |-> 0]

Arrive(kind) ==
    /\ \E command \in Commands(kind) : mail' = [mail EXCEPT ![kind] = command]
    /\ received' = IF kind = "duty" THEN received + 1 ELSE received
    /\ UNCHANGED <<hand, busy, imu_ready, effects>>

Look(kind) ==
    /\ kind \notin busy
    /\ busy' = busy \cup {kind}
    /\ hand' = [hand EXCEPT ![kind] = mail[kind]]
    /\ mail' = [mail EXCEPT ![kind] = "none"]
    /\ UNCHANGED <<received, imu_ready, effects>>

Effect(kind, command) ==
    CASE kind = "stop"  -> state' = "IDLE" /\ UNCHANGED <<debug, calServed>>
      [] kind = "start" -> /\ state' = IF imu_ready THEN "RUN" ELSE state
                           /\ UNCHANGED <<debug, calServed>>
      [] kind = "cal"   -> calServed' = command /\ UNCHANGED <<state, debug>>
      [] kind = "duty"  -> /\ state' = "IDLE" /\ UNCHANGED calServed
                           /\ debug.hold < debug'.pair
                           /\ debug'.pair <= debug'.hold /\ debug'.hold <= received

Finish(kind) ==
    /\ kind \in busy
    /\ busy' = busy \ {kind}
    /\ IF hand[kind] = "none" THEN UNCHANGED effects ELSE Effect(kind, hand[kind])
    /\ hand' = [hand EXCEPT ![kind] = "none"]
    /\ mail' = [mail EXCEPT ![kind] = "none"]
    /\ UNCHANGED <<received, imu_ready>>

ImuChange ==
    /\ imu_ready' = ~imu_ready
    /\ UNCHANGED <<mail, hand, busy, received, effects>>

Next ==
    \/ \E kind \in Kinds : Arrive(kind) \/ Look(kind) \/ Finish(kind)
    \/ ImuChange

Spec == Init /\ [][Next]_vars
=============================================================================
