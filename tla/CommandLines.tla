---------------------------- MODULE CommandLines ----------------------------
(***************************************************************************)
(* What the console promises to who sends it bytes.  A line that fits the  *)
(* buffer is one command and takes effect, as a whole, when its end comes. *)
(* The bytes 's' and 'x' act at once wherever they come and are part of no *)
(* line.  A longer line takes effect at most once, as some line that fits. *)
(* Console implements this specification.                                  *)
(***************************************************************************)
EXTENDS Commands

VARIABLES
    line,           \* the text received since the last end of a line
    long,           \* it did not fit; line is empty then
    settings,
    posted          \* the request that the last byte posted, if any

vars == <<line, long, settings, posted>>

Init == line = <<>> /\ long = FALSE /\ settings = AtReset /\ posted = NoRequest

Symbol(b) ==
    /\ long' = (long \/ Append(line, b) \notin Lines)
    /\ line' = IF long' THEN <<>> ELSE Append(line, b)
    /\ posted' = NoRequest
    /\ UNCHANGED settings

AtOnce(request) ==
    /\ posted' = request
    /\ UNCHANGED <<line, long, settings>>

Execute(text) ==
    /\ line' = <<>> /\ long' = FALSE
    /\ settings' = Effect(text, settings)
    /\ posted' = Post(text)

EndOfLine == ~long /\ Execute(line)
EndOfLongLine == long /\ \E tail \in Lines : Execute(tail)

Next ==
    \/ \E b \in Text : Symbol(b)
    \/ \E request \in {"start", "stop", NoRequest} : AtOnce(request)
    \/ EndOfLine \/ EndOfLongLine

Spec == Init /\ [][Next]_vars
=============================================================================
