----------------------------- MODULE MCEncoder -----------------------------
\* Values of Encoder's constants that a .cfg cannot write.
EXTENDS Encoder

Reaches == [w \in Wheels |-> IF w = "left" THEN -1 .. 2 ELSE 0 .. 1]
=============================================================================
