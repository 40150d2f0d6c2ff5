----------------------------- MODULE MCRttRing -----------------------------
\* Values of RttRing's constants that a .cfg cannot write.
EXTENDS RttRing

RecordNames == {"stream", "reply", "long"}

\* Shorter than the ring, one that fills it, and none that is too long: those
\* are dropped at once.
Lengths == [r \in RecordNames |->
    CASE r = "stream" -> 2 [] r = "reply" -> 3 [] r = "long" -> Size - 1]
=============================================================================
