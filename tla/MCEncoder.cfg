CONSTANTS
    Reach <- Reaches
    MaxJumps = 1
SPECIFICATION Spec
INVARIANTS CountsFollowWheel EdgeIsServed
