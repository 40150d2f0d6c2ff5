--------------------------- MODULE MCSystemHealth ---------------------------
(* A small supervision instance: the control task and one with a fault of  *)
(* its own.  They have one priority, so that each may preempt the other at *)
(* any step: whatever a task above control, or one below it, can do is     *)
(* among the behaviours.                                                   *)
EXTENDS SystemHealth

CONSTANTS ctrl, imu

MCDeadline == [i \in Tasks |-> 1]
MCPriority == [i \in Tasks |-> 3]
=============================================================================
