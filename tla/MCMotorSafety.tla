---------------------------- MODULE MCMotorSafety ----------------------------
(* Small periods; the requests exceed both clamps of BSP_Motor_SetDuty.    *)
EXTENDS MotorSafety

MCRequests == {-1, 0, 2}
=============================================================================
