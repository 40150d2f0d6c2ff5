----------------------------- MODULE MCImuService -----------------------------
(* Yaws that are short of the turns, right, off by 3 percent, and too many. *)
EXTENDS ImuService

MCPhaseYaws == {-130, -103, -100, 0, 100, 103, 130}
=============================================================================
