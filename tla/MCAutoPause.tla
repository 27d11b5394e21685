----------------------------- MODULE MCAutoPause -----------------------------
(* Inputs for the run of AutoPause: a trade doubles or loses its stake.     *)
EXTENDS AutoPause

WinOrLose == {-1, 1}
MinusFifteen == -15
=============================================================================
