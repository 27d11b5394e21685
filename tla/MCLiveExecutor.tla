--------------------------- MODULE MCLiveExecutor ---------------------------
(* Where the process may die in the runs of LiveExecutor.                  *)
EXTENDS LiveExecutor

AllButJournal == Steps \ {"journal"}
=============================================================================
