---------------------------- MODULE MCController ----------------------------
(* The modes the operator may select in the runs of Controller.            *)
EXTENDS Controller

BothModes == {"paper", "live"}
PaperOnly == {"paper"}
LiveOnly  == {"live"}
=============================================================================
