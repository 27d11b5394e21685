----------------------------- MODULE MCRiskGate -----------------------------
(* Inputs for the runs of RiskGate: losses and gains, one clip.           *)
EXTENDS RiskGate

LossAndGain == {-2, 1}
EitherWay   == {-1, 1}
AllModes    == {TRUE, FALSE}
PaperOnly   == {FALSE}
Current     == {"fresh", "split", "unpeaked"}
EveryLayout == {"fresh", "split", "unpeaked", "combined", "legacy"}
Anywhere    == PersistKeys
=============================================================================
