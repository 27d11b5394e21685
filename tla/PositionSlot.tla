---------------------------- MODULE PositionSlot ----------------------------
(***************************************************************************)
(* What the live side promises: one slot.  The ledger claims the slot      *)
(* before anything real exists behind it and releases it only when nothing *)
(* real is left ("the ledger must never claim flat while real tokens       *)
(* remain on the exchange", btc_bot/paper.py).                             *)
(***************************************************************************)
VARIABLES
  claimed,  \* the ledger has an open row
  stake     \* tokens of an unresolved market, or an order that can still fill

slotVars == <<claimed, stake>>

SlotInit == ~claimed /\ ~stake

Claim   == ~claimed /\ claimed' /\ UNCHANGED stake
Gain    == claimed /\ ~stake /\ stake' /\ UNCHANGED claimed
Lose    == claimed /\ stake /\ ~stake' /\ UNCHANGED claimed
Release == claimed /\ ~stake /\ ~claimed' /\ UNCHANGED stake

SlotNext == Claim \/ Gain \/ Lose \/ Release
SlotSpec == SlotInit /\ [][SlotNext]_slotVars
=============================================================================
