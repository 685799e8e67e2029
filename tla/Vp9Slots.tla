------------------------------ MODULE Vp9Slots ------------------------------
(* What the two ends of a VP9 stream have in common.                       *)
EXTENDS Integers, FiniteSets

CONSTANT Slot   \* reference slots (common.RefFrames): 8 in the code

ASSUME SlotAssumption == IsFiniteSet(Slot)
=============================================================================
