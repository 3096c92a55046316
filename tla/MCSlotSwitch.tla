---------------------------- MODULE MCSlotSwitch ----------------------------
(* Small instances of SlotSwitch.                                           *)
EXTENDS SlotSwitch, TLC

Symmetric == Permutations(Slots) \cup Permutations(Releases) \cup Permutations(Switchers)
==============================================================================
