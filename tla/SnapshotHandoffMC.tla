-------------------------- MODULE SnapshotHandoffMC --------------------------
(***************************************************************************)
(* Values of the constants of SnapshotHandoff for TLC.                     *)
(***************************************************************************)
EXTENDS SnapshotHandoff, TLC

CONSTANTS a, b

\* A game without key interrupts, and with one on any key or on both at once.
NoInterrupt == [enabled |-> FALSE, mask |-> {}, all |-> FALSE]
AnyKey == [enabled |-> TRUE, mask |-> {a, b}, all |-> FALSE]
BothKeys == [enabled |-> TRUE, mask |-> {a, b}, all |-> TRUE]
ThreeSettings == {NoInterrupt, AnyKey, BothKeys}

KeySymmetry == Permutations(Keys)
=============================================================================
