------------------------- MODULE MCShiftPriorities -------------------------
(***************************************************************************)
(* Instance of ShiftPriorities for TLC: every assignment of priorities,    *)
(* duplicates included, to a handful of interchangeable addresses.         *)
(***************************************************************************)
EXTENDS ShiftPriorities, TLC

Symmetry == Permutations(Mail)

============================================================================
