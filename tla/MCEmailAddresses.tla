-------------------------- MODULE MCEmailAddresses -------------------------
(***************************************************************************)
(* Instances of EmailAddresses for TLC.                                    *)
(***************************************************************************)
EXTENDS EmailAddresses, TLC

Symmetry == Permutations(Job) \cup Permutations(Name)

============================================================================
