-------------------------- MODULE MCImportExecution --------------------------
(***************************************************************************)
(* Instances of ImportExecution for TLC.  Imports, items, schools and      *)
(* Rollen are interchangeable.                                             *)
(***************************************************************************)
EXTENDS ImportExecution, TLC

Symmetry == Permutations(Import) \cup Permutations(Item) \cup Permutations(Schule) \cup Permutations(Rolle)

============================================================================
