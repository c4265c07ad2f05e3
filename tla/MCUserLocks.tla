---------------------------- MODULE MCUserLocks ----------------------------
(* Instances of UserLocks for TLC.                                         *)
EXTENDS UserLocks

=============================================================================
