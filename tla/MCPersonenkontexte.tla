------------------------- MODULE MCPersonenkontexte -------------------------
(***************************************************************************)
(* Instance of Personenkontexte for TLC: a context of a teacher, which may *)
(* be befristet, and one of a pupil.  Requests are interchangeable.        *)
(***************************************************************************)
EXTENDS Personenkontexte, TLC

CONSTANTS k1, k2

Symmetry == Permutations(Job)

Rollenarten == k1 :> "LEHR" @@ k2 :> "LERN"

=============================================================================
