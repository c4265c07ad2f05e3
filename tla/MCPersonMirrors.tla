-------------------------- MODULE MCPersonMirrors --------------------------
(***************************************************************************)
(* Instance of PersonMirrors for TLC: at one school a context with all     *)
(* services, which may be befristet, and one with e-mail only.             *)
(***************************************************************************)
EXTENDS PersonMirrors, TLC

CONSTANTS k1, k2, s1

Rollenarten == k1 :> "LEHR" @@ k2 :> "LEHR"
Schulen     == k1 :> s1 @@ k2 :> s1

\* The systems one by one: no handler depends on another one.
MCInit == MirrorsInit /\ Cardinality(watched) = 1

MCSpec == MCInit /\ [][MirrorsNext]_allvars

=============================================================================
