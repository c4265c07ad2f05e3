--------------------------- MODULE LockedAccount ---------------------------
(***************************************************************************)
(* What the user locks promise of a Keycloak account: each lock and unlock *)
(* takes effect at once, and the account is enabled exactly while there is *)
(* no occasion to lock it.  The promise ends when a call fails half-way or *)
(* two requests disturb each other.                                        *)
(***************************************************************************)
EXTENDS FiniteSets

CONSTANT Occasion   \* occasions to lock an account

VARIABLES
    reasons,    \* the occasions for which the account is locked
    open,       \* the user can log in
    promised    \* nothing went wrong so far

account == <<reasons, open, promised>>

AccountInit ==
    /\ reasons \subseteq Occasion
    /\ open = (reasons = {})
    /\ promised = TRUE

\* An account is locked for one more occasion.
Lock(o) ==
    /\ reasons' = reasons \cup {o}
    /\ open' = FALSE

\* A lock that comes on top of another one may take its place: the account
\* stays locked, but the other occasion is forgotten.
Supplant(o, other) ==
    /\ other \in reasons
    /\ reasons' = (reasons \ {other}) \cup {o}
    /\ open' = FALSE

\* Only the last unlock opens the account.
Unlock(o) ==
    /\ reasons' = reasons \ {o}
    /\ open' = (reasons' = {})

AccountNext ==
    \/ /\ promised /\ promised'
       /\ \E o \in Occasion : Lock(o) \/ Unlock(o) \/ \E other \in Occasion : Supplant(o, other)
    \/ ~promised'

AccountSpec == AccountInit /\ [][AccountNext]_account

=============================================================================
