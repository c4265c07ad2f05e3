----------------------------- MODULE UserLocks -----------------------------
(***************************************************************************)
(* The user locks of one person and the account in Keycloak: an            *)
(* administrator locks and unlocks by hand, a cron job locks persons       *)
(* without a personalnummer after the deadline, another one lifts expired  *)
(* locks, and entering the personalnummer lifts the lock of the first      *)
(* one.  Requests run side by side.                                        *)
(*                                                                         *)
(* Each action is one access to the database or to Keycloak, with the      *)
(* computation up to the next one.                                         *)
(***************************************************************************)
EXTENDS Naturals, FiniteSets

CONSTANTS
    Job,          \* requests and cron jobs that run at once
    MaxRequests,  \* bound: requests and cron jobs
    MaxTroubles   \* bound: failing calls

ASSUME BoundsAssumption == MaxRequests \in Nat /\ MaxTroubles \in Nat

VARIABLES
    locks,      \* the rows of user_lock
    enabled,    \* the account in Keycloak is enabled
    nummer,     \* the person has a personalnummer
    job,        \* the requests, each with its local variables
    used,       \* how much of each bound is used up
    disturbed,  \* history: a call failed half-way, or two requests got in each other's way
    raced       \* history: the cron job ran beside a change of the personalnummer

vars == <<locks, enabled, nummer, job, used, disturbed, raced>>

----------------------------------------------------------------------------

Occasion == {"MANUELL_GESPERRT", "KOPERS_GESPERRT"}

\* A lock is unlimited, limited, or past its limit.
Lock == [occasion : Occasion, until : {"none", "future", "past"}]

Occasions(L) == {l.occasion : l \in L}

\* person and locked_occasion are unique.
LockSet == {L \in SUBSET Lock : \A l, m \in L : l.occasion = m.occasion => l = m}

\* updateKeycloakUserStatus: find, then update or create, then disable;
\* or delete, then count, then enable.  The personalnummer is saved at the end.
At == {"idle", "find", "update", "create", "disable", "delete", "count", "enable", "save"}

Caller == {"admin", "kopers", "expired", "nummer"}

JobSet == [at : At, caller : Caller, lock : Lock]

Idle == [at |-> "idle", caller |-> "admin", lock |-> [occasion |-> "MANUELL_GESPERRT", until |-> "none"]]

\* Every value has its type, and no occasion has two locks.
TypeOK ==
    /\ locks \in LockSet
    /\ enabled \in BOOLEAN
    /\ nummer \in BOOLEAN
    /\ job \in [Job -> JobSet]
    /\ used \in [requests : 0..MaxRequests, troubles : 0..MaxTroubles]
    /\ disturbed \in BOOLEAN
    /\ raced \in BOOLEAN

\* A person without a personalnummer, who may be locked by hand.
Init ==
    /\ locks \in {{}} \cup {{l} : l \in {m \in Lock : m.occasion = "MANUELL_GESPERRT"}}
    /\ enabled = (locks = {})
    /\ nummer = FALSE
    /\ job = [j \in Job |-> Idle]
    /\ used = [requests |-> 0, troubles |-> 0]
    /\ disturbed = FALSE
    /\ raced = FALSE

----------------------------------------------------------------------------

Trouble ==
    /\ used.troubles < MaxTroubles
    /\ used' = [used EXCEPT !.troubles = @ + 1]

Busy(j) == job[j].at # "idle"

Others(j) == Job \ {j}

\* A request of the given caller begins at a step of updateKeycloakUserStatus.
Begin(j, at, caller, lock) ==
    /\ ~Busy(j)
    /\ used.requests < MaxRequests
    /\ used' = [used EXCEPT !.requests = @ + 1]
    /\ job' = [job EXCEPT ![j] = [at |-> at, caller |-> caller, lock |-> lock]]
    /\ UNCHANGED <<locks, enabled, nummer, disturbed>>

Beside(j, caller) == \E k \in Others(j) : Busy(k) /\ job[k].caller = caller

End(j) == job' = [job EXCEPT ![j] = Idle]

\* What follows updateKeycloakUserStatus: the personalnummer is stored.
Return(j) == IF job[j].caller = "nummer" THEN job' = [job EXCEPT ![j].at = "save"] ELSE End(j)

----------------------------------------------------------------------------
(* Callers                                                                 *)

\* PUT lock-user: by hand, with or without a Befristung.
LockPerson(j, until) ==
    /\ Begin(j, "find", "admin", [occasion |-> "MANUELL_GESPERRT", until |-> until])
    /\ UNCHANGED raced

UnlockPerson(j) ==
    /\ Begin(j, "delete", "admin", [occasion |-> "MANUELL_GESPERRT", until |-> "none"])
    /\ UNCHANGED raced

\* kopers-lock lists a person without personalnummer and KoPers lock.
KopersLock(j) ==
    /\ ~nummer /\ "KOPERS_GESPERRT" \notin Occasions(locks)
    /\ Begin(j, "find", "kopers", [occasion |-> "KOPERS_GESPERRT", until |-> "none"])
    /\ raced' = (raced \/ Beside(j, "nummer"))

\* The cron job for expired locks lists one; it is deleted by its occasion.
UnlockExpired(j) ==
    /\ \E l \in locks : l.until = "past" /\ Begin(j, "delete", "expired", l)
    /\ UNCHANGED raced

\* Mutant: the lock to lift is looked for under the other occasion.
KopersLocks_Manual(L) == {l \in L : l.occasion = "MANUELL_GESPERRT"}

KopersLocks(L) == {l \in L : l.occasion = "KOPERS_GESPERRT"}

\* updatePersonMetadata looks for a KoPers lock before it stores the number.
EnterNummer(j) ==
    /\ IF KopersLocks(locks) = {} THEN Begin(j, "save", "nummer", Idle.lock)
       ELSE \E l \in KopersLocks(locks) : Begin(j, "delete", "nummer", l)
    /\ raced' = (raced \/ Beside(j, "kopers"))

\* The number is stored with the person, or refused: another username, the
\* revision, a duplicate.
SaveNummer(j) ==
    /\ job[j].at = "save"
    /\ nummer' \in {nummer, TRUE}
    /\ End(j)
    /\ UNCHANGED <<locks, enabled, used, disturbed, raced>>

----------------------------------------------------------------------------
(* updateKeycloakUserStatus                                                *)

\* Only a manual lock counts as an existing one.
Find(j) ==
    /\ job[j].at = "find"
    /\ job' = [job EXCEPT ![j].at = IF "MANUELL_GESPERRT" \in Occasions(locks) THEN "update" ELSE "create"]
    /\ UNCHANGED <<locks, enabled, nummer, used, disturbed, raced>>

Enabling(j)  == job[j].at = "enable"
Disabling(j) == job[j].at = "disable"

\* The row is written, and the account is to be disabled; a request that has
\* counted no lock before will enable it nevertheless.
Store(j, L) ==
    /\ locks' = L
    /\ job' = [job EXCEPT ![j].at = "disable"]
    /\ disturbed' = (disturbed \/ \E k \in Others(j) : Enabling(k))
    /\ UNCHANGED <<enabled, nummer, used, raced>>

\* The database or findOneOrFail refuses: an error result.
Refused(j) ==
    /\ End(j)
    /\ UNCHANGED <<locks, enabled, nummer, used, disturbed, raced>>

Admits(L, l) == l.occasion \notin Occasions(L)

Create(j) ==
    /\ job[j].at = "create"
    /\ IF Admits(locks, job[j].lock) THEN Store(j, locks \cup {job[j].lock}) ELSE Refused(j)

\* update finds some lock of the person and assigns every field, the occasion
\* included.
Update(j) ==
    /\ job[j].at = "update"
    /\ IF locks = {} THEN Refused(j)
       ELSE \E l \in locks : IF Admits(locks \ {l}, job[j].lock) THEN Store(j, (locks \ {l}) \cup {job[j].lock})
                             ELSE Refused(j)

Disable(j) ==
    /\ job[j].at = "disable"
    /\ enabled' = FALSE
    /\ End(j)
    /\ UNCHANGED <<locks, nummer, used, disturbed, raced>>

\* deleteUserLock by person and occasion; a request that has stored a lock which
\* is gone now will disable the account nevertheless.
Delete(j) ==
    /\ job[j].at = "delete"
    /\ locks' = {l \in locks : l.occasion # job[j].lock.occasion}
    /\ job' = [job EXCEPT ![j].at = "count"]
    /\ disturbed' = (disturbed \/ (locks' = {} /\ \E k \in Job : Disabling(k)))
    /\ UNCHANGED <<enabled, nummer, used, raced>>

\* Mutant: the account is enabled although another lock is left.
Unlocked_Always(L) == TRUE

Unlocked(L) == L = {}

Count(j) ==
    /\ job[j].at = "count"
    /\ IF Unlocked(locks) THEN job' = [job EXCEPT ![j].at = "enable"] ELSE Return(j)
    /\ UNCHANGED <<locks, enabled, nummer, used, disturbed, raced>>

Enable(j) ==
    /\ job[j].at = "enable"
    /\ enabled' = TRUE
    /\ Return(j)
    /\ UNCHANGED <<locks, nummer, used, disturbed, raced>>

\* A call fails, or the process stops: the rest is not done.
Fail(j) ==
    /\ Busy(j)
    /\ Trouble
    /\ End(j)
    /\ disturbed' = (disturbed \/ job[j].at \in {"disable", "count", "enable"})
    /\ UNCHANGED <<locks, enabled, nummer, raced>>

\* The limit of a lock passes.
Expire ==
    /\ \E l \in locks : /\ l.until = "future"
                        /\ locks' = (locks \ {l}) \cup {[l EXCEPT !.until = "past"]}
    /\ UNCHANGED <<enabled, nummer, job, used, disturbed, raced>>

Step(j) ==
    \/ \E until \in {"none", "future"} : LockPerson(j, until)
    \/ UnlockPerson(j) \/ KopersLock(j) \/ UnlockExpired(j) \/ EnterNummer(j)
    \/ Find(j) \/ Create(j) \/ Update(j) \/ Disable(j)
    \/ Delete(j) \/ Count(j) \/ Enable(j) \/ SaveNummer(j)
    \/ Fail(j)

Next == Expire \/ \E j \in Job : Step(j)

Spec == Init /\ [][Next]_vars

----------------------------------------------------------------------------
(* Properties                                                              *)

\* A request has changed the rows, and Keycloak is still to follow.
Pending == \E j \in Job : job[j].at \in {"count", "enable", "disable"}

Account == INSTANCE LockedAccount WITH
    reasons  <- Occasions(locks),
    open     <- IF Pending THEN locks = {} ELSE enabled,
    promised <- ~disturbed

\* updateKeycloakUserStatus, step by step and beside other requests, locks and
\* unlocks the account as if at once, as LockedAccount states it, unless a call
\* failed half-way, a lock was stored between the count and the enabling of an
\* unlock, or a lock was lifted before its request had disabled the account.
ImplementsAccount == Account!AccountSpec

\* A person with a personalnummer is not locked for the lack of one, in spite of
\* locks by hand, expiry and failing calls, unless the cron job ran beside the
\* request that entered the number.
NumberLiftsLock == (nummer /\ ~raced) => "KOPERS_GESPERRT" \notin Occasions(locks)

=============================================================================
