-------------------------- MODULE UserLocksProofs --------------------------
(***************************************************************************)
(* Proofs about UserLocks for every number of requests and of failing      *)
(* calls.                                                                  *)
(*                                                                         *)
(* The inductive invariant says what the steps of the requests owe to the  *)
(* account: while nothing is disturbed, a request that will disable it has *)
(* a lock to point to, one that will enable it sees none, and an account   *)
(* that does not fit the rows has a request that will change it.           *)
(***************************************************************************)
EXTENDS UserLocks, TLAPS

\* What a step of a request relies on.
StepsInv ==
    \A j \in Job : /\ Disabling(j) => locks # {}
                   /\ Enabling(j) => locks = {}

\* An account that does not fit the rows is about to be changed.
FollowsInv ==
    /\ (locks = {} /\ ~enabled) => \E j \in Job : job[j].at \in {"count", "enable"}
    /\ (locks # {} /\ enabled) => \E j \in Job : Disabling(j)

AccountInv == ~disturbed => StepsInv /\ FollowsInv

IInv == TypeOK /\ AccountInv

----------------------------------------------------------------------------

LEMMA IdleIsJob == Idle \in JobSet
  BY DEF Idle, JobSet, At, Caller, Lock, Occasion

\* What each step of a request does to the request.
LEMMA BeginsTyped ==
    ASSUME TypeOK, NEW j \in Job, NEW at \in At, NEW caller \in Caller, NEW lock \in Lock,
           Begin(j, at, caller, lock)
    PROVE  job' \in [Job -> JobSet] /\ used' \in [requests : 0..MaxRequests, troubles : 0..MaxTroubles]
  BY BoundsAssumption DEF TypeOK, Begin, JobSet

LEMMA EndsTyped ==
    ASSUME TypeOK, NEW j \in Job, End(j) \/ Return(j)
    PROVE  job' \in [Job -> JobSet]
  BY IdleIsJob DEF TypeOK, End, Return, JobSet, At

\* The rows stay a set of locks with different occasions.
LEMMA StoresTyped ==
    ASSUME TypeOK, NEW L \in SUBSET locks, NEW l \in Lock, Admits(L, l)
    PROVE  L \cup {l} \in LockSet
  BY DEF TypeOK, LockSet, Admits, Occasions

\* Types are kept by every step.
LEMMA TypeStep == TypeOK /\ [Next]_vars => TypeOK'
  <1> SUFFICES ASSUME TypeOK, [Next]_vars PROVE TypeOK'
    OBVIOUS
  <1>1. CASE UNCHANGED vars
    BY <1>1 DEF vars, TypeOK
  <1>2. CASE Expire
    <2>1. PICK l \in locks : locks' = (locks \ {l}) \cup {[l EXCEPT !.until = "past"]}
      BY <1>2 DEF Expire
    <2>2. l \in Lock /\ [l EXCEPT !.until = "past"] \in Lock /\ [l EXCEPT !.until = "past"].occasion = l.occasion
      BY DEF TypeOK, LockSet, Lock
    <2>3. Admits(locks \ {l}, [l EXCEPT !.until = "past"])
      BY <2>2 DEF Admits, Occasions, TypeOK, LockSet
    <2>4. locks' \in LockSet
      BY <2>1, <2>2, <2>3, StoresTyped
    <2> QED
      BY <1>2, <2>4 DEF Expire, TypeOK
  <1>3. ASSUME NEW j \in Job, Step(j) PROVE TypeOK'
    <2> USE <1>3
    <2>1. ASSUME NEW until \in {"none", "future"}, LockPerson(j, until) PROVE TypeOK'
      <3>1. [occasion |-> "MANUELL_GESPERRT", until |-> until] \in Lock
        BY DEF Lock, Occasion
      <3> QED
        BY <2>1, <3>1, BeginsTyped DEF LockPerson, Begin, TypeOK, At, Caller
    <2>2. CASE UnlockPerson(j)
      <3>1. [occasion |-> "MANUELL_GESPERRT", until |-> "none"] \in Lock
        BY DEF Lock, Occasion
      <3> QED
        BY <2>2, <3>1, BeginsTyped DEF UnlockPerson, Begin, TypeOK, At, Caller
    <2>3. CASE KopersLock(j)
      <3>1. [occasion |-> "KOPERS_GESPERRT", until |-> "none"] \in Lock
        BY DEF Lock, Occasion
      <3>2. job' \in [Job -> JobSet] /\ used' \in [requests : 0..MaxRequests, troubles : 0..MaxTroubles]
        BY <2>3, <3>1, BeginsTyped DEF KopersLock, At, Caller
      <3>3. raced' \in BOOLEAN
        BY <2>3 DEF KopersLock, Beside, TypeOK
      <3> QED
        BY <2>3, <3>2, <3>3 DEF KopersLock, Begin, TypeOK
    <2>4. CASE UnlockExpired(j)
      <3>1. PICK l \in locks : Begin(j, "delete", "expired", l)
        BY <2>4 DEF UnlockExpired
      <3>2. l \in Lock
        BY DEF TypeOK, LockSet
      <3> QED
        BY <2>4, <3>1, <3>2, BeginsTyped DEF UnlockExpired, Begin, TypeOK, At, Caller
    <2>5. CASE EnterNummer(j)
      <3>1. PICK at \in At, l \in Lock : Begin(j, at, "nummer", l)
        <4>1. Idle.lock \in Lock
          BY DEF Idle, Lock, Occasion
        <4>2. \A l \in KopersLocks(locks) : l \in Lock
          BY DEF KopersLocks, TypeOK, LockSet
        <4>3. "save" \in At /\ "delete" \in At
          BY DEF At
        <4>4. CASE KopersLocks(locks) = {}
          BY <2>5, <4>1, <4>3, <4>4 DEF EnterNummer
        <4>5. CASE KopersLocks(locks) # {}
          <5>1. PICK l \in KopersLocks(locks) : Begin(j, "delete", "nummer", l)
            BY <2>5, <4>5 DEF EnterNummer
          <5> QED
            BY <4>2, <4>3, <5>1
        <4> QED
          BY <4>4, <4>5
      <3>2. job' \in [Job -> JobSet] /\ used' \in [requests : 0..MaxRequests, troubles : 0..MaxTroubles]
        BY <3>1, BeginsTyped DEF Caller
      <3>3. raced' \in BOOLEAN
        BY <2>5 DEF EnterNummer, Beside, TypeOK
      <3> QED
        BY <3>1, <3>2, <3>3 DEF Begin, TypeOK
    <2>6. CASE Find(j)
      BY <2>6 DEF Find, TypeOK, JobSet, At
    <2>7. ASSUME NEW L \in LockSet, Store(j, L) PROVE TypeOK'
      <3>1. job' \in [Job -> JobSet]
        BY <2>7 DEF Store, TypeOK, JobSet, At
      <3>2. disturbed' \in BOOLEAN
        BY <2>7 DEF Store, TypeOK
      <3> QED
        BY <2>7, <3>1, <3>2 DEF Store, TypeOK
    <2>8. CASE Refused(j)
      BY <2>8, EndsTyped DEF Refused, TypeOK
    <2>9. job[j].lock \in Lock
      BY DEF TypeOK, JobSet
    <2>10. CASE Create(j)
      <3>1. CASE Admits(locks, job[j].lock)
        BY <2>7, <2>9, <2>10, <3>1, StoresTyped DEF Create
      <3> QED
        BY <2>8, <2>10, <3>1 DEF Create
    <2>11. CASE Update(j)
      <3>1. CASE Refused(j)
        BY <2>8, <3>1
      <3>2. CASE ~Refused(j)
        <4>1. PICK l \in locks : Admits(locks \ {l}, job[j].lock) /\ Store(j, (locks \ {l}) \cup {job[j].lock})
          BY <2>11, <3>2 DEF Update
        <4> QED
          BY <2>7, <2>9, <4>1, StoresTyped
      <3> QED
        BY <3>1, <3>2
    <2>12. CASE Disable(j)
      BY <2>12, EndsTyped DEF Disable, TypeOK
    <2>13. CASE Delete(j)
      <3>1. locks' \in LockSet
        BY <2>13 DEF Delete, TypeOK, LockSet
      <3>2. job' \in [Job -> JobSet]
        BY <2>13 DEF Delete, TypeOK, JobSet, At
      <3>3. disturbed' \in BOOLEAN
        BY <2>13 DEF Delete, TypeOK
      <3> QED
        BY <2>13, <3>1, <3>2, <3>3 DEF Delete, TypeOK
    <2>14. CASE Count(j)
      <3>1. job' \in [Job -> JobSet]
        BY <2>14, EndsTyped DEF Count, TypeOK, JobSet, At
      <3> QED
        BY <2>14, <3>1 DEF Count, TypeOK
    <2>15. CASE Enable(j)
      BY <2>15, EndsTyped DEF Enable, TypeOK
    <2>16. CASE SaveNummer(j)
      <3>1. nummer' \in BOOLEAN
        BY <2>16 DEF SaveNummer, TypeOK
      <3> QED
        BY <2>16, <3>1, EndsTyped DEF SaveNummer, TypeOK
    <2>17. CASE Fail(j)
      <3>1. used' \in [requests : 0..MaxRequests, troubles : 0..MaxTroubles]
        BY <2>17, BoundsAssumption DEF Fail, Trouble, TypeOK
      <3>2. disturbed' \in BOOLEAN
        BY <2>17 DEF Fail, TypeOK
      <3> QED
        BY <2>17, <3>1, <3>2, EndsTyped DEF Fail, TypeOK
    <2> QED
      BY <2>1, <2>2, <2>3, <2>4, <2>5, <2>6, <2>10, <2>11, <2>12, <2>13, <2>14, <2>15, <2>16, <2>17 DEF Step
  <1> QED
    BY <1>1, <1>2, <1>3 DEF Next

LEMMA TypeInit == Init => TypeOK
  <1> SUFFICES ASSUME Init PROVE TypeOK
    OBVIOUS
  <1>1. locks \in LockSet
    BY DEF Init, LockSet
  <1>2. job \in [Job -> JobSet]
    BY IdleIsJob DEF Init
  <1>3. used \in [requests : 0..MaxRequests, troubles : 0..MaxTroubles]
    BY BoundsAssumption DEF Init
  <1> QED
    BY <1>1, <1>2, <1>3 DEF Init, TypeOK

\* Every value of UserLocks has its type, and no occasion has two locks.
THEOREM TypeCorrect == Spec => []TypeOK
  BY TypeInit, TypeStep, PTL DEF Spec

----------------------------------------------------------------------------
(* The account follows the rows                                            *)

\* The steps at which a request owes something to the account.
Owing == {"count", "enable", "disable"}

\* A step that leaves rows and account alone, of a request that owes nothing
\* before and after it.
LEMMA StepAside ==
    ASSUME AccountInv, NEW j \in Job, job[j].at \notin Owing, job'[j].at \notin Owing,
           \A k \in Job \ {j} : job'[k] = job[k],
           UNCHANGED <<locks, enabled, disturbed>>
    PROVE  AccountInv'
  BY DEF AccountInv, StepsInv, FollowsInv, Enabling, Disabling, Owing

\* A request that begins owes nothing yet.
LEMMA BeginAside ==
    ASSUME TypeOK, AccountInv, NEW j \in Job, NEW at \in At \ Owing, NEW caller, NEW lock, Begin(j, at, caller, lock)
    PROVE  AccountInv'
  <1>1. job[j].at \notin Owing
    BY DEF Begin, Busy, Owing
  <1>2. job'[j].at \notin Owing /\ \A k \in Job \ {j} : job'[k] = job[k]
    BY DEF Begin, TypeOK
  <1> QED
    BY <1>1, <1>2, StepAside DEF Begin

LEMMA EndsAside ==
    ASSUME TypeOK, NEW j \in Job, End(j) \/ Return(j)
    PROVE  job'[j].at \notin Owing /\ \A k \in Job \ {j} : job'[k] = job[k]
  BY DEF TypeOK, JobSet, End, Return, Idle, Owing

\* The account keeps following the rows.
LEMMA AccountStep == TypeOK /\ AccountInv /\ [Next]_vars => AccountInv'
  <1> SUFFICES ASSUME TypeOK, AccountInv, [Next]_vars PROVE AccountInv'
    OBVIOUS
  <1>1. CASE UNCHANGED vars
    BY <1>1 DEF vars, AccountInv, StepsInv, FollowsInv, Enabling, Disabling
  <1>2. CASE Expire
    <2>1. locks # {} /\ locks' # {}
      BY <1>2 DEF Expire
    <2> QED
      BY <1>2, <2>1 DEF Expire, AccountInv, StepsInv, FollowsInv, Enabling, Disabling
  <1>3. ASSUME NEW j \in Job, Step(j) PROVE AccountInv'
    <2>1. ASSUME NEW until \in {"none", "future"}, LockPerson(j, until) PROVE AccountInv'
      BY <2>1, BeginAside DEF LockPerson, At, Owing
    <2>2. CASE UnlockPerson(j)
      BY <2>2, BeginAside DEF UnlockPerson, At, Owing
    <2>3. CASE KopersLock(j)
      BY <2>3, BeginAside DEF KopersLock, At, Owing
    <2>4. CASE UnlockExpired(j)
      BY <2>4, BeginAside DEF UnlockExpired, At, Owing
    <2>5. CASE EnterNummer(j)
      BY <2>5, BeginAside DEF EnterNummer, At, Owing
    <2>6. CASE Find(j)
      <3>1. job[j].at \notin Owing /\ job'[j].at \notin Owing /\ \A k \in Job \ {j} : job'[k] = job[k]
        BY <2>6 DEF Find, TypeOK, JobSet, Owing
      <3> QED
        BY <2>6, <3>1, StepAside DEF Find
    <2>7. ASSUME NEW L \in LockSet, L # {}, Store(j, L) PROVE AccountInv'
      <3>1. job'[j].at = "disable" /\ \A k \in Job \ {j} : job'[k] = job[k]
        BY <2>7 DEF Store, TypeOK, JobSet
      <3> QED
        BY <2>7, <3>1 DEF Store, Others, AccountInv, StepsInv, FollowsInv, Enabling, Disabling
    <2>8. ASSUME Refused(j), job[j].at \notin Owing PROVE AccountInv'
      BY <2>8, EndsAside, StepAside DEF Refused
    <2>9. job[j].lock \in Lock
      BY DEF TypeOK, JobSet
    <2>10. CASE Create(j)
      <3>1. CASE Admits(locks, job[j].lock)
        BY <2>7, <2>9, <2>10, <3>1, StoresTyped DEF Create
      <3> QED
        BY <2>8, <2>10, <3>1 DEF Create, Owing
    <2>11. CASE Update(j)
      <3>1. CASE Refused(j)
        BY <2>8, <2>11, <3>1 DEF Update, Owing
      <3>2. CASE ~Refused(j)
        <4>1. PICK l \in locks : Admits(locks \ {l}, job[j].lock) /\ Store(j, (locks \ {l}) \cup {job[j].lock})
          BY <2>11, <3>2 DEF Update
        <4> QED
          BY <2>7, <2>9, <4>1, StoresTyped
      <3> QED
        BY <3>1, <3>2
    <2>12. CASE Disable(j)
      <3>1. job'[j].at \notin Owing /\ \A k \in Job \ {j} : job'[k] = job[k]
        BY <2>12, EndsAside DEF Disable
      <3> QED
        BY <2>12, <3>1 DEF Disable, AccountInv, StepsInv, FollowsInv, Enabling, Disabling, Owing
    <2>13. CASE Delete(j)
      <3>1. job'[j].at = "count" /\ \A k \in Job \ {j} : job'[k] = job[k]
        BY <2>13 DEF Delete, TypeOK, JobSet
      <3>2. locks' \subseteq locks
        BY <2>13 DEF Delete
      <3> QED
        BY <2>13, <3>1, <3>2 DEF Delete, AccountInv, StepsInv, FollowsInv, Enabling, Disabling
    <2>14. CASE Count(j)
      <3>1. CASE locks = {}
        <4>1. job'[j].at = "enable" /\ \A k \in Job \ {j} : job'[k] = job[k]
          BY <2>14, <3>1 DEF Count, Unlocked, TypeOK, JobSet
        <4> QED
          BY <2>14, <3>1, <4>1 DEF Count, AccountInv, StepsInv, FollowsInv, Enabling, Disabling
      <3>2. CASE locks # {}
        <4>1. job'[j].at \notin Owing /\ \A k \in Job \ {j} : job'[k] = job[k]
          BY <2>14, <3>2, EndsAside DEF Count, Unlocked
        <4> QED
          BY <2>14, <3>2, <4>1 DEF Count, AccountInv, StepsInv, FollowsInv, Enabling, Disabling, Owing
      <3> QED
        BY <3>1, <3>2
    <2>15. CASE Enable(j)
      <3>1. job'[j].at \notin Owing /\ \A k \in Job \ {j} : job'[k] = job[k]
        BY <2>15, EndsAside DEF Enable
      <3> QED
        BY <2>15, <3>1 DEF Enable, AccountInv, StepsInv, FollowsInv, Enabling, Disabling, Owing
    <2>16. CASE SaveNummer(j)
      BY <2>16, EndsAside, StepAside DEF SaveNummer, Owing
    <2>17. CASE Fail(j)
      <3>1. CASE job[j].at \in Owing
        BY <2>17, <3>1 DEF Fail, AccountInv, Owing
      <3>2. CASE job[j].at \notin Owing
        <4>1. ~disturbed' => ~disturbed
          BY <2>17 DEF Fail
        <4>2. UNCHANGED <<locks, enabled>>
          BY <2>17 DEF Fail
        <4>3. job'[j].at \notin Owing /\ \A k \in Job \ {j} : job'[k] = job[k]
          BY <2>17, EndsAside DEF Fail
        <4> QED
          BY <3>2, <4>1, <4>2, <4>3 DEF AccountInv, StepsInv, FollowsInv, Enabling, Disabling, Owing
      <3> QED
        BY <3>1, <3>2
    <2> QED
      BY <1>3, <2>1, <2>2, <2>3, <2>4, <2>5, <2>6, <2>10, <2>11, <2>12, <2>13, <2>14, <2>15, <2>16, <2>17 DEF Step
  <1> QED
    BY <1>1, <1>2, <1>3 DEF Next

LEMMA AccountInit == Init => AccountInv
  <1> SUFFICES ASSUME Init PROVE AccountInv
    OBVIOUS
  <1>1. enabled <=> locks = {}
    BY DEF Init
  <1>2. \A j \in Job : job[j].at = "idle"
    BY DEF Init, Idle
  <1> QED
    BY <1>1, <1>2 DEF AccountInv, StepsInv, FollowsInv, Enabling, Disabling

LEMMA AccountInvariance == Spec => []IInv
  <1>1. Init => IInv
    BY TypeInit, AccountInit DEF IInv
  <1>2. IInv /\ [Next]_vars => IInv'
    BY TypeStep, AccountStep DEF IInv
  <1> QED
    BY <1>1, <1>2, PTL DEF Spec

\* While nothing is disturbed and no request owes a change to the account, it is
\* enabled exactly if the person has no lock.
AccountMatchesLocks == (~disturbed /\ ~Pending) => (enabled <=> locks = {})

THEOREM AccountFollowsLocks == Spec => []AccountMatchesLocks
  <1>1. IInv => AccountMatchesLocks
    BY DEF IInv, TypeOK, AccountInv, FollowsInv, AccountMatchesLocks, Pending, Disabling
  <1> QED
    BY <1>1, AccountInvariance, PTL

----------------------------------------------------------------------------
(* UserLocks implements LockedAccount                                      *)

\* The account as LockedAccount sees it.
Open == IF Pending THEN locks = {} ELSE enabled

LEMMA OpenFits == IInv /\ ~disturbed => Open = (Occasions(locks) = {})
  <1> SUFFICES ASSUME IInv, ~disturbed PROVE Open = (locks = {})
    BY DEF Occasions
  <1>1. CASE Pending
    BY <1>1 DEF Open
  <1>2. CASE ~Pending
    <2>1. enabled \in BOOLEAN
      BY DEF IInv, TypeOK
    <2>2. enabled <=> locks = {}
      BY <1>2 DEF IInv, AccountInv, FollowsInv, Pending, Disabling
    <2> QED
      BY <1>2, <2>1, <2>2 DEF Open
  <1> QED
    BY <1>1, <1>2

\* What the steps do to the occasions.
SameOccasions == Occasions(locks') = Occasions(locks)

LEMMA OccasionsStep ==
    ASSUME TypeOK, Next
    PROVE  \/ SameOccasions
           \/ \E o \in Occasion : Occasions(locks') = Occasions(locks) \cup {o}
           \/ \E o \in Occasion : Occasions(locks') = Occasions(locks) \ {o}
           \/ \E o \in Occasion, other \in Occasion :
                 other \in Occasions(locks) /\ Occasions(locks') = (Occasions(locks) \ {other}) \cup {o}
  <1>1. CASE Expire
    <2>1. PICK l \in locks : locks' = (locks \ {l}) \cup {[l EXCEPT !.until = "past"]}
      BY <1>1 DEF Expire
    <2>2. l \in Lock /\ [l EXCEPT !.until = "past"].occasion = l.occasion
      BY DEF TypeOK, LockSet, Lock
    <2> QED
      BY <2>1, <2>2 DEF SameOccasions, Occasions
  <1>2. ASSUME NEW j \in Job, Create(j) \/ Update(j) \/ Delete(j)
        PROVE  \/ SameOccasions
               \/ \E o \in Occasion : Occasions(locks') = Occasions(locks) \cup {o}
               \/ \E o \in Occasion : Occasions(locks') = Occasions(locks) \ {o}
               \/ \E o \in Occasion, other \in Occasion :
                     other \in Occasions(locks) /\ Occasions(locks') = (Occasions(locks) \ {other}) \cup {o}
    <2> DEFINE o == job[j].lock.occasion
    <2>1. o \in Occasion
      BY DEF TypeOK, JobSet, Lock
    <2>2. CASE UNCHANGED locks
      BY <2>2 DEF SameOccasions
    <2>3. CASE Create(j) /\ ~UNCHANGED locks
      <3>1. locks' = locks \cup {job[j].lock}
        BY <2>3 DEF Create, Store, Refused
      <3>2. Occasions(locks') = Occasions(locks) \cup {o}
        BY <3>1 DEF Occasions
      <3> QED
        BY <2>1, <3>2
    <2>4. CASE Update(j) /\ ~UNCHANGED locks
      <3>1. PICK l \in locks : locks' = (locks \ {l}) \cup {job[j].lock}
        BY <2>4 DEF Update, Store, Refused
      <3>2. l.occasion \in Occasion /\ l.occasion \in Occasions(locks)
        BY DEF TypeOK, LockSet, Lock, Occasions
      <3>3. Occasions(locks \ {l}) = Occasions(locks) \ {l.occasion}
        BY DEF TypeOK, LockSet, Occasions
      <3>4. Occasions(locks') = Occasions(locks \ {l}) \cup {o}
        BY <3>1 DEF Occasions
      <3> QED
        BY <2>1, <3>2, <3>3, <3>4
    <2>5. CASE Delete(j)
      <3>1. Occasions(locks') = Occasions(locks) \ {o}
        BY <2>5 DEF Delete, Occasions
      <3> QED
        BY <2>1, <3>1
    <2> QED
      BY <1>2, <2>2, <2>3, <2>4, <2>5
  <1>3. ASSUME NEW j \in Job, Step(j), ~(Create(j) \/ Update(j) \/ Delete(j)) PROVE UNCHANGED locks
    BY <1>3 DEF Step, LockPerson, UnlockPerson, KopersLock, UnlockExpired, EnterNummer, Begin, Find, Disable,
                Count, Enable, SaveNummer, Fail
  <1> QED
    BY <1>1, <1>2, <1>3 DEF Next, SameOccasions

\* updateKeycloakUserStatus, called by anybody and interleaved in any way, locks
\* and unlocks the account as LockedAccount promises.
THEOREM LocksImplementAccount == Spec => ImplementsAccount
  <1>1. Init => Account!AccountInit
    <2> SUFFICES ASSUME Init PROVE Account!AccountInit
      OBVIOUS
    <2>1. IInv /\ ~disturbed
      BY TypeInit, AccountInit DEF IInv, Init
    <2>2. Occasions(locks) \subseteq Occasion
      BY <2>1 DEF IInv, TypeOK, LockSet, Lock, Occasions
    <2> QED
      BY <2>1, <2>2, OpenFits DEF Account!AccountInit, Open
  <1>2. IInv /\ IInv' /\ [Next]_vars => [Account!AccountNext]_Account!account
    <2> SUFFICES ASSUME IInv, IInv', [Next]_vars PROVE [Account!AccountNext]_Account!account
      OBVIOUS
    <2>1. CASE UNCHANGED vars
      BY <2>1 DEF vars, Account!account, Pending
    <2>2. CASE disturbed'
      BY <2>2 DEF Account!AccountNext
    <2>3. CASE Next /\ ~disturbed'
      <3>1. ~disturbed
        BY <2>3 DEF Next, Expire, Step, LockPerson, UnlockPerson, KopersLock, UnlockExpired, EnterNummer, Begin, Find,
                    Create, Update, Store, Refused, Disable, Delete, Count, Enable, SaveNummer, Fail
      <3>2. Open = (Occasions(locks) = {}) /\ Open' = (Occasions(locks)' = {})
        <4>1. (IInv /\ ~disturbed => Open = (Occasions(locks) = {}))'
          BY OpenFits, PTL
        <4>2. Open' = (Occasions(locks)' = {})
          BY <2>3, <4>1
        <4> QED
          BY <3>1, <4>2, OpenFits
      <3>3. Occasions(locks)' = Occasions(locks')
        BY DEF Occasions
      <3>4. CASE SameOccasions
        BY <2>3, <3>1, <3>2, <3>3, <3>4 DEF SameOccasions, Account!account, Open
      <3>5. ASSUME NEW o \in Occasion, Occasions(locks') = Occasions(locks) \cup {o}
            PROVE  Account!AccountNext
        <4>1. Account!Lock(o)
          BY <3>2, <3>3, <3>5 DEF Account!Lock, Open
        <4> QED
          BY <2>3, <3>1, <4>1 DEF Account!AccountNext
      <3>6. ASSUME NEW o \in Occasion, Occasions(locks') = Occasions(locks) \ {o}
            PROVE  Account!AccountNext
        <4>1. Account!Unlock(o)
          BY <3>2, <3>3, <3>6 DEF Account!Unlock, Open
        <4> QED
          BY <2>3, <3>1, <4>1 DEF Account!AccountNext
      <3>7. ASSUME NEW o \in Occasion, NEW other \in Occasion, other \in Occasions(locks),
                   Occasions(locks') = (Occasions(locks) \ {other}) \cup {o}
            PROVE  Account!AccountNext
        <4>1. Account!Supplant(o, other)
          BY <3>2, <3>3, <3>7 DEF Account!Supplant, Open
        <4> QED
          BY <2>3, <3>1, <4>1 DEF Account!AccountNext
      <3> QED
        BY <2>3, <3>4, <3>5, <3>6, <3>7, OccasionsStep DEF IInv
    <2> QED
      BY <2>1, <2>2, <2>3
  <1> QED
    BY <1>1, <1>2, AccountInvariance, PTL DEF Spec, ImplementsAccount, Account!AccountSpec

----------------------------------------------------------------------------
(* The personalnummer lifts the lock for the lack of it                    *)

Kopers == "KOPERS_GESPERRT" \in Occasions(locks)

Running(j, caller) == Busy(j) /\ job[j].caller = caller

\* Only the cron job stores KoPers locks, and only the request that enters the
\* number goes on to save it.
CallerInv ==
    \A j \in Job :
        /\ job[j].at \in {"find", "update", "create"} =>
              \/ job[j].caller = "kopers"
              \/ job[j].caller = "admin" /\ job[j].lock.occasion = "MANUELL_GESPERRT"
        /\ Running(j, "kopers") => job[j].at \in {"find", "update", "create", "disable"}
        /\ Running(j, "nummer") => job[j].at \in {"delete", "count", "enable", "save"}
        /\ Running(j, "nummer") /\ job[j].at = "delete" => job[j].lock.occasion = "KOPERS_GESPERRT"
        /\ job[j].at = "save" => job[j].caller = "nummer"

\* Without a race, no KoPers lock can appear once the request has seen or
\* lifted the last one.
NumberInv ==
    ~raced =>
        /\ \A j, k \in Job : ~(Running(j, "kopers") /\ Running(k, "nummer"))
        /\ nummer => ~Kopers /\ \A j \in Job : ~Running(j, "kopers")
        /\ \A j \in Job : Running(j, "nummer") /\ job[j].at # "delete" => ~Kopers

NIInv == TypeOK /\ CallerInv /\ NumberInv

\* A step of one request leaves the others alone.
LEMMA OthersStay ==
    ASSUME TypeOK, NEW j \in Job, Step(j)
    PROVE  \A k \in Job \ {j} : job'[k] = job[k]
  BY DEF Step, LockPerson, UnlockPerson, KopersLock, UnlockExpired, EnterNummer, Begin, Find, Create, Update,
         Store, Refused, Disable, Delete, Count, Enable, SaveNummer, Fail, End, Return, TypeOK

LEMMA CallerStep == TypeOK /\ CallerInv /\ [Next]_vars => CallerInv'
  <1> SUFFICES ASSUME TypeOK, CallerInv, [Next]_vars PROVE CallerInv'
    OBVIOUS
  <1> USE DEF CallerInv, Running, Busy
  <1>1. CASE UNCHANGED vars
    BY <1>1 DEF vars
  <1>2. CASE Expire
    BY <1>2 DEF Expire
  <1>3. ASSUME NEW j \in Job, Step(j) PROVE CallerInv'
    <2>1. \A k \in Job \ {j} : job'[k] = job[k]
      BY <1>3, OthersStay
    <2>2. CASE \/ \E until \in {"none", "future"} : LockPerson(j, until)
               \/ UnlockPerson(j) \/ KopersLock(j) \/ UnlockExpired(j)
      BY <2>1, <2>2 DEF LockPerson, UnlockPerson, KopersLock, UnlockExpired, Begin, TypeOK
    <2>3. CASE EnterNummer(j)
      BY <2>1, <2>3 DEF EnterNummer, KopersLocks, Begin, TypeOK
    <2>4. CASE End(j)
      BY <2>1, <2>4 DEF End, Idle, TypeOK
    <2>5. CASE Find(j)
      BY <2>1, <2>5 DEF Find, TypeOK, JobSet
    <2>6. CASE Create(j) \/ Update(j)
      <3>1. CASE job' = [job EXCEPT ![j].at = "disable"]
        BY <2>1, <2>6, <3>1 DEF Create, Update, TypeOK, JobSet
      <3> QED
        BY <2>4, <2>6, <3>1 DEF Create, Update, Store, Refused
    <2>7. CASE Delete(j)
      BY <2>1, <2>7 DEF Delete, TypeOK, JobSet
    <2>8. CASE Count(j) \/ Enable(j)
      <3>1. CASE job' = [job EXCEPT ![j].at = "enable"] \/ (job[j].caller = "nummer" /\ job' = [job EXCEPT ![j].at = "save"])
        BY <2>1, <2>8, <3>1 DEF Count, Enable, TypeOK, JobSet
      <3> QED
        BY <2>4, <2>8, <3>1 DEF Count, Enable, Return
    <2> QED
      BY <1>3, <2>2, <2>3, <2>4, <2>5, <2>6, <2>7, <2>8 DEF Step, Disable, SaveNummer, Fail
  <1> QED
    BY <1>1, <1>2, <1>3 DEF Next

\* A KoPers lock appears only by a request of the cron job, and is gone after a
\* deletion by its occasion.
LEMMA KopersStep ==
    ASSUME TypeOK, CallerInv, NEW j \in Job, Step(j)
    PROVE  /\ Kopers' => Kopers \/ Running(j, "kopers")
           /\ Delete(j) /\ job[j].lock.occasion = "KOPERS_GESPERRT" => ~Kopers'
  <1>1. CASE Create(j) \/ Update(j)
    <2>1. CASE UNCHANGED locks
      BY <1>1, <2>1 DEF Kopers, Create, Update, Delete
    <2>2. CASE ~UNCHANGED locks
      <3>1. locks' \subseteq locks \cup {job[j].lock}
        BY <1>1, <2>2 DEF Create, Update, Store, Refused
      <3>2. Running(j, "kopers") \/ job[j].lock.occasion = "MANUELL_GESPERRT"
        BY <1>1 DEF CallerInv, Create, Update, Running, Busy
      <3> QED
        BY <1>1, <3>1, <3>2 DEF Kopers, Occasions, Create, Update, Delete
    <2> QED
      BY <2>1, <2>2
  <1>2. CASE Delete(j)
    BY <1>2 DEF Delete, Kopers, Occasions
  <1>3. CASE ~(Create(j) \/ Update(j) \/ Delete(j))
    <2>1. UNCHANGED locks
      BY <1>3 DEF Step, LockPerson, UnlockPerson, KopersLock, UnlockExpired, EnterNummer, Begin, Find, Disable,
                  Count, Enable, SaveNummer, Fail
    <2> QED
      BY <1>3, <2>1 DEF Kopers
  <1> QED
    BY <1>1, <1>2, <1>3

LEMMA NumberStep == TypeOK /\ CallerInv /\ CallerInv' /\ NumberInv /\ [Next]_vars => NumberInv'
  <1> SUFFICES ASSUME TypeOK, CallerInv, CallerInv', NumberInv, [Next]_vars PROVE NumberInv'
    OBVIOUS
  <1>1. CASE UNCHANGED vars
    BY <1>1 DEF vars, NumberInv, Running, Busy, Kopers
  <1>2. CASE Expire
    <2>1. PICK l \in locks : locks' = (locks \ {l}) \cup {[l EXCEPT !.until = "past"]}
      BY <1>2 DEF Expire
    <2>2. l \in Lock /\ [l EXCEPT !.until = "past"].occasion = l.occasion
      BY DEF TypeOK, LockSet, Lock
    <2>3. Kopers' = Kopers
      BY <2>1, <2>2 DEF Kopers, Occasions
    <2> QED
      BY <1>2, <2>3 DEF Expire, NumberInv, Running, Busy
  <1>3. ASSUME NEW j \in Job, Step(j), ~raced' PROVE NumberInv'
    <2>1. ~raced
      BY <1>3 DEF Step, LockPerson, UnlockPerson, KopersLock, UnlockExpired, EnterNummer, Find, Create, Update,
                  Store, Refused, Disable, Delete, Count, Enable, SaveNummer, Fail
    <2>2. \A k \in Job \ {j} : job'[k] = job[k]
      BY <1>3, OthersStay
    <2>3. CASE KopersLock(j)
      <3>1. ~nummer' /\ Kopers' = Kopers /\ \A k \in Job \ {j} : ~Running(k, "nummer")
        BY <1>3, <2>3 DEF KopersLock, Begin, Beside, Others, Running, Kopers
      <3>2. job'[j].caller = "kopers"
        BY <2>3 DEF KopersLock, Begin, TypeOK
      <3> QED
        BY <2>1, <2>2, <3>1, <3>2 DEF NumberInv, Running, Busy
    <2>4. CASE EnterNummer(j)
      <3>1. PICK at \in {"save", "delete"}, l \in Lock : Begin(j, at, "nummer", l) /\ (at # "delete" => ~Kopers)
        <4>1. KopersLocks(locks) \subseteq Lock /\ Idle.lock \in Lock
          BY DEF KopersLocks, TypeOK, LockSet, Idle, Lock, Occasion
        <4> QED
          BY <2>4, <4>1 DEF EnterNummer, KopersLocks, Kopers, Occasions
      <3>2. nummer' = nummer /\ Kopers' = Kopers
        BY <3>1 DEF Begin, Kopers
      <3>3. \A k \in Job \ {j} : ~Running(k, "kopers")
        BY <1>3, <2>4 DEF EnterNummer, Beside, Others, Running
      <3>4. job'[j].caller = "nummer" /\ job'[j].at = at
        BY <3>1 DEF Begin, TypeOK
      <3> QED
        BY <2>1, <2>2, <3>1, <3>2, <3>3, <3>4 DEF NumberInv, Running, Busy
    <2>5. CASE ~KopersLock(j) /\ ~EnterNummer(j)
      <3>1. /\ Running(j, "kopers")' => Running(j, "kopers")
            /\ Running(j, "nummer")' => Running(j, "nummer")
        <4>1. CASE \/ \E until \in {"none", "future"} : LockPerson(j, until)
                   \/ UnlockPerson(j) \/ UnlockExpired(j)
          <5>1. job'[j].caller \in {"admin", "expired"}
            BY <4>1 DEF LockPerson, UnlockPerson, UnlockExpired, Begin, TypeOK
          <5> QED
            BY <5>1 DEF Running
        <4>2. CASE End(j)
          BY <4>2 DEF End, Idle, Running, Busy, TypeOK
        <4>3. ASSUME NEW at, job' = [job EXCEPT ![j].at = at], Busy(j)
              PROVE  job'[j].caller = job[j].caller /\ Busy(j)
          BY <4>3 DEF TypeOK, JobSet
        <4>4. CASE Find(j) \/ Create(j) \/ Update(j) \/ Delete(j) \/ Count(j) \/ Enable(j)
          <5>1. Busy(j) /\ (End(j) \/ \E at : job' = [job EXCEPT ![j].at = at])
            BY <4>4 DEF Find, Create, Update, Store, Refused, Delete, Count, Enable, Return, Busy
          <5> QED
            BY <4>2, <4>3, <5>1 DEF Running
        <4> QED
          BY <1>3, <2>5, <4>1, <4>2, <4>4 DEF Step, Disable, SaveNummer, Fail
      <3>2. Kopers' => Kopers \/ Running(j, "kopers")
        BY <1>3, KopersStep
      <3>3. nummer' => nummer \/ (Running(j, "nummer") /\ job[j].at = "save")
        BY <1>3 DEF Step, LockPerson, UnlockPerson, KopersLock, UnlockExpired, EnterNummer, Begin, Find, Create, Update,
                    Store, Refused, Disable, Delete, Count, Enable, SaveNummer, Fail, CallerInv, Running, Busy, TypeOK
      <3>4. Running(j, "nummer")' /\ job'[j].at # "delete" => job[j].at # "delete" \/ ~Kopers'
        <4>1. CASE job[j].at = "delete" /\ Running(j, "nummer") /\ Delete(j)
          BY <1>3, <4>1, KopersStep DEF CallerInv
        <4>2. CASE job[j].at = "delete" /\ ~Delete(j)
          <5>1. job'[j].at = "idle"
            BY <1>3, <2>5, <4>2 DEF Step, LockPerson, UnlockPerson, UnlockExpired, Begin, Find, Create, Update, Disable,
                        Count, Enable, SaveNummer, Fail, Busy, End, Idle, TypeOK
          <5> QED
            BY <5>1 DEF Running, Busy
        <4> QED
          BY <3>1, <4>1, <4>2
      <3> QED
        BY <2>1, <2>2, <3>1, <3>2, <3>3, <3>4 DEF NumberInv, Running, Busy
    <2> QED
      BY <2>3, <2>4, <2>5
  <1> QED
    BY <1>1, <1>2, <1>3 DEF Next, NumberInv

\* Once the personalnummer is stored, no KoPers lock is left, unless the cron job
\* ran beside the request that stored it.
THEOREM NumberLiftsKopersLock == Spec => []NumberLiftsLock
  <1>1. Init => NIInv
    <2> SUFFICES ASSUME Init PROVE NIInv
      OBVIOUS
    <2>1. \A j \in Job : job[j].at = "idle"
      BY DEF Init, Idle
    <2>2. ~nummer
      BY DEF Init
    <2> QED
      BY <2>1, <2>2, TypeInit DEF NIInv, CallerInv, NumberInv, Running, Busy
  <1>2. NIInv /\ [Next]_vars => NIInv'
    BY TypeStep, CallerStep, NumberStep DEF NIInv
  <1>3. NIInv => NumberLiftsLock
    BY DEF NIInv, NumberInv, NumberLiftsLock, Kopers
  <1> QED
    BY <1>1, <1>2, <1>3, PTL DEF Spec

=============================================================================
