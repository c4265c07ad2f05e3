----------------------- MODULE PersonenkontexteProofs -----------------------
(***************************************************************************)
(* Proofs about Personenkontexte for every set of contexts and every       *)
(* number of requests and failing calls; and, from "One request at a time  *)
(* beside the handlers" on, about PersonMirrors for every number of        *)
(* changes, messages and failing calls with one request at a time.         *)
(***************************************************************************)
EXTENDS PersonMirrors, FiniteSetTheorems, SequenceTheorems, TLAPS

UsedSet == [requests : 0..MaxRequests, troubles : 0..MaxTroubles]

LEMMA IdleIsJob == Idle \in JobSet
  BY DEF Idle, JobSet, At, Kind

LEMMA NothingIsEvent == Nothing \in EventSet /\ Untold \in EventSet
  BY DEF Nothing, Untold, EventSet

\* The rows of a person are rows, and no more of them remain unique.
LEMMA RowSetSubset == ASSUME NEW R \in RowSet, NEW Q \in SUBSET R PROVE Q \in RowSet
  BY DEF RowSet

\* The records of the other requests are only marked as outdated.
LEMMA AgedTyped ==
    ASSUME NEW jobs \in [Job -> JobSet], NEW gone \in SUBSET Kontext, NEW new \in SUBSET Kontext
    PROVE  Aged(jobs, gone, new) \in [Job -> JobSet]
  BY DEF Aged, JobSet

LEMMA RequestTyped == ASSUME TypeOK, NEW j \in Job, Request(j) PROVE used' \in UsedSet
  BY BoundsAssumption DEF TypeOK, Request, UsedSet

LEMMA TroubleTyped == ASSUME TypeOK, Trouble PROVE used' \in UsedSet
  BY BoundsAssumption DEF TypeOK, Trouble, UsedSet

LEMMA EndTyped == ASSUME TypeOK, NEW j \in Job, End(j) PROVE job' \in [Job -> JobSet]
  BY IdleIsJob DEF TypeOK, End

\* What a request may commit is a set of rows.
LEMMA SendableRows == ASSUME TypeOK, NEW j \in Job, NEW sent \in Sendable(j) PROVE sent \in SUBSET Row
  BY DEF TypeOK, JobSet, Sendable, RowSet

----------------------------------------------------------------------------

\* Types are kept by every step.
LEMMA TypeStep == TypeOK /\ [Next]_vars => TypeOK'
  <1> SUFFICES ASSUME TypeOK, [Next]_vars PROVE TypeOK'
    OBVIOUS
  <1>1. CASE UNCHANGED vars
    BY <1>1 DEF vars, database, TypeOK
  <1>2. CASE DaysPass
    BY <1>2, NothingIsEvent DEF DaysPass, Silent, TypeOK
  <1>3. ASSUME NEW j \in Job, Step(j) PROVE TypeOK'
    <2>0. job \in [Job -> JobSet] /\ job[j] \in JobSet /\ rows \in RowSet /\ rows \in SUBSET Row
      BY DEF TypeOK, RowSet
    <2>1. CASE View(j)
      <3>1. job' \in [Job -> JobSet]
        BY <2>0, <2>1 DEF View, Idle, JobSet, At, Kind
      <3> QED
        BY <2>1, <3>1, RequestTyped, NothingIsEvent DEF View, Silent, database, TypeOK, UsedSet
    <2>2. CASE Create(j)
      <3>1. job' \in [Job -> JobSet]
        BY <2>0, <2>2 DEF Create, Idle, JobSet, At, Kind
      <3> QED
        BY <2>2, <3>1, RequestTyped, NothingIsEvent DEF Create, Silent, TypeOK, UsedSet
    <2>3. CASE ListExpired(j)
      <3>1. job' \in [Job -> JobSet]
        BY <2>0, <2>3 DEF ListExpired, Idle, JobSet, At, Kind
      <3> QED
        BY <2>3, <3>1, RequestTyped, NothingIsEvent DEF ListExpired, Silent, database, TypeOK, UsedSet
    <2>4. ASSUME NEW sent \in Sendable(j), FindSent(j, sent) PROVE TypeOK'
      <3>1. sent \in SUBSET Row
        BY SendableRows
      <3>2. job' \in [Job -> JobSet]
        <4>1. PICK newer \in SUBSET Kontext :
                 job' = [job EXCEPT ![j] = [job[j] EXCEPT !.at = "read", !.sent = sent, !.found = sent \cap rows, !.newer = newer]]
          <5>1. job[j].newer \in SUBSET Kontext
            BY <2>0 DEF JobSet
          <5>2. CASE job[j].kind = "cron"
            BY <2>0, <2>4, <5>2 DEF FindSent
          <5>3. CASE job[j].kind # "cron"
            BY <2>0, <2>4, <5>1, <5>3 DEF FindSent
          <5> QED
            BY <5>2, <5>3
        <4>2. [job[j] EXCEPT !.at = "read", !.sent = sent, !.found = sent \cap rows, !.newer = newer] \in JobSet
          BY <2>0, <3>1 DEF JobSet, At
        <4> QED
          BY <2>0, <4>1, <4>2
      <3> QED
        BY <2>4, <3>2, NothingIsEvent DEF FindSent, Silent, database, TypeOK
    <2>5. CASE ReadExisting(j)
      <3>1. job' \in [Job -> JobSet]
        BY <2>0, <2>5 DEF ReadExisting, JobSet, At
      <3> QED
        BY <2>5, <3>1, NothingIsEvent DEF ReadExisting, Silent, database, TypeOK
    <2>6. ASSUME Refuse(j) PROVE job' \in [Job -> JobSet] /\ undated' \in BOOLEAN
      BY <2>6, EndTyped DEF Refuse, TypeOK
    <2>7. CASE CheckRollenart(j)
      <3>1. job' \in [Job -> JobSet] /\ undated' \in BOOLEAN /\ gap' \in BOOLEAN
        <4>1. CASE Refuse(j) /\ UNCHANGED gap
          BY <2>6, <4>1 DEF TypeOK
        <4>2. CASE ~(Refuse(j) /\ UNCHANGED gap)
          <5>1. job' = [job EXCEPT ![j].at = "validate"] /\ UNCHANGED undated
            BY <2>7, <4>2 DEF CheckRollenart
          <5>2. gap' \in BOOLEAN
            BY <2>7, <4>2 DEF CheckRollenart
          <5> QED
            BY <2>0, <5>1, <5>2 DEF JobSet, At, TypeOK
        <4> QED
          BY <4>1, <4>2
      <3> QED
        BY <2>7, <3>1, NothingIsEvent DEF CheckRollenart, Silent, database, TypeOK
    <2>8. CASE Validate(j)
      <3>1. job' \in [Job -> JobSet] /\ undated' \in BOOLEAN
        <4>1. CASE Refuse(j)
          BY <2>6, <4>1
        <4>2. CASE ~Refuse(j)
          BY <2>0, <2>8, <4>2 DEF Validate, JobSet, At, TypeOK
        <4> QED
          BY <4>1, <4>2
      <3> QED
        BY <2>8, <3>1, NothingIsEvent DEF Validate, Silent, database, TypeOK
    <2>9. ASSUME NEW r \in Row, RemoveRow(j, r) PROVE TypeOK'
      <3>1. [job EXCEPT ![j].removing = @ \ {r}, ![j].removed = @ \cup {r}] \in [Job -> JobSet] /\ {r.kontext} \in SUBSET Kontext
        BY <2>0 DEF JobSet, Row
      <3>2. job' \in [Job -> JobSet]
        BY <2>9, <3>1, AgedTyped DEF RemoveRow
      <3>3. rows' \in RowSet
        BY <2>0, <2>9, RowSetSubset DEF RemoveRow
      <3> QED
        BY <2>9, <3>2, <3>3, NothingIsEvent DEF RemoveRow, Silent, TypeOK
    <2>10. ASSUME NEW r \in Row, RemoveFails(j, r) \/ AddFails(j, r) PROVE TypeOK'
      <3>1. CASE RemoveFails(j, r)
        <4>1. job' \in [Job -> JobSet]
          BY <2>0, <3>1 DEF RemoveFails, JobSet
        <4> QED
          BY <3>1, <4>1, TroubleTyped, NothingIsEvent DEF RemoveFails, Silent, database, TypeOK, UsedSet
      <3>2. CASE AddFails(j, r)
        <4>1. job' \in [Job -> JobSet]
          BY <2>0, <3>2 DEF AddFails, JobSet
        <4> QED
          BY <3>2, <4>1, TroubleTyped, NothingIsEvent DEF AddFails, Silent, database, TypeOK, UsedSet
      <3> QED
        BY <2>10, <3>1, <3>2
    <2>11. ASSUME NEW r \in Row, AddRow(j, r) PROVE TypeOK'
      <3>1. CASE Insertable(r)
        <4>1. [job EXCEPT ![j].adding = @ \ {r}, ![j].added = @ \cup {r}] \in [Job -> JobSet] /\ {r.kontext} \in SUBSET Kontext
          BY <2>0 DEF JobSet, Row
        <4>2. job' \in [Job -> JobSet]
          <5>1. job' = Aged([job EXCEPT ![j].adding = @ \ {r}, ![j].added = @ \cup {r}], {}, {r.kontext})
            BY <2>11, <3>1 DEF AddRow
          <5> QED
            BY <4>1, <5>1, AgedTyped
        <4>3. rows' \in RowSet
          BY <2>0, <2>11, <3>1 DEF AddRow, Insertable, Kontexte, RowSet
        <4> QED
          BY <2>11, <4>2, <4>3, NothingIsEvent DEF AddRow, Silent, TypeOK
      <3>2. CASE ~Insertable(r)
        <4>1. job' \in [Job -> JobSet] /\ rows' \in RowSet
          BY <2>0, <2>11, <3>2 DEF AddRow, JobSet
        <4> QED
          BY <2>11, <4>1, NothingIsEvent DEF AddRow, Silent, TypeOK
      <3> QED
        BY <3>1, <3>2
    <2>12. CASE Reread(j)
      <3>1. job' \in [Job -> JobSet]
        BY <2>0, <2>12 DEF Reread, JobSet, At
      <3> QED
        BY <2>12, <3>1, NothingIsEvent DEF Reread, Silent, database, TypeOK
    <2>13. CASE SyncDate(j)
      <3>1. job' \in [Job -> JobSet]
        BY <2>0, <2>13, EndTyped DEF SyncDate, JobSet, At
      <3>2. unassigned' \in {"no", "recent", "long"}
        BY <2>13 DEF SyncDate, SyncedDate, TypeOK
      <3> QED
        BY <2>13, <3>1, <3>2, NothingIsEvent DEF SyncDate, Silent, TypeOK
    <2>14. CASE Publish(j)
      <3>1. event' \in EventSet
        BY <2>0, <2>14, NothingIsEvent DEF Publish, EventSet, JobSet
      <3> QED
        BY <2>14, <3>1, EndTyped DEF Publish, database, TypeOK
    <2>15. ASSUME NEW r \in Row, RemoveById(j, r) PROVE TypeOK'
      <3>1. [job EXCEPT ![j] = [Idle EXCEPT !.at = "dateOnly"]] \in [Job -> JobSet] /\ {r.kontext} \in SUBSET Kontext
        BY <2>0 DEF JobSet, Idle, At, Kind, Row
      <3>2. job' \in [Job -> JobSet]
        BY <2>15, <3>1, AgedTyped DEF RemoveById
      <3>3. rows' \in RowSet
        BY <2>0, <2>15, RowSetSubset DEF RemoveById
      <3> QED
        BY <2>15, <3>2, <3>3, RequestTyped, NothingIsEvent DEF RemoveById, TypeOK, UsedSet
    <2>16. CASE RequestDeletion(j)
      <3>1. job' \in [Job -> JobSet]
        BY <2>0, <2>16 DEF RequestDeletion, Idle, JobSet, At, Kind
      <3> QED
        BY <2>16, <3>1, RequestTyped, NothingIsEvent DEF RequestDeletion, Silent, database, TypeOK, UsedSet
    <2>17. CASE ListUnassigned(j)
      <3>1. job' \in [Job -> JobSet]
        BY <2>0, <2>17 DEF ListUnassigned, Idle, JobSet, At, Kind
      <3> QED
        BY <2>17, <3>1, RequestTyped, NothingIsEvent DEF ListUnassigned, Silent, database, TypeOK, UsedSet
    <2>18. CASE ReadKontexte(j)
      <3>1. job' \in [Job -> JobSet]
        BY <2>0, <2>18 DEF ReadKontexte, JobSet, At
      <3> QED
        BY <2>18, <3>1, NothingIsEvent DEF ReadKontexte, Silent, database, TypeOK
    <2>19. CASE TellRemoval(j)
      <3>1. job' \in [Job -> JobSet]
        BY <2>0, <2>19, EndTyped DEF TellRemoval, JobSet, At
      <3>2. event' \in EventSet
        BY <2>0, <2>19, NothingIsEvent DEF TellRemoval, RemovalEvent, Silent, Nothing, EventSet, JobSet
      <3> QED
        BY <2>19, <3>1, <3>2 DEF TellRemoval, database, TypeOK
    <2>20. CASE TellDeletion(j)
      <3>1. job' \in [Job -> JobSet]
        BY <2>0, <2>20 DEF TellDeletion, JobSet, At
      <3>2. event' \in EventSet
        BY <2>20, NothingIsEvent DEF TellDeletion, Nothing, EventSet
      <3> QED
        BY <2>20, <3>1, <3>2 DEF TellDeletion, database, TypeOK
    <2>21. CASE Drop(j)
      <3>1. [job EXCEPT ![j] = Idle] \in [Job -> JobSet]
        BY <2>0, IdleIsJob
      <3>2. job' \in [Job -> JobSet]
        BY <2>21, <3>1, AgedTyped DEF Drop
      <3>3. {} \in RowSet
        BY DEF RowSet
      <3> QED
        BY <2>21, <3>2, <3>3, NothingIsEvent DEF Drop, Silent, TypeOK
    <2>22. CASE GiveUp(j)
      BY <2>6, <2>22, NothingIsEvent DEF GiveUp, Silent, database, TypeOK
    <2>23. CASE Abort(j)
      <3>1. undated' \in BOOLEAN
        BY <2>23 DEF Abort, TypeOK
      <3>2. event' \in EventSet
        BY <2>23, NothingIsEvent DEF Abort
      <3> QED
        BY <2>23, <3>1, <3>2, EndTyped, TroubleTyped DEF Abort, database, TypeOK, UsedSet
    <2> QED
      BY <1>3, <2>1, <2>2, <2>3, <2>4, <2>5, <2>7, <2>8, <2>9, <2>10, <2>11, <2>12, <2>13, <2>14, <2>15, <2>16, <2>17,
         <2>18, <2>19, <2>20, <2>21, <2>22, <2>23 DEF Step
  <1> QED
    BY <1>1, <1>2, <1>3 DEF Next

LEMMA TypeInit == Init => TypeOK
  <1> SUFFICES ASSUME Init PROVE TypeOK
    OBVIOUS
  <1>1. person \in {"planned", "present"} /\ rows \in RowSet /\ unassigned \in {"no", "recent"}
    BY DEF Init, RowSet
  <1>2. job \in [Job -> JobSet]
    BY IdleIsJob DEF Init
  <1>3. used \in UsedSet
    BY BoundsAssumption DEF Init, UsedSet
  <1> QED
    BY <1>1, <1>2, <1>3, NothingIsEvent DEF Init, TypeOK, UsedSet

\* Every value of Personenkontexte has its type, and a person has no context
\* twice, whatever requests run side by side.
THEOREM TypeCorrect == Spec => []TypeOK
  BY TypeInit, TypeStep, PTL DEF Spec

----------------------------------------------------------------------------
(* The optimistic check and the date                                       *)

\* Before it is created, the person has no context.
PlannedInv == person = "planned" => rows = {}

\* Only an update is the first of its person, and an update ends as one.
KindInv ==
    \A j \in Job :
        job[j].at \in {"idle", "dateOnly", "listed", "tell", "told", "drop"} => job[j].kind # "create"

\* A context that a client has not seen is younger than its view: first in the
\* database, then in what the update has read.
SeenInv ==
    \A j \in Job : job[j].kind # "cron" =>
        /\ job[j].at \in {"viewed", "read"} =>
              \A r \in rows : r \in job[j].seen \/ r.kontext \in job[j].newer
        /\ job[j].at \in {"rollenart", "validate"} =>
              \A r \in job[j].existing : r \in job[j].seen \/ r.kontext \in job[j].newer

\* What an update may still add: what it sent once its check has passed, and
\* from its first write on what its loops have left.
Pending(j) == IF job[j].at = "validate" THEN job[j].sent ELSE IF job[j].at = "write" THEN job[j].adding ELSE {}

Concerned == rows \cup UNION {Pending(j) : j \in Job}

\* OneRollenart made inductive: what is there and what any checked request may
\* still add have one Rollenart together.
ArtInv == ~gap => OneArt(Concerned)

IInv == TypeOK /\ PlannedInv /\ KindInv /\ SeenInv /\ DateMatchesContexts /\ ArtInv

\* There are finitely many different contexts.
LEMMA RowFinite == IsFiniteSet(Row)
  <1> DEFINE Of(b) == {[kontext |-> k, befristet |-> b] : k \in Kontext}
             f(b)  == [k \in Kontext |-> [kontext |-> k, befristet |-> b]]
  <1>1. ASSUME NEW b \in BOOLEAN PROVE IsFiniteSet(Of(b))
    <2>1. f(b) \in Surjection(Kontext, Of(b))
      BY DEF Surjection
    <2> QED
      BY <2>1, FS_Surjection, KontextAssumption
  <1>2. IsFiniteSet(Of(TRUE) \cup Of(FALSE))
    BY <1>1, FS_Union
  <1>3. Row \subseteq Of(TRUE) \cup Of(FALSE)
    <2> SUFFICES ASSUME NEW r \in Row PROVE r \in Of(TRUE) \cup Of(FALSE)
      OBVIOUS
    <2>1. r = [kontext |-> r.kontext, befristet |-> r.befristet] /\ r.kontext \in Kontext /\ r.befristet \in BOOLEAN
      BY DEF Row
    <2> QED
      BY <2>1
  <1> QED
    BY <1>2, <1>3, FS_Subset

\* A check that passes compares what was seen with what is there.
LEMMA CheckExact ==
    ASSUME TypeOK, SeenInv, NEW j \in Job, job[j].kind # "cron", job[j].at = "validate", Unchanged(j)
    PROVE  job[j].existing = job[j].seen
  <1>1. job[j].existing \subseteq job[j].seen
    BY DEF SeenInv, Unchanged
  <1>2. IsFiniteSet(job[j].seen)
    <2>1. job[j].seen \subseteq Row
      BY DEF TypeOK, JobSet
    <2> QED
      BY <2>1, RowFinite, FS_Subset
  <1> QED
    BY <1>1, <1>2, FS_Subset DEF Unchanged

\* A step of one request leaves rows and the other requests alone, or it marks
\* those that have not yet read what exists.
LEMMA OthersMarked ==
    ASSUME TypeOK, NEW j \in Job, Step(j)
    PROVE  \/ UNCHANGED rows /\ \A k \in Job \ {j} : job'[k] = job[k]
           \/ \E gone, new \in SUBSET Kontext :
                 /\ \A k \in Job \ {j} :
                       job'[k] = IF Unread(k) THEN [job[k] EXCEPT !.newer = (@ \ gone) \cup new] ELSE job[k]
                 /\ \A r \in rows' : r.kontext \notin gone /\ (r \notin rows => r.kontext \in new)
  <1> DEFINE Marks(gone, new) ==
                 /\ \A k \in Job \ {j} :
                       job'[k] = IF Unread(k) THEN [job[k] EXCEPT !.newer = (@ \ gone) \cup new] ELSE job[k]
                 /\ \A r \in rows' : r.kontext \notin gone /\ (r \notin rows => r.kontext \in new)
  <1>0. job \in [Job -> JobSet] /\ rows \in RowSet
    BY DEF TypeOK
  <1>1. ASSUME NEW r \in Row, RemoveRow(j, r) PROVE Marks({r.kontext}, {}) /\ {r.kontext} \in SUBSET Kontext
    BY <1>0, <1>1 DEF RemoveRow, Aged, Row
  <1>2. ASSUME NEW r \in Row, AddRow(j, r), Insertable(r) PROVE Marks({}, {r.kontext}) /\ {r.kontext} \in SUBSET Kontext
    BY <1>0, <1>2 DEF AddRow, Aged, Row
  <1>3. ASSUME NEW r \in Row, AddRow(j, r), ~Insertable(r) PROVE UNCHANGED rows /\ \A k \in Job \ {j} : job'[k] = job[k]
    BY <1>0, <1>3 DEF AddRow
  <1>4. ASSUME NEW r \in Row, RemoveById(j, r) PROVE Marks({r.kontext}, {}) /\ {r.kontext} \in SUBSET Kontext
    BY <1>0, <1>4 DEF RemoveById, Aged, Row, RowSet
  <1>6. ASSUME \/ View(j) \/ Create(j) \/ ListExpired(j) \/ \E sent \in Sendable(j) : FindSent(j, sent)
               \/ ReadExisting(j) \/ CheckRollenart(j) \/ Validate(j)
               \/ \E r \in Row : RemoveFails(j, r) \/ AddFails(j, r)
               \/ Reread(j) \/ SyncDate(j) \/ Publish(j)
               \/ RequestDeletion(j) \/ ListUnassigned(j) \/ ReadKontexte(j) \/ TellRemoval(j) \/ TellDeletion(j)
               \/ GiveUp(j) \/ Abort(j)
        PROVE  UNCHANGED rows /\ \A k \in Job \ {j} : job'[k] = job[k]
    <2>1. UNCHANGED rows
      BY <1>6 DEF View, Create, ListExpired, FindSent, ReadExisting, CheckRollenart, Validate, RemoveFails, AddFails,
                  Reread, SyncDate, Publish, RequestDeletion, ListUnassigned, ReadKontexte, TellRemoval,
                  TellDeletion, GiveUp, Abort, database
    <2>2. \E q : job' = [job EXCEPT ![j] = q]
      BY <1>6 DEF View, Create, ListExpired, FindSent, ReadExisting, CheckRollenart, Validate, RemoveFails, AddFails,
                  Reread, SyncDate, Publish, RequestDeletion, ListUnassigned, ReadKontexte, TellRemoval,
                  TellDeletion, GiveUp, Abort, Refuse, End
    <2> QED
      BY <1>0, <2>1, <2>2
  <1> HIDE DEF Marks
  <1>7. (\E gone, new \in SUBSET Kontext : Marks(gone, new)) \/ (UNCHANGED rows /\ \A k \in Job \ {j} : job'[k] = job[k])
    <2>1. {} \in SUBSET Kontext /\ Kontext \in SUBSET Kontext
      OBVIOUS
    <2>2. CASE Drop(j)
      <3>1. Marks(Kontext, {})
        BY <1>0, <2>2 DEF Drop, Aged, Marks
      <3> QED
        BY <2>1, <3>1
    <2> QED
      BY <1>1, <1>2, <1>3, <1>4, <1>6, <2>1, <2>2 DEF Step
  <1> QED
    BY <1>7 DEF Marks

LEMMA OthersKeep ==
    ASSUME TypeOK, NEW j \in Job, Step(j), NEW k \in Job \ {j}
    PROVE  /\ job'[k].at = job[k].at /\ job'[k].kind = job[k].kind
           /\ job'[k].sent = job[k].sent /\ job'[k].adding = job[k].adding
  <1>1. job[k] \in JobSet
    BY DEF TypeOK
  <1>2. CASE job'[k] = job[k]
    BY <1>2
  <1>3. CASE job'[k] # job[k]
    <2>1. PICK gone \in SUBSET Kontext, new \in SUBSET Kontext :
             job'[k] = IF Unread(k) THEN [job[k] EXCEPT !.newer = (@ \ gone) \cup new] ELSE job[k]
      BY <1>3, OthersMarked
    <2> QED
      BY <1>1, <2>1 DEF JobSet
  <1> QED
    BY <1>2, <1>3

LEMMA KindStep == TypeOK /\ KindInv /\ [Next]_vars => KindInv'
  <1> SUFFICES ASSUME TypeOK, KindInv, [Next]_vars PROVE KindInv'
    OBVIOUS
  <1>1. CASE UNCHANGED vars
    BY <1>1 DEF vars, KindInv
  <1>2. CASE DaysPass
    BY <1>2 DEF DaysPass, KindInv
  <1>3. ASSUME NEW j \in Job, Step(j) PROVE KindInv'
    <2>0. job \in [Job -> JobSet] /\ job[j] \in JobSet
      BY DEF TypeOK
    <2>1. CASE End(j)
      BY <2>0, <2>1 DEF End, Idle, KindInv
    <2>2. ASSUME NEW kind, NEW at, job'[j].kind = kind, job'[j].at = at,
                 at \notin {"idle", "dateOnly", "listed", "tell", "told", "drop"} \/ kind # "create"
          PROVE  KindInv'
      BY <1>3, <2>2, OthersKeep DEF KindInv
    <2>3. CASE View(j) \/ Create(j) \/ ListExpired(j) \/ RequestDeletion(j) \/ ListUnassigned(j)
      <3>1. job'[j].at = "viewed" \/ job'[j].kind \in {"delete", "deadline"}
        BY <2>0, <2>3 DEF View, Create, ListExpired, RequestDeletion, ListUnassigned, Idle
      <3> QED
        BY <2>2, <3>1
    <2>4. CASE (\E sent \in Sendable(j) : FindSent(j, sent)) \/ ReadExisting(j) \/ CheckRollenart(j) \/ Validate(j) \/ Reread(j)
      <3>1. CASE ~End(j)
        <4>1. CASE \E sent \in Sendable(j) : FindSent(j, sent)
          BY <2>0, <2>2, <4>1 DEF FindSent, JobSet
        <4>2. CASE ReadExisting(j)
          BY <2>0, <2>2, <4>2 DEF ReadExisting, JobSet
        <4>3. CASE CheckRollenart(j)
          BY <2>0, <2>2, <3>1, <4>3 DEF CheckRollenart, Refuse, JobSet
        <4>4. CASE Validate(j)
          <5>1. job'[j].at = "write"
            BY <2>0, <3>1, <4>4 DEF Validate, Refuse, JobSet
          <5> QED
            BY <2>2, <5>1
        <4>5. CASE Reread(j)
          BY <2>0, <2>2, <4>5 DEF Reread, JobSet
        <4> QED
          BY <2>4, <4>1, <4>2, <4>3, <4>4, <4>5
      <3> QED
        BY <2>1, <3>1
    <2>5. ASSUME NEW r \in Row, RemoveRow(j, r) \/ RemoveFails(j, r) \/ AddRow(j, r) \/ AddFails(j, r) PROVE KindInv'
      <3>1. job'[j].at = "write"
        BY <2>0, <2>5 DEF RemoveRow, RemoveFails, AddRow, AddFails, Aged, Unread, JobSet
      <3> QED
        BY <2>2, <3>1
    <2>6. ASSUME NEW r \in Row, RemoveById(j, r) PROVE KindInv'
      <3>1. job'[j].kind = "none"
        BY <2>0, <2>6 DEF RemoveById, Request, Aged, Unread, Idle
      <3> QED
        BY <2>2, <3>1
    <2>7. CASE SyncDate(j)
      <3>1. CASE ~End(j)
        BY <2>0, <2>2, <2>7, <3>1 DEF SyncDate, JobSet
      <3> QED
        BY <2>1, <3>1
    <2>8. CASE ReadKontexte(j) \/ TellDeletion(j) \/ TellRemoval(j)
      <3>1. CASE ~End(j)
        <4>1. job[j].kind # "create"
          BY <2>8 DEF ReadKontexte, TellDeletion, TellRemoval, KindInv
        <4>2. job'[j].kind = job[j].kind
          BY <2>0, <2>8, <3>1 DEF ReadKontexte, TellDeletion, TellRemoval, JobSet
        <4> QED
          BY <2>2, <4>1, <4>2
      <3> QED
        BY <2>1, <3>1
    <2>9. CASE Drop(j)
      <3>1. job'[j].kind = "none"
        BY <2>0, <2>9 DEF Drop, Aged, Unread, Idle
      <3> QED
        BY <2>2, <3>1
    <2> QED
      BY <1>3, <2>1, <2>3, <2>4, <2>5, <2>6, <2>7, <2>8, <2>9 DEF Step, Publish, GiveUp, Abort, Refuse
  <1> QED
    BY <1>1, <1>2, <1>3 DEF Next

LEMMA PlannedStep == TypeOK /\ PlannedInv /\ [Next]_vars => PlannedInv'
  <1> SUFFICES ASSUME TypeOK, PlannedInv, [Next]_vars, person' = "planned" PROVE rows' = {}
    BY DEF PlannedInv
  <1>1. person = "planned" => rows = {}
    BY DEF PlannedInv
  <1>2. person = "planned" /\ (\A r \in rows' : r \in rows)
    <2>1. CASE UNCHANGED vars \/ DaysPass
      BY <2>1 DEF vars, database, DaysPass
    <2>2. ASSUME NEW j \in Job, Step(j) PROVE person = "planned" /\ (\A r \in rows' : r \in rows)
      <3>1. ASSUME NEW r \in Row, RemoveRow(j, r) \/ RemoveFails(j, r) \/ AddRow(j, r) \/ AddFails(j, r) \/ RemoveById(j, r)
            PROVE  person = "planned" /\ (\A q \in rows' : q \in rows)
        BY <3>1 DEF RemoveRow, RemoveFails, AddRow, AddFails, Insertable, RemoveById, database
      <3>2. CASE Create(j) \/ Drop(j) \/ SyncDate(j)
        BY <3>2 DEF Create, Drop, SyncDate
      <3>3. CASE ~(\E r \in Row : RemoveRow(j, r) \/ RemoveFails(j, r) \/ AddRow(j, r) \/ AddFails(j, r) \/ RemoveById(j, r))
                 /\ ~(Create(j) \/ Drop(j) \/ SyncDate(j))
        <4>1. UNCHANGED database
          BY <2>2, <3>3 DEF Step, View, ListExpired, FindSent, ReadExisting, CheckRollenart, Validate, Reread, Publish,
                            RequestDeletion, ListUnassigned, ReadKontexte, TellRemoval, TellDeletion, GiveUp, Abort
        <4> QED
          BY <4>1 DEF database
      <3> QED
        BY <3>1, <3>2, <3>3
    <2> QED
      BY <2>1, <2>2 DEF Next
  <1> QED
    BY <1>1, <1>2

LEMMA SeenStep == TypeOK /\ PlannedInv /\ SeenInv /\ [Next]_vars => SeenInv'
  <1> DEFINE SeenBy(k) ==
        job[k].kind # "cron" =>
            /\ job[k].at \in {"viewed", "read"} =>
                  \A r \in rows : r \in job[k].seen \/ r.kontext \in job[k].newer
            /\ job[k].at \in {"rollenart", "validate"} =>
                  \A r \in job[k].existing : r \in job[k].seen \/ r.kontext \in job[k].newer
  <1> SUFFICES ASSUME TypeOK, PlannedInv, SeenInv, [Next]_vars, NEW k \in Job PROVE SeenBy(k)'
    BY DEF SeenInv
  <1>0. job \in [Job -> JobSet] /\ job[k] \in JobSet /\ rows \in SUBSET Row /\ SeenBy(k)
    BY DEF TypeOK, SeenInv, RowSet
  <1>1. CASE job'[k] = job[k] /\ UNCHANGED rows
    BY <1>0, <1>1
  <1>2. CASE UNCHANGED vars \/ DaysPass
    BY <1>1, <1>2 DEF vars, database, DaysPass
  <1>3. ASSUME NEW j \in Job \ {k}, Step(j) PROVE SeenBy(k)'
    <2>1. CASE ~(job'[k] = job[k] /\ UNCHANGED rows)
      <3>1. PICK gone \in SUBSET Kontext, new \in SUBSET Kontext :
               /\ job'[k] = IF Unread(k) THEN [job[k] EXCEPT !.newer = (@ \ gone) \cup new] ELSE job[k]
               /\ \A r \in rows' : r.kontext \notin gone /\ (r \notin rows => r.kontext \in new)
        BY <1>3, <2>1, OthersMarked
      <3>2. CASE ~Unread(k)
        BY <1>0, <3>1, <3>2 DEF Unread
      <3>3. CASE Unread(k)
        <4>1. /\ job'[k].at = job[k].at /\ job'[k].kind = job[k].kind /\ job'[k].seen = job[k].seen
              /\ job'[k].newer = (job[k].newer \ gone) \cup new
          BY <1>0, <3>1, <3>3 DEF JobSet
        <4> QED
          BY <1>0, <3>1, <3>3, <4>1 DEF Unread
      <3> QED
        BY <3>2, <3>3
    <2> QED
      BY <1>1, <2>1
  <1>4. CASE Step(k)
    <2>1. CASE View(k) \/ Create(k) \/ ListExpired(k)
      <3>1. CASE View(k)
        BY <1>0, <3>1 DEF View, Idle, database
      <3>2. CASE Create(k)
        <4>1. rows' = {} /\ job'[k].at = "viewed"
          BY <1>0, <3>2 DEF Create, Idle, PlannedInv
        <4> QED
          BY <4>1
      <3>3. CASE ListExpired(k)
        BY <1>0, <3>3 DEF ListExpired, Idle
      <3> QED
        BY <2>1, <3>1, <3>2, <3>3
    <2>2. CASE (\E sent \in Sendable(k) : FindSent(k, sent)) \/ ReadExisting(k)
      <3>1. CASE \E sent \in Sendable(k) : FindSent(k, sent)
        <4>1. PICK sent \in Sendable(k) : FindSent(k, sent)
          BY <3>1
        <4>2. /\ job'[k].at = "read" /\ job'[k].kind = job[k].kind /\ job'[k].seen = job[k].seen
              /\ job[k].kind # "cron" => job'[k].newer = job[k].newer
              /\ job[k].at = "viewed" /\ UNCHANGED rows
          BY <1>0, <4>1 DEF FindSent, database, JobSet
        <4> QED
          BY <1>0, <4>2
      <3>2. CASE ReadExisting(k)
        <4>1. /\ job'[k].at = "rollenart" /\ job'[k].kind = job[k].kind /\ job'[k].seen = job[k].seen
              /\ job'[k].newer = job[k].newer /\ job'[k].existing = rows /\ job[k].at = "read"
          BY <1>0, <3>2 DEF ReadExisting, database, JobSet
        <4> QED
          BY <1>0, <4>1
      <3> QED
        BY <2>2, <3>1, <3>2
    <2>3. CASE CheckRollenart(k) /\ ~End(k)
      <3>1. /\ job'[k].at = "validate" /\ job'[k].kind = job[k].kind /\ job'[k].seen = job[k].seen
            /\ job'[k].newer = job[k].newer /\ job'[k].existing = job[k].existing /\ job[k].at = "rollenart"
        BY <1>0, <2>3 DEF CheckRollenart, Refuse, JobSet
      <3> QED
        BY <1>0, <3>1
    <2>4. CASE End(k)
      BY <1>0, <2>4 DEF End, Idle
    <2>5. CASE Validate(k) /\ ~End(k)
      <3>1. job'[k].at = "write"
        BY <1>0, <2>5 DEF Validate, Refuse, JobSet
      <3> QED
        BY <3>1
    <2>6. ASSUME NEW r \in Row, RemoveRow(k, r) \/ RemoveFails(k, r) \/ AddRow(k, r) \/ AddFails(k, r) PROVE SeenBy(k)'
      <3>1. job'[k].at = "write"
        BY <1>0, <2>6 DEF RemoveRow, RemoveFails, AddRow, AddFails, Aged, Unread, JobSet
      <3> QED
        BY <3>1
    <2>7. ASSUME NEW r \in Row, RemoveById(k, r) PROVE SeenBy(k)'
      <3>1. job'[k].at = "dateOnly"
        BY <1>0, <2>7 DEF RemoveById, Request, Aged, Unread, Idle
      <3> QED
        BY <3>1
    <2>8. CASE (Reread(k) \/ SyncDate(k) \/ RequestDeletion(k) \/ ListUnassigned(k) \/ ReadKontexte(k) \/ TellRemoval(k)
                  \/ TellDeletion(k)) /\ ~End(k)
      <3>1. job'[k].at \in {"date", "publish", "listed", "tell", "told", "drop"}
        <4>1. CASE Reread(k) \/ SyncDate(k)
          BY <1>0, <2>8, <4>1 DEF Reread, SyncDate, JobSet
        <4>2. CASE RequestDeletion(k) \/ ListUnassigned(k)
          BY <1>0, <4>2 DEF RequestDeletion, ListUnassigned, Idle
        <4>3. CASE ReadKontexte(k) \/ TellRemoval(k) \/ TellDeletion(k)
          BY <1>0, <2>8, <4>3 DEF ReadKontexte, TellRemoval, TellDeletion, JobSet
        <4> QED
          BY <2>8, <4>1, <4>2, <4>3
      <3> QED
        BY <3>1
    <2>9. CASE Drop(k)
      <3>1. job'[k].at = "idle"
        BY <1>0, <2>9 DEF Drop, Aged, Unread, Idle
      <3> QED
        BY <3>1
    <2> QED
      BY <1>4, <2>1, <2>2, <2>3, <2>4, <2>5, <2>6, <2>7, <2>8, <2>9 DEF Step, Publish, GiveUp, Abort, Refuse
  <1> QED
    BY <1>2, <1>3, <1>4 DEF Next

\* The date is right when the last request that is to synchronise it has done so.
LEMMA DateStep == TypeOK /\ KindInv /\ DateMatchesContexts /\ [Next]_vars => DateMatchesContexts'
  <1> SUFFICES ASSUME TypeOK, KindInv, DateMatchesContexts, [Next]_vars,
                      person' = "present", ~undated', \A k \in Job : ~Undated(k)'
               PROVE  unassigned' = "no" <=> rows' # {}
    BY DEF DateMatchesContexts
  <1>0. job \in [Job -> JobSet]
    BY DEF TypeOK
  <1>1. ASSUME UNCHANGED <<person, rows>>, ~undated, \A k \in Job : ~Undated(k), unassigned' = "no" <=> unassigned = "no"
        PROVE  unassigned' = "no" <=> rows' # {}
    BY <1>1 DEF DateMatchesContexts
  <1>2. CASE UNCHANGED vars \/ DaysPass
    BY <1>1, <1>2 DEF vars, database, DaysPass, Undated
  <1>3. ASSUME NEW j \in Job, Step(j) PROVE unassigned' = "no" <=> rows' # {}
    <2>0. \A k \in Job \ {j} : ~Undated(k)
      BY <1>3, OthersKeep DEF Undated
    <2>1. ASSUME UNCHANGED database, ~undated, ~Undated(j) PROVE unassigned' = "no" <=> rows' # {}
      BY <1>1, <2>0, <2>1 DEF database
    <2>2. CASE SyncDate(j)
      <3>1. unassigned' = SyncedDate(j) /\ UNCHANGED <<rows, person>>
        BY <2>2 DEF SyncDate
      <3> QED
        BY <3>1 DEF SyncedDate
    <2>3. ASSUME NEW r \in Row, RemoveRow(j, r) \/ RemoveFails(j, r) \/ AddRow(j, r) \/ AddFails(j, r) PROVE FALSE
      <3>1. job'[j].at = "write"
        BY <1>0, <2>3 DEF RemoveRow, RemoveFails, AddRow, AddFails, Aged, Unread, JobSet
      <3> QED
        BY <3>1 DEF Undated
    <2>4. ASSUME NEW r \in Row, RemoveById(j, r) PROVE FALSE
      <3>1. job'[j].at = "dateOnly"
        BY <1>0, <2>4 DEF RemoveById, Request, Aged, Unread, Idle
      <3> QED
        BY <3>1 DEF Undated
    <2>5. CASE Create(j)
      <3>1. job'[j].at = "viewed" /\ job'[j].kind = "create"
        BY <1>0, <2>5 DEF Create, Idle
      <3> QED
        BY <3>1 DEF Undated
    <2>6. CASE Drop(j)
      BY <2>6 DEF Drop
    <2>7. CASE View(j) \/ ListExpired(j) \/ RequestDeletion(j) \/ ListUnassigned(j)
      <3>1. UNCHANGED <<database, undated>> /\ job[j].at = "idle"
        BY <2>7 DEF View, ListExpired, RequestDeletion, ListUnassigned, Request
      <3> QED
        BY <2>1, <3>1 DEF Undated, KindInv
    <2>8. CASE ReadKontexte(j) \/ TellRemoval(j) \/ TellDeletion(j)
      <3>1. UNCHANGED <<database, undated>> /\ job[j].at \in {"listed", "tell", "told"}
        BY <2>8 DEF ReadKontexte, TellRemoval, TellDeletion
      <3> QED
        BY <2>1, <3>1 DEF Undated, KindInv
    <2>9. ASSUME Refuse(j), UNCHANGED database, job[j].at \notin {"write", "date", "dateOnly"}
          PROVE  unassigned' = "no" <=> rows' # {}
      BY <2>1, <2>9 DEF Refuse, Undated
    <2>10. CASE \/ \E sent \in Sendable(j) : FindSent(j, sent)
                \/ ReadExisting(j) \/ CheckRollenart(j) \/ Validate(j) \/ GiveUp(j)
      <3>1. CASE Refuse(j)
        <4>1. UNCHANGED database /\ job[j].at \notin {"write", "date", "dateOnly"}
          BY <2>10 DEF FindSent, ReadExisting, CheckRollenart, Validate, GiveUp
        <4> QED
          BY <2>9, <3>1, <4>1
      <3>2. CASE ~Refuse(j)
        <4>1. UNCHANGED <<database, undated>> /\ job[j].at \in {"viewed", "read", "rollenart", "validate"}
          BY <2>10, <3>2 DEF FindSent, ReadExisting, CheckRollenart, Validate, GiveUp
        <4>2. job'[j].kind = job[j].kind /\ job'[j].at # "publish"
          <5>1. CASE \E sent \in Sendable(j) : FindSent(j, sent)
            BY <1>0, <5>1 DEF FindSent, JobSet
          <5>2. CASE ReadExisting(j)
            BY <1>0, <5>2 DEF ReadExisting, JobSet
          <5>3. CASE CheckRollenart(j)
            BY <1>0, <3>2, <5>3 DEF CheckRollenart, JobSet
          <5>4. CASE Validate(j)
            BY <1>0, <3>2, <5>4 DEF Validate, JobSet
          <5> QED
            BY <2>10, <3>2, <5>1, <5>2, <5>3, <5>4 DEF GiveUp
        <4>3. ~Undated(j)
          BY <4>1, <4>2 DEF Undated
        <4> QED
          BY <2>1, <4>1, <4>3
      <3> QED
        BY <3>1, <3>2
    <2>11. CASE Reread(j)
      <3>1. job'[j].at = "date"
        BY <1>0, <2>11 DEF Reread, JobSet
      <3> QED
        BY <3>1 DEF Undated
    <2>12. CASE Publish(j)
      BY <2>1, <2>12 DEF Publish, Undated
    <2>13. CASE Abort(j)
      <3>1. UNCHANGED database /\ ~undated /\ job[j].at \in {"publish", "told", "drop"}
        BY <2>13 DEF Abort
      <3> QED
        BY <2>1, <3>1 DEF Undated, KindInv
    <2> QED
      BY <1>3, <2>2, <2>3, <2>4, <2>5, <2>6, <2>7, <2>8, <2>10, <2>11, <2>12, <2>13 DEF Step
  <1> QED
    BY <1>2, <1>3 DEF Next

\* A request that starts has not decided anything yet.
LEMMA StartsFree ==
    ASSUME TypeOK, NEW j \in Job, View(j) \/ Create(j) \/ ListExpired(j) \/ RequestDeletion(j) \/ ListUnassigned(j)
    PROVE  job'[j].at \in {"viewed", "listed"}
  <1>0. job \in [Job -> JobSet]
    BY DEF TypeOK
  <1>1. ASSUME NEW q, job' = [job EXCEPT ![j] = q], q.at \in {"viewed", "listed"} PROVE job'[j].at \in {"viewed", "listed"}
    BY <1>0, <1>1
  <1>2. CASE View(j)
    BY <1>1, <1>2 DEF View, Idle
  <1>3. CASE Create(j)
    BY <1>1, <1>3 DEF Create, Idle
  <1>4. CASE ListExpired(j)
    BY <1>1, <1>4 DEF ListExpired, Idle
  <1>5. CASE RequestDeletion(j)
    BY <1>1, <1>5 DEF RequestDeletion, Idle
  <1>6. CASE ListUnassigned(j)
    BY <1>1, <1>6 DEF ListUnassigned, Idle
  <1> QED
    BY <1>2, <1>3, <1>4, <1>5, <1>6

\* A request that has found what it was sent has yet to read what exists.
LEMMA SentWaits ==
    ASSUME TypeOK, NEW j \in Job, NEW sent, FindSent(j, sent)
    PROVE  job'[j].at = "read" /\ UNCHANGED <<rows, gap>>
  <1>1. job \in [Job -> JobSet] /\ job[j] \in JobSet
    BY DEF TypeOK
  <1>2. job'[j].at = "read"
    BY <1>1 DEF FindSent, JobSet
  <1> QED
    BY <1>2 DEF FindSent, database

\* Only a check that passes makes more contexts pending: any other step takes
\* contexts away or turns pending ones into rows.
LEMMA NothingNew ==
    ASSUME TypeOK, NEW j \in Job, Step(j), ~(CheckRollenart(j) /\ job'[j].at = "validate")
    PROVE  Concerned' \subseteq Concerned /\ UNCHANGED gap
  <1>0. job \in [Job -> JobSet] /\ job[j] \in JobSet
    BY DEF TypeOK
  <1>1. ASSUME Pending(j)' \subseteq Pending(j), rows' \subseteq rows \cup Pending(j)
        PROVE  Concerned' \subseteq Concerned
    <2>1. \A k \in Job \ {j} : Pending(k)' = Pending(k)
      BY OthersKeep DEF Pending
    <2> QED
      BY <1>1, <2>1 DEF Concerned
  <1>2. CASE End(j)
    <2>1. Pending(j)' = {}
      BY <1>0, <1>2 DEF End, Idle, Pending
    <2>2. \A r \in Row : ~RemoveById(j, r) /\ ~RemoveRow(j, r) /\ ~AddRow(j, r) /\ ~RemoveFails(j, r) /\ ~AddFails(j, r)
      <3>1. job'[j] = Idle
        BY <1>0, <1>2 DEF End
      <3> QED
        BY <1>0, <3>1 DEF RemoveById, RemoveRow, AddRow, RemoveFails, AddFails, Idle, Aged, Unread, JobSet
    <2>3. rows' \subseteq rows /\ UNCHANGED gap
      <3>1. ~(\E sent \in Sendable(j) : FindSent(j, sent)) /\ ~View(j) /\ ~Create(j) /\ ~ListExpired(j)
        <4>1. job'[j].at = "idle"
          BY <1>0, <1>2 DEF End, Idle
        <4>2. \A sent \in Sendable(j) : ~FindSent(j, sent)
          BY <1>0, <4>1, SentWaits
        <4> QED
          BY <4>1, <4>2, StartsFree
      <3>2. CASE CheckRollenart(j)
        <4>1. job'[j].at # "validate"
          BY <1>0, <1>2 DEF End, Idle
        <4>2. UNCHANGED gap
          BY <1>0, <3>2, <4>1 DEF CheckRollenart, JobSet
        <4> QED
          BY <3>2, <4>2 DEF CheckRollenart, database
      <3> QED
        BY <2>2, <3>1, <3>2 DEF Step, ReadExisting, Validate, Reread, SyncDate, Publish, RequestDeletion, ListUnassigned,
             ReadKontexte, TellRemoval, TellDeletion, Drop, GiveUp, Abort, database
    <2> QED
      BY <1>1, <2>1, <2>3
  <1>3. CASE View(j) \/ Create(j) \/ ListExpired(j) \/ RequestDeletion(j) \/ ListUnassigned(j)
    <2>1. Pending(j)' = {}
      BY <1>3, StartsFree DEF Pending
    <2>2. UNCHANGED <<rows, gap>>
      BY <1>3 DEF View, Create, ListExpired, RequestDeletion, ListUnassigned, database
    <2> QED
      BY <1>1, <2>1, <2>2
  <1>4. CASE (\E sent \in Sendable(j) : FindSent(j, sent)) \/ ReadExisting(j) \/ Reread(j)
    <2>1. job'[j].at \in {"read", "rollenart", "date"} /\ UNCHANGED <<rows, gap>>
      <3>1. CASE ReadExisting(j) \/ Reread(j)
        BY <1>0, <3>1 DEF ReadExisting, Reread, database, JobSet
      <3> QED
        BY <1>4, <3>1, SentWaits
    <2>2. Pending(j)' = {}
      BY <2>1 DEF Pending
    <2> QED
      BY <1>1, <2>1, <2>2
  <1>5. CASE CheckRollenart(j) /\ ~End(j)
    BY <1>0, <1>5 DEF CheckRollenart, Refuse, JobSet
  <1>6. CASE Validate(j) /\ ~End(j)
    <2>1. /\ job[j].at = "validate" /\ UNCHANGED <<rows, gap>>
          /\ job'[j].at = "write" /\ job'[j].adding = job[j].sent \ (job[j].existing \cup job[j].found)
      BY <1>0, <1>6 DEF Validate, Refuse, database, JobSet
    <2>2. Pending(j)' \subseteq Pending(j)
      BY <2>1 DEF Pending
    <2> QED
      BY <1>1, <2>1, <2>2
  <1>7. ASSUME NEW r \in Row, RemoveRow(j, r) \/ RemoveFails(j, r) \/ AddRow(j, r) \/ AddFails(j, r)
        PROVE  Concerned' \subseteq Concerned /\ UNCHANGED gap
    <2>1. /\ job[j].at = "write" /\ job'[j].at = "write" /\ job'[j].adding \subseteq job[j].adding /\ UNCHANGED gap
      BY <1>0, <1>7 DEF RemoveRow, RemoveFails, AddRow, AddFails, Aged, Unread, JobSet
    <2>2. rows' \subseteq rows \cup job[j].adding
      BY <1>7 DEF RemoveRow, RemoveFails, AddRow, AddFails, database
    <2>3. Pending(j)' \subseteq Pending(j) /\ rows' \subseteq rows \cup Pending(j)
      BY <2>1, <2>2 DEF Pending
    <2> QED
      BY <1>1, <2>1, <2>3
  <1>8. ASSUME NEW r \in Row, RemoveById(j, r) PROVE Concerned' \subseteq Concerned /\ UNCHANGED gap
    <2>1. job'[j].at = "dateOnly" /\ rows' \subseteq rows /\ UNCHANGED gap
      BY <1>0, <1>8 DEF RemoveById, Request, Aged, Unread, Idle
    <2>2. Pending(j)' = {}
      BY <2>1 DEF Pending
    <2> QED
      BY <1>1, <2>1, <2>2
  <1>9. CASE (SyncDate(j) \/ ReadKontexte(j) \/ TellRemoval(j) \/ TellDeletion(j)) /\ ~End(j)
    <2>1. job'[j].at \in {"publish", "tell", "told", "drop"} /\ UNCHANGED <<rows, gap>>
      BY <1>0, <1>9 DEF SyncDate, ReadKontexte, TellRemoval, TellDeletion, database, JobSet
    <2>2. Pending(j)' = {}
      BY <2>1 DEF Pending
    <2> QED
      BY <1>1, <2>1, <2>2
  <1>10. CASE Drop(j)
    <2>1. job'[j].at = "idle" /\ rows' = {} /\ UNCHANGED gap
      BY <1>0, <1>10 DEF Drop, Aged, Unread, Idle
    <2>2. Pending(j)' = {}
      BY <2>1 DEF Pending
    <2> QED
      BY <1>1, <2>1, <2>2
  <1> QED
    BY <1>2, <1>3, <1>4, <1>5, <1>6, <1>7, <1>8, <1>9, <1>10 DEF Step, Publish, GiveUp, Abort, Refuse

\* A check that passes fits what is concerned already: it has met a context, or
\* no other request has anything pending.
LEMMA CheckFits ==
    ASSUME TypeOK, ArtInv, NEW j \in Job, CheckRollenart(j), job'[j].at = "validate", Step(j), ~gap'
    PROVE  OneArt(Concerned)'
  <1>0. job \in [Job -> JobSet] /\ job[j] \in JobSet
    BY DEF TypeOK
  <1>1. ~End(j)
    BY <1>0 DEF End, Idle
  <1>2. /\ job' = [job EXCEPT ![j].at = "validate"] /\ TRUE \in Verdicts(j) /\ UNCHANGED rows
        /\ gap' = (gap \/ (rows = {} /\ \E k \in Job \ {j} : Busy(k)))
    BY <1>1 DEF CheckRollenart, Refuse, database
  <1>3. job[j].at = "rollenart" /\ Pending(j)' = job[j].sent
    BY <1>0, <1>2 DEF CheckRollenart, Pending, JobSet
  <1>4. \A k \in Job \ {j} : Pending(k)' = Pending(k)
    BY OthersKeep DEF Pending
  <1>5. OneArt(Concerned) /\ (rows = {} => \A k \in Job \ {j} : ~Busy(k))
    BY <1>2 DEF ArtInv
  <1>6. Concerned' = Concerned \cup job[j].sent
    <2>1. Pending(j) = {}
      BY <1>3 DEF Pending
    <2> QED
      BY <1>2, <1>3, <1>4, <2>1 DEF Concerned
  <1>7. CASE job[j].sent = {}
    BY <1>5, <1>6, <1>7 DEF OneArt
  <1>8. CASE job[j].sent # {} /\ rows # {}
    <2>1. PICK f \in rows : \A s \in job[j].sent : RollenartOf[s.kontext] = RollenartOf[f.kontext]
      BY <1>2, <1>8 DEF Verdicts
    <2>2. \A q \in Concerned : RollenartOf[q.kontext] = RollenartOf[f.kontext]
      BY <1>5, <2>1 DEF OneArt, Concerned
    <2>3. \A q \in Concerned' : RollenartOf[q.kontext] = RollenartOf[f.kontext]
      BY <1>6, <2>1, <2>2
    <2> QED
      BY <2>3 DEF OneArt
  <1>9. CASE job[j].sent # {} /\ rows = {}
    <2>1. \A k \in Job : Pending(k) = {}
      BY <1>3, <1>5, <1>9 DEF Pending, Busy
    <2>2. Concerned' = job[j].sent
      BY <1>6, <1>9, <2>1 DEF Concerned
    <2>3. PICK f \in job[j].sent : \A s \in job[j].sent : RollenartOf[s.kontext] = RollenartOf[f.kontext]
      BY <1>2, <1>9 DEF Verdicts
    <2> QED
      BY <2>2, <2>3 DEF OneArt
  <1> QED
    BY <1>7, <1>8, <1>9

LEMMA ArtStep == TypeOK /\ ArtInv /\ [Next]_vars => ArtInv'
  <1> SUFFICES ASSUME TypeOK, ArtInv, [Next]_vars, ~gap' PROVE OneArt(Concerned)'
    BY DEF ArtInv
  <1>1. ASSUME Concerned' \subseteq Concerned, UNCHANGED gap PROVE OneArt(Concerned)'
    BY <1>1 DEF ArtInv, OneArt
  <1>2. CASE UNCHANGED vars \/ DaysPass
    <2>1. UNCHANGED <<rows, job, gap>>
      BY <1>2 DEF vars, database, DaysPass
    <2> QED
      BY <1>1, <2>1 DEF Concerned, Pending
  <1>3. ASSUME NEW j \in Job, Step(j) PROVE OneArt(Concerned)'
    BY <1>1, <1>3, NothingNew, CheckFits
  <1> QED
    BY <1>2, <1>3 DEF Next

LEMMA Invariance == Spec => []IInv
  <1>1. Init => IInv
    <2> SUFFICES ASSUME Init PROVE IInv
      OBVIOUS
    <2>1. \A j \in Job : job[j] = Idle
      BY DEF Init
    <2>2. PlannedInv
      BY DEF Init, PlannedInv
    <2>3. KindInv /\ SeenInv
      BY <2>1 DEF KindInv, SeenInv, Idle
    <2>4. DateMatchesContexts
      BY DEF Init, DateMatchesContexts
    <2>5. ArtInv
      <3>1. OneArt(rows)
        BY DEF Init, OneArt
      <3>2. Concerned = rows
        BY <2>1 DEF Concerned, Pending, Idle
      <3> QED
        BY <3>1, <3>2 DEF ArtInv
    <2> QED
      BY <2>2, <2>3, <2>4, <2>5, TypeInit DEF IInv
  <1>2. IInv /\ [Next]_vars => IInv'
    BY TypeStep, PlannedStep, KindStep, SeenStep, DateStep, ArtStep DEF IInv
  <1> QED
    BY <1>1, <1>2, PTL DEF Spec

\* orgUnassignmentDate is set exactly if the person has no context once all
\* requests have synchronised it, in whatever order they read and wrote.
THEOREM DateFollowsContexts == Spec => []DateMatchesContexts
  <1>1. IInv => DateMatchesContexts
    BY DEF IInv
  <1> QED
    BY <1>1, Invariance, PTL

\* The contexts of a person have one Rollenart whatever updates run side by
\* side, unless a Rollenart was checked while there was none to compare with
\* and another request was running.
THEOREM RollenartStaysOne == Spec => []OneRollenart
  <1>1. IInv => OneRollenart
    BY DEF IInv, ArtInv, OneRollenart, OneArt, Concerned
  <1> QED
    BY <1>1, Invariance, PTL

\* The number of contexts and the newest updatedAt suffice to recognise that
\* the contexts are those that a client has seen.
THEOREM OptimisticCheckSuffices == Spec => ReadsWhatWasSeen
  <1>1. IInv /\ [Next]_vars =>
            [\A j \in Job : (job[j].at = "validate" /\ job'[j].at = "write" /\ job[j].kind # "cron")
                                => job[j].existing = job[j].seen]_vars
    <2> SUFFICES ASSUME IInv, Next, NEW j \in Job, job[j].at = "validate", job'[j].at = "write", job[j].kind # "cron"
                 PROVE  job[j].existing = job[j].seen
      OBVIOUS
    <2>0. TypeOK /\ SeenInv /\ job \in [Job -> JobSet]
      BY DEF IInv, TypeOK
    <2>1. ~DaysPass
      BY DEF DaysPass
    <2>2. \A k \in Job \ {j} : ~Step(k)
      BY <2>0, OthersKeep
    <2>3. Step(j)
      BY <2>1, <2>2 DEF Next
    <2>4. CASE Validate(j)
      <3>1. ~End(j)
        BY <2>0 DEF End, Idle
      <3>2. Unchanged(j)
        BY <2>4, <3>1 DEF Validate, Refuse
      <3> QED
        BY <2>0, <3>2, CheckExact
    <2>5. CASE ~Validate(j)
      <3>1. CASE End(j)
        BY <2>0, <3>1 DEF End, Idle
      <3>2. CASE ~End(j)
        BY <2>3, <2>5, <3>2 DEF Step, View, Create, ListExpired, FindSent, ReadExisting, CheckRollenart, Request, RemoveRow,
                     RemoveFails, AddRow, AddFails, RemoveById, Reread, SyncDate, Publish, RequestDeletion, ListUnassigned,
                     ReadKontexte, TellRemoval, TellDeletion, Drop, GiveUp, Abort, Refuse
      <3> QED
        BY <3>1, <3>2
    <2> QED
      BY <2>4, <2>5
  <1> QED
    BY <1>1, Invariance, PTL DEF Spec, ReadsWhatWasSeen

----------------------------------------------------------------------------
(* One request at a time beside the handlers                               *)

\* The requests of the person do not overlap. With two of them the agreement is
\* lost: an update and a deletion, or two updates, may publish in another order
\* than they wrote.
Serially == \A j, k \in Job : j = k

WriteSteps == {"write", "date", "publish"}

Writing == \E j \in Job : job[j].at \in WriteSteps

Leaving == \E j \in Job : job[j].at \in {"told", "drop"}

\* The contexts that the events published so far amount to.
Due == IF Leaving THEN {} ELSE rows

Gone == person = "deleted" \/ \E j \in Job : job[j].at = "drop" /\ job[j].kind = "delete"

Ended == person \in {"deleted", "expired"} \/ \E j \in Job : job[j].at = "drop"

\* What the one request knows of the contexts.
KnowInv(j) ==
    /\ job[j].at \in WriteSteps \cup {"listed", "tell", "told", "drop"} => person = "present"
    /\ job[j].at \in {"listed", "tell", "told", "drop"} => job[j].kind \in {"delete", "deadline"}
    /\ job[j].at \in {"viewed", "read", "rollenart", "validate"} => job[j].added = {} /\ job[j].removed = {}
    /\ job[j].at \in WriteSteps => job[j].added \subseteq rows
    /\ job[j].at = "write" /\ job[j].removing # {} => job[j].added = {}
    /\ job[j].at \in {"date", "publish"} => job[j].current = rows
    /\ job[j].at \in {"tell", "told"} => job[j].removed = rows

RequestInv == (person # "present" => rows = {}) /\ \A j \in Job : KnowInv(j)

Joined(m) == SchulenOf(m.added, Uem)

\* A message that tells LDAP about the school.
Touches(m, x) == m.type = "updated" /\ x \in Joined(m) \cup Unjustified(m)

\* The request under way will tell LDAP about the school.
Opens(j, x) ==
    /\ job[j].at \in WriteSteps
    /\ x \in SchulenOf(job[j].added, Uem) \cup (SchulenOf(job[j].removed, Uem) \ SchulenOf(rows, Uem))

Open(x) == \E j \in Job : Opens(j, x)

\* The request under way has removed contexts with e-mail.
Unsetting == \E j \in Job : job[j].at \in WriteSteps /\ SchulenOf(job[j].removed, Email) # {}

\* The schools of the contexts of one kind, by their members.
LEMMA SchulenOfDef ==
    ASSUME NEW R, NEW S, NEW x
    PROVE  x \in SchulenOf(R, S) <=> \E q \in R : q.kontext \in S /\ SchuleOf[q.kontext] = x
  BY DEF SchulenOf

\* What a step without an event leaves true of what was told.
Steady ==
    /\ Writing' \/ (~Writing /\ Due' = Due)
    /\ Leaving' => Leaving /\ rows' = rows
    /\ Ended => Ended'
    /\ Gone' => Gone
    /\ \A x \in Schule : ~Open(x)' => ~Open(x) /\ (x \in SchulenOf(Due, Uem)' <=> x \in SchulenOf(Due, Uem))
    /\ Unsetting => Unsetting'
    /\ SchulenOf(Due, Email)' = {} => SchulenOf(Due, Email) = {} \/ Unsetting'

Calm == event'.type = "none" /\ Steady

\* An update tells of the contexts that it has left.
Updated ==
    /\ event'.type = "updated"
    /\ event'.current = rows /\ rows' = rows
    /\ Due = rows /\ Due' = rows
    /\ ~Writing' /\ ~Leaving /\ ~Leaving' /\ ~Ended /\ ~Ended' /\ ~Gone'
    /\ \A x \in Schule :
        /\ ~Open(x)'
        /\ Open(x) <=> Touches(event', x)
        /\ Open(x) => (x \in Joined(event') <=> x \in SchulenOf(rows, Uem))
    /\ Unsetting => SchulenOf(event'.removed, Email) # {}

\* A deletion tells that all contexts go.
Removes ==
    /\ event'.type = "updated" /\ event'.added = {} /\ event'.current = {} /\ event'.removed = rows
    /\ rows' = rows
    /\ Due = rows /\ Due' = {}
    /\ ~Writing /\ ~Writing' /\ ~Leaving /\ Leaving' /\ ~Ended /\ ~Ended' /\ ~Gone'
    /\ ~Unsetting /\ \A x \in Schule : ~Open(x) /\ ~Open(x)'

\* And then that the person goes.
Deletes ==
    /\ event'.type \in {"deleted", "deadline"}
    /\ rows' = rows
    /\ Due = {} /\ Due' = {}
    /\ ~Writing /\ ~Writing' /\ Leaving /\ Leaving' /\ ~Ended /\ Ended' /\ (Gone' => event'.type = "deleted")
    /\ ~Unsetting /\ \A x \in Schule : ~Open(x) /\ ~Open(x)'

Moves == Calm \/ Updated \/ Removes \/ Deletes \/ event'.type = "untold"

\* With one request the quantifiers over the requests disappear.
LEMMA Solo ==
    ASSUME Serially, NEW j \in Job
    PROVE  /\ Writing <=> job[j].at \in WriteSteps
           /\ Leaving <=> job[j].at \in {"told", "drop"}
           /\ Gone <=> person = "deleted" \/ (job[j].at = "drop" /\ job[j].kind = "delete")
           /\ Ended <=> person \in {"deleted", "expired"} \/ job[j].at = "drop"
           /\ RequestInv <=> (person # "present" => rows = {}) /\ KnowInv(j)
           /\ \A x : Open(x) <=> Opens(j, x)
           /\ Unsetting <=> job[j].at \in WriteSteps /\ SchulenOf(job[j].removed, Email) # {}
  BY DEF Serially, Writing, Leaving, Gone, Ended, RequestInv, Open, Unsetting

\* The same after the step.
LEMMA SoloPrime ==
    ASSUME Serially, NEW j \in Job
    PROVE  /\ Writing' <=> job'[j].at \in WriteSteps
           /\ Leaving' <=> job'[j].at \in {"told", "drop"}
           /\ Gone' <=> person' = "deleted" \/ (job'[j].at = "drop" /\ job'[j].kind = "delete")
           /\ Ended' <=> person' \in {"deleted", "expired"} \/ job'[j].at = "drop"
           /\ RequestInv' <=> (person' # "present" => rows' = {}) /\ KnowInv(j)'
           /\ \A x : Open(x)' <=> Opens(j, x)'
           /\ Unsetting' <=> job'[j].at \in WriteSteps /\ SchulenOf(job[j].removed, Email)' # {}
  BY DEF Serially, Writing, Leaving, Gone, Ended, RequestInv, Open, Unsetting, SchulenOf

\* A request that has not written anything yet, and will not without another step.
LEMMA QuietMove ==
    ASSUME TypeOK, Serially, RequestInv, NEW j \in Job, event' = Nothing,
           rows' = rows, person' = person \/ (person = "planned" /\ person' = "present"),
           job[j].at \notin WriteSteps \cup {"told", "drop"},
           job'[j].at \notin {"told", "drop"},
           job'[j].at \in WriteSteps => job'[j].added = {} /\ job'[j].removed = {}
    PROVE  Calm
  <1>1. event'.type = "none"
    BY DEF Nothing
  <1>2. ~Writing /\ ~Leaving /\ ~Leaving'
    BY Solo, SoloPrime
  <1>3. Due = rows /\ Due' = rows
    BY <1>2 DEF Due
  <1>4. \A x \in Schule : ~Open(x)
    BY Solo DEF Opens
  <1>5. SchulenOf(Due, Uem)' = SchulenOf(Due, Uem) /\ SchulenOf(Due, Email)' = SchulenOf(Due, Email)
    BY <1>3 DEF SchulenOf
  <1>6. ~Unsetting
    BY Solo
  <1>7. (Ended => Ended') /\ (Gone' => Gone)
    BY Solo, SoloPrime
  <1> QED
    BY <1>1, <1>2, <1>3, <1>4, <1>5, <1>6, <1>7 DEF Calm, Steady

\* The first context of a school and its last one are noticed.
LEMMA RemoveMove ==
    ASSUME TypeOK, Serially, RequestInv, NEW j \in Job, NEW r \in Row, RemoveRow(j, r)
    PROVE  RequestInv' /\ Calm
  <1> DEFINE a == job[j]
             b == job'[j]
  <1>0. a \in JobSet /\ rows \subseteq Row /\ person = "present" /\ a.added = {} /\ a.at = "write"
    BY Solo DEF TypeOK, RowSet, RemoveRow, KnowInv, WriteSteps
  <1>1. b = [a EXCEPT !.removing = @ \ {r}, !.removed = @ \cup {r}]
    BY <1>0 DEF TypeOK, RemoveRow, Aged, Unread
  <1>2. b.at = "write" /\ b.added = {} /\ b.removed = a.removed \cup {r}
    BY <1>0, <1>1 DEF JobSet
  <1>3. rows' = {q \in rows : q.kontext # r.kontext} /\ person' = person /\ event'.type = "none"
    BY DEF RemoveRow, Silent, Nothing
  <1>4. RequestInv'
    BY <1>0, <1>2, <1>3, SoloPrime DEF KnowInv, WriteSteps
  <1>5. Writing /\ Writing' /\ ~Leaving /\ ~Leaving' /\ Due = rows /\ Due' = rows'
    BY <1>0, <1>2, Solo, SoloPrime DEF WriteSteps, Due
  <1>6. ~Ended /\ ~Gone'
    BY <1>0, <1>2, <1>3, Solo, SoloPrime
  <1>7. SchulenOf(a.removed, Email) # {} => SchulenOf(b.removed, Email) # {}
    BY <1>2 DEF SchulenOf
  <1>8. SchulenOf(rows', Email) = {} => SchulenOf(rows, Email) = {} \/ SchulenOf(b.removed, Email) # {}
    BY <1>2, <1>3 DEF SchulenOf
  <1>9. ASSUME NEW x \in Schule, ~Open(x)' PROVE ~Open(x) /\ (x \in SchulenOf(rows', Uem) <=> x \in SchulenOf(rows, Uem))
    <2>1. x \notin SchulenOf(b.removed, Uem) \/ x \in SchulenOf(rows', Uem)
      BY <1>2, <1>9, SoloPrime DEF Opens, WriteSteps, SchulenOf
    <2>2. x \in SchulenOf(rows, Uem) => x \in SchulenOf(rows', Uem)
      <3> SUFFICES ASSUME x \in SchulenOf(rows, Uem), x \notin SchulenOf(rows', Uem) PROVE FALSE
        OBVIOUS
      <3>1. PICK q \in rows : q.kontext \in Uem /\ SchuleOf[q.kontext] = x
        BY SchulenOfDef
      <3>2. q.kontext = r.kontext
        BY <1>3, <3>1, SchulenOfDef
      <3> QED
        BY <1>2, <2>1, <3>1, <3>2, SchulenOfDef
    <2>3. x \in SchulenOf(rows', Uem) => x \in SchulenOf(rows, Uem)
      BY <1>3 DEF SchulenOf
    <2>4. x \in SchulenOf(a.removed, Uem) => x \in SchulenOf(b.removed, Uem)
      BY <1>2 DEF SchulenOf
    <2>5. x \notin SchulenOf(a.added, Uem)
      BY <1>0 DEF SchulenOf
    <2> QED
      BY <2>1, <2>2, <2>3, <2>4, <2>5, Solo DEF Opens
  <1>10. SchulenOf(Due, Uem)' = SchulenOf(rows', Uem) /\ SchulenOf(Due, Email)' = SchulenOf(rows', Email)
    BY <1>5 DEF SchulenOf
  <1>11. (Unsetting => Unsetting') /\ (SchulenOf(b.removed, Email) # {} => Unsetting')
    BY <1>2, <1>7, Solo, SoloPrime DEF WriteSteps, SchulenOf
  <1> QED
    BY <1>3, <1>4, <1>5, <1>6, <1>8, <1>9, <1>10, <1>11 DEF Calm, Steady

\* A context that is added opens its school until the event is published.
LEMMA AddMove ==
    ASSUME TypeOK, Serially, RequestInv, NEW j \in Job, NEW r \in Row, AddRow(j, r)
    PROVE  RequestInv' /\ Calm
  <1> DEFINE a == job[j]
             b == job'[j]
  <1>0. a \in JobSet /\ rows \subseteq Row /\ person = "present" /\ a.added \subseteq rows /\ a.at = "write" /\ a.removing = {}
    BY Solo DEF TypeOK, RowSet, AddRow, KnowInv, WriteSteps
  <1>3. person' = person /\ event'.type = "none"
    BY DEF AddRow, Silent, Nothing
  <1>1. PICK new \in SUBSET {r} :
           /\ rows' = rows \cup new /\ b.at = "write" /\ b.removing = {}
           /\ b.added = a.added \cup new /\ b.removed = a.removed
    <2>1. CASE Insertable(r)
      <3>1. b = [a EXCEPT !.adding = @ \ {r}, !.added = @ \cup {r}] /\ rows' = rows \cup {r}
        BY <1>0, <2>1 DEF TypeOK, AddRow, Aged, Unread
      <3> QED
        BY <1>0, <3>1 DEF JobSet
    <2>2. CASE ~Insertable(r)
      <3>1. b = [a EXCEPT !.adding = @ \ {r}] /\ rows' = rows
        BY <1>0, <2>2 DEF TypeOK, AddRow
      <3> QED
        BY <1>0, <3>1 DEF JobSet
    <2> QED
      BY <2>1, <2>2
  <1>4. RequestInv'
    BY <1>0, <1>1, <1>3, SoloPrime DEF KnowInv, WriteSteps
  <1>5. Writing /\ Writing' /\ ~Leaving /\ ~Leaving' /\ Due = rows /\ Due' = rows'
    BY <1>0, <1>1, Solo, SoloPrime DEF WriteSteps, Due
  <1>6. ~Ended /\ ~Gone'
    BY <1>0, <1>1, <1>3, Solo, SoloPrime
  <1>8. SchulenOf(rows', Email) = {} => SchulenOf(rows, Email) = {}
    BY <1>1 DEF SchulenOf
  <1>9. ASSUME NEW x \in Schule, ~Open(x)' PROVE ~Open(x) /\ (x \in SchulenOf(rows', Uem) <=> x \in SchulenOf(rows, Uem))
    <2>1. x \notin SchulenOf(b.added, Uem) /\ (x \notin SchulenOf(a.removed, Uem) \/ x \in SchulenOf(rows', Uem))
      BY <1>1, <1>9, SoloPrime DEF Opens, WriteSteps, SchulenOf
    <2>2. x \notin SchulenOf(new, Uem) /\ x \notin SchulenOf(a.added, Uem)
      BY <1>1, <2>1 DEF SchulenOf
    <2>3. x \in SchulenOf(rows', Uem) <=> x \in SchulenOf(rows, Uem)
      BY <1>1, <2>2 DEF SchulenOf
    <2> QED
      BY <2>1, <2>2, <2>3, Solo DEF Opens
  <1>10. SchulenOf(Due, Uem)' = SchulenOf(rows', Uem) /\ SchulenOf(Due, Email)' = SchulenOf(rows', Email)
    BY <1>5 DEF SchulenOf
  <1>11. Unsetting => Unsetting'
    BY <1>1, Solo, SoloPrime DEF WriteSteps, SchulenOf
  <1> QED
    BY <1>3, <1>4, <1>5, <1>6, <1>8, <1>9, <1>10, <1>11 DEF Calm, Steady

\* A request that is between its writes and its event.
LEMMA WritingMove ==
    ASSUME TypeOK, Serially, RequestInv, NEW j \in Job, event' = Nothing, rows' = rows, person' = person,
           job[j].at \in WriteSteps, job'[j].at \in WriteSteps,
           job'[j].added = job[j].added, job'[j].removed = job[j].removed
    PROVE  Calm
  <1>0. person = "present"
    BY Solo DEF KnowInv
  <1>1. event'.type = "none"
    BY DEF Nothing
  <1>2. Writing /\ Writing' /\ ~Leaving /\ ~Leaving' /\ ~Ended /\ ~Gone'
    BY <1>0, Solo, SoloPrime DEF WriteSteps
  <1>3. Due = rows /\ Due' = rows
    BY <1>2 DEF Due
  <1>4. \A x \in Schule : Open(x)' <=> Open(x)
    BY Solo, SoloPrime DEF Opens, SchulenOf
  <1>5. SchulenOf(Due, Uem)' = SchulenOf(Due, Uem) /\ SchulenOf(Due, Email)' = SchulenOf(Due, Email)
    BY <1>3 DEF SchulenOf
  <1>6. Unsetting' <=> Unsetting
    BY Solo, SoloPrime DEF SchulenOf
  <1> QED
    BY <1>1, <1>2, <1>3, <1>4, <1>5, <1>6 DEF Calm, Steady

\* The event of an update tells what the update has left.
LEMMA PublishMove ==
    ASSUME TypeOK, Serially, RequestInv, NEW j \in Job, Publish(j)
    PROVE  RequestInv' /\ Updated
  <1> DEFINE a == job[j]
  <1>0. person = "present" /\ a.at = "publish" /\ a.added \subseteq rows /\ a.current = rows
    BY Solo DEF Publish, KnowInv, WriteSteps
  <1>1. /\ person' = person /\ rows' = rows
        /\ event' = [type |-> "updated", added |-> a.added, removed |-> a.removed, current |-> rows]
    BY <1>0 DEF Publish, database
  <1>2. job'[j] = Idle
    BY DEF Publish, End, TypeOK
  <1>3. RequestInv'
    BY <1>0, <1>1, <1>2, SoloPrime DEF KnowInv, WriteSteps, Idle
  <1>4. ~Writing' /\ ~Leaving /\ ~Leaving' /\ ~Ended /\ ~Ended' /\ ~Gone'
    BY <1>0, <1>1, <1>2, Solo, SoloPrime DEF WriteSteps, Idle
  <1>5. Due = rows /\ Due' = rows
    BY <1>1, <1>4 DEF Due
  <1>6. ASSUME NEW x \in Schule
        PROVE  /\ ~Open(x)'
               /\ Open(x) <=> Touches(event', x)
               /\ Open(x) => (x \in Joined(event') <=> x \in SchulenOf(rows, Uem))
    <2>1. ~Open(x)'
      BY <1>2, SoloPrime DEF Opens, WriteSteps, Idle
    <2>2. Joined(event') = SchulenOf(a.added, Uem) /\ Unjustified(event') = SchulenOf(a.removed, Uem) \ SchulenOf(rows, Uem)
      BY <1>1 DEF Joined, Unjustified
    <2>3. x \in SchulenOf(a.added, Uem) => x \in SchulenOf(rows, Uem)
      BY <1>0 DEF SchulenOf
    <2>4. Open(x) <=> x \in Joined(event') \cup Unjustified(event')
      BY <1>0, <2>2, Solo DEF Opens, WriteSteps
    <2> QED
      BY <1>1, <2>1, <2>2, <2>3, <2>4 DEF Touches
  <1>7. Unsetting => SchulenOf(event'.removed, Email) # {}
    BY <1>1, Solo
  <1> QED
    BY <1>1, <1>3, <1>4, <1>5, <1>6, <1>7 DEF Updated

\* The first event of a deletion.
LEMMA TellRemovalMove ==
    ASSUME TypeOK, Serially, RequestInv, NEW j \in Job, TellRemoval(j)
    PROVE  RequestInv' /\ Removes
  <1> DEFINE a == job[j]
  <1>0. person = "present" /\ a.at = "tell" /\ a.removed = rows /\ a.kind \in {"delete", "deadline"} /\ a \in JobSet
    BY Solo DEF TellRemoval, KnowInv, TypeOK
  <1>1. person' = person /\ rows' = rows /\ event' = RemovalEvent(j) /\ job'[j] = [a EXCEPT !.at = "told"]
    BY <1>0 DEF TellRemoval, database, TypeOK
  <1>2. event'.type = "updated" /\ event'.added = {} /\ event'.current = {} /\ event'.removed = rows
    BY <1>0, <1>1 DEF RemovalEvent, Nothing
  <1>3. job'[j].at = "told" /\ job'[j].removed = rows /\ job'[j].kind = a.kind
    BY <1>0, <1>1 DEF JobSet
  <1>4. RequestInv'
    BY <1>0, <1>1, <1>3, SoloPrime DEF KnowInv, WriteSteps
  <1>5. ~Writing /\ ~Writing' /\ ~Leaving /\ Leaving' /\ ~Ended /\ ~Ended' /\ ~Gone' /\ ~Unsetting
    BY <1>0, <1>1, <1>3, Solo, SoloPrime DEF WriteSteps
  <1>6. \A x \in Schule : ~Open(x) /\ ~Open(x)'
    BY <1>0, <1>3, Solo, SoloPrime DEF Opens, WriteSteps
  <1> QED
    BY <1>1, <1>2, <1>4, <1>5, <1>6 DEF Removes, Due

\* The second event of a deletion.
LEMMA TellDeletionMove ==
    ASSUME TypeOK, Serially, RequestInv, NEW j \in Job, TellDeletion(j)
    PROVE  RequestInv' /\ (Deletes \/ Calm)
  <1> DEFINE a == job[j]
  <1>0. person = "present" /\ a.at = "told" /\ a.removed = rows /\ a.kind \in {"delete", "deadline"} /\ a \in JobSet
    BY Solo DEF TellDeletion, KnowInv, TypeOK
  <1>1. person' = person /\ rows' = rows /\ job'[j] = [a EXCEPT !.at = "drop"]
    BY <1>0 DEF TellDeletion, database, TypeOK
  <1>3. job'[j].at = "drop" /\ job'[j].kind = a.kind
    BY <1>0, <1>1 DEF JobSet
  <1>4. RequestInv'
    BY <1>0, <1>1, <1>3, SoloPrime DEF KnowInv, WriteSteps
  <1>5. ~Writing /\ ~Writing' /\ Leaving /\ Leaving' /\ ~Ended /\ Ended' /\ (Gone' => a.kind = "delete") /\ ~Unsetting
    BY <1>0, <1>1, <1>3, Solo, SoloPrime DEF WriteSteps
  <1>6. \A x \in Schule : ~Open(x) /\ ~Open(x)'
    BY <1>0, <1>3, Solo, SoloPrime DEF Opens, WriteSteps
  <1>7. Due = {} /\ Due' = {}
    BY <1>5 DEF Due
  <1>8. SchulenOf(Due, Uem)' = SchulenOf(Due, Uem) /\ SchulenOf(Due, Email)' = SchulenOf(Due, Email)
    BY <1>7 DEF SchulenOf
  <1>9. CASE a.kind = "delete"
    <2>1. event'.type = "deleted"
      BY <1>9 DEF TellDeletion, Nothing
    <2> QED
      BY <1>1, <1>4, <1>5, <1>6, <1>7, <2>1 DEF Deletes
  <1>10. CASE a.kind # "delete"
    <2>1. CASE event' = Nothing
      <3>1. event'.type = "none"
        BY <2>1 DEF Nothing
      <3> QED
        BY <1>1, <1>4, <1>5, <1>6, <1>7, <1>8, <1>10, <3>1 DEF Calm, Steady
    <2>2. CASE event' # Nothing
      <3>1. event'.type = "deadline"
        BY <1>10, <2>2 DEF TellDeletion, Nothing
      <3> QED
        BY <1>1, <1>4, <1>5, <1>6, <1>7, <1>10, <3>1 DEF Deletes
    <2> QED
      BY <2>1, <2>2
  <1> QED
    BY <1>9, <1>10

\* The person goes, and nothing is due any more.
LEMMA DropMove ==
    ASSUME TypeOK, Serially, RequestInv, NEW j \in Job, Drop(j)
    PROVE  RequestInv' /\ Calm
  <1> DEFINE a == job[j]
  <1>0. person = "present" /\ a.at = "drop" /\ a.kind \in {"delete", "deadline"}
    BY Solo DEF Drop, KnowInv
  <1>1. rows' = {} /\ person' = (IF a.kind = "delete" THEN "deleted" ELSE "expired") /\ event'.type = "none"
    BY DEF Drop, Silent, Nothing
  <1>2. job'[j] = Idle
    BY <1>0 DEF Drop, Aged, Unread, TypeOK
  <1>3. RequestInv'
    BY <1>1, <1>2, SoloPrime DEF KnowInv, WriteSteps, Idle
  <1>4. ~Writing /\ ~Writing' /\ Leaving /\ ~Leaving' /\ Ended /\ Ended' /\ (Gone' => Gone) /\ ~Unsetting
    BY <1>0, <1>1, <1>2, Solo, SoloPrime DEF WriteSteps, Idle
  <1>5. Due = {} /\ Due' = {}
    BY <1>1, <1>4 DEF Due
  <1>6. \A x \in Schule : ~Open(x)
    BY <1>0, Solo DEF Opens, WriteSteps
  <1>7. SchulenOf(Due, Uem)' = SchulenOf(Due, Uem) /\ SchulenOf(Due, Email)' = SchulenOf(Due, Email)
    BY <1>5 DEF SchulenOf
  <1> QED
    BY <1>1, <1>3, <1>4, <1>5, <1>6, <1>7 DEF Calm, Steady

\* What a request is about when it ends, or never wrote anything.
LEMMA EndMove ==
    ASSUME TypeOK, Serially, RequestInv, NEW j \in Job, rows' \subseteq rows, person' = person, job'[j] = Idle
    PROVE  RequestInv'
  BY Solo, SoloPrime DEF KnowInv, WriteSteps, Idle

\* A request that breaks off after its first write leaves a change of which no event tells.
LEMMA AbortMove ==
    ASSUME TypeOK, Serially, RequestInv, NEW j \in Job, Abort(j)
    PROVE  RequestInv' /\ Moves
  <1>1. rows' = rows /\ person' = person /\ job'[j] = Idle
    BY DEF Abort, End, database, TypeOK
  <1>2. RequestInv'
    BY <1>1, EndMove
  <1>3. CASE job[j].at = "dateOnly"
    <2>1. event' = Nothing
      BY <1>3 DEF Abort
    <2> QED
      BY <1>1, <1>2, <1>3, <2>1, QuietMove DEF WriteSteps, Idle, Moves
  <1>4. CASE job[j].at # "dateOnly"
    BY <1>2, <1>4 DEF Abort, Untold, Nothing, Moves
  <1> QED
    BY <1>3, <1>4

\* Every step of the one request is one of these.
LEMMA RequestMoves ==
    ASSUME TypeOK, Serially, RequestInv, NEW j \in Job, Step(j)
    PROVE  RequestInv' /\ Moves
  <1> DEFINE a == job[j]
             b == job'[j]
  <1>0. a \in JobSet /\ (person # "present" => rows = {}) /\ KnowInv(j)
    BY Solo DEF TypeOK
  <1>a. ASSUME person' = person, rows' = rows, event' = Nothing, b = Idle, a.at \notin WriteSteps \cup {"told", "drop"}
        PROVE  RequestInv' /\ Moves
    BY <1>a, EndMove, QuietMove DEF Idle, WriteSteps, Moves
  <1>b. ASSUME Refuse(j), person' = person, rows' = rows, event' = Nothing, a.at \notin WriteSteps \cup {"told", "drop"}
        PROVE  RequestInv' /\ Moves
    <2>1. b = Idle
      BY <1>b DEF Refuse, End, TypeOK
    <2> QED
      BY <1>a, <1>b, <2>1
  <1>1. CASE View(j) \/ ListExpired(j)
    <2>1. b.at = "viewed" /\ b.added = {} /\ b.removed = {} /\ a.at = "idle"
      <3>1. CASE View(j)
        BY <3>1 DEF View, Request, TypeOK, Idle
      <3>2. CASE ListExpired(j)
        BY <3>2 DEF ListExpired, Request, TypeOK, Idle
      <3> QED
        BY <1>1, <3>1, <3>2
    <2>2. person' = person /\ rows' = rows /\ event' = Nothing
      BY <1>1 DEF View, ListExpired, Silent, database
    <2>3. RequestInv'
      BY <1>0, <2>1, <2>2, SoloPrime DEF KnowInv, WriteSteps
    <2> QED
      BY <2>1, <2>2, <2>3, QuietMove DEF WriteSteps, Moves
  <1>2. CASE Create(j)
    <2>1. b.at = "viewed" /\ b.added = {} /\ b.removed = {} /\ a.at = "idle"
      BY <1>2 DEF Create, Request, TypeOK, Idle
    <2>2. person = "planned" /\ person' = "present" /\ rows' = rows /\ event' = Nothing
      BY <1>2 DEF Create, Silent
    <2>3. RequestInv'
      BY <1>0, <2>1, <2>2, SoloPrime DEF KnowInv, WriteSteps
    <2> QED
      BY <2>1, <2>2, <2>3, QuietMove DEF WriteSteps, Moves
  <1>3. CASE (\E sent \in Sendable(j) : FindSent(j, sent)) \/ ReadExisting(j) \/ (CheckRollenart(j) /\ ~Refuse(j))
    <2>1. /\ b.at \in {"read", "rollenart", "validate"} /\ b.added = a.added /\ b.removed = a.removed
          /\ a.at \in {"viewed", "read", "rollenart"}
      <3>1. CASE \E sent \in Sendable(j) : FindSent(j, sent)
        BY <1>0, <3>1 DEF FindSent, TypeOK, JobSet
      <3>2. CASE ReadExisting(j)
        BY <1>0, <3>2 DEF ReadExisting, TypeOK, JobSet
      <3>3. CASE CheckRollenart(j) /\ ~Refuse(j)
        <4>1. job' = [job EXCEPT ![j].at = "validate"] /\ a.at = "rollenart"
          BY <3>3 DEF CheckRollenart
        <4> QED
          BY <1>0, <4>1 DEF TypeOK, JobSet
      <3> QED
        BY <1>3, <3>1, <3>2, <3>3
    <2>2. person' = person /\ rows' = rows /\ event' = Nothing
      BY <1>3 DEF FindSent, ReadExisting, CheckRollenart, Silent, database
    <2>3. RequestInv'
      BY <1>0, <2>1, <2>2, SoloPrime DEF KnowInv, WriteSteps
    <2> QED
      BY <2>1, <2>2, <2>3, QuietMove DEF WriteSteps, Moves
  <1>4. CASE (CheckRollenart(j) \/ Validate(j)) /\ Refuse(j)
    BY <1>4, <1>b DEF CheckRollenart, Validate, Silent, database, WriteSteps
  <1>5. CASE Validate(j) /\ ~Refuse(j)
    <2>1. b.at = "write" /\ b.added = a.added /\ b.removed = a.removed /\ a.at = "validate" /\ person = "present"
      BY <1>0, <1>5 DEF Validate, TypeOK, JobSet
    <2>2. person' = person /\ rows' = rows /\ event' = Nothing
      BY <1>5 DEF Validate, Silent, database
    <2>3. a.added = {} /\ a.removed = {}
      BY <1>0, <2>1 DEF KnowInv
    <2>4. RequestInv'
      BY <1>0, <2>1, <2>2, <2>3, SoloPrime DEF KnowInv, WriteSteps
    <2> QED
      BY <2>1, <2>2, <2>3, <2>4, QuietMove DEF WriteSteps, Moves
  <1>6. ASSUME NEW r \in Row, RemoveRow(j, r) PROVE RequestInv' /\ Moves
    BY <1>6, RemoveMove DEF Moves
  <1>7. ASSUME NEW r \in Row, AddRow(j, r) PROVE RequestInv' /\ Moves
    BY <1>7, AddMove DEF Moves
  <1>8. ASSUME NEW r \in Row, RemoveFails(j, r) \/ AddFails(j, r) PROVE RequestInv' /\ Moves
    <2>1. a.at = "write" /\ b.at = "write" /\ b.added = a.added /\ b.removed = a.removed /\ (b.removing # {} => a.removing # {})
      BY <1>0, <1>8 DEF RemoveFails, AddFails, TypeOK, JobSet
    <2>2. person' = person /\ rows' = rows /\ event' = Nothing
      BY <1>8 DEF RemoveFails, AddFails, Silent, database
    <2>3. RequestInv'
      BY <1>0, <2>1, <2>2, SoloPrime DEF KnowInv, WriteSteps
    <2> QED
      BY <2>1, <2>2, <2>3, WritingMove DEF WriteSteps, Moves
  <1>9. CASE Reread(j) \/ (SyncDate(j) /\ a.at = "date")
    <2>1. /\ a.at \in {"write", "date"} /\ b.at \in {"date", "publish"} /\ b.added = a.added /\ b.removed = a.removed
          /\ b.current = rows
      <3>1. CASE Reread(j)
        BY <1>0, <3>1 DEF Reread, TypeOK, JobSet
      <3>2. CASE SyncDate(j) /\ a.at = "date"
        <4>1. job' = [job EXCEPT ![j].at = "publish"]
          BY <3>2 DEF SyncDate
        <4> QED
          BY <1>0, <3>2, <4>1 DEF KnowInv, TypeOK, JobSet
      <3> QED
        BY <1>9, <3>1, <3>2
    <2>2. person' = person /\ rows' = rows /\ event' = Nothing
      BY <1>9 DEF Reread, SyncDate, Silent, database
    <2>3. RequestInv'
      BY <1>0, <2>1, <2>2, SoloPrime DEF KnowInv, WriteSteps
    <2> QED
      BY <2>1, <2>2, <2>3, WritingMove DEF WriteSteps, Moves
  <1>10. CASE SyncDate(j) /\ a.at # "date"
    <2>1. b = Idle /\ a.at = "dateOnly" /\ person' = person /\ rows' = rows /\ event' = Nothing
      BY <1>10 DEF SyncDate, End, Silent, TypeOK
    <2> QED
      BY <1>a, <2>1 DEF WriteSteps
  <1>11. CASE Publish(j)
    BY <1>11, PublishMove DEF Moves
  <1>12. ASSUME NEW r \in Row, RemoveById(j, r) PROVE RequestInv' /\ Moves
    <2>1. b.at = "dateOnly" /\ person' = person /\ rows' \subseteq rows /\ event'.type = "untold"
      BY <1>12 DEF RemoveById, Request, Aged, Unread, TypeOK, Idle, Untold, Nothing
    <2> QED
      BY <1>0, <2>1, SoloPrime DEF KnowInv, WriteSteps, Moves
  <1>13. CASE RequestDeletion(j) \/ ListUnassigned(j)
    <2>1. b.at = "listed" /\ b.kind \in {"delete", "deadline"} /\ a.at = "idle" /\ person = "present"
      <3>1. CASE RequestDeletion(j)
        BY <3>1 DEF RequestDeletion, Request, TypeOK, Idle
      <3>2. CASE ListUnassigned(j)
        BY <3>2 DEF ListUnassigned, Request, TypeOK, Idle
      <3> QED
        BY <1>13, <3>1, <3>2
    <2>2. person' = person /\ rows' = rows /\ event' = Nothing
      BY <1>13 DEF RequestDeletion, ListUnassigned, Silent, database
    <2>3. RequestInv'
      BY <1>0, <2>1, <2>2, SoloPrime DEF KnowInv, WriteSteps
    <2> QED
      BY <2>1, <2>2, <2>3, QuietMove DEF WriteSteps, Moves
  <1>14. CASE ReadKontexte(j)
    <2>1. b.at = "tell" /\ b.kind = a.kind /\ b.removed = rows /\ a.at = "listed"
      BY <1>0, <1>14 DEF ReadKontexte, TypeOK, JobSet
    <2>2. person' = person /\ rows' = rows /\ event' = Nothing
      BY <1>14 DEF ReadKontexte, Silent, database
    <2>3. RequestInv'
      BY <1>0, <2>1, <2>2, SoloPrime DEF KnowInv, WriteSteps
    <2> QED
      BY <2>1, <2>2, <2>3, QuietMove DEF WriteSteps, Moves
  <1>15. CASE TellRemoval(j)
    BY <1>15, TellRemovalMove DEF Moves
  <1>16. CASE TellDeletion(j)
    BY <1>16, TellDeletionMove DEF Moves
  <1>17. CASE Drop(j)
    BY <1>17, DropMove DEF Moves
  <1>18. CASE GiveUp(j)
    BY <1>18, <1>b DEF GiveUp, Silent, database, WriteSteps
  <1>19. CASE Abort(j)
    BY <1>19, AbortMove
  <1> QED
    BY <1>1, <1>2, <1>3, <1>4, <1>5, <1>6, <1>7, <1>8, <1>9, <1>10, <1>11, <1>12, <1>13, <1>14, <1>15, <1>16, <1>17,
       <1>18, <1>19 DEF Step

\* What is told does not change while the requests rest.
LEMMA RestMove ==
    ASSUME UNCHANGED <<person, rows, job>>
    PROVE  /\ Writing' = Writing /\ Leaving' = Leaving /\ Due' = Due /\ Gone' = Gone /\ Ended' = Ended
           /\ Unsetting' = Unsetting /\ (RequestInv => RequestInv') /\ \A x : Open(x)' = Open(x)
           /\ \A S : SchulenOf(Due, S)' = SchulenOf(Due, S)
  <1>1. \A x : Open(x)' = Open(x)
    BY DEF Open, Opens, SchulenOf
  <1>2. Leaving' = Leaving /\ Due' = Due
    BY DEF Leaving, Due
  <1>3. \A S : SchulenOf(Due, S)' = SchulenOf(Due, S)
    BY <1>2 DEF SchulenOf
  <1> QED
    BY <1>1, <1>2, <1>3 DEF Writing, Gone, Ended, Unsetting, SchulenOf, RequestInv, KnowInv

\* Time passes between the requests only.
LEMMA DaysMove == ASSUME RequestInv, DaysPass PROVE RequestInv' /\ Calm
  <1>1. UNCHANGED <<person, rows, job>> /\ event'.type = "none"
    BY DEF DaysPass, Silent, Nothing
  <1> QED
    BY <1>1, RestMove DEF Calm, Steady, DaysPass

----------------------------------------------------------------------------
(* Types                                                                   *)

LdapSet == [entries : SUBSET Name, members : [Schule -> SUBSET Name]]
ItslearningSet == [known : BOOLEAN, name : Name, schulen : SUBSET Schule]
EmailSet == [state : {"none", "set", "suspended"}, name : Name, schulen : SUBSET Schule, locked : BOOLEAN]

\* Schools of contexts are schools.
LEMMA SchulenTyped == ASSUME NEW R \in SUBSET Row, NEW S PROVE SchulenOf(R, S) \in SUBSET Schule
  BY MirrorsAssumption DEF SchulenOf, Row

\* What is published is a message.
LEMMA KafkaTyped ==
    ASSUME NEW t \in {"updated", "deleted", "deadline", "renamed", "locks", "sync"}, name' \in Name
    PROVE  Kafka(t) \in Message
  BY DEF Kafka, Message

\* Leaving groups keeps the type of LDAP.
LEMMA LeaveTyped == ASSUME NEW l \in LdapSet, NEW n, NEW S PROVE Leave(l, n, S) \in LdapSet
  <1>1. [s \in Schule |-> IF s \in S THEN l.members[s] \ {n} ELSE l.members[s]] \in [Schule -> SUBSET Name]
    BY DEF LdapSet
  <1> QED
    BY <1>1 DEF Leave, LdapSet

\* What an update makes of LDAP: entries and members, by membership.
LEMMA UpdatedFields ==
    ASSUME NEW l \in LdapSet, NEW e \in Message
    PROVE  /\ LdapUpdated(l, e) \in LdapSet
           /\ \A k : k \in LdapUpdated(l, e).entries <=> k \in l.entries \/ (k = e.name /\ Joined(e) # {})
           /\ \A x \in Schule : \A k : k \in LdapUpdated(l, e).members[x] <=>
                (x \in Joined(e) /\ k = e.name) \/ (k \in l.members[x] /\ ~(x \in Unjustified(e) /\ k = e.name))
  <1> DEFINE n == e.name
             S == Joined(e)
             T == Unjustified(e)
             left == [s \in Schule |-> IF s \in T THEN l.members[s] \ {n} ELSE l.members[s]]
             entered == [s \in Schule |-> IF s \in S THEN left[s] \cup {n} ELSE left[s]]
             done == LdapUpdated(l, e)
  <1>0. n \in Name
    BY DEF Message
  <1>1. Leave(l, n, T).entries = l.entries /\ Leave(l, n, T).members = left
    BY DEF Leave, LdapSet
  <1>2. done = [entries |-> IF S = {} THEN l.entries ELSE l.entries \cup {n}, members |-> entered]
    BY <1>1 DEF LdapUpdated, Enter, Joined
  <1> HIDE DEF n, S, T, done
  <1>3. l.entries \in SUBSET Name /\ \A s \in Schule : l.members[s] \in SUBSET Name
    BY DEF LdapSet
  <1>4. entered \in [Schule -> SUBSET Name]
    BY <1>0, <1>3
  <1>5. done \in LdapSet
    BY <1>0, <1>2, <1>3, <1>4 DEF LdapSet
  <1>6. \A k : k \in done.entries <=> k \in l.entries \/ (k = n /\ S # {})
    BY <1>2
  <1>7. ASSUME NEW x \in Schule, NEW k
        PROVE  k \in done.members[x] <=> (x \in S /\ k = n) \/ (k \in l.members[x] /\ ~(x \in T /\ k = n))
    <2>1. done.members[x] = entered[x]
      BY <1>2
    <2> QED
      BY <2>1
  <1> QED
    BY <1>5, <1>6, <1>7 DEF n, S, T, done

\* What a change of the name makes of LDAP.
LEMMA RenamedFields ==
    ASSUME NEW l \in LdapSet, NEW e \in Message
    PROVE  /\ LdapRenamed(l, e) \in LdapSet
           /\ e.name - 1 \notin l.entries \/ e.name \in l.entries => LdapRenamed(l, e) = l
           /\ e.name - 1 \in l.entries /\ e.name \notin l.entries =>
                /\ \A k : k \in LdapRenamed(l, e).entries <=> k = e.name \/ (k \in l.entries /\ k # e.name - 1)
                /\ \A x \in Schule : \A k : k \in LdapRenamed(l, e).members[x] <=>
                     \/ k = e.name /\ e.name - 1 \in l.members[x]
                     \/ k \in l.members[x] /\ k # e.name - 1
  <1> DEFINE old == e.name - 1
             moved == [s \in Schule |-> Renamed(l.members[s], old, e.name)]
  <1>1. e.name \in Name
    BY DEF Message
  <1>2. \A N \in SUBSET Name : \A n : Renamed(N, n, e.name) \in SUBSET Name
    BY <1>1 DEF Renamed
  <1>3. CASE old \notin l.entries \/ e.name \in l.entries
    BY <1>3 DEF LdapRenamed
  <1>4. CASE ~(old \notin l.entries \/ e.name \in l.entries)
    <2>1. LdapRenamed(l, e) = [entries |-> Renamed(l.entries, old, e.name), members |-> moved]
      BY <1>4 DEF LdapRenamed
    <2>2. l.entries \in SUBSET Name /\ \A s \in Schule : l.members[s] \in SUBSET Name
      BY DEF LdapSet
    <2>3. LdapRenamed(l, e) \in LdapSet
      BY <1>2, <2>1, <2>2 DEF LdapSet
    <2>4. \A k : k \in LdapRenamed(l, e).entries <=> k = e.name \/ (k \in l.entries /\ k # old)
      BY <1>4, <2>1 DEF Renamed
    <2>5. ASSUME NEW x \in Schule, NEW k
          PROVE  k \in LdapRenamed(l, e).members[x] <=> (k = e.name /\ old \in l.members[x]) \/ (k \in l.members[x] /\ k # old)
      <3>1. LdapRenamed(l, e).members[x] = Renamed(l.members[x], old, e.name)
        BY <2>1
      <3>2. old # e.name
        BY <1>1, MirrorsAssumption DEF Name
      <3> QED
        BY <3>1, <3>2 DEF Renamed
    <2> QED
      BY <1>4, <2>3, <2>4, <2>5
  <1> QED
    BY <1>3, <1>4

\* There is nothing to synchronise.
Unsynced(l, seen) == ~seen.present \/ (SchulenOf(seen.rows, Uem) = {} /\ seen.name \notin l.entries)

\* What a synchronisation makes of LDAP.
LEMMA SyncedFields ==
    ASSUME NEW l \in LdapSet, NEW seen \in Snapshot
    PROVE  /\ LdapSynced(l, seen) \in LdapSet
           /\ Unsynced(l, seen) => LdapSynced(l, seen) = l
           /\ ~Unsynced(l, seen) =>
                /\ \A k : k \in LdapSynced(l, seen).entries <=> k \in l.entries \/ k = seen.name
                /\ \A x \in Schule : \A k : k \in LdapSynced(l, seen).members[x] <=>
                     \/ x \in SchulenOf(seen.rows, Uem) /\ k = seen.name
                     \/ k \in l.members[x] /\ k # seen.name
  <1> DEFINE S == SchulenOf(seen.rows, Uem)
             n == seen.name
             left == [s \in Schule |-> IF s \in Schule \ S THEN l.members[s] \ {n} ELSE l.members[s]]
             entered == [s \in Schule |-> IF s \in S THEN left[s] \cup {n} ELSE left[s]]
             done == LdapSynced(l, seen)
  <1>1. n \in Name
    BY DEF Snapshot
  <1>3. CASE Unsynced(l, seen)
    <2>1. done = l
      BY <1>3 DEF LdapSynced, Unsynced
    <2> QED
      BY <1>3, <2>1
  <1>4. CASE ~Unsynced(l, seen)
    <2>1. Leave(l, n, Schule \ S).entries = l.entries /\ Leave(l, n, Schule \ S).members = left
      BY DEF Leave, LdapSet
    <2>2. done = [entries |-> IF S = {} THEN l.entries ELSE l.entries \cup {n}, members |-> entered]
      BY <1>4, <2>1 DEF LdapSynced, Enter, Unsynced
    <2>a. S # {} \/ n \in l.entries
      BY <1>4 DEF Unsynced
    <2> HIDE DEF n, S, done
    <2>3. l.entries \in SUBSET Name /\ \A s \in Schule : l.members[s] \in SUBSET Name
      BY DEF LdapSet
    <2>4. entered \in [Schule -> SUBSET Name]
      BY <1>1, <2>3
    <2>5. done \in LdapSet
      BY <1>1, <2>2, <2>3, <2>4 DEF LdapSet
    <2>6. \A k : k \in done.entries <=> k \in l.entries \/ k = n
      BY <2>2, <2>a
    <2>7. ASSUME NEW x \in Schule, NEW k
          PROVE  k \in done.members[x] <=> (x \in S /\ k = n) \/ (k \in l.members[x] /\ k # n)
      <3>1. done.members[x] = entered[x]
        BY <2>2
      <3> QED
        BY <3>1
    <2> QED
      BY <1>4, <2>5, <2>6, <2>7 DEF n, S, done
  <1> QED
    BY <1>3, <1>4

\* What a deletion makes of LDAP.
LEMMA DeletedFields ==
    ASSUME NEW l \in LdapSet, NEW n
    PROVE  LET done == [l EXCEPT !.entries = @ \ {n}]
           IN  done \in LdapSet /\ done.entries = l.entries \ {n} /\ done.members = l.members
  BY DEF LdapSet

\* Handlers keep the type of LDAP.
LEMMA LdapAfterTyped ==
    ASSUME NEW l \in LdapSet, NEW e \in Message, NEW seen \in Snapshot, "ldap" \in Interested(e)
    PROVE  LdapAfter(l, e, seen) \in LdapSet
  <1>1. e.type \in {"updated", "renamed", "sync", "deleted", "deadline"}
    BY DEF Interested, Message
  <1> QED
    BY <1>1, UpdatedFields, RenamedFields, SyncedFields, DeletedFields DEF LdapAfter

\* So do handlers that fail halfway.
LEMMA LdapHalvesTyped ==
    ASSUME NEW l \in LdapSet, NEW e \in Message, NEW seen \in Snapshot, "ldap" \in Interested(e),
           NEW h \in LdapHalves(l, e, seen)
    PROVE  h \in LdapSet
  <1>1. LdapAfter(l, e, seen) \in LdapSet
    BY LdapAfterTyped
  <1>2. Leave(l, e.name, Unjustified(e)) \in LdapSet
    BY LeaveTyped
  <1>3. [l EXCEPT !.members = LdapAfter(l, e, seen).members] \in LdapSet
    BY <1>1 DEF LdapSet
  <1>4. [l EXCEPT !.entries = LdapAfter(l, e, seen).entries] \in LdapSet
    BY <1>1 DEF LdapSet
  <1>5. \/ h = Leave(l, e.name, Unjustified(e)) \/ h = [l EXCEPT !.members = LdapAfter(l, e, seen).members]
        \/ h = [l EXCEPT !.entries = LdapAfter(l, e, seen).entries]
    BY DEF LdapHalves
  <1> QED
    BY <1>2, <1>3, <1>4, <1>5

\* Enrolling keeps the type of itslearning.
LEMMA EnrolledTyped ==
    ASSUME NEW n \in Name, NEW S \in SUBSET Schule PROVE Enrolled(n, S) \in ItslearningSet
  BY MirrorsAssumption DEF Enrolled, User, NoUser, ItslearningSet, Name

\* Handlers keep the type of itslearning.
LEMMA ItslearningAfterTyped ==
    ASSUME NEW i \in ItslearningSet, NEW e \in Message, NEW seen \in Snapshot, "itslearning" \in Interested(e)
    PROVE  ItslearningAfter(i, e, seen) \in ItslearningSet
  <1>1. e.type \in {"updated", "renamed", "sync"} /\ e.name \in Name /\ e.current \in SUBSET Row
    BY DEF Interested, Message
  <1>2. seen.name \in Name /\ seen.rows \in SUBSET Row
    BY DEF Snapshot
  <1>3. /\ Enrolled(e.name, SchulenOf(e.current, Itslearning)) \in ItslearningSet
        /\ Enrolled(seen.name, SchulenOf(seen.rows, Itslearning)) \in ItslearningSet
    BY <1>1, <1>2, SchulenTyped, EnrolledTyped
  <1>4. [i EXCEPT !.name = e.name] \in ItslearningSet
    BY <1>1 DEF ItslearningSet
  <1> QED
    BY <1>1, <1>3, <1>4 DEF ItslearningAfter

\* So do handlers that fail halfway.
LEMMA ItslearningHalvesTyped ==
    ASSUME NEW i \in ItslearningSet, NEW e \in Message, NEW seen \in Snapshot, "itslearning" \in Interested(e),
           NEW h \in ItslearningHalves(i, e, seen)
    PROVE  h \in ItslearningSet
  <1>1. ItslearningAfter(i, e, seen) \in ItslearningSet
    BY ItslearningAfterTyped
  <1>2. h = [ItslearningAfter(i, e, seen) EXCEPT !.schulen = i.schulen]
    BY DEF ItslearningHalves
  <1> QED
    BY <1>1, <1>2 DEF ItslearningSet

\* Setting the addresses keeps the type of the e-mail microservice.
LEMMA SetEmailTyped ==
    ASSUME NEW n \in Name, NEW S \in SUBSET Schule, NEW l \in BOOLEAN PROVE SetEmail(n, S, l) \in EmailSet
  BY DEF SetEmail, EmailSet

\* So does suspending them.
LEMMA SuspendedTyped == ASSUME NEW m \in EmailSet, NEW l \in BOOLEAN PROVE Suspended(m, l) \in EmailSet
  BY DEF Suspended, EmailSet

\* So does deleting them.
LEMMA NoEmailTyped == NoEmail \in EmailSet
  BY MirrorsAssumption DEF NoEmail, EmailSet, Name

\* Handlers keep the type of the e-mail microservice.
LEMMA EmailAfterTyped ==
    ASSUME NEW m \in EmailSet, NEW e \in Message, NEW seen \in Snapshot, "email" \in Interested(e)
    PROVE  EmailAfter(m, e, seen) \in EmailSet
  <1>1. e.type \in {"updated", "renamed", "sync", "locks", "deleted"} /\ e.name \in Name /\ e.current \in SUBSET Row
    BY DEF Interested, Message
  <1>2. seen.name \in Name /\ seen.rows \in SUBSET Row /\ seen.locked \in BOOLEAN
    BY DEF Snapshot
  <1>3. SchulenOf(e.current, Email) \in SUBSET Schule /\ SchulenOf(seen.rows, Email) \in SUBSET Schule
    BY <1>1, <1>2, SchulenTyped
  <1>4. /\ SetEmail(e.name, SchulenOf(e.current, Email), seen.locked) \in EmailSet
        /\ SetEmail(e.name, SchulenOf(seen.rows, Email), seen.locked) \in EmailSet
        /\ SetEmail(seen.name, SchulenOf(seen.rows, Email), seen.locked) \in EmailSet
        /\ Suspended(m, seen.locked) \in EmailSet
    BY <1>1, <1>2, <1>3, SetEmailTyped, SuspendedTyped
  <1>5. EmailUpdated(m, e, seen) \in EmailSet /\ EmailSynced(m, seen) \in EmailSet /\ EmailRenamed(m, e, seen) \in EmailSet
    BY <1>4 DEF EmailUpdated, EmailSynced, EmailRenamed
  <1> QED
    BY <1>1, <1>5, NoEmailTyped DEF EmailAfter

----------------------------------------------------------------------------
(* The sequence of the messages                                            *)

Index == 1..Len(topic)

\* The first message.
LEMMA TopicHead ==
    ASSUME topic \in Seq(Message), topic # <<>>
    PROVE  Head(topic) = topic[1] /\ Len(topic) \in Nat /\ 1 \in Index /\ topic[1] \in Message
  BY DEF Index

\* The messages after one was published.
LEMMA TopicAppend ==
    ASSUME topic \in Seq(Message), NEW m \in Message, topic' = Append(topic, m)
    PROVE  /\ topic' \in Seq(Message) /\ Len(topic) \in Nat /\ Len(topic)' = Len(topic) + 1
           /\ \A i \in Index : topic'[i] = topic[i] /\ topic[i] \in Message
           /\ topic'[Len(topic) + 1] = m
           /\ Index' = Index \cup {Len(topic) + 1}
           /\ topic' # <<>>
           /\ topic # <<>> => Head(topic)' = Head(topic)
  <1>1. topic' \in Seq(Message) /\ Len(topic) \in Nat /\ Len(topic)' = Len(topic) + 1
    OBVIOUS
  <1>2. (\A i \in Index : topic'[i] = topic[i] /\ topic[i] \in Message) /\ topic'[Len(topic) + 1] = m
    BY DEF Index
  <1>3. Index' = Index \cup {Len(topic) + 1}
    BY <1>1 DEF Index
  <1>4. topic' # <<>>
    BY <1>1
  <1>5. topic # <<>> => Head(topic)' = Head(topic)
    <2> SUFFICES ASSUME topic # <<>> PROVE Head(topic)' = Head(topic)
      OBVIOUS
    <2>1. 1 \in Index
      BY DEF Index
    <2> QED
      BY <1>1, <1>2, <1>4, <2>1
  <1> QED
    BY <1>1, <1>2, <1>3, <1>4, <1>5

\* The messages after the first one was committed.
LEMMA TopicTail ==
    ASSUME topic \in Seq(Message), topic # <<>>, topic' = Tail(topic)
    PROVE  /\ topic' \in Seq(Message) /\ Len(topic) \in Nat \ {0} /\ Len(topic)' = Len(topic) - 1
           /\ \A i \in Index' : i \in Nat \ {0} /\ i + 1 \in Index /\ topic'[i] = topic[i + 1]
           /\ \A i \in Index : i > 1 => i - 1 \in Index' /\ topic'[i - 1] = topic[i]
  BY DEF Index

\* A sequence with an element is not empty.
LEMMA SomeLength == ASSUME NEW s, Len(s) >= 1 PROVE s # <<>>
  BY EmptySeq

\* There is only one element if none is left without it.
LEMMA SmallLength == ASSUME NEW n \in Nat \ {0}, ~(1 <= n - 1) PROVE n - 1 = 0
  OBVIOUS

\* The messages after the newest one was lost.
LEMMA TopicFront ==
    ASSUME topic \in Seq(Message), topic # <<>>, topic' = SubSeq(topic, 1, Len(topic) - 1)
    PROVE  /\ topic' \in Seq(Message) /\ Len(topic) \in Nat \ {0} /\ Len(topic)' = Len(topic) - 1
           /\ \A i \in Index' : i \in Index /\ topic'[i] = topic[i]
           /\ Len(topic) # 1 => topic' # <<>> /\ Head(topic)' = Head(topic)
           /\ Len(topic) = 1 => topic' = <<>>
  <1>1. Len(topic) \in Nat \ {0}
    OBVIOUS
  <1>2. topic' \in Seq(Message) /\ Len(topic)' = Len(topic) - 1 /\ \A i \in 1..(Len(topic) - 1) : topic'[i] = topic[i]
    <2>1. 1 \in Int /\ Len(topic) - 1 \in Int /\ \A i \in 1..(Len(topic) - 1) : topic[i] \in Message
      BY <1>1
    <2>2. SubSeq(topic, 1, Len(topic) - 1) \in Seq(Message)
      BY <2>1, SubSeqProperties
    <2>3. \A i \in 1..((Len(topic) - 1) - 1 + 1) : SubSeq(topic, 1, Len(topic) - 1)[i] = topic[1 + i - 1]
      BY <2>1, SubSeqProperties
    <2>4. Len(SubSeq(topic, 1, Len(topic) - 1)) = IF 1 <= Len(topic) - 1 THEN Len(topic) - 1 - 1 + 1 ELSE 0
      BY <2>1, SubSeqProperties
    <2>5. \A i \in 1..(Len(topic) - 1) : i \in 1..((Len(topic) - 1) - 1 + 1) /\ 1 + i - 1 = i
      BY <1>1
    <2>6. \A i \in 1..(Len(topic) - 1) : SubSeq(topic, 1, Len(topic) - 1)[i] = topic[i]
      BY <2>3, <2>5
    <2>7. Len(SubSeq(topic, 1, Len(topic) - 1)) = Len(topic) - 1
      <3>1. CASE 1 <= Len(topic) - 1
        <4>1. Len(SubSeq(topic, 1, Len(topic) - 1)) = Len(topic) - 1 - 1 + 1
          BY <2>4, <3>1, Zenon
        <4> QED
          BY <1>1, <4>1
      <3>2. CASE ~(1 <= Len(topic) - 1)
        <4>1. Len(SubSeq(topic, 1, Len(topic) - 1)) = 0
          BY <2>4, <3>2, Zenon
        <4>2. Len(topic) - 1 = 0
          BY <1>1, <3>2, SmallLength
        <4> QED
          BY <4>1, <4>2, Zenon
      <3> QED
        BY <3>1, <3>2
    <2> QED
      BY <2>2, <2>6, <2>7
  <1>3. \A i \in Index' : i \in Index /\ topic'[i] = topic[i]
    BY <1>1, <1>2 DEF Index
  <1>4. Len(topic) # 1 => topic' # <<>> /\ Head(topic)' = Head(topic)
    <2> SUFFICES ASSUME Len(topic) # 1 PROVE topic' # <<>> /\ Head(topic)' = Head(topic)
      OBVIOUS
    <2>1. Len(topic)' >= 1 /\ topic'[1] = topic[1] /\ topic' \in Seq(Message)
      BY <1>1, <1>2
    <2>2. topic' # <<>>
      BY <2>1, SomeLength
    <2> QED
      BY <2>1, <2>2
  <1>5. Len(topic) = 1 => topic' = <<>>
    BY <1>1, <1>2
  <1> QED
    BY <1>1, <1>2, <1>3, <1>4, <1>5

----------------------------------------------------------------------------
(* Types of the composition                                                *)

\* The requests rest while something else happens.
LEMMA RestTyped ==
    ASSUME TypeOK, UNCHANGED requests, event' = Nothing, UNCHANGED used \/ Trouble
    PROVE  TypeOK'
  BY TroubleTyped, NothingIsEvent DEF requests, database, TypeOK, UsedSet

\* What a handler reads is a snapshot of the person.
LEMMA PresentTyped == ASSUME TypeOK, MirrorsTypeOK PROVE Present \in Snapshot
  BY DEF Present, Snapshot, TypeOK, RowSet, MirrorsTypeOK

\* At the start nothing was read.
LEMMA NoReadsTyped == NoReads \in Reading
  BY MirrorsAssumption DEF NoReads, Reading, NotRead, Snapshot, Name

\* The values have their types at the start.
LEMMA MirrorsTypeInit == MirrorsInit => TypeOK /\ MirrorsTypeOK
  <1> SUFFICES ASSUME MirrorsInit PROVE TypeOK /\ MirrorsTypeOK
    OBVIOUS
  <1>1. TypeOK
    BY TypeInit DEF MirrorsInit
  <1>2. rows \in SUBSET Row
    BY <1>1 DEF TypeOK, RowSet
  <1>3. 0 \in Name /\ 0 \in 0..MaxAsks
    BY MirrorsAssumption DEF Name
  <1>4. ldap \in LdapSet
    <2>1. (IF SchulenOf(rows, Uem) = {} THEN {} ELSE {0}) \in SUBSET Name
      BY <1>3
    <2>2. [s \in Schule |-> IF s \in SchulenOf(rows, Uem) THEN {0} ELSE {}] \in [Schule -> SUBSET Name]
      BY <1>3
    <2> QED
      BY <2>1, <2>2 DEF MirrorsInit, LdapSet
  <1>5. itslearning \in ItslearningSet
    BY <1>2, <1>3, SchulenTyped, EnrolledTyped DEF MirrorsInit
  <1>6. email \in EmailSet
    BY <1>2, <1>3, SchulenTyped, SetEmailTyped, NoEmailTyped DEF MirrorsInit
  <1>7. \A s \in System : ~read[s].done
    BY DEF MirrorsInit, NoReads, NotRead
  <1>8. /\ name \in Name /\ locked \in BOOLEAN /\ asks \in 0..MaxAsks /\ watched \subseteq System /\ topic \in Seq(Message)
        /\ handled = {} /\ read \in Reading /\ stray = {}
    <2>1. name = 0 /\ locked = FALSE /\ asks = 0 /\ watched \in SUBSET System /\ topic = <<>> /\ handled = {} /\ read = NoReads
          /\ stray = {}
      BY DEF MirrorsInit
    <2>2. topic \in Seq(Message)
      BY <2>1
    <2> QED
      BY <1>3, <2>1, <2>2, NoReadsTyped
  <1> QED
    BY <1>1, <1>4, <1>5, <1>6, <1>7, <1>8 DEF MirrorsTypeOK, LdapSet, ItslearningSet, EmailSet

\* An event of a request as a message.
LEMMA Published ==
    ASSUME TypeOK', MirrorsTypeOK, RequestStep, event'.type \notin {"none", "untold"}
    PROVE  \E m \in Message :
              /\ m.type = event'.type /\ m.name = name /\ m.added = event'.added
              /\ m.removed = event'.removed /\ m.current = event'.current
              /\ topic' = Append(topic, m) /\ stray' = stray
  <1> DEFINE m == [Kafka(event'.type) EXCEPT !.added = event'.added, !.removed = event'.removed, !.current = event'.current]
  <1>1. topic' = Append(topic, m) /\ stray' = stray
    BY DEF RequestStep, Publishes
  <1>2. event' \in EventSet
    BY DEF TypeOK
  <1>3. event'.type \in {"updated", "deleted", "deadline"}
    BY <1>2 DEF EventSet
  <1>4. name' = name /\ name \in Name
    BY DEF RequestStep, own, MirrorsTypeOK
  <1>5. Kafka(event'.type) \in Message
    BY <1>3, <1>4, KafkaTyped
  <1>6. Kafka(event'.type).type = event'.type /\ Kafka(event'.type).name = name
    BY <1>4 DEF Kafka
  <1>7. event'.added \in SUBSET Row /\ event'.removed \in SUBSET Row /\ event'.current \in SUBSET Row
    BY <1>2 DEF EventSet
  <1> HIDE DEF m
  <1>8. /\ m \in Message /\ m.type = event'.type /\ m.name = name /\ m.added = event'.added
        /\ m.removed = event'.removed /\ m.current = event'.current
    BY <1>5, <1>6, <1>7 DEF m, Message
  <1> QED
    BY <1>1, <1>8

\* A message more does not disturb the handlers of the first one.
LEMMA AppendTyped ==
    ASSUME MirrorsTypeOK, NEW m \in Message, topic' = Append(topic, m),
           UNCHANGED <<watched, handled, read, ldap, itslearning, email>>,
           name' \in Name, locked' \in BOOLEAN, asks' \in 0..MaxAsks, stray' \subseteq Stray
    PROVE  MirrorsTypeOK'
  <1>1. topic \in Seq(Message) /\ handled \subseteq (IF topic = <<>> THEN {} ELSE Interested(Head(topic)) \cap watched)
    BY DEF MirrorsTypeOK
  <1>2. topic' \in Seq(Message) /\ topic' # <<>> /\ (topic # <<>> => Head(topic)' = Head(topic))
    BY <1>1, TopicAppend
  <1>3. handled' \subseteq (IF topic' = <<>> THEN {} ELSE Interested(Head(topic))' \cap watched')
    BY <1>1, <1>2 DEF Interested
  <1>4. ASSUME NEW s \in System, read'[s].done PROVE Handling(s)' /\ Reads(s, Head(topic))'
    BY <1>2, <1>4 DEF MirrorsTypeOK, Handling, Reads, Interested
  <1> QED
    BY <1>2, <1>3, <1>4 DEF MirrorsTypeOK

\* A step that leaves topic and systems alone keeps the types.
LEMMA SameTyped ==
    ASSUME MirrorsTypeOK, UNCHANGED <<topic, watched, handled, read, ldap, itslearning, email>>,
           name' \in Name, locked' \in BOOLEAN, asks' \in 0..MaxAsks, stray' \subseteq Stray
    PROVE  MirrorsTypeOK'
  BY DEF MirrorsTypeOK, Handling, Reads, Interested

\* A step of a request keeps the types.
LEMMA RequestTypedStep ==
    ASSUME TypeOK, MirrorsTypeOK, RequestStep
    PROVE  TypeOK' /\ MirrorsTypeOK'
  <1>1. TypeOK'
    <2>1. Next
      BY DEF RequestStep, Next
    <2> QED
      BY <2>1, TypeStep
  <1>2. /\ UNCHANGED <<name, locked, asks, watched, handled, read, ldap, itslearning, email>>
        /\ name \in Name /\ locked \in BOOLEAN /\ asks \in 0..MaxAsks /\ stray \subseteq Stray
    BY DEF RequestStep, own, mirrors, MirrorsTypeOK
  <1>3. CASE event'.type = "none"
    BY <1>1, <1>2, <1>3, SameTyped DEF RequestStep
  <1>4. CASE event'.type = "untold"
    BY <1>1, <1>2, <1>4, SameTyped DEF RequestStep
  <1>5. CASE event'.type \notin {"none", "untold"}
    <2>1. PICK m \in Message : topic' = Append(topic, m) /\ stray' = stray
      BY <1>1, <1>5, Published
    <2> QED
      BY <1>1, <1>2, <2>1, AppendTyped
  <1> QED
    BY <1>3, <1>4, <1>5

\* What an administrator or another request of the person asks for.
Asking == Rename \/ ChangeLocks \/ RequestSync

\* What a change of the name or of the locks, and an administrator, publish.
LEMMA AskingForm ==
    ASSUME MirrorsTypeOK, Asking
    PROVE  /\ \E m \in Message : topic' = Append(topic, m) /\ m.type \in {"renamed", "locks", "sync"} /\ m.name = name'
                                 /\ (m.type # "renamed" => name' = name)
                                 /\ (m.type = "renamed" => name' = name + 1 /\ \A j \in Job : ~Busy(j))
                                 /\ (m.type # "locks" => locked' = locked)
           /\ stray' = stray \/ (Deleting /\ stray' = Stray)
           /\ Deleting => \/ stray' = Stray
                          \/ \A j \in Job : ~Busy(j)
           /\ UNCHANGED <<requests, used, watched, handled, read, ldap, itslearning, email>> /\ event' = Nothing
           /\ name' \in Name /\ locked' \in BOOLEAN /\ asks' \in 0..MaxAsks
           /\ person = "present"
  <1>1. /\ UNCHANGED <<requests, used, watched, handled, read, ldap, itslearning, email>> /\ event' = Nothing
        /\ asks' \in 0..MaxAsks /\ person = "present"
    <2>1. Asked
      BY DEF Asking, Rename, ChangeLocks, RequestSync
    <2> QED
      BY <2>1, MirrorsAssumption DEF Asked, Silent, mirrors, MirrorsTypeOK
  <1>2. name \in Name /\ name \in Nat
    BY MirrorsAssumption DEF MirrorsTypeOK, Name
  <1>3. CASE Rename
    <2>1. name' = name + 1 /\ name' \in Name
      BY <1>2, <1>3, MirrorsAssumption DEF Rename, Name
    <2>2. Kafka("renamed") \in Message /\ Kafka("renamed").type = "renamed" /\ Kafka("renamed").name = name'
      BY <2>1, KafkaTyped DEF Kafka
    <2> QED
      BY <1>1, <1>3, <2>1, <2>2 DEF Rename, Publishes, MirrorsTypeOK
  <1>4. CASE ChangeLocks
    <2>1. name' = name
      BY <1>4 DEF ChangeLocks
    <2>2. Kafka("locks") \in Message /\ Kafka("locks").type = "locks" /\ Kafka("locks").name = name'
      BY <1>2, <2>1, KafkaTyped DEF Kafka
    <2>3. topic' = Append(topic, Kafka("locks")) /\ (Deleting => stray' = Stray) /\ (~Deleting => stray' = stray)
      BY <1>4 DEF ChangeLocks, Publishes
    <2>4. locked' \in BOOLEAN
      BY <1>4 DEF ChangeLocks
    <2> QED
      BY <1>1, <1>2, <2>1, <2>2, <2>3, <2>4
  <1>5. CASE RequestSync
    <2>1. name' = name /\ locked' = locked
      BY <1>5 DEF RequestSync
    <2>2. Kafka("sync") \in Message /\ Kafka("sync").type = "sync" /\ Kafka("sync").name = name'
      BY <1>2, <2>1, KafkaTyped DEF Kafka
    <2>3. topic' = Append(topic, Kafka("sync")) /\ (Deleting => stray' = Stray) /\ (~Deleting => stray' = stray)
      BY <1>5 DEF RequestSync, Publishes
    <2>4. locked' \in BOOLEAN
      BY <2>1 DEF MirrorsTypeOK
    <2> QED
      BY <1>1, <1>2, <2>1, <2>2, <2>3, <2>4
  <1> QED
    BY <1>3, <1>4, <1>5 DEF Asking

\* They keep the types.
LEMMA AskingTyped ==
    ASSUME TypeOK, MirrorsTypeOK, Asking
    PROVE  TypeOK' /\ MirrorsTypeOK'
  <1>1. PICK m \in Message : topic' = Append(topic, m)
    BY AskingForm
  <1>2. stray' \subseteq Stray
    BY AskingForm DEF MirrorsTypeOK
  <1>3. name' \in Name /\ locked' \in BOOLEAN /\ asks' \in 0..MaxAsks
        /\ UNCHANGED <<requests, used, watched, handled, read, ldap, itslearning, email>> /\ event' = Nothing
    BY AskingForm
  <1>4. TypeOK'
    BY <1>3, RestTyped
  <1> QED
    BY <1>1, <1>2, <1>3, <1>4, AppendTyped

\* A lost message keeps the types.
LEMMA LoseTyped ==
    ASSUME TypeOK, MirrorsTypeOK, Lose
    PROVE  TypeOK' /\ MirrorsTypeOK'
  <1>1. TypeOK'
    BY RestTyped DEF Lose, Silent
  <1>2. topic \in Seq(Message) /\ topic # <<>> /\ topic' = SubSeq(topic, 1, Len(topic) - 1)
    BY DEF Lose, MirrorsTypeOK
  <1>3. topic' \in Seq(Message) /\ (Len(topic) # 1 => topic' # <<>> /\ Head(topic)' = Head(topic)) /\ (Len(topic) = 1 => topic' = <<>>)
    BY <1>2, TopicFront
  <1>4. /\ UNCHANGED <<name, locked, asks, watched, handled, read, ldap, itslearning, email>> /\ stray' \subseteq Stray
        /\ (Len(topic) = 1 => handled = {} /\ read = NoReads)
    BY DEF Lose, own, mirrors
  <1>5. handled' \subseteq (IF topic' = <<>> THEN {} ELSE Interested(Head(topic))' \cap watched')
    <2>1. CASE Len(topic) = 1
      BY <1>4, <2>1
    <2>2. CASE Len(topic) # 1
      <3>1. handled \subseteq Interested(Head(topic)) \cap watched
        BY <1>2 DEF MirrorsTypeOK
      <3>2. Interested(Head(topic))' = Interested(Head(topic))
        BY <1>3, <2>2 DEF Interested
      <3> QED
        BY <1>3, <1>4, <2>2, <3>1, <3>2
    <2> QED
      BY <2>1, <2>2
  <1>6. ASSUME NEW s \in System, read'[s].done PROVE Handling(s)' /\ Reads(s, Head(topic))'
    <2>1. Len(topic) # 1
      BY <1>4, <1>6 DEF NoReads, NotRead
    <2> QED
      BY <1>2, <1>3, <1>4, <1>6, <2>1 DEF MirrorsTypeOK, Handling, Reads, Interested
  <1> QED
    BY <1>1, <1>3, <1>4, <1>5, <1>6 DEF MirrorsTypeOK

\* A read keeps the types.
LEMMA ReadTyped ==
    ASSUME TypeOK, MirrorsTypeOK, NEW s \in System, Read(s)
    PROVE  TypeOK' /\ MirrorsTypeOK'
  <1>1. TypeOK'
    BY RestTyped DEF Read, Silent
  <1>2. /\ UNCHANGED <<name, locked, asks, watched, topic, handled, ldap, itslearning, email, stray>>
        /\ read' = [read EXCEPT ![s] = [done |-> TRUE, seen |-> Present]]
        /\ Handling(s) /\ Reads(s, Head(topic))
    BY DEF Read, own, mirrors
  <1>3. read' \in Reading
    BY <1>2, PresentTyped DEF MirrorsTypeOK, Reading
  <1>4. ASSUME NEW t \in System, read'[t].done PROVE Handling(t)' /\ Reads(t, Head(topic))'
    <2>1. Handling(t) /\ Reads(t, Head(topic))
      BY <1>2, <1>4 DEF MirrorsTypeOK, Reading
    <2> QED
      BY <1>2, <2>1 DEF Handling, Reads, Interested
  <1> QED
    BY <1>1, <1>2, <1>3, <1>4 DEF MirrorsTypeOK, Interested

\* What settling a handler does to the bus.
Settle(s) ==
    /\ Handling(s)
    /\ handled' = handled \cup {s} /\ read' = [read EXCEPT ![s] = NoReads[s]]
    /\ UNCHANGED <<requests, name, locked, asks, watched, topic>> /\ event' = Nothing

\* A handler that settles keeps the types if its system does.
LEMMA SettleTyped ==
    ASSUME TypeOK, MirrorsTypeOK, NEW s \in System, Settle(s), UNCHANGED used \/ Trouble, stray' \subseteq Stray,
           ldap' \in LdapSet, itslearning' \in ItslearningSet, email' \in EmailSet
    PROVE  TypeOK' /\ MirrorsTypeOK'
  <1>1. TypeOK'
    BY RestTyped DEF Settle
  <1>2. topic # <<>> /\ s \in Interested(Head(topic)) \cap watched
    BY DEF Settle, Handling
  <1>3. handled' \subseteq (IF topic' = <<>> THEN {} ELSE Interested(Head(topic))' \cap watched')
    BY <1>2 DEF Settle, MirrorsTypeOK, Interested
  <1>4. read' \in Reading /\ ~read'[s].done
    BY NoReadsTyped DEF Settle, MirrorsTypeOK, Reading, NoReads, NotRead
  <1>5. ASSUME NEW t \in System, read'[t].done PROVE Handling(t)' /\ Reads(t, Head(topic))'
    <2>1. t # s
      BY <1>4, <1>5
    <2>2. read[t].done
      BY <1>5, <2>1 DEF Settle, MirrorsTypeOK, Reading
    <2> QED
      BY <2>1, <2>2 DEF Settle, MirrorsTypeOK, Handling, Reads, Interested
  <1> QED
    BY <1>1, <1>3, <1>4, <1>5 DEF Settle, MirrorsTypeOK, LdapSet, ItslearningSet, EmailSet

\* What a handler finds.
LEMMA HandlingFacts ==
    ASSUME MirrorsTypeOK, NEW s \in System, Handling(s)
    PROVE  /\ topic \in Seq(Message) /\ topic # <<>> /\ Head(topic) = topic[1] /\ topic[1] \in Message
           /\ s \in Interested(topic[1]) /\ s \in watched /\ s \notin handled
           /\ read[s].seen \in Snapshot
           /\ ldap \in LdapSet /\ itslearning \in ItslearningSet /\ email \in EmailSet
  <1>1. topic \in Seq(Message) /\ topic # <<>> /\ s \in Interested(Head(topic)) /\ s \in watched /\ s \notin handled
    BY DEF MirrorsTypeOK, Handling
  <1>2. Head(topic) = topic[1] /\ topic[1] \in Message
    BY <1>1, TopicHead
  <1>3. read[s].seen \in Snapshot
    BY DEF MirrorsTypeOK, Reading
  <1> QED
    BY <1>1, <1>2, <1>3 DEF MirrorsTypeOK, LdapSet, ItslearningSet, EmailSet

\* A handler that succeeds.
LEMMA HandleForm ==
    ASSUME NEW s \in System, Handle(s)
    PROVE  /\ Settle(s) /\ UNCHANGED used
           /\ Reads(s, Head(topic)) => read[s].done
           /\ stray' = Settled(s)
           /\ ldap' = IF s = "ldap" THEN LdapAfter(ldap, Head(topic), read[s].seen) ELSE ldap
           /\ itslearning' = IF s = "itslearning" THEN ItslearningAfter(itslearning, Head(topic), read[s].seen) ELSE itslearning
           /\ email' = IF s = "email" THEN EmailAfter(email, Head(topic), read[s].seen) ELSE email
  BY DEF Handle, Settle, own, Silent

\* It keeps the types.
LEMMA HandleTyped ==
    ASSUME TypeOK, MirrorsTypeOK, NEW s \in System, Handle(s)
    PROVE  TypeOK' /\ MirrorsTypeOK'
  <1>1. Settle(s) /\ UNCHANGED used /\ Handling(s)
    BY HandleForm DEF Settle
  <1>2. ldap' \in LdapSet
    BY <1>1, HandleForm, HandlingFacts, LdapAfterTyped
  <1>3. itslearning' \in ItslearningSet
    BY <1>1, HandleForm, HandlingFacts, ItslearningAfterTyped
  <1>4. email' \in EmailSet
    BY <1>1, HandleForm, HandlingFacts, EmailAfterTyped
  <1>5. stray' \subseteq Stray
    BY HandleForm DEF Settled, MirrorsTypeOK, Stray
  <1> QED
    BY <1>1, <1>2, <1>3, <1>4, <1>5, SettleTyped

\* A handler that fails.
LEMMA FailForm ==
    ASSUME NEW s \in System, HandleFails(s)
    PROVE  /\ Settle(s) /\ Trouble /\ email' = email
           /\ stray' = stray \cup (IF s = "ldap" THEN {"ldap", "ldapOld"} ELSE {s})
           /\ ldap' = ldap \/ (s = "ldap" /\ ldap' \in LdapHalves(ldap, Head(topic), read[s].seen))
           /\ \/ itslearning' = itslearning
              \/ s = "itslearning" /\ itslearning' \in ItslearningHalves(itslearning, Head(topic), read[s].seen)
  BY DEF HandleFails, Settle, own, Silent

\* It keeps the types.
LEMMA FailTyped ==
    ASSUME TypeOK, MirrorsTypeOK, NEW s \in System, HandleFails(s)
    PROVE  TypeOK' /\ MirrorsTypeOK'
  <1>1. Settle(s) /\ Trouble /\ Handling(s)
    BY FailForm DEF Settle
  <1>2. ldap' \in LdapSet
    BY <1>1, FailForm, HandlingFacts, LdapHalvesTyped
  <1>3. itslearning' \in ItslearningSet
    BY <1>1, FailForm, HandlingFacts, ItslearningHalvesTyped
  <1>4. email' \in EmailSet
    BY <1>1, FailForm, HandlingFacts
  <1>5. stray' \subseteq Stray
    BY FailForm DEF System, Stray, MirrorsTypeOK
  <1> QED
    BY <1>1, <1>2, <1>3, <1>4, <1>5, SettleTyped

\* All handlers of the first message have settled: nothing that they have read is left.
LEMMA CommitForm ==
    ASSUME MirrorsTypeOK, Commit
    PROVE  /\ topic \in Seq(Message) /\ topic # <<>> /\ Head(topic) = topic[1] /\ topic' = Tail(topic) /\ handled' = {}
           /\ event' = Nothing
           /\ \A s \in System : ~read[s].done
           /\ \A s \in watched : s \in handled <=> s \in Interested(topic[1])
           /\ UNCHANGED <<requests, used, name, locked, asks, watched, read, ldap, itslearning, email, stray>>
  <1>1. topic \in Seq(Message) /\ topic # <<>> /\ Head(topic) = topic[1]
    BY TopicHead DEF MirrorsTypeOK, Commit
  <1>2. Interested(topic[1]) \cap watched \subseteq handled /\ handled \subseteq Interested(topic[1]) \cap watched
    BY <1>1 DEF MirrorsTypeOK, Commit
  <1>3. \A s \in System : ~read[s].done
    BY <1>1, <1>2 DEF MirrorsTypeOK, Handling
  <1> QED
    BY <1>1, <1>2, <1>3 DEF Commit, Silent, own, mirrors

\* It keeps the types.
LEMMA CommitTyped ==
    ASSUME TypeOK, MirrorsTypeOK, Commit
    PROVE  TypeOK' /\ MirrorsTypeOK'
  <1>1. TypeOK'
    BY CommitForm, RestTyped
  <1>2. topic' \in Seq(Message)
    BY CommitForm, TopicTail
  <1> QED
    BY <1>1, <1>2, CommitForm DEF MirrorsTypeOK

\* A restart keeps the types.
LEMMA RestartTyped ==
    ASSUME TypeOK, MirrorsTypeOK, Restart
    PROVE  TypeOK' /\ MirrorsTypeOK'
  <1>1. TypeOK'
    BY RestTyped DEF Restart, Silent
  <1>2. /\ UNCHANGED <<name, locked, asks, watched, topic, ldap, itslearning, email, stray>>
        /\ handled' = {} /\ read' = NoReads
    BY DEF Restart, own, mirrors
  <1>3. read' \in Reading /\ \A s \in System : ~read'[s].done
    BY <1>2, NoReadsTyped DEF NoReads, NotRead
  <1> QED
    BY <1>1, <1>2, <1>3 DEF MirrorsTypeOK

\* Types are kept by every step.
LEMMA MirrorsTypeStep == TypeOK /\ MirrorsTypeOK /\ [MirrorsNext]_allvars => TypeOK' /\ MirrorsTypeOK'
  <1> SUFFICES ASSUME TypeOK, MirrorsTypeOK, [MirrorsNext]_allvars PROVE TypeOK' /\ MirrorsTypeOK'
    OBVIOUS
  <1>1. CASE UNCHANGED allvars
    <2>1. TypeOK'
      BY <1>1, TypeStep DEF allvars
    <2>2. /\ UNCHANGED <<topic, watched, handled, read, ldap, itslearning, email>>
          /\ name' = name /\ locked' = locked /\ asks' = asks /\ stray' = stray
      BY <1>1 DEF allvars, own, mirrors
    <2>3. name \in Name /\ locked \in BOOLEAN /\ asks \in 0..MaxAsks /\ stray \subseteq Stray
      BY DEF MirrorsTypeOK
    <2> QED
      BY <2>1, <2>2, <2>3, SameTyped
  <1> QED
    BY <1>1, RequestTypedStep, AskingTyped, LoseTyped, ReadTyped, HandleTyped, FailTyped, CommitTyped, RestartTyped
       DEF MirrorsNext, Asking

\* Every value of PersonMirrors has its type, and only handlers of the first
\* event that have not settled hold what they have read.
THEOREM MirrorsTypeCorrect == MirrorsSpec => [](TypeOK /\ MirrorsTypeOK)
  BY MirrorsTypeInit, MirrorsTypeStep, PTL DEF MirrorsSpec

----------------------------------------------------------------------------
(* What is left to come                                                    *)

OfType(T) == {m \in Message : m.type \in T}

\* A message of M comes after the i-th one.
Later(i, M) == \E k \in Index : k > i /\ topic[k] \in M

\* The messages after this one are still ahead of the handler.
From(s) == IF s \in handled THEN 1 ELSE 0

Renames == OfType({"renamed"})
Updates == OfType({"updated"})
NamedTypes == {"updated", "deleted", "deadline", "renamed"}

\* The event with which a deletion starts.
Removal == {m \in Message : m.type = "updated" /\ m.added = {} /\ m.current = {} /\ m.removed = rows /\ m.name = name}

Touching(x, n) == {m \in Message : Touches(m, x) /\ m.name >= n}

\* What comes later when a message is published.
LEMMA LaterAppend ==
    ASSUME topic \in Seq(Message), NEW m \in Message, topic' = Append(topic, m), NEW i \in Nat, i <= Len(topic), NEW M
    PROVE  Later(i, M)' <=> Later(i, M) \/ m \in M
  <1>1. /\ Len(topic) \in Nat /\ \A k \in Index : topic'[k] = topic[k]
        /\ topic'[Len(topic) + 1] = m /\ Index' = Index \cup {Len(topic) + 1}
    BY TopicAppend
  <1>2. Later(i, M)' <=> \E k \in Index' : k > i /\ topic'[k] \in M
    BY DEF Later
  <1>3. ASSUME m \in M PROVE Later(i, M)'
    <2>1. Len(topic) + 1 \in Index' /\ Len(topic) + 1 > i
      BY <1>1
    <2> QED
      BY <1>1, <1>2, <1>3, <2>1
  <1>4. ASSUME Later(i, M) PROVE Later(i, M)'
    BY <1>1, <1>2, <1>4 DEF Later
  <1>5. ASSUME Later(i, M)', m \notin M PROVE Later(i, M)
    BY <1>1, <1>2, <1>5 DEF Later
  <1> QED
    BY <1>3, <1>4, <1>5

\* Nothing comes after the newest message.
LEMMA LaterLast ==
    ASSUME topic \in Seq(Message), NEW m \in Message, topic' = Append(topic, m), NEW M
    PROVE  ~Later(Len(topic) + 1, M)'
  BY TopicAppend DEF Later, Index

\* What comes later when the first message is committed.
LEMMA LaterTail ==
    ASSUME topic \in Seq(Message), topic # <<>>, topic' = Tail(topic), NEW i \in Nat, NEW M
    PROVE  Later(i, M)' <=> Later(i + 1, M)
  <1>1. Later(i, M)' <=> \E k \in Index' : k > i /\ topic'[k] \in M
    BY DEF Later
  <1>2. ASSUME NEW k \in Index', k > i, topic'[k] \in M PROVE Later(i + 1, M)
    <2>1. k \in Nat \ {0} /\ k + 1 \in Index /\ topic'[k] = topic[k + 1]
      BY TopicTail
    <2>2. k + 1 > i + 1
      BY <1>2, <2>1
    <2> QED
      BY <1>2, <2>1, <2>2 DEF Later
  <1>3. ASSUME NEW k \in Index, k > i + 1, topic[k] \in M PROVE \E l \in Index' : l > i /\ topic'[l] \in M
    <2>0. k \in Nat
      BY DEF Index
    <2>1. k > 1
      BY <1>3, <2>0
    <2>2. k - 1 \in Index' /\ topic'[k - 1] = topic[k]
      BY <2>1, TopicTail
    <2>3. k - 1 > i
      BY <1>3, <2>0
    <2> QED
      BY <1>3, <2>2, <2>3
  <1> QED
    BY <1>1, <1>2, <1>3 DEF Later

\* The topic alone decides what comes later.
LEMMA LaterSame == ASSUME UNCHANGED topic, NEW i, NEW M PROVE Later(i, M)' <=> Later(i, M)
  BY DEF Later, Index

\* All messages: the first one and those after it.
LEMMA LaterFirst ==
    ASSUME topic \in Seq(Message), NEW M
    PROVE  /\ topic = <<>> => ~Later(0, M) /\ ~Later(1, M)
           /\ topic # <<>> => (Later(0, M) <=> topic[1] \in M \/ Later(1, M))
  <1>1. CASE topic = <<>>
    <2>1. Index = {}
      BY <1>1 DEF Index
    <2> QED
      BY <1>1, <2>1 DEF Later
  <1>2. CASE topic # <<>>
    <2>1. 1 \in Index /\ \A k \in Index : k \in Nat /\ k > 0 /\ (k = 1 \/ k > 1)
      BY <1>2 DEF Index
    <2> QED
      BY <1>2, <2>1 DEF Later
  <1> QED
    BY <1>1, <1>2

----------------------------------------------------------------------------
(* The invariant                                                           *)

\* Nobody knows a username that does not exist yet.
BoundInv ==
    /\ \A i \in Index : topic[i].name <= name
    /\ \A s \in System : read[s].seen.name <= name
    /\ \A n \in ldap.entries : n <= name
    /\ \A x \in Schule : \A n \in ldap.members[x] : n <= name

OldInv == "ldap" \in stray => "ldapOld" \in stray

\* Some system was told of everything.
Trusted == \E s \in System : s \notin stray

\* The last update tells what is due, and the last renaming the present name.
CurrentInv ==
    ~Writing => \A i \in Index : topic[i].type = "updated" /\ ~Later(i, Updates) => topic[i].current = Due

NameInv ==
    \A i \in Index : topic[i].type \in NamedTypes /\ ~Later(i, Renames) => topic[i].name = name

\* Whoever reads the contexts of a person that is about to go is corrected later.
LeavingInv ==
    Leaving => \A i \in Index : topic[i].type \in {"sync", "locks", "renamed"} => Later(i, Removal)

\* Nothing comes after the deletion.
EndInv ==
    /\ \A i \in Index : topic[i].type \in {"deleted", "deadline"} => i = Len(topic) /\ Ended
    /\ Gone => topic = <<>> \/ topic[Len(topic)].type = "deleted"

\* The last message about a school is right, unless another one is to come.
TouchInv ==
    \A x \in Schule : ~Open(x) =>
        \A i \in Index : Touches(topic[i], x) /\ ~Later(i, Touching(x, 0)) =>
            (x \in Joined(topic[i]) <=> x \in SchulenOf(Due, Uem))

TopicInv == CurrentInv /\ NameInv /\ LeavingInv /\ EndInv /\ TouchInv

\* What a handler has read is right, or a later message corrects it.
ReadInv(s) ==
    (s \notin stray /\ read[s].done) =>
        /\ ~Later(1, Renames) => read[s].seen.name = name
        /\ ~Writing /\ ~Later(0, Updates) => read[s].seen.rows = Due
        /\ ~Later(1, OfType({"locks"})) => read[s].seen.locked = locked

CommonInv ==
    /\ RequestInv /\ BoundInv /\ OldInv
    /\ Trusted => TopicInv
    /\ \A s \in System : ReadInv(s)

\* The topic is a finite sequence.
LEMMA LenNat == ASSUME MirrorsTypeOK PROVE Len(topic) \in Nat /\ topic \in Seq(Message)
  BY DEF MirrorsTypeOK

\* Usernames are numbers wherever they occur.
LEMMA NameNat ==
    ASSUME MirrorsTypeOK
    PROVE  /\ name \in Nat /\ Name \subseteq Nat
           /\ \A i \in Index : topic[i] \in Message /\ topic[i].name \in Nat /\ i \in Nat \ {0} /\ i <= Len(topic)
           /\ \A s \in System : read[s].seen \in Snapshot /\ read[s].seen.name \in Nat
           /\ ldap \in LdapSet /\ ldap.entries \subseteq Nat /\ \A x \in Schule : ldap.members[x] \subseteq Nat
  <1>1. Name \subseteq Nat /\ name \in Name
    BY MirrorsAssumption DEF Name, MirrorsTypeOK
  <1>2. topic \in Seq(Message) /\ \A i \in Index : topic[i] \in Message /\ i \in Nat \ {0} /\ i <= Len(topic)
    BY DEF MirrorsTypeOK, Index
  <1>3. \A s \in System : read[s].seen \in Snapshot
    BY DEF MirrorsTypeOK, Reading
  <1>4. ldap \in LdapSet
    BY DEF MirrorsTypeOK, LdapSet
  <1>5. \A m \in Message : m.name \in Nat
    BY <1>1 DEF Message
  <1>6. \A q \in Snapshot : q.name \in Nat
    BY <1>1 DEF Snapshot
  <1>7. ldap.entries \subseteq Nat /\ \A x \in Schule : ldap.members[x] \subseteq Nat
    BY <1>1, <1>4 DEF LdapSet
  <1> QED
    BY <1>1, <1>2, <1>3, <1>4, <1>5, <1>6, <1>7

----------------------------------------------------------------------------
(* The systems                                                             *)

ItslearningInv ==
    Told("itslearning") =>
        /\ ~Writing /\ ~Later(From("itslearning"), Updates) =>
              /\ itslearning.known <=> SchulenOf(Due, Itslearning) # {}
              /\ itslearning.known => itslearning.schulen = SchulenOf(Due, Itslearning)
        /\ itslearning.known /\ ~Later(From("itslearning"), OfType({"updated", "renamed"})) => itslearning.name = name
        /\ ~itslearning.known => itslearning = NoUser

Setters == {m \in Message : m.type = "updated" /\ SchulenOf(m.current, Email) # {}}

Unsetters == {m \in Message : m.type = "updated" /\ SchulenOf(m.current, Email) = {} /\ SchulenOf(m.removed, Email) # {}}

\* Without a context with e-mail, whatever sets the addresses is followed by
\* what suspends them.
NoEmailInv ==
    SchulenOf(Due, Email) = {} =>
        /\ \A i \in Index : topic[i] \in Setters => Unsetting \/ Later(i, Unsetters)
        /\ email.state = "set" => Unsetting \/ Later(From("email"), Unsetters)
        /\ read["email"].done /\ SchulenOf(read["email"].seen.rows, Email) # {} =>
              topic[1].type = "updated" \/ Unsetting \/ Later(1, Unsetters)

SomeEmailInv ==
    SchulenOf(Due, Email) # {} /\ ~Writing =>
        /\ ~Later(From("email"), Updates) => email.state = "set" /\ email.schulen = SchulenOf(Due, Email)
        /\ ~Later(From("email"), OfType({"updated", "renamed"})) => email.name = name

LocksInv == email.state # "none" /\ ~Later(From("email"), OfType({"locks"})) => email.locked = locked

GoneInv == Gone /\ ~Later(From("email"), OfType({"deleted"})) => email.state = "none"

EmailInv == Told("email") => NoEmailInv /\ SomeEmailInv /\ LocksInv /\ GoneInv

OldName(m) == IF m.type = "renamed" THEN m.name - 1 ELSE m.name

\* The usernames in the topic follow one another, beginning with c.
ChainInv(c) ==
    /\ \A i \in Index : topic[i].type \in NamedTypes =>
        /\ c <= OldName(topic[i])
        /\ (\A k \in Index : k < i => topic[k].type # "renamed") => OldName(topic[i]) = c
        /\ \A k \in Index : k < i /\ topic[k].type = "renamed" =>
            /\ topic[k].name <= OldName(topic[i])
            /\ (\A l \in Index : k < l /\ l < i => topic[l].type # "renamed") => OldName(topic[i]) = topic[k].name
    /\ ~Later(0, Renames) => c = name

\* The entry that the messages to come deal with: of the name with which they
\* begin, or the newest one that a synchronisation has made ahead of them.
EntryInv(c, v) ==
    /\ c <= v /\ v <= name
    /\ v = c \/ v \in ldap.entries
    /\ \A n \in ldap.entries : n <= v
    /\ \A x \in Schule : \A n \in ldap.members[x] : n >= c => n \in ldap.entries
    /\ topic # <<>> /\ topic[1].type = "renamed" /\ "ldap" \in handled =>
          (c \in ldap.entries => c + 1 \in ldap.entries)

\* It is a member of the groups that are due, but for what is still to come.
MemberInv(v) ==
    \A x \in Schule : ~Open(x) /\ ~Later(From("ldap"), Touching(x, v)) =>
        (v \in ldap.members[x] <=> x \in SchulenOf(Due, Uem))

SyncInv(v) ==
    read["ldap"].done =>
        /\ v <= read["ldap"].seen.name
        /\ \A x \in Schule : ~Open(x) /\ ~Later(1, Touching(x, read["ldap"].seen.name)) =>
              (x \in SchulenOf(read["ldap"].seen.rows, Uem) <=> x \in SchulenOf(Due, Uem))

\* Without entries of former names there is no other entry.
OnlyInv(c, v) ==
    "ldapOld" \notin stray =>
        /\ \A n \in ldap.entries : n = v
        /\ \A x \in Schule : \A n \in ldap.members[x] : n = v
        /\ v = c \/ (v = c + 1 /\ topic # <<>> /\ topic[1].type = "renamed")

DroppedInv(v) == Gone /\ ~Later(From("ldap"), OfType({"deleted"})) => v \notin ldap.entries

LdapAt(c, v) == ChainInv(c) /\ EntryInv(c, v) /\ MemberInv(v) /\ SyncInv(v) /\ OnlyInv(c, v) /\ DroppedInv(v)

LdapInv == Told("ldap") => \E c, v \in Nat : LdapAt(c, v)

MirrorsInv == TypeOK /\ MirrorsTypeOK /\ CommonInv /\ ItslearningInv /\ EmailInv /\ LdapInv

----------------------------------------------------------------------------
(* The steps, by what they do to the topic and the systems                 *)

Unmoved == UNCHANGED <<watched, handled, read, ldap, itslearning, email>>

Appended(m) == m \in Message /\ topic' = Append(topic, m) /\ stray' = stray /\ Unmoved

CalmStep == Steady /\ Unmoved /\ UNCHANGED <<topic, stray, name, locked>>

TellsUpdate(m) ==
    /\ Appended(m) /\ UNCHANGED <<name, locked>>
    /\ m.type = "updated" /\ m.name = name /\ m.current = rows
    /\ rows' = rows /\ Due = rows /\ Due' = rows
    /\ ~Writing' /\ ~Leaving /\ ~Leaving' /\ ~Ended /\ ~Ended' /\ ~Gone'
    /\ \A x \in Schule :
        /\ ~Open(x)'
        /\ Open(x) <=> Touches(m, x)
        /\ Open(x) => (x \in Joined(m) <=> x \in SchulenOf(rows, Uem))
    /\ Unsetting => SchulenOf(m.removed, Email) # {}

TellsRemoval(m) ==
    /\ Appended(m) /\ UNCHANGED <<name, locked>>
    /\ m.type = "updated" /\ m.name = name /\ m.added = {} /\ m.current = {} /\ m.removed = rows
    /\ rows' = rows /\ Due = rows /\ Due' = {}
    /\ ~Writing /\ ~Writing' /\ ~Leaving /\ Leaving' /\ ~Ended /\ ~Ended' /\ ~Gone'
    /\ ~Unsetting /\ \A x \in Schule : ~Open(x) /\ ~Open(x)'

TellsDeletion(m) ==
    /\ Appended(m) /\ UNCHANGED <<name, locked>>
    /\ m.type \in {"deleted", "deadline"} /\ m.name = name
    /\ rows' = rows /\ Due = {} /\ Due' = {}
    /\ ~Writing /\ ~Writing' /\ Leaving /\ Leaving' /\ ~Ended /\ Ended' /\ (Gone' => m.type = "deleted")
    /\ ~Unsetting /\ \A x \in Schule : ~Open(x) /\ ~Open(x)'

Asks(m) ==
    /\ Appended(m)
    /\ m.type \in {"renamed", "locks", "sync"} /\ m.name = name'
    /\ name' = IF m.type = "renamed" THEN name + 1 ELSE name
    /\ m.type # "locks" => locked' = locked
    /\ UNCHANGED <<person, rows, job>>
    /\ ~Leaving /\ ~Ended /\ ~Gone

\* The systems miss something.
StrayStep ==
    /\ stray' = Stray /\ Unmoved
    /\ name' \in Nat /\ name <= name'
    /\ \A i \in Index' : (i \in Index /\ topic'[i] = topic[i]) \/ topic'[i].name <= name'

\* What a message tells LDAP depends on its contexts.
LEMMA JoinedSame ==
    ASSUME NEW m, NEW e, m.added = e.added, m.removed = e.removed, m.current = e.current, m.type = e.type
    PROVE  Joined(m) = Joined(e) /\ Unjustified(m) = Unjustified(e) /\ \A x : Touches(m, x) <=> Touches(e, x)
  <1>1. Joined(m) = Joined(e) /\ Unjustified(m) = Unjustified(e)
    BY DEF Joined, Unjustified
  <1> QED
    BY <1>1 DEF Touches

\* Every step of a request is one of five forms.
LEMMA RequestForms ==
    ASSUME TypeOK, TypeOK', MirrorsTypeOK, Serially, RequestInv, RequestStep
    PROVE  /\ RequestInv'
           /\ \/ CalmStep \/ StrayStep
              \/ \E m : TellsUpdate(m) \/ TellsRemoval(m) \/ TellsDeletion(m)
  <1>1. RequestInv' /\ Moves
    <2>1. CASE DaysPass
      BY <2>1, DaysMove DEF Moves
    <2>2. CASE \E j \in Job : Step(j)
      BY <2>2, RequestMoves
    <2> QED
      BY <2>1, <2>2 DEF RequestStep
  <1>2. Unmoved /\ UNCHANGED <<name, locked>>
    BY DEF RequestStep, own, mirrors, Unmoved
  <1>3. CASE event'.type = "none"
    <2>1. Calm
      BY <1>1, <1>3 DEF Moves, Updated, Removes, Deletes
    <2>2. UNCHANGED <<topic, stray>>
      BY <1>3 DEF RequestStep
    <2> QED
      BY <1>1, <1>2, <2>1, <2>2 DEF CalmStep, Calm
  <1>4. CASE event'.type = "untold"
    <2>1. stray' = Stray /\ topic' = topic
      BY <1>4 DEF RequestStep
    <2> QED
      BY <1>1, <1>2, <2>1, NameNat DEF StrayStep, Index
  <1>5. CASE event'.type \notin {"none", "untold"}
    <2>1. PICK m \in Message :
              /\ m.type = event'.type /\ m.name = name /\ m.added = event'.added
              /\ m.removed = event'.removed /\ m.current = event'.current
              /\ topic' = Append(topic, m) /\ stray' = stray
      BY <1>5, Published
    <2>2. Appended(m)
      BY <1>2, <2>1 DEF Appended
    <2>3. CASE Updated
      <3>1. Joined(m) = Joined(event') /\ \A x : Touches(m, x) <=> Touches(event', x)
        BY <2>1, JoinedSame
      <3>2. TellsUpdate(m)
        BY <1>2, <2>1, <2>2, <2>3, <3>1 DEF TellsUpdate, Updated
      <3> QED
        BY <1>1, <3>2
    <2>4. CASE Removes
      <3>1. TellsRemoval(m)
        BY <1>2, <2>1, <2>2, <2>4 DEF TellsRemoval, Removes
      <3> QED
        BY <1>1, <3>1
    <2>5. CASE Deletes
      <3>1. TellsDeletion(m)
        BY <1>2, <2>1, <2>2, <2>5 DEF TellsDeletion, Deletes
      <3> QED
        BY <1>1, <3>1
    <2> QED
      BY <1>1, <1>5, <2>3, <2>4, <2>5 DEF Moves, Calm
  <1> QED
    BY <1>3, <1>4, <1>5

\* Only a request that deletes makes the contexts go.
LEMMA LeavingDeletes ==
    ASSUME Serially, RequestInv, person = "present", Leaving \/ Ended \/ Gone
    PROVE  Deleting /\ \E j \in Job : Busy(j)
  <1>1. PICK j \in Job : job[j].at \in {"told", "drop"}
    BY DEF Leaving, Ended, Gone
  <1>2. job[j].kind \in {"delete", "deadline"}
    BY <1>1 DEF RequestInv, KnowInv
  <1> QED
    BY <1>1, <1>2 DEF Deleting, Busy

\* A question comes between the requests, or the systems miss something.
LEMMA AskingForms ==
    ASSUME TypeOK, MirrorsTypeOK, Serially, RequestInv, Asking
    PROVE  /\ RequestInv'
           /\ StrayStep \/ \E m : Asks(m)
  <1>1. PICK m \in Message :
            /\ topic' = Append(topic, m) /\ m.type \in {"renamed", "locks", "sync"} /\ m.name = name'
            /\ m.type # "renamed" => name' = name
            /\ m.type = "renamed" => name' = name + 1 /\ \A j \in Job : ~Busy(j)
            /\ m.type # "locks" => locked' = locked
    BY AskingForm
  <1>2. /\ stray' = stray \/ (Deleting /\ stray' = Stray)
        /\ Deleting => stray' = Stray \/ \A j \in Job : ~Busy(j)
        /\ UNCHANGED <<person, rows, job>> /\ Unmoved /\ person = "present"
    BY AskingForm DEF requests, database, Unmoved
  <1>3. RequestInv'
    BY <1>2, RestMove
  <1>4. CASE stray' = Stray
    <2>1. name' \in Nat /\ name <= name'
      <3>1. name \in Nat
        BY NameNat
      <3>2. CASE m.type = "renamed"
        <4>1. name' = name + 1
          BY <1>1, <3>2
        <4> QED
          BY <3>1, <4>1
      <3>3. CASE m.type # "renamed"
        <4>1. name' = name
          BY <1>1, <3>3
        <4> QED
          BY <3>1, <4>1
      <3> QED
        BY <3>2, <3>3
    <2>2. \A i \in Index' : (i \in Index /\ topic'[i] = topic[i]) \/ topic'[i].name <= name'
      <3>1. /\ \A i \in Index : topic'[i] = topic[i]
            /\ topic'[Len(topic) + 1] = m /\ Index' = Index \cup {Len(topic) + 1}
        BY <1>1, LenNat, TopicAppend
      <3>2. m.name = name' /\ m.name <= name'
        BY <1>1, <2>1
      <3> QED
        BY <3>1, <3>2
    <2> QED
      BY <1>2, <1>3, <1>4, <2>1, <2>2 DEF StrayStep
  <1>5. CASE stray' # Stray
    <2>1. ~Leaving /\ ~Ended /\ ~Gone
      BY <1>2, <1>5, LeavingDeletes
    <2>2. stray' = stray
      BY <1>2, <1>5
    <2> QED
      BY <1>1, <1>2, <1>3, <2>1, <2>2 DEF Asks, Appended
  <1> QED
    BY <1>4, <1>5

\* Of a lost message the systems are not told.
LEMMA LoseForm ==
    ASSUME MirrorsTypeOK, RequestInv, Lose
    PROVE  RequestInv' /\ StrayStep
  <1>1. UNCHANGED <<person, rows, job>> /\ Unmoved /\ stray' = Stray /\ name' = name
    BY DEF Lose, requests, database, own, mirrors, Unmoved
  <1>2. topic # <<>> /\ topic' = SubSeq(topic, 1, Len(topic) - 1)
    BY DEF Lose
  <1>3. \A i \in Index' : i \in Index /\ topic'[i] = topic[i]
    BY <1>2, LenNat, TopicFront
  <1> QED
    BY <1>1, <1>3, RestMove, NameNat DEF StrayStep

RestStep == UNCHANGED <<person, rows, job, name, locked, watched>>

\* Steps that leave the database alone keep what was told.
LEMMA RestSteady == ASSUME UNCHANGED <<person, rows, job>> PROVE Steady
  BY RestMove DEF Steady

\* The forms of all steps, and the requests keep their invariant.
LEMMA Steps ==
    ASSUME TypeOK, TypeOK', MirrorsTypeOK, Serially, RequestInv, [MirrorsNext]_allvars
    PROVE  /\ RequestInv'
           /\ \/ CalmStep \/ StrayStep
              \/ \E m : TellsUpdate(m) \/ TellsRemoval(m) \/ TellsDeletion(m) \/ Asks(m)
              \/ \E s \in System : Read(s) \/ Handle(s) \/ HandleFails(s)
              \/ Commit \/ Restart
  <1>1. CASE UNCHANGED allvars
    <2>1. UNCHANGED <<person, rows, job, topic, stray, name, locked>> /\ Unmoved
      BY <1>1 DEF allvars, vars, database, own, mirrors, Unmoved
    <2> QED
      BY <2>1, RestMove, RestSteady DEF CalmStep
  <1>2. CASE RequestStep
    BY <1>2, RequestForms
  <1>3. CASE Asking
    BY <1>3, AskingForms
  <1>4. CASE Lose
    BY <1>4, LoseForm
  <1>5. ASSUME NEW s \in System, Read(s) \/ Handle(s) \/ HandleFails(s) PROVE RequestInv'
    <2>1. UNCHANGED <<person, rows, job>>
      BY <1>5 DEF Read, Handle, HandleFails, requests, database
    <2> QED
      BY <2>1, RestMove
  <1>6. ASSUME Commit \/ Restart PROVE RequestInv'
    <2>1. UNCHANGED <<person, rows, job>>
      BY <1>6 DEF Commit, Restart, requests, database
    <2> QED
      BY <2>1, RestMove
  <1> QED
    BY <1>1, <1>2, <1>3, <1>4, <1>5, <1>6 DEF MirrorsNext, Asking

\* Steps of the handlers leave the database alone.
LEMMA ReadForm ==
    ASSUME NEW s \in System, Read(s)
    PROVE  /\ RestStep /\ UNCHANGED <<topic, handled, ldap, itslearning, email, stray>>
           /\ Handling(s) /\ Reads(s, Head(topic))
           /\ read' = [read EXCEPT ![s] = [done |-> TRUE, seen |-> Present]]
  BY DEF Read, requests, database, own, mirrors, RestStep

\* A handler leaves database and topic alone.
LEMMA SettleRest ==
    ASSUME NEW s \in System, Handle(s) \/ HandleFails(s)
    PROVE  RestStep /\ Settle(s) /\ UNCHANGED topic
  BY HandleForm, FailForm DEF Settle, requests, database, RestStep

\* A commit leaves the database and the systems alone.
LEMMA CommitRest ==
    ASSUME MirrorsTypeOK, Commit
    PROVE  RestStep /\ UNCHANGED <<read, ldap, itslearning, email, stray>> /\ handled' = {} /\ topic' = Tail(topic)
  BY CommitForm DEF requests, database, RestStep

\* A restart forgets what was read and which handlers have settled.
LEMMA RestartForm ==
    ASSUME Restart
    PROVE  RestStep /\ UNCHANGED <<topic, ldap, itslearning, email, stray>> /\ handled' = {} /\ read' = NoReads
  BY DEF Restart, requests, database, own, mirrors, RestStep

\* What changes in the reads when a handler has settled.
LEMMA SettledReads ==
    ASSUME MirrorsTypeOK, NEW s \in System, Settle(s)
    PROVE  /\ ~read'[s].done /\ read'[s].seen.name = 0
           /\ \A t \in System : t # s => read'[t] = read[t]
           /\ handled' = handled \cup {s}
  BY DEF Settle, MirrorsTypeOK, Reading, NoReads, NotRead

----------------------------------------------------------------------------
(* Nobody knows a username that does not exist yet                         *)

\* No handler brings a name into LDAP that is neither there nor in the message nor read.
LEMMA LdapBelow ==
    ASSUME NEW l \in LdapSet, NEW e \in Message, NEW seen \in Snapshot, "ldap" \in Interested(e), NEW n \in Nat,
           e.name <= n, seen.name <= n,
           \A k \in l.entries : k <= n, \A x \in Schule : \A k \in l.members[x] : k <= n,
           NEW h \in {l, LdapAfter(l, e, seen)} \cup LdapHalves(l, e, seen)
    PROVE  (\A k \in h.entries : k <= n) /\ (\A x \in Schule : \A k \in h.members[x] : k <= n)
  <1> DEFINE done == LdapAfter(l, e, seen)
             left == Leave(l, e.name, Unjustified(e))
  <1>1. e.type \in {"updated", "renamed", "sync", "deleted", "deadline"}
    BY DEF Interested, Message
  <1>2. (\A k \in done.entries : k <= n) /\ (\A x \in Schule : \A k \in done.members[x] : k <= n)
    <2>1. CASE e.type = "updated"
      BY <2>1, UpdatedFields DEF LdapAfter
    <2>2. CASE e.type = "renamed"
      <3>1. done = LdapRenamed(l, e)
        BY <2>2 DEF LdapAfter
      <3>2. CASE e.name - 1 \notin l.entries \/ e.name \in l.entries
        BY <3>1, <3>2, RenamedFields
      <3>3. CASE e.name - 1 \in l.entries /\ e.name \notin l.entries
        BY <3>1, <3>3, RenamedFields
      <3> QED
        BY <3>2, <3>3
    <2>3. CASE e.type = "sync"
      <3>1. done = LdapSynced(l, seen)
        BY <2>3 DEF LdapAfter
      <3>2. CASE Unsynced(l, seen)
        BY <3>1, <3>2, SyncedFields
      <3>3. CASE ~Unsynced(l, seen)
        BY <3>1, <3>3, SyncedFields
      <3> QED
        BY <3>2, <3>3
    <2>4. CASE e.type \in {"deleted", "deadline"}
      <3>1. done = [l EXCEPT !.entries = @ \ {e.name}]
        BY <2>4 DEF LdapAfter
      <3>2. done.entries = l.entries \ {e.name} /\ done.members = l.members
        BY <3>1, DeletedFields
      <3> QED
        BY <3>2
    <2> QED
      BY <1>1, <2>1, <2>2, <2>3, <2>4
  <1>3. left.entries = l.entries /\ \A x \in Schule : left.members[x] \subseteq l.members[x]
    BY DEF Leave, LdapSet
  <1>4. [l EXCEPT !.members = done.members].entries = l.entries /\ [l EXCEPT !.members = done.members].members = done.members
    BY DEF LdapSet
  <1>5. [l EXCEPT !.entries = done.entries].entries = done.entries /\ [l EXCEPT !.entries = done.entries].members = l.members
    BY DEF LdapSet
  <1>6. h \in {l, done, left, [l EXCEPT !.members = done.members], [l EXCEPT !.entries = done.entries]}
    BY DEF LdapHalves
  <1> HIDE DEF done, left
  <1> QED
    BY <1>2, <1>3, <1>4, <1>5, <1>6

\* A message with the present name keeps the bound.
LEMMA BoundAppend ==
    ASSUME MirrorsTypeOK, BoundInv, NEW m, Appended(m), m.name <= name', name <= name', name' \in Nat
    PROVE  BoundInv'
  <1>1. /\ \A i \in Index : topic'[i] = topic[i]
        /\ topic'[Len(topic) + 1] = m /\ Index' = Index \cup {Len(topic) + 1}
    BY LenNat, TopicAppend DEF Appended
  <1>2. UNCHANGED <<read, ldap>>
    BY DEF Appended, Unmoved
  <1>3. \A i \in Index' : topic'[i].name <= name'
    BY <1>1, NameNat DEF BoundInv
  <1>4. \A s \in System : read'[s].seen.name <= name'
    BY <1>2, NameNat DEF BoundInv
  <1>5. (\A n \in ldap'.entries : n <= name') /\ \A x \in Schule : \A n \in ldap'.members[x] : n <= name'
    BY <1>2, NameNat DEF BoundInv
  <1> QED
    BY <1>3, <1>4, <1>5 DEF BoundInv

\* A handler keeps the bound.
LEMMA BoundSettle ==
    ASSUME MirrorsTypeOK, BoundInv, NEW s \in System, Handle(s) \/ HandleFails(s)
    PROVE  BoundInv'
  <1>1. RestStep /\ Settle(s) /\ UNCHANGED topic /\ Handling(s)
    BY SettleRest DEF Settle
  <1>2. \A i \in Index' : topic'[i].name <= name'
    BY <1>1 DEF BoundInv, Index, RestStep
  <1>3. \A t \in System : read'[t].seen.name <= name'
    BY <1>1, SettledReads, NameNat DEF BoundInv, RestStep
  <1>4. (\A n \in ldap'.entries : n <= name) /\ \A x \in Schule : \A n \in ldap'.members[x] : n <= name
    <2>1. CASE ldap' = ldap
      BY <2>1 DEF BoundInv
    <2>2. CASE ldap' # ldap
      <3>1. s = "ldap" /\ ldap' \in {ldap, LdapAfter(ldap, topic[1], read[s].seen)} \cup LdapHalves(ldap, topic[1], read[s].seen)
        BY <1>1, <2>2, HandleForm, FailForm, HandlingFacts
      <3>2. topic[1].name <= name /\ read[s].seen.name <= name
        BY <1>1, HandlingFacts, TopicHead DEF BoundInv
      <3> QED
        BY <1>1, <3>1, <3>2, LdapBelow, HandlingFacts, NameNat DEF BoundInv
    <2> QED
      BY <2>1, <2>2
  <1> QED
    BY <1>1, <1>2, <1>3, <1>4 DEF BoundInv, RestStep

\* Nobody comes to know a username that does not exist yet.
LEMMA BoundStep ==
    ASSUME TypeOK, TypeOK', MirrorsTypeOK, Serially, RequestInv, BoundInv, [MirrorsNext]_allvars
    PROVE  BoundInv'
  <1>1. CASE CalmStep
    BY <1>1 DEF CalmStep, Unmoved, BoundInv, Index
  <1>2. CASE StrayStep
    <2>1. \A i \in Index' : topic'[i].name <= name'
      BY <1>2, NameNat DEF StrayStep, BoundInv
    <2>2. \A s \in System : read'[s].seen.name <= name'
      BY <1>2, NameNat DEF StrayStep, Unmoved, BoundInv
    <2>3. (\A n \in ldap'.entries : n <= name') /\ \A x \in Schule : \A n \in ldap'.members[x] : n <= name'
      BY <1>2, NameNat DEF StrayStep, Unmoved, BoundInv
    <2> QED
      BY <2>1, <2>2, <2>3 DEF BoundInv
  <1>3. ASSUME NEW m, TellsUpdate(m) \/ TellsRemoval(m) \/ TellsDeletion(m) \/ Asks(m) PROVE BoundInv'
    <2>0. name \in Nat
      BY NameNat
    <2>1. Appended(m) /\ m.name = name' /\ (name' = name \/ name' = name + 1)
      BY <1>3 DEF TellsUpdate, TellsRemoval, TellsDeletion, Asks
    <2>2. name' \in Nat /\ name <= name' /\ m.name <= name'
      BY <2>0, <2>1
    <2> QED
      BY <2>1, <2>2, BoundAppend
  <1>4. ASSUME NEW s \in System, Read(s) PROVE BoundInv'
    <2>1. RestStep /\ UNCHANGED <<topic, ldap>> /\ read' = [read EXCEPT ![s] = [done |-> TRUE, seen |-> Present]]
      BY <1>4, ReadForm
    <2>2. \A t \in System : read'[t].seen.name <= name'
      BY <2>1, NameNat DEF BoundInv, RestStep, MirrorsTypeOK, Reading, Present
    <2> QED
      BY <2>1, <2>2 DEF BoundInv, RestStep, Index
  <1>5. ASSUME NEW s \in System, Handle(s) \/ HandleFails(s) PROVE BoundInv'
    BY <1>5, BoundSettle
  <1>6. CASE Commit
    <2>1. \A i \in Index' : i + 1 \in Index /\ topic'[i] = topic[i + 1]
      BY <1>6, CommitForm, TopicTail
    <2> QED
      BY <1>6, <2>1, CommitRest DEF BoundInv, RestStep
  <1>7. CASE Restart
    BY <1>7, RestartForm, NameNat DEF BoundInv, RestStep, Index, NoReads, NotRead
  <1> QED
    BY <1>1, <1>2, <1>3, <1>4, <1>5, <1>6, <1>7, Steps

\* Whenever LDAP misses something, entries of former names may remain.
LEMMA OldStep ==
    ASSUME TypeOK, TypeOK', MirrorsTypeOK, Serially, RequestInv, OldInv, [MirrorsNext]_allvars
    PROVE  OldInv'
  <1>1. CASE stray' \in {stray, Stray}
    BY <1>1 DEF OldInv, Stray
  <1>2. ASSUME NEW s \in System, Handle(s) PROVE OldInv'
    BY <1>2, HandleForm DEF OldInv, Settled, System
  <1>3. ASSUME NEW s \in System, HandleFails(s) PROVE OldInv'
    BY <1>3, FailForm DEF OldInv, System
  <1> QED
    BY <1>1, <1>2, <1>3, Steps, ReadForm, CommitRest, RestartForm
       DEF CalmStep, StrayStep, TellsUpdate, TellsRemoval, TellsDeletion, Asks, Appended

\* Messages and what comes later, after one was published.
LEMMA AppendedFacts ==
    ASSUME MirrorsTypeOK, NEW m, Appended(m)
    PROVE  /\ m \in Message /\ Len(topic) \in Nat /\ Len(topic)' = Len(topic) + 1
           /\ Index' = Index \cup {Len(topic) + 1}
           /\ \A i \in Index : topic'[i] = topic[i] /\ topic[i] \in Message /\ i \in Nat /\ i <= Len(topic)
           /\ topic'[Len(topic) + 1] = m /\ topic' # <<>>
           /\ \A i \in Nat : i <= Len(topic) => \A M : Later(i, M)' <=> Later(i, M) \/ m \in M
           /\ \A M : ~Later(Len(topic) + 1, M)'
           /\ stray' = stray /\ Unmoved
  <1>1. topic \in Seq(Message) /\ m \in Message /\ topic' = Append(topic, m) /\ stray' = stray /\ Unmoved
    BY LenNat DEF Appended
  <1>2. /\ Len(topic) \in Nat /\ Len(topic)' = Len(topic) + 1 /\ topic' # <<>>
        /\ Index' = Index \cup {Len(topic) + 1} /\ topic'[Len(topic) + 1] = m
        /\ \A i \in Index : topic'[i] = topic[i] /\ topic[i] \in Message
    BY <1>1, TopicAppend
  <1>3. \A i \in Index : i \in Nat /\ i <= Len(topic)
    BY NameNat
  <1>4. \A i \in Nat : i <= Len(topic) => \A M : Later(i, M)' <=> Later(i, M) \/ m \in M
    BY <1>1, LaterAppend
  <1>5. \A M : ~Later(Len(topic) + 1, M)'
    BY <1>1, LaterLast
  <1> QED
    BY <1>1, <1>2, <1>3, <1>4, <1>5

\* Messages and what comes later, after the first one was committed.
LEMMA CommitFacts ==
    ASSUME MirrorsTypeOK, Commit
    PROVE  /\ \A i \in Index' : i \in Nat /\ i + 1 \in Index /\ topic'[i] = topic[i + 1]
           /\ \A i \in Nat : \A M : Later(i, M)' <=> Later(i + 1, M)
           /\ Len(topic) \in Nat /\ Len(topic)' = Len(topic) - 1
  <1>1. topic \in Seq(Message) /\ topic # <<>> /\ topic' = Tail(topic)
    BY CommitForm
  <1>2. Len(topic) \in Nat /\ Len(topic)' = Len(topic) - 1 /\ \A i \in Index' : i \in Nat /\ i + 1 \in Index /\ topic'[i] = topic[i + 1]
    BY <1>1, TopicTail
  <1>3. \A i \in Nat : \A M : Later(i, M)' <=> Later(i + 1, M)
    BY <1>1, LaterTail
  <1> QED
    BY <1>2, <1>3

\* Sets of messages, by the type.
LEMMA OldTypes ==
    ASSUME NEW m \in Message
    PROVE  /\ m \in Updates <=> m.type = "updated"
           /\ m \in Renames <=> m.type = "renamed"
           /\ \A T : m \in OfType(T) <=> m.type \in T
  BY DEF Updates, Renames, OfType

----------------------------------------------------------------------------
(* The topic                                                               *)

\* A step without an event keeps what the topic tells.
LEMMA TopicCalm == ASSUME TopicInv, CalmStep PROVE TopicInv'
  <1>1. UNCHANGED <<topic, name>> /\ Index' = Index /\ \A i : \A M : Later(i, M)' <=> Later(i, M)
    BY LaterSame DEF CalmStep, Index
  <1>2. CurrentInv'
    BY <1>1 DEF TopicInv, CurrentInv, CalmStep, Steady, Updates, OfType
  <1>3. NameInv'
    BY <1>1 DEF TopicInv, NameInv, Renames, OfType
  <1>4. LeavingInv'
    <2> SUFFICES ASSUME Leaving' PROVE LeavingInv'
      BY DEF LeavingInv
    <2>1. Leaving /\ Removal' = Removal
      BY <1>1 DEF CalmStep, Steady, Removal
    <2> QED
      BY <1>1, <2>1 DEF TopicInv, LeavingInv
  <1>5. EndInv'
    BY <1>1 DEF TopicInv, EndInv, CalmStep, Steady
  <1>6. TouchInv'
    <2> SUFFICES ASSUME NEW x \in Schule, ~Open(x)', NEW i \in Index, Touches(topic[i], x), ~Later(i, Touching(x, 0))
                 PROVE  x \in Joined(topic[i]) <=> x \in SchulenOf(Due, Uem)'
      BY <1>1 DEF TouchInv, Touches, Joined, Unjustified, Touching
    <2>1. ~Open(x) /\ (x \in SchulenOf(Due, Uem)' <=> x \in SchulenOf(Due, Uem))
      BY DEF CalmStep, Steady
    <2> QED
      BY <2>1 DEF TopicInv, TouchInv
  <1> QED
    BY <1>2, <1>3, <1>4, <1>5, <1>6 DEF TopicInv

\* The event of an update keeps what the topic tells.
LEMMA TopicUpdate == ASSUME MirrorsTypeOK, TopicInv, NEW m, TellsUpdate(m) PROVE TopicInv'
  <1>1. Appended(m) /\ m.type = "updated" /\ m.name = name /\ name' = name
    BY DEF TellsUpdate
  <1> DEFINE n == Len(topic) + 1
  <1>2. /\ m \in Message /\ Index' = Index \cup {n} /\ topic'[n] = m
        /\ \A i \in Index : topic'[i] = topic[i] /\ topic[i] \in Message /\ \A M : Later(i, M)' <=> Later(i, M) \/ m \in M
    BY <1>1, AppendedFacts
  <1> HIDE DEF n
  <1>3. CurrentInv'
    BY <1>1, <1>2 DEF CurrentInv, TellsUpdate, Updates, OfType
  <1>4. NameInv'
    BY <1>1, <1>2 DEF TopicInv, NameInv, Renames, OfType
  <1>5. LeavingInv'
    BY DEF LeavingInv, TellsUpdate
  <1>6. EndInv'
    <2>1. \A i \in Index' : topic'[i].type \notin {"deleted", "deadline"}
      BY <1>1, <1>2 DEF TopicInv, EndInv, TellsUpdate
    <2> QED
      BY <2>1 DEF EndInv, TellsUpdate
  <1>7. TouchInv'
    <2> SUFFICES ASSUME NEW x \in Schule, NEW i \in Index', Touches(topic'[i], x), ~Later(i, Touching(x, 0))'
                 PROVE  x \in Joined(topic'[i]) <=> x \in SchulenOf(Due, Uem)'
      BY DEF TouchInv, Touches, Joined, Unjustified
    <2>1. SchulenOf(Due, Uem)' = SchulenOf(Due, Uem) /\ Due = rows
      BY DEF TellsUpdate, SchulenOf
    <2>2. CASE i = n
      BY <1>2, <2>1, <2>2 DEF TellsUpdate
    <2>3. CASE i \in Index
      <3>1. m \notin Touching(x, 0)' /\ ~Later(i, Touching(x, 0))
        BY <1>2, <2>3 DEF Touching, Touches, Joined, Unjustified
      <3>2. ~Touches(m, x)
        BY <1>1, <1>2, <3>1, NameNat DEF Touching, Touches, Joined, Unjustified
      <3>3. ~Open(x)
        BY <3>2 DEF TellsUpdate
      <3> QED
        BY <1>2, <2>1, <2>3, <3>1, <3>3 DEF TopicInv, TouchInv
    <2> QED
      BY <1>2, <2>2, <2>3
  <1> QED
    BY <1>3, <1>4, <1>5, <1>6, <1>7 DEF TopicInv

\* So does the first event of a deletion.
LEMMA TopicRemoval == ASSUME MirrorsTypeOK, TopicInv, NEW m, TellsRemoval(m) PROVE TopicInv'
  <1>1. Appended(m) /\ m.type = "updated" /\ m.name = name /\ name' = name
    BY DEF TellsRemoval
  <1> DEFINE n == Len(topic) + 1
  <1>2. /\ m \in Message /\ Index' = Index \cup {n} /\ topic'[n] = m
        /\ \A i \in Index : topic'[i] = topic[i] /\ topic[i] \in Message /\ \A M : Later(i, M)' <=> Later(i, M) \/ m \in M
    BY <1>1, AppendedFacts
  <1> HIDE DEF n
  <1>3. CurrentInv'
    BY <1>1, <1>2 DEF CurrentInv, TellsRemoval, Updates, OfType
  <1>4. NameInv'
    BY <1>1, <1>2 DEF TopicInv, NameInv, Renames, OfType
  <1>5. LeavingInv'
    <2>1. m \in Removal'
      BY <1>2 DEF TellsRemoval, Removal
    <2> QED
      BY <1>1, <1>2, <2>1 DEF LeavingInv
  <1>6. EndInv'
    <2>1. \A i \in Index' : topic'[i].type \notin {"deleted", "deadline"}
      BY <1>1, <1>2 DEF TopicInv, EndInv, TellsRemoval
    <2> QED
      BY <2>1 DEF EndInv, TellsRemoval
  <1>7. TouchInv'
    <2> SUFFICES ASSUME NEW x \in Schule, NEW i \in Index', Touches(topic'[i], x), ~Later(i, Touching(x, 0))'
                 PROVE  x \in Joined(topic'[i]) <=> x \in SchulenOf(Due, Uem)'
      BY DEF TouchInv, Touches, Joined, Unjustified
    <2>1. x \notin SchulenOf(Due, Uem)' /\ Due = rows /\ ~Open(x)
      BY DEF TellsRemoval, SchulenOf
    <2>2. CASE i = n
      BY <1>2, <2>1, <2>2 DEF TellsRemoval, Joined, SchulenOf
    <2>3. CASE i \in Index
      <3>1. m \notin Touching(x, 0)' /\ ~Later(i, Touching(x, 0))
        BY <1>2, <2>3 DEF Touching, Touches, Joined, Unjustified
      <3>2. ~Touches(m, x)
        BY <1>1, <1>2, <3>1, NameNat DEF Touching, Touches, Joined, Unjustified
      <3>3. x \notin SchulenOf(rows, Uem)
        BY <3>2 DEF TellsRemoval, Touches, Unjustified, SchulenOf
      <3> QED
        BY <1>2, <2>1, <2>3, <3>1, <3>3 DEF TopicInv, TouchInv
    <2> QED
      BY <1>2, <2>2, <2>3
  <1> QED
    BY <1>3, <1>4, <1>5, <1>6, <1>7 DEF TopicInv

\* Messages that do not tell of contexts.
LEMMA TopicOther ==
    ASSUME MirrorsTypeOK, TopicInv, NEW m, Appended(m), m.type # "updated", m.name = name',
           m.type = "renamed" \/ name' = name, ~Writing' => ~Writing, Due' = Due,
           \A x \in Schule : ~Open(x)' => ~Open(x)
    PROVE  CurrentInv' /\ NameInv' /\ TouchInv'
  <1> DEFINE n == Len(topic) + 1
  <1>2. /\ m \in Message /\ Index' = Index \cup {n} /\ topic'[n] = m
        /\ \A i \in Index : topic'[i] = topic[i] /\ topic[i] \in Message /\ \A M : Later(i, M)' <=> Later(i, M) \/ m \in M
    BY AppendedFacts
  <1> HIDE DEF n
  <1>3. CurrentInv'
    BY <1>2 DEF TopicInv, CurrentInv, Updates, OfType
  <1>4. NameInv'
    BY <1>2 DEF TopicInv, NameInv, Renames, OfType
  <1>7. TouchInv'
    <2> SUFFICES ASSUME NEW x \in Schule, NEW i \in Index', ~Open(x)', Touches(topic'[i], x), ~Later(i, Touching(x, 0))'
                 PROVE  x \in Joined(topic'[i]) <=> x \in SchulenOf(Due, Uem)'
      BY DEF TouchInv, Touches, Joined, Unjustified
    <2>1. SchulenOf(Due, Uem)' = SchulenOf(Due, Uem)
      BY DEF SchulenOf
    <2>2. i \in Index
      BY <1>2 DEF Touches
    <2>3. ~Later(i, Touching(x, 0))
      BY <1>2, <2>2 DEF Touching, Touches, Joined, Unjustified
    <2> QED
      BY <1>2, <2>1, <2>2, <2>3 DEF TopicInv, TouchInv
  <1> QED
    BY <1>3, <1>4, <1>7

\* And the second one.
LEMMA TopicDeletion == ASSUME MirrorsTypeOK, TopicInv, NEW m, TellsDeletion(m) PROVE TopicInv'
  <1>1. Appended(m) /\ m.type \in {"deleted", "deadline"} /\ m.name = name /\ name' = name /\ Due' = Due
    BY DEF TellsDeletion
  <1> DEFINE n == Len(topic) + 1
  <1>2. /\ m \in Message /\ Index' = Index \cup {n} /\ topic'[n] = m /\ Len(topic)' = n
        /\ \A i \in Index : topic'[i] = topic[i] /\ topic[i] \in Message /\ \A M : Later(i, M)' <=> Later(i, M) \/ m \in M
    BY <1>1, AppendedFacts
  <1> HIDE DEF n
  <1>3. CurrentInv' /\ NameInv' /\ TouchInv'
    BY <1>1, TopicOther, Zenon DEF TellsDeletion
  <1>5. LeavingInv'
    <2>1. Removal' = Removal /\ Leaving
      BY <1>1 DEF Removal, TellsDeletion
    <2> QED
      BY <1>1, <1>2, <2>1 DEF TopicInv, LeavingInv
  <1>6. EndInv'
    <2>1. \A i \in Index : topic'[i].type \notin {"deleted", "deadline"}
      BY <1>2 DEF TopicInv, EndInv, TellsDeletion
    <2> QED
      BY <1>2, <2>1 DEF EndInv, TellsDeletion
  <1> QED
    BY <1>3, <1>5, <1>6 DEF TopicInv

\* And a question.
LEMMA TopicAsks == ASSUME MirrorsTypeOK, TopicInv, NEW m, Asks(m) PROVE TopicInv'
  <1>1. /\ Appended(m) /\ m.type \in {"renamed", "locks", "sync"} /\ m.name = name' /\ (m.type = "renamed" \/ name' = name)
        /\ Due' = Due /\ Writing' = Writing /\ ~Leaving' /\ ~Ended /\ ~Ended' /\ ~Gone' /\ \A x \in Schule : Open(x)' = Open(x)
    BY RestMove DEF Asks
  <1>2. /\ Index' = Index \cup {Len(topic) + 1} /\ topic'[Len(topic) + 1] = m
        /\ \A i \in Index : topic'[i] = topic[i]
    BY <1>1, AppendedFacts
  <1>3. CurrentInv' /\ NameInv' /\ TouchInv'
    BY <1>1, TopicOther
  <1>4. \A i \in Index' : topic'[i].type \notin {"deleted", "deadline"}
    BY <1>1, <1>2 DEF TopicInv, EndInv
  <1> QED
    BY <1>1, <1>3, <1>4 DEF TopicInv, LeavingInv, EndInv

\* The topic and the database rest.
LEMMA TopicRest == ASSUME TopicInv, RestStep, UNCHANGED topic PROVE TopicInv'
  <1>1. UNCHANGED <<topic, name, rows>> /\ Index' = Index /\ \A i : \A M : Later(i, M)' <=> Later(i, M)
    BY LaterSame DEF RestStep, Index
  <1>2. /\ Writing' = Writing /\ Leaving' = Leaving /\ Due' = Due /\ Gone' = Gone /\ Ended' = Ended
        /\ \A x \in Schule : Open(x)' = Open(x)
    BY RestMove DEF RestStep
  <1>3. CurrentInv' /\ NameInv'
    BY <1>1, <1>2 DEF TopicInv, CurrentInv, NameInv, Updates, Renames, OfType
  <1>4. LeavingInv'
    <2>1. Removal' = Removal
      BY <1>1 DEF Removal
    <2> QED
      BY <1>1, <1>2, <2>1 DEF TopicInv, LeavingInv
  <1>5. EndInv'
    BY <1>1, <1>2 DEF TopicInv, EndInv
  <1>6. TouchInv'
    BY <1>1, <1>2 DEF TopicInv, TouchInv, Touches, Joined, Unjustified, Touching, SchulenOf
  <1> QED
    BY <1>3, <1>4, <1>5, <1>6 DEF TopicInv

\* And the commit of the first message.
LEMMA TopicCommit == ASSUME MirrorsTypeOK, TopicInv, Commit PROVE TopicInv'
  <1>0. RestStep
    BY CommitRest
  <1>1. /\ \A i \in Index' : i \in Nat /\ i + 1 \in Index /\ topic'[i] = topic[i + 1]
        /\ \A i \in Nat : \A M : Later(i, M)' <=> Later(i + 1, M)
        /\ Len(topic) \in Nat /\ Len(topic)' = Len(topic) - 1
    BY CommitFacts
  <1>2. /\ Writing' = Writing /\ Leaving' = Leaving /\ Due' = Due /\ Gone' = Gone /\ Ended' = Ended
        /\ name' = name /\ \A x \in Schule : Open(x)' = Open(x)
    BY <1>0, RestMove DEF RestStep
  <1>3. CurrentInv'
    BY <1>1, <1>2 DEF TopicInv, CurrentInv, Updates, OfType
  <1>4. NameInv'
    BY <1>1, <1>2 DEF TopicInv, NameInv, Renames, OfType
  <1>5. LeavingInv'
    <2>1. Removal' = Removal
      BY <1>0 DEF Removal, RestStep
    <2> QED
      BY <1>1, <1>2, <2>1 DEF TopicInv, LeavingInv
  <1>6. EndInv'
    <2>1. \A i \in Index' : topic'[i].type \in {"deleted", "deadline"} => i = Len(topic)' /\ Ended
      BY <1>1 DEF TopicInv, EndInv
    <2>2. ASSUME Gone, topic' # <<>> PROVE topic'[Len(topic)'].type = "deleted"
      <3>1. topic' \in Seq(Message) /\ Len(topic)' \in Index'
        BY <2>2, CommitForm, TopicTail DEF Index
      <3>2. topic'[Len(topic)'] = topic[Len(topic)]
        BY <1>1, <3>1
      <3>3. topic # <<>>
        BY CommitForm
      <3> QED
        BY <2>2, <3>2, <3>3 DEF TopicInv, EndInv
    <2> QED
      BY <1>2, <2>1, <2>2 DEF EndInv
  <1>7. TouchInv'
    <2> SUFFICES ASSUME NEW x \in Schule, NEW i \in Index', ~Open(x)', Touches(topic'[i], x), ~Later(i, Touching(x, 0))'
                 PROVE  x \in Joined(topic'[i]) <=> x \in SchulenOf(Due, Uem)'
      BY DEF TouchInv, Touches, Joined, Unjustified
    <2>1. SchulenOf(Due, Uem)' = SchulenOf(Due, Uem)
      BY <1>2 DEF SchulenOf
    <2>2. ~Later(i + 1, Touching(x, 0)) /\ ~Open(x) /\ i + 1 \in Index /\ Touches(topic[i + 1], x)
      BY <1>1, <1>2 DEF Touching, Touches, Joined, Unjustified
    <2> QED
      BY <1>1, <2>1, <2>2 DEF TopicInv, TouchInv
  <1> QED
    BY <1>3, <1>4, <1>5, <1>6, <1>7 DEF TopicInv

\* What a handler reads.
LEMMA PresentFields ==
    /\ Present.name = name /\ Present.rows = rows /\ Present.locked = locked
    /\ person = "present" => Present.present
  <1>1. Present.name = name /\ Present.rows = rows /\ Present.locked = locked
    BY DEF Present
  <1>2. Present.present = (person = "present")
    BY DEF Present
  <1> QED
    BY <1>1, <1>2

\* When a synchronisation repairs a system nothing else is under way.
LEMMA RepairFacts ==
    ASSUME TypeOK, MirrorsTypeOK, RequestInv, NEW s \in System, Handling(s), Repairs(s)
    PROVE  /\ topic[1].type = "sync" /\ Len(topic) = 1 /\ Index = {1}
           /\ read[s].seen = Present /\ person = "present" /\ Due = rows
           /\ ~Writing /\ ~Leaving /\ ~Ended /\ ~Gone
           /\ \A i \in Nat : \A M : Later(i, M) => i = 0 /\ topic[1] \in M
  <1>1. topic[1].type = "sync" /\ Len(topic) = 1 /\ read[s].seen = Present /\ person = "present" /\ \A j \in Job : ~Busy(j)
    BY HandlingFacts DEF Repairs
  <1>2. \A j \in Job : job[j].at \in {"idle", "viewed"}
    BY <1>1 DEF Busy
  <1>3. ~Writing /\ ~Leaving /\ ~Ended /\ ~Gone
    BY <1>1, <1>2 DEF Writing, Leaving, Ended, Gone, WriteSteps
  <1>4. Index = {1}
    BY <1>1 DEF Index
  <1>5. \A i \in Nat : \A M : Later(i, M) => i = 0 /\ topic[1] \in M
    BY <1>4 DEF Later
  <1> QED
    BY <1>1, <1>3, <1>4, <1>5 DEF Due

\* When a synchronisation repairs a system, the topic tells the truth.
LEMMA TopicRepair ==
    ASSUME TypeOK, MirrorsTypeOK, RequestInv, NEW s \in System, Handling(s), Repairs(s)
    PROVE  TopicInv
  <1>1. topic[1].type = "sync" /\ Index = {1} /\ ~Leaving /\ ~Gone
    BY RepairFacts
  <1> QED
    BY <1>1 DEF TopicInv, CurrentInv, NameInv, NamedTypes, LeavingInv, EndInv, TouchInv, Touches

\* The topic tells the truth as long as some system was told of everything.
LEMMA TopicStep ==
    ASSUME TypeOK, TypeOK', MirrorsTypeOK, Serially, RequestInv, Trusted => TopicInv, [MirrorsNext]_allvars
    PROVE  (Trusted => TopicInv)'
  <1> SUFFICES ASSUME Trusted' PROVE TopicInv'
    OBVIOUS
  <1>0. ASSUME stray' = stray PROVE TopicInv
    BY <1>0 DEF Trusted
  <1>1. CASE CalmStep
    BY <1>0, <1>1, TopicCalm DEF CalmStep
  <1>2. CASE StrayStep
    BY <1>2 DEF StrayStep, Trusted, Stray
  <1>3. ASSUME NEW m, TellsUpdate(m) \/ TellsRemoval(m) \/ TellsDeletion(m) \/ Asks(m) PROVE TopicInv'
    <2>1. stray' = stray
      BY <1>3 DEF TellsUpdate, TellsRemoval, TellsDeletion, Asks, Appended
    <2> QED
      BY <1>0, <1>3, <2>1, TopicUpdate, TopicRemoval, TopicDeletion, TopicAsks
  <1>4. ASSUME NEW s \in System, Read(s) PROVE TopicInv'
    BY <1>0, <1>4, ReadForm, TopicRest
  <1>5. ASSUME NEW s \in System, Handle(s) PROVE TopicInv'
    <2>1. TopicInv
      <3>1. CASE Repairs(s)
        BY <1>5, <3>1, TopicRepair, HandleForm DEF Settle
      <3>2. CASE ~Repairs(s)
        BY <1>5, <3>2, HandleForm DEF Settled, Trusted
      <3> QED
        BY <3>1, <3>2
    <2> QED
      BY <1>5, <2>1, SettleRest, TopicRest
  <1>6. ASSUME NEW s \in System, HandleFails(s) PROVE TopicInv'
    <2>1. TopicInv
      BY <1>6, FailForm DEF Trusted
    <2> QED
      BY <1>6, <2>1, SettleRest, TopicRest
  <1>7. CASE Commit
    BY <1>0, <1>7, CommitRest, TopicCommit
  <1>8. CASE Restart
    BY <1>0, <1>8, RestartForm, TopicRest
  <1> QED
    BY <1>1, <1>2, <1>3, <1>4, <1>5, <1>6, <1>7, <1>8, Steps

----------------------------------------------------------------------------
(* What the handlers have read                                             *)

\* What is read while the contexts are about to go is followed by their removal.
LEMMA ReadLeaving ==
    ASSUME MirrorsTypeOK, TopicInv, NEW s \in System, Handling(s), Reads(s, Head(topic)), Leaving, topic[1].type # "updated"
    PROVE  Later(1, Removal)
  <1>1. topic # <<>> /\ Head(topic) = topic[1] /\ topic[1] \in Message /\ s \in Interested(topic[1]) /\ 1 \in Index
    BY HandlingFacts, TopicHead
  <1>2. topic[1].type \in {"sync", "locks", "renamed"}
    BY <1>1 DEF Interested, Reads, Message
  <1> QED
    BY <1>1, <1>2 DEF TopicInv, LeavingInv

\* What comes later comes also after earlier messages.
LEMMA LaterMore ==
    ASSUME NEW i \in Nat, NEW k \in Nat, k <= i, NEW M, NEW N, M \subseteq N, Later(i, M)
    PROVE  Later(k, N)
  BY DEF Later, Index

\* All messages: the first one and those after it.
LEMMA LaterHere ==
    ASSUME MirrorsTypeOK, topic # <<>>, NEW M
    PROVE  /\ Later(0, M) <=> topic[1] \in M \/ Later(1, M)
           /\ topic[1] \in Message
  BY LenNat, LaterFirst, TopicHead

\* What is read now is right, or a later message corrects it.
LEMMA ReadNow ==
    ASSUME MirrorsTypeOK, CommonInv, NEW s \in System, Read(s), s \notin stray
    PROVE  ReadInv(s)'
  <1>1. /\ RestStep /\ Handling(s) /\ Reads(s, Head(topic))
        /\ read' = [read EXCEPT ![s] = [done |-> TRUE, seen |-> Present]]
        /\ UNCHANGED topic
    BY ReadForm
  <1>2. read'[s].seen = Present
    BY <1>1 DEF MirrorsTypeOK, Reading
  <1>3. read'[s].seen.name = name /\ read'[s].seen.rows = rows /\ read'[s].seen.locked = locked
    BY <1>2 DEF Present
  <1>4. TopicInv /\ topic # <<>>
    BY <1>1 DEF CommonInv, Trusted, Handling
  <1>5. ~Writing' /\ ~Later(0, Updates)' => rows = Due'
    <2> SUFFICES ASSUME Leaving PROVE Later(0, Updates)'
      BY <1>1, RestMove DEF Due, RestStep
    <2>1. Later(0, Updates)
      <3>1. CASE topic[1].type = "updated"
        BY <1>4, <3>1, LaterHere, OldTypes
      <3>2. CASE topic[1].type # "updated"
        <4>1. Later(1, Removal)
          BY <1>1, <1>4, <3>2, ReadLeaving
        <4>2. Removal \subseteq Updates
          BY DEF Removal, Updates, OfType
        <4> QED
          BY <4>1, <4>2, LaterMore
      <3> QED
        BY <3>1, <3>2
    <2> QED
      BY <1>1, <2>1 DEF Later, Index, Updates, OfType
  <1> QED
    BY <1>1, <1>3, <1>5 DEF ReadInv, RestStep

\* If it is outdated by a message, that message corrects it.
LEMMA ReadAppend ==
    ASSUME MirrorsTypeOK, NEW s \in System, ReadInv(s), NEW m, TellsUpdate(m) \/ TellsRemoval(m) \/ TellsDeletion(m) \/ Asks(m)
    PROVE  ReadInv(s)'
  <1>1. Appended(m)
    BY DEF TellsUpdate, TellsRemoval, TellsDeletion, Asks
  <1> SUFFICES ASSUME s \notin stray, read[s].done
               PROVE  /\ ~Later(1, Renames)' => read[s].seen.name = name'
                      /\ ~Writing' /\ ~Later(0, Updates)' => read[s].seen.rows = Due'
                      /\ ~Later(1, OfType({"locks"}))' => read[s].seen.locked = locked'
    BY <1>1 DEF ReadInv, Appended, Unmoved, Renames, Updates, OfType
  <1>2. topic # <<>> /\ Len(topic) \in Nat /\ 1 <= Len(topic)
    BY LenNat DEF MirrorsTypeOK, Handling
  <1>3. /\ m \in Message /\ (\A M : Later(1, M)' <=> Later(1, M) \/ m \in M)
        /\ \A M : Later(0, M)' <=> Later(0, M) \/ m \in M
    BY <1>1, <1>2, AppendedFacts
  <1>4. CASE m.type = "updated"
    <2>1. Later(0, Updates)' /\ name' = name /\ locked' = locked
      BY <1>3, <1>4 DEF TellsUpdate, TellsRemoval, TellsDeletion, Asks, Updates, OfType
    <2> QED
      BY <1>3, <2>1 DEF ReadInv, Renames, OfType
  <1>5. CASE m.type \in {"deleted", "deadline"}
    <2>1. TellsDeletion(m)
      BY <1>5 DEF TellsUpdate, TellsRemoval, Asks
    <2> QED
      BY <1>3, <2>1 DEF TellsDeletion, ReadInv, Renames, Updates, OfType
  <1>6. CASE m.type \in {"renamed", "locks", "sync"}
    <2>1. Asks(m)
      BY <1>6 DEF TellsUpdate, TellsRemoval, TellsDeletion
    <2>2. Writing' = Writing /\ Due' = Due
      BY <2>1, RestMove DEF Asks
    <2>3. /\ m.type = "renamed" \/ name' = name
          /\ m.type = "locks" \/ locked' = locked
      BY <2>1 DEF Asks
    <2> QED
      BY <1>3, <1>6, <2>2, <2>3 DEF ReadInv, Renames, Updates, OfType
  <1> QED
    BY <1>4, <1>5, <1>6 DEF TellsUpdate, TellsRemoval, TellsDeletion, Asks

\* Otherwise nothing changes about it.
LEMMA ReadSame ==
    ASSUME NEW s \in System, ReadInv(s), RestStep, UNCHANGED topic, s \notin stray' => s \notin stray, read'[s] = read[s]
    PROVE  ReadInv(s)'
  <1>1. \A i : \A M : Later(i, M)' <=> Later(i, M)
    BY LaterSame
  <1>2. Writing' = Writing /\ Due' = Due
    BY RestMove DEF RestStep
  <1> QED
    BY <1>1, <1>2 DEF ReadInv, RestStep, Renames, Updates, OfType

\* What the handlers have read is right, or a later message corrects it.
LEMMA ReadStep ==
    ASSUME TypeOK, TypeOK', MirrorsTypeOK, Serially, CommonInv, [MirrorsNext]_allvars
    PROVE  \A t \in System : ReadInv(t)'
  <1> SUFFICES ASSUME NEW t \in System PROVE ReadInv(t)'
    OBVIOUS
  <1>0. RequestInv /\ ReadInv(t)
    BY DEF CommonInv
  <1>1. CASE CalmStep
    <2>1. UNCHANGED <<topic, name, locked, stray, read>> /\ \A i : \A M : Later(i, M)' <=> Later(i, M)
      BY <1>1, LaterSame DEF CalmStep, Unmoved
    <2>2. Writing' \/ (~Writing /\ Due' = Due)
      BY <1>1 DEF CalmStep, Steady
    <2> QED
      BY <1>0, <2>1, <2>2 DEF ReadInv, Renames, Updates, OfType
  <1>2. CASE StrayStep
    BY <1>2 DEF StrayStep, Stray, ReadInv
  <1>3. ASSUME NEW m, TellsUpdate(m) \/ TellsRemoval(m) \/ TellsDeletion(m) \/ Asks(m) PROVE ReadInv(t)'
    BY <1>0, <1>3, ReadAppend
  <1>4. ASSUME NEW s \in System, Read(s) PROVE ReadInv(t)'
    <2>1. CASE s = t
      <3>1. CASE t \in stray
        BY <1>4, <3>1, ReadForm DEF ReadInv
      <3>2. CASE t \notin stray
        BY <1>4, <2>1, <3>2, ReadNow
      <3> QED
        BY <3>1, <3>2
    <2>2. CASE s # t
      <3>1. read'[t] = read[t] /\ stray' = stray /\ topic' = topic /\ RestStep
        BY <1>4, <2>2, ReadForm DEF MirrorsTypeOK, Reading
      <3> QED
        BY <1>0, <3>1, ReadSame
    <2> QED
      BY <2>1, <2>2
  <1>5. ASSUME NEW s \in System, Handle(s) \/ HandleFails(s) PROVE ReadInv(t)'
    <2>1. Settle(s) /\ RestStep /\ UNCHANGED topic
      BY <1>5, SettleRest
    <2>2. CASE s = t
      BY <2>1, <2>2, SettledReads DEF ReadInv
    <2>3. CASE s # t
      <3>1. t \notin stray' => t \notin stray
        BY <1>5, <2>3, HandleForm, FailForm DEF Settled
      <3> QED
        BY <1>0, <2>1, <2>3, <3>1, SettledReads, ReadSame
    <2> QED
      BY <2>2, <2>3
  <1>6. CASE Commit
    BY <1>6, CommitForm DEF ReadInv
  <1>7. CASE Restart
    BY <1>7, RestartForm DEF ReadInv, NoReads
  <1> QED
    BY <1>0, <1>1, <1>2, <1>3, <1>4, <1>5, <1>6, <1>7, Steps

\* The part of the invariant that is about no system alone is kept.
LEMMA CommonStep ==
    ASSUME TypeOK, TypeOK', MirrorsTypeOK, Serially, CommonInv, [MirrorsNext]_allvars
    PROVE  CommonInv'
  <1>1. RequestInv /\ BoundInv /\ OldInv /\ (Trusted => TopicInv)
    BY DEF CommonInv
  <1>2. RequestInv'
    BY <1>1, Steps
  <1>3. BoundInv' /\ OldInv'
    BY <1>1, BoundStep, OldStep
  <1>4. (Trusted => TopicInv)'
    BY <1>1, TopicStep
  <1>5. \A t \in System : ReadInv(t)'
    BY ReadStep
  <1> QED
    BY <1>2, <1>3, <1>4, <1>5 DEF CommonInv

----------------------------------------------------------------------------
(* What is ahead of a handler                                              *)

\* Where the messages begin that are ahead of a handler.
LEMMA FromFacts ==
    ASSUME MirrorsTypeOK, NEW s \in System
    PROVE  /\ From(s) \in {0, 1} /\ From(s) <= Len(topic) /\ Len(topic) \in Nat
           /\ Handling(s) => From(s) = 0 /\ topic # <<>>
  <1>1. Len(topic) \in Nat /\ topic \in Seq(Message)
    BY LenNat
  <1>2. s \in handled => topic # <<>>
    BY DEF MirrorsTypeOK
  <1> QED
    BY <1>1, <1>2 DEF From, Handling

\* They become more when one is published.
LEMMA FromAppend ==
    ASSUME MirrorsTypeOK, NEW s \in System, NEW m, Appended(m)
    PROVE  From(s)' = From(s) /\ \A M : Later(From(s), M)' <=> Later(From(s), M) \/ m \in M
  <1>1. From(s)' = From(s)
    BY DEF From, Appended, Unmoved
  <1>2. From(s) \in Nat /\ From(s) <= Len(topic)
    BY FromFacts
  <1>3. \A M : Later(From(s), M)' <=> \E k \in Index' : k > From(s) /\ topic'[k] \in M
    BY <1>1 DEF Later
  <1>4. \A i \in Nat : i <= Len(topic) => \A M : (\E k \in Index' : k > i /\ topic'[k] \in M) <=> Later(i, M) \/ m \in M
    BY AppendedFacts DEF Later
  <1> QED
    BY <1>1, <1>2, <1>3, <1>4

\* The first one goes when the handler has settled.
LEMMA FromSettle ==
    ASSUME MirrorsTypeOK, NEW s \in System, Settle(s)
    PROVE  /\ From(s)' = 1 /\ From(s) = 0
           /\ \A M : Later(From(s), M)' <=> Later(1, M)
           /\ \A M : Later(From(s), M) <=> topic[1] \in M \/ Later(1, M)
           /\ \A t \in System : t # s => From(t)' = From(t)
  <1>1. topic # <<>> /\ From(s) = 0 /\ From(s)' = 1 /\ UNCHANGED topic
    BY DEF Settle, Handling, From
  <1>2. \A M : Later(From(s), M)' <=> Later(1, M)
    BY <1>1 DEF Later, Index
  <1>3. \A M : Later(From(s), M) <=> topic[1] \in M \/ Later(1, M)
    BY <1>1, LaterHere
  <1> QED
    BY <1>1, <1>2, <1>3 DEF From, Settle

\* Nothing changes without a change of the topic or of what is handled.
LEMMA FromSame ==
    ASSUME NEW s \in System, From(s)' = From(s), UNCHANGED topic
    PROVE  \A M : Later(From(s), M)' <=> Later(From(s), M)
  BY DEF Later, Index

\* A restart brings the first one back.
LEMMA FromRestart ==
    ASSUME MirrorsTypeOK, NEW s \in System, Restart
    PROVE  From(s)' = 0 /\ \A M : Later(From(s), M) => Later(From(s), M)'
  <1>1. From(s)' = 0 /\ UNCHANGED topic
    BY RestartForm DEF From
  <1>2. From(s) \in Nat
    BY FromFacts
  <1> QED
    BY <1>1, <1>2 DEF Later, Index

\* A commit takes none away that the handler is interested in.
LEMMA FromCommit ==
    ASSUME MirrorsTypeOK, NEW s \in System, s \in watched, Commit
    PROVE  /\ From(s)' = 0
           /\ \A M : (s \notin Interested(topic[1]) => topic[1] \notin M) => (Later(From(s), M)' <=> Later(From(s), M))
  <1>1. handled' = {} /\ topic # <<>> /\ (s \in handled <=> s \in Interested(topic[1]))
    BY CommitForm
  <1>2. From(s)' = 0
    BY <1>1 DEF From
  <1>3. \A M : Later(From(s), M)' <=> Later(1, M)
    <2>1. \A M : Later(0, M)' <=> Later(0 + 1, M)
      BY CommitFacts
    <2>2. \A M : Later(From(s), M)' <=> Later(0, M)'
      BY <1>2 DEF Later
    <2> QED
      BY <2>1, <2>2
  <1>4. CASE s \in handled
    BY <1>2, <1>3, <1>4 DEF From
  <1>5. CASE s \notin handled
    <2>1. From(s) = 0
      BY <1>5 DEF From
    <2>2. \A M : Later(0, M) <=> topic[1] \in M \/ Later(1, M)
      BY <1>1, LaterHere
    <2> QED
      BY <1>1, <1>2, <1>3, <1>5, <2>1, <2>2
  <1> QED
    BY <1>4, <1>5

\* What a handler that was told of everything knows of the first message.
LEMMA HandleNow ==
    ASSUME MirrorsTypeOK, CommonInv, NEW s \in System, Handling(s), s \notin stray
    PROVE  /\ topic[1] \in Message /\ s \in Interested(topic[1]) /\ s \in watched /\ Head(topic) = topic[1]
           /\ topic[1].type = "updated" /\ ~Writing /\ ~Later(1, Updates) => topic[1].current = Due
           /\ topic[1].type \in NamedTypes /\ ~Later(1, Renames) => topic[1].name = name
           /\ topic[1].type \in {"deleted", "deadline"} => Due = {}
           /\ read[s].done =>
                /\ ~Later(1, Renames) => read[s].seen.name = name
                /\ topic[1].type # "updated" /\ ~Writing /\ ~Later(1, Updates) => read[s].seen.rows = Due
                /\ ~Later(1, OfType({"locks"})) => read[s].seen.locked = locked
  <1>1. topic[1] \in Message /\ s \in Interested(topic[1]) /\ s \in watched /\ Head(topic) = topic[1] /\ topic # <<>>
    BY HandlingFacts
  <1>2. 1 \in Index /\ TopicInv /\ ReadInv(s) /\ RequestInv
    BY <1>1, LenNat, TopicHead DEF CommonInv, Trusted
  <1>3. topic[1].type \in {"deleted", "deadline"} => Due = {}
    <2>1. Ended => Due = {}
      BY <1>2 DEF Ended, Due, RequestInv, Leaving
    <2> QED
      BY <1>2, <2>1 DEF TopicInv, EndInv
  <1>4. topic[1].type # "updated" => (Later(0, Updates) <=> Later(1, Updates))
    BY <1>1, LaterHere, OldTypes
  <1> QED
    BY <1>1, <1>2, <1>3, <1>4 DEF TopicInv, CurrentInv, NameInv, ReadInv

----------------------------------------------------------------------------
(* itslearning                                                             *)

\* The first message is settled.
LEMMA ItslearningHandles ==
    ASSUME TypeOK, MirrorsTypeOK, CommonInv, ItslearningInv, Handle("itslearning")
    PROVE  ItslearningInv'
  <1> DEFINE e == topic[1]
             seen == read["itslearning"].seen
             S == SchulenOf(Due, Itslearning)
  <1>0. "itslearning" \in System
    BY DEF System
  <1>1. Settle("itslearning") /\ RestStep /\ Handling("itslearning")
    BY <1>0, SettleRest DEF Settle
  <1>2. /\ Head(topic) = e /\ e \in Message /\ e.type \in {"updated", "renamed", "sync"} /\ "itslearning" \in watched
        /\ itslearning' = ItslearningAfter(itslearning, e, seen) /\ itslearning \in ItslearningSet
    BY <1>0, <1>1, HandlingFacts, HandleForm DEF Interested, Message
  <1>3. e.type = "sync" => read["itslearning"].done
    BY <1>0, <1>2, HandleForm DEF Reads
  <1>4. /\ Writing' = Writing /\ Due' = Due /\ name' = name /\ SchulenOf(Due, Itslearning)' = S
        /\ \A M : Later(From("itslearning"), M)' <=> Later(1, M)
        /\ \A M : Later(From("itslearning"), M) <=> e \in M \/ Later(1, M)
    BY <1>0, <1>1, RestMove, FromSettle DEF RestStep
  <1> SUFFICES ASSUME "itslearning" \notin stray'
               PROVE  /\ ~Writing /\ ~Later(1, Updates) =>
                            /\ itslearning'.known <=> S # {}
                            /\ itslearning'.known => itslearning'.schulen = S
                      /\ itslearning'.known /\ ~Later(1, OfType({"updated", "renamed"})) => itslearning'.name = name
                      /\ ~itslearning'.known => itslearning' = NoUser
    BY <1>4 DEF ItslearningInv, Told, NoUser, Updates, OfType
  <1>a. \A n, T : /\ Enrolled(n, T).known <=> T # {}
                  /\ Enrolled(n, T).known => Enrolled(n, T).schulen = T /\ Enrolled(n, T).name = n
                  /\ ~Enrolled(n, T).known => Enrolled(n, T) = NoUser
    BY DEF Enrolled, User, NoUser
  <1>b. Later(1, Renames) => Later(1, OfType({"updated", "renamed"}))
    BY DEF Later, Renames, OfType
  <1>c. Later(1, Updates) => Later(1, OfType({"updated", "renamed"}))
    BY DEF Later, Updates, OfType
  <1>5. CASE "itslearning" \in stray
    <2>1. Repairs("itslearning")
      BY <1>0, <1>5, HandleForm DEF Settled
    <2>2. e.type = "sync" /\ seen = Present /\ person = "present" /\ Due = rows
      BY <1>0, <1>1, <2>1, RepairFacts DEF CommonInv
    <2>a. seen.present /\ seen.name = name /\ seen.rows = Due
      BY <2>2, PresentFields
    <2>3. itslearning' = Enrolled(name, S)
      BY <1>2, <2>2, <2>a DEF ItslearningAfter
    <2> QED
      BY <1>a, <2>3
  <1>6. CASE "itslearning" \notin stray
    <2>1. /\ e.type = "updated" /\ ~Writing /\ ~Later(1, Updates) => e.current = Due
          /\ e.type \in NamedTypes /\ ~Later(1, Renames) => e.name = name
          /\ read["itslearning"].done =>
                /\ ~Later(1, Renames) => seen.name = name
                /\ e.type # "updated" /\ ~Writing /\ ~Later(1, Updates) => seen.rows = Due
      BY <1>0, <1>1, <1>6, HandleNow
    <2>2. /\ ~Writing /\ e \notin Updates /\ ~Later(1, Updates) =>
               (itslearning.known <=> S # {}) /\ (itslearning.known => itslearning.schulen = S)
          /\ itslearning.known /\ e \notin OfType({"updated", "renamed"}) /\ ~Later(1, OfType({"updated", "renamed"})) =>
               itslearning.name = name
          /\ ~itslearning.known => itslearning = NoUser
      BY <1>2, <1>4, <1>6 DEF ItslearningInv, Told
    <2>3. CASE e.type = "updated"
      <3>1. itslearning' = Enrolled(e.name, SchulenOf(e.current, Itslearning))
        BY <1>2, <2>3 DEF ItslearningAfter
      <3>2. e.current = Due => SchulenOf(e.current, Itslearning) = S
        OBVIOUS
      <3> HIDE DEF S
      <3> QED
        BY <1>a, <1>b, <2>1, <2>3, <3>1, <3>2 DEF NamedTypes
    <2>4. CASE e.type = "renamed"
      <3>1. itslearning' = IF itslearning.known THEN [itslearning EXCEPT !.name = e.name] ELSE itslearning
        BY <1>2, <2>4 DEF ItslearningAfter
      <3>2. /\ itslearning'.known = itslearning.known /\ itslearning'.schulen = itslearning.schulen
            /\ itslearning.known => itslearning'.name = e.name
            /\ ~itslearning.known => itslearning' = itslearning
        BY <1>2, <3>1 DEF ItslearningSet
      <3>3. e \notin Updates
        BY <1>2, <2>4, OldTypes
      <3> HIDE DEF S
      <3> QED
        BY <1>b, <2>1, <2>2, <2>4, <3>2, <3>3 DEF NamedTypes
    <2>5. CASE e.type = "sync"
      <3>1. e \notin Updates /\ e \notin OfType({"updated", "renamed"})
        BY <1>2, <2>5, OldTypes
      <3>2. CASE ~seen.present
        <4>1. itslearning' = itslearning
          BY <1>2, <2>5, <3>2 DEF ItslearningAfter
        <4> HIDE DEF S
        <4> QED
          BY <2>2, <3>1, <4>1
      <3>3. CASE seen.present
        <4>1. itslearning' = Enrolled(seen.name, SchulenOf(seen.rows, Itslearning))
          BY <1>2, <2>5, <3>3 DEF ItslearningAfter
        <4>2. seen.rows = Due => SchulenOf(seen.rows, Itslearning) = S
          OBVIOUS
        <4> HIDE DEF S, seen
        <4> QED
          BY <1>3, <1>a, <1>b, <2>1, <2>5, <4>1, <4>2
      <3> QED
        BY <3>2, <3>3
    <2> QED
      BY <1>2, <2>3, <2>4, <2>5
  <1> QED
    BY <1>5, <1>6

\* Nothing happens to itslearning, and no more is told of than before.
LEMMA ItslearningSame ==
    ASSUME ItslearningInv, Told("itslearning")' => Told("itslearning"), UNCHANGED <<itslearning, name>>,
           Writing' \/ (~Writing /\ Due' = Due),
           \A M \in {Updates, OfType({"updated", "renamed"})} :
              Later(From("itslearning"), M) => Later(From("itslearning"), M)'
    PROVE  ItslearningInv'
  <1>1. Due' = Due => SchulenOf(Due, Itslearning)' = SchulenOf(Due, Itslearning)
    BY DEF SchulenOf
  <1>2. Updates' = Updates /\ OfType({"updated", "renamed"})' = OfType({"updated", "renamed"})
    BY DEF Updates, OfType
  <1> QED
    BY <1>1, <1>2 DEF ItslearningInv, NoUser

\* What is published is ahead of the handler of itslearning.
LEMMA ItslearningAppend ==
    ASSUME MirrorsTypeOK, ItslearningInv, NEW m, TellsUpdate(m) \/ TellsRemoval(m) \/ TellsDeletion(m) \/ Asks(m)
    PROVE  ItslearningInv'
  <1>1. Appended(m) /\ Told("itslearning")' = Told("itslearning") /\ itslearning' = itslearning
    BY DEF TellsUpdate, TellsRemoval, TellsDeletion, Asks, Appended, Unmoved, Told
  <1>2. \A M : Later(From("itslearning"), M)' <=> Later(From("itslearning"), M) \/ m \in M
    BY <1>1, FromAppend DEF System
  <1>3. m \in Message
    BY <1>1 DEF Appended
  <1>4. CASE m.type = "updated"
    <2>1. m \in Updates /\ m \in OfType({"updated", "renamed"})
      BY <1>3, <1>4, OldTypes
    <2> QED
      BY <1>1, <1>2, <2>1 DEF ItslearningInv, NoUser, Updates, OfType
  <1>5. CASE m.type \in {"deleted", "deadline"}
    <2>1. TellsDeletion(m)
      BY <1>5 DEF TellsUpdate, TellsRemoval, Asks
    <2> QED
      BY <1>1, <1>2, <2>1, ItslearningSame DEF TellsDeletion
  <1>6. CASE m.type = "renamed"
    <2>1. m \in OfType({"updated", "renamed"})
      BY <1>3, <1>6, OldTypes
    <2>2. Asks(m)
      BY <1>6 DEF TellsUpdate, TellsRemoval, TellsDeletion
    <2>3. Writing' = Writing /\ SchulenOf(Due, Itslearning)' = SchulenOf(Due, Itslearning)
      BY <2>2, RestMove DEF Asks
    <2> QED
      BY <1>1, <1>2, <2>1, <2>3 DEF ItslearningInv, NoUser, Updates, OfType
  <1>7. CASE m.type \in {"locks", "sync"}
    <2>1. Asks(m)
      BY <1>7 DEF TellsUpdate, TellsRemoval, TellsDeletion
    <2>2. Writing' = Writing /\ Due' = Due /\ name' = name
      BY <1>7, <2>1, RestMove DEF Asks
    <2> QED
      BY <1>1, <1>2, <2>2, ItslearningSame
  <1> QED
    BY <1>4, <1>5, <1>6, <1>7 DEF TellsUpdate, TellsRemoval, TellsDeletion, Asks

\* Every step keeps the invariant of itslearning.
LEMMA ItslearningStep ==
    ASSUME TypeOK, TypeOK', MirrorsTypeOK, Serially, CommonInv, ItslearningInv, [MirrorsNext]_allvars
    PROVE  ItslearningInv'
  <1>0. "itslearning" \in System /\ RequestInv
    BY DEF System, CommonInv
  <1>a. ASSUME RestStep PROVE Writing' \/ (~Writing /\ Due' = Due)
    BY <1>a, RestMove DEF RestStep
  <1>1. CASE CalmStep
    <2>1. From("itslearning")' = From("itslearning") /\ UNCHANGED topic
      BY <1>1 DEF CalmStep, Unmoved, From
    <2> QED
      BY <1>0, <1>1, <2>1, FromSame, ItslearningSame DEF CalmStep, Unmoved, Steady, Told
  <1>2. CASE StrayStep
    BY <1>2 DEF StrayStep, Stray, System, ItslearningInv, Told
  <1>3. ASSUME NEW m, TellsUpdate(m) \/ TellsRemoval(m) \/ TellsDeletion(m) \/ Asks(m) PROVE ItslearningInv'
    BY <1>3, ItslearningAppend
  <1>4. ASSUME NEW s \in System, Read(s) PROVE ItslearningInv'
    <2>1. RestStep /\ UNCHANGED <<topic, handled, itslearning, stray>>
      BY <1>4, ReadForm
    <2>2. From("itslearning")' = From("itslearning")
      BY <2>1 DEF From
    <2> QED
      BY <1>0, <1>a, <2>1, <2>2, FromSame, ItslearningSame DEF RestStep, Told
  <1>5. ASSUME NEW s \in System, Handle(s) \/ HandleFails(s), s # "itslearning" PROVE ItslearningInv'
    <2>1. RestStep /\ Settle(s) /\ UNCHANGED topic
      BY <1>5, SettleRest
    <2>2. From("itslearning")' = From("itslearning")
      BY <1>0, <1>5, <2>1, FromSettle
    <2>3. itslearning' = itslearning /\ ("itslearning" \notin stray' => "itslearning" \notin stray)
      BY <1>5, HandleForm, FailForm DEF Settled
    <2> QED
      BY <1>0, <1>a, <2>1, <2>2, <2>3, FromSame, ItslearningSame DEF RestStep, Told
  <1>6. CASE Handle("itslearning")
    BY <1>6, ItslearningHandles
  <1>7. CASE HandleFails("itslearning")
    BY <1>0, <1>7, FailForm DEF ItslearningInv, Told
  <1>8. CASE Commit
    <2>1. RestStep /\ UNCHANGED <<itslearning, stray>>
      BY <1>8, CommitRest
    <2>2. topic[1] \in Message
      BY <1>8, CommitForm, TopicHead
    <2>3. ASSUME Told("itslearning"), NEW M \in {Updates, OfType({"updated", "renamed"})}
          PROVE  Later(From("itslearning"), M)' <=> Later(From("itslearning"), M)
      <3>1. "itslearning" \notin Interested(topic[1]) => topic[1] \notin M
        BY <2>2, <2>3, OldTypes DEF Interested, System
      <3> QED
        BY <1>0, <1>8, <2>3, <3>1, FromCommit DEF Told
    <2>4. Told("itslearning")' = Told("itslearning")
      BY <2>1 DEF Told, RestStep
    <2>5. CASE ~Told("itslearning")
      BY <2>4, <2>5 DEF ItslearningInv
    <2>6. CASE Told("itslearning")
      BY <1>a, <2>1, <2>3, <2>4, <2>6, ItslearningSame DEF RestStep
    <2> QED
      BY <2>5, <2>6
  <1>9. CASE Restart
    <2>1. RestStep /\ UNCHANGED <<itslearning, stray>>
      BY <1>9, RestartForm
    <2> QED
      BY <1>0, <1>9, <1>a, <2>1, FromRestart, ItslearningSame DEF RestStep, Told
  <1> QED
    BY <1>0, <1>1, <1>2, <1>3, <1>4, <1>5, <1>6, <1>7, <1>8, <1>9, Steps

----------------------------------------------------------------------------
(* The e-mail microservice                                                 *)

\* What is set.
LEMMA SetEmailFields ==
    \A n, T, l : /\ SetEmail(n, T, l).state = "set" /\ SetEmail(n, T, l).name = n
                 /\ SetEmail(n, T, l).schulen = T /\ SetEmail(n, T, l).locked = l
  BY DEF SetEmail

\* What is suspended.
LEMMA SuspendedFields ==
    ASSUME NEW m \in EmailSet, NEW l
    PROVE  /\ Suspended(m, l).state # "set"
           /\ Suspended(m, l).state # "none" => Suspended(m, l).locked = l
           /\ m.state = "none" <=> Suspended(m, l).state = "none"
  <1>1. CASE m.state = "none"
    BY <1>1 DEF Suspended
  <1>2. CASE m.state # "none"
    <2>1. Suspended(m, l) = [m EXCEPT !.state = "suspended", !.locked = l]
      BY <1>2 DEF Suspended
    <2> QED
      BY <1>2, <2>1 DEF EmailSet
  <1> QED
    BY <1>1, <1>2

\* What the handler of the first message does, by the contexts that it goes by.
LEMMA EmailResult ==
    ASSUME MirrorsTypeOK, Handle("email")
    PROVE  LET e == topic[1]
               seen == read["email"].seen
               R == IF e.type = "updated" THEN e.current ELSE seen.rows
               T == SchulenOf(R, Email)
           IN  /\ e.type \in {"updated", "renamed", "sync", "locks", "deleted"}
               /\ e.type # "deleted" => read["email"].done
               /\ e.type = "deleted" => email'.state = "none"
               /\ e.type # "deleted" /\ T # {} =>
                     /\ email'.state = "set" /\ email'.schulen = T /\ email'.locked = seen.locked
                     /\ email'.name = IF e.type \in {"updated", "renamed"} THEN e.name ELSE seen.name
               /\ e.type # "deleted" /\ T = {} =>
                     \/ email' = email /\ (e.type = "renamed" \/ (e.type = "updated" /\ SchulenOf(e.removed, Email) = {}))
                     \/ email'.state # "set" /\ (email'.state # "none" => email'.locked = seen.locked)
                        /\ (email.state = "none" => email'.state = "none")
  <1> DEFINE e == topic[1]
             seen == read["email"].seen
             R == IF e.type = "updated" THEN e.current ELSE seen.rows
             T == SchulenOf(R, Email)
  <1>0. "email" \in System
    BY DEF System
  <1>1. /\ Head(topic) = e /\ e \in Message /\ e.type \in {"updated", "renamed", "sync", "locks", "deleted"}
        /\ email' = EmailAfter(email, e, seen) /\ email \in EmailSet
    BY <1>0, HandlingFacts, HandleForm DEF Interested, Message, Settle
  <1>2. e.type # "deleted" => read["email"].done
    BY <1>0, <1>1, HandleForm DEF Reads
  <1>3. e.type = "deleted" => email'.state = "none"
    BY <1>1 DEF EmailAfter, NoEmail
  <1>4. CASE e.type # "deleted" /\ T # {}
    <2>1. email' = SetEmail(IF e.type \in {"updated", "renamed"} THEN e.name ELSE seen.name, T, seen.locked)
      <3>1. CASE e.type = "updated"
        BY <1>1, <1>4, <3>1 DEF EmailAfter, EmailUpdated
      <3>2. CASE e.type = "renamed"
        BY <1>1, <1>4, <3>2 DEF EmailAfter, EmailRenamed
      <3>3. CASE e.type \in {"sync", "locks"}
        BY <1>1, <1>4, <3>3 DEF EmailAfter, EmailSynced
      <3> QED
        BY <1>1, <1>4, <3>1, <3>2, <3>3
    <2> DEFINE n == IF e.type \in {"updated", "renamed"} THEN e.name ELSE seen.name
    <2> HIDE DEF n, seen, T
    <2>2. email'.state = "set" /\ email'.schulen = T /\ email'.locked = seen.locked /\ email'.name = n
      BY <2>1, SetEmailFields DEF n
    <2> USE DEF n, seen, T
    <2> QED
      BY <1>1, <1>2, <1>4, <2>2
  <1>5. CASE e.type # "deleted" /\ T = {}
    <2>1. \/ email' = email /\ (e.type = "renamed" \/ (e.type = "updated" /\ SchulenOf(e.removed, Email) = {}))
          \/ email' = Suspended(email, seen.locked)
      <3>1. CASE e.type = "updated"
        BY <1>1, <1>5, <3>1 DEF EmailAfter, EmailUpdated
      <3>2. CASE e.type = "renamed"
        BY <1>1, <1>5, <3>2 DEF EmailAfter, EmailRenamed
      <3>3. CASE e.type \in {"sync", "locks"}
        BY <1>1, <1>5, <3>3 DEF EmailAfter, EmailSynced
      <3> QED
        BY <1>1, <1>5, <3>1, <3>2, <3>3
    <2>2. /\ Suspended(email, seen.locked).state # "set"
          /\ Suspended(email, seen.locked).state # "none" => Suspended(email, seen.locked).locked = seen.locked
          /\ email.state = "none" => Suspended(email, seen.locked).state = "none"
      BY <1>1, SuspendedFields
    <2> QED
      BY <1>1, <1>2, <1>5, <2>1, <2>2
  <1> QED
    BY <1>1, <1>2, <1>3, <1>4, <1>5

\* A message that suspends the addresses.
LEMMA SetterTypes ==
    ASSUME NEW m \in Message
    PROVE  /\ m \in Setters <=> m.type = "updated" /\ SchulenOf(m.current, Email) # {}
           /\ m \in Unsetters <=> m.type = "updated" /\ SchulenOf(m.current, Email) = {} /\ SchulenOf(m.removed, Email) # {}
  BY DEF Setters, Unsetters

\* The last of one message is the first one.
LEMMA OnlyIndex == ASSUME NEW n \in Nat, 1 \in 1..n, ~(n > 1) PROVE n = 1
  OBVIOUS

\* The handler of the addresses keeps their invariant.
LEMMA EmailHandles ==
    ASSUME TypeOK, MirrorsTypeOK, CommonInv, EmailInv, Handle("email"), "email" \notin stray
    PROVE  EmailInv'
  <1> DEFINE e == topic[1]
             seen == read["email"].seen
             R == IF e.type = "updated" THEN e.current ELSE seen.rows
             T == SchulenOf(R, Email)
             S == SchulenOf(Due, Email)
  <1>0. "email" \in System
    BY DEF System
  <1>1. Settle("email") /\ RestStep /\ Handling("email") /\ UNCHANGED topic /\ topic # <<>>
    BY <1>0, SettleRest DEF Settle, Handling
  <1>2. /\ Writing' = Writing /\ Due' = Due /\ Gone' = Gone /\ Unsetting' = Unsetting /\ name' = name /\ locked' = locked
        /\ SchulenOf(Due, Email)' = S
        /\ \A M : Later(From("email"), M)' <=> Later(1, M)
        /\ \A M : Later(From("email"), M) <=> e \in M \/ Later(1, M)
        /\ \A i : \A M : Later(i, M)' <=> Later(i, M)
        /\ Index' = Index
    BY <1>0, <1>1, RestMove, FromSettle, LaterSame DEF RestStep, Index
  <1>3. /\ e.type \in {"updated", "renamed", "sync", "locks", "deleted"}
        /\ e.type # "deleted" => read["email"].done
        /\ e.type = "deleted" => email'.state = "none"
        /\ e.type # "deleted" /\ T # {} =>
              /\ email'.state = "set" /\ email'.schulen = T /\ email'.locked = seen.locked
              /\ email'.name = IF e.type \in {"updated", "renamed"} THEN e.name ELSE seen.name
        /\ e.type # "deleted" /\ T = {} =>
              \/ email' = email /\ (e.type = "renamed" \/ (e.type = "updated" /\ SchulenOf(e.removed, Email) = {}))
              \/ email'.state # "set" /\ (email'.state # "none" => email'.locked = seen.locked)
                 /\ (email.state = "none" => email'.state = "none")
    BY EmailResult
  <1>4. /\ e \in Message /\ "email" \in watched
        /\ e.type = "updated" /\ ~Writing /\ ~Later(1, Updates) => e.current = Due
        /\ e.type \in NamedTypes /\ ~Later(1, Renames) => e.name = name
        /\ e.type \in {"deleted", "deadline"} => Due = {}
        /\ read["email"].done =>
             /\ ~Later(1, Renames) => seen.name = name
             /\ e.type # "updated" /\ ~Writing /\ ~Later(1, Updates) => seen.rows = Due
             /\ ~Later(1, OfType({"locks"})) => seen.locked = locked
    BY <1>0, <1>1, HandleNow
  <1>5. NoEmailInv /\ SomeEmailInv /\ LocksInv /\ GoneInv
    BY <1>4 DEF EmailInv, Told
  <1>6. ~read'["email"].done
    BY <1>0, <1>1, SettledReads
  <1>7. /\ \A M : e \in OfType(M) <=> e.type \in M
        /\ e \in Updates <=> e.type = "updated"
        /\ e \in Setters <=> e.type = "updated" /\ SchulenOf(e.current, Email) # {}
        /\ e \in Unsetters <=> e.type = "updated" /\ SchulenOf(e.current, Email) = {} /\ SchulenOf(e.removed, Email) # {}
    BY <1>4, OldTypes, SetterTypes
  <1>a. R = Due => T = S
    OBVIOUS
  <1>b. e.type = "updated" => R = e.current /\ T = SchulenOf(e.current, Email)
    OBVIOUS
  <1>c. e.type # "updated" => R = seen.rows /\ T = SchulenOf(seen.rows, Email)
    OBVIOUS
  <1>d. 1 \in Index
    BY <1>1, LenNat, TopicHead
  <1>e. /\ Later(1, Renames) => Later(1, OfType({"updated", "renamed"}))
        /\ Later(1, Updates) => Later(1, OfType({"updated", "renamed"}))
    BY DEF Later, Renames, Updates, OfType
  <1>8. NoEmailInv'
    <2> SUFFICES ASSUME S = {}
                 PROVE  /\ \A i \in Index : topic[i] \in Setters => Unsetting \/ Later(i, Unsetters)
                        /\ email'.state = "set" => Unsetting \/ Later(1, Unsetters)
      BY <1>1, <1>2, <1>6 DEF NoEmailInv, Setters, Unsetters, SchulenOf
    <2>1. /\ \A i \in Index : topic[i] \in Setters => Unsetting \/ Later(i, Unsetters)
          /\ email.state = "set" => Unsetting \/ e \in Unsetters \/ Later(1, Unsetters)
          /\ read["email"].done /\ SchulenOf(seen.rows, Email) # {} => e.type = "updated" \/ Unsetting \/ Later(1, Unsetters)
      BY <1>2, <1>5 DEF NoEmailInv
    <2>2. ASSUME email'.state = "set" PROVE Unsetting \/ Later(1, Unsetters)
      <3>1. CASE T # {}
        <4>1. CASE e.type = "updated"
          BY <1>7, <1>b, <1>d, <2>1, <3>1, <4>1
        <4>2. CASE e.type # "updated"
          BY <1>3, <1>c, <2>1, <2>2, <3>1, <4>2
        <4> QED
          BY <4>1, <4>2
      <3>2. CASE T = {}
        <4>1. email' = email /\ e \notin Unsetters
          BY <1>3, <1>7, <2>2, <3>2
        <4> QED
          BY <2>1, <2>2, <4>1
      <3> QED
        BY <3>1, <3>2
    <2> QED
      BY <2>1, <2>2
  <1>9. SomeEmailInv'
    <2> SUFFICES ASSUME S # {}, ~Writing
                 PROVE  /\ ~Later(1, Updates) => email'.state = "set" /\ email'.schulen = S
                        /\ ~Later(1, OfType({"updated", "renamed"})) => email'.name = name
      BY <1>2 DEF SomeEmailInv, Updates, OfType
    <2> SUFFICES ASSUME ~Later(1, Updates)
                 PROVE  /\ email'.state = "set" /\ email'.schulen = S
                        /\ ~Later(1, OfType({"updated", "renamed"})) => email'.name = name
      BY <1>e
    <2>1. e.type # "deleted"
      BY <1>4 DEF SchulenOf
    <2>2. R = Due
      BY <1>3, <1>4, <2>1
    <2>3. T = S /\ T # {}
      BY <2>2
    <2>4. ~Later(1, OfType({"updated", "renamed"})) => (IF e.type \in {"updated", "renamed"} THEN e.name ELSE seen.name) = name
      BY <1>3, <1>4, <1>e, <2>1 DEF NamedTypes
    <2> HIDE DEF T, S
    <2> QED
      BY <1>3, <2>1, <2>3, <2>4
  <1> HIDE DEF T, S, R, seen
  <1>10. LocksInv'
    <2> SUFFICES ASSUME email'.state # "none", ~Later(1, OfType({"locks"})) PROVE email'.locked = locked
      BY <1>2 DEF LocksInv, OfType
    <2>1. e.type # "deleted"
      BY <1>3
    <2>2. seen.locked = locked
      BY <1>3, <1>4, <2>1
    <2>3. CASE T # {} \/ email' # email
      BY <1>3, <2>1, <2>2, <2>3
    <2>4. CASE T = {} /\ email' = email
      <3>1. CASE e.type \in {"renamed", "updated"}
        BY <1>2, <1>5, <1>7, <2>4, <3>1 DEF LocksInv
      <3>2. CASE e.type \notin {"renamed", "updated"}
        BY <1>3, <2>1, <2>2, <2>4, <3>2
      <3> QED
        BY <3>1, <3>2
    <2> QED
      BY <2>3, <2>4
  <1>11. GoneInv'
    <2> SUFFICES ASSUME Gone, ~Later(1, OfType({"deleted"})) PROVE email'.state = "none"
      BY <1>2 DEF GoneInv, OfType
    <2>1. topic[Len(topic)].type = "deleted" /\ Len(topic) \in Index /\ topic[Len(topic)] \in Message
      BY <1>0, <1>1, <1>d, NameNat, LenNat, "email" \notin stray DEF CommonInv, Trusted, TopicInv, EndInv, Index
    <2>2. ~(Len(topic) > 1)
      <3>1. topic[Len(topic)] \in OfType({"deleted"})
        BY <2>1, OldTypes
      <3> QED
        BY <2>1, <3>1 DEF Later
    <2>3. Len(topic) = 1
      BY <1>d, <2>2, LenNat, OnlyIndex DEF Index
    <2> QED
      BY <1>3, <2>1, <2>3
  <1> QED
    BY <1>8, <1>9, <1>10, <1>11 DEF EmailInv

\* A synchronisation that sees everything repairs the addresses.
LEMMA EmailRepaired ==
    ASSUME TypeOK, MirrorsTypeOK, CommonInv, Handle("email"), "email" \in stray, "email" \notin stray'
    PROVE  EmailInv'
  <1> DEFINE e == topic[1]
             seen == read["email"].seen
             S == SchulenOf(Due, Email)
  <1>0. "email" \in System
    BY DEF System
  <1>1. Settle("email") /\ RestStep /\ Handling("email") /\ UNCHANGED topic /\ Repairs("email")
    BY <1>0, SettleRest, HandleForm DEF Settle, Settled
  <1>2. /\ Writing' = Writing /\ Gone' = Gone /\ name' = name /\ locked' = locked
        /\ SchulenOf(Due, Email)' = S /\ Index' = Index
    BY <1>0, <1>1, RestMove DEF RestStep, Index
  <1>3. /\ e.type = "sync" /\ Index = {1} /\ seen = Present /\ person = "present" /\ Due = rows /\ ~Gone
    BY <1>0, <1>1, RepairFacts DEF CommonInv
  <1>4. seen.name = name /\ seen.rows = Due /\ seen.locked = locked
    BY <1>3, PresentFields
  <1>5. /\ S # {} => email'.state = "set" /\ email'.schulen = S /\ email'.locked = locked /\ email'.name = name
        /\ S = {} => email'.state # "set" /\ (email'.state # "none" => email'.locked = locked)
    BY <1>3, <1>4, EmailResult
  <1>6. ~read'["email"].done
    BY <1>0, <1>1, SettledReads
  <1>7. e \notin Setters
    BY <1>3 DEF Setters
  <1> HIDE DEF e, S
  <1>8. NoEmailInv'
    <2>1. \A i \in Index' : topic'[i] \notin Setters
      BY <1>1, <1>2, <1>3, <1>7 DEF e
    <2>2. Setters' = Setters
      BY DEF Setters, SchulenOf
    <2> QED
      BY <1>2, <1>5, <1>6, <2>1, <2>2 DEF NoEmailInv
  <1>9. SomeEmailInv'
    BY <1>2, <1>5 DEF SomeEmailInv
  <1>10. LocksInv'
    BY <1>2, <1>5 DEF LocksInv
  <1>11. GoneInv'
    BY <1>2, <1>3 DEF GoneInv
  <1> QED
    BY <1>8, <1>9, <1>10, <1>11 DEF EmailInv

SeenEmailInv ==
    SchulenOf(Due, Email) = {} /\ read["email"].done /\ SchulenOf(read["email"].seen.rows, Email) # {} =>
        topic[1].type = "updated" \/ Unsetting \/ Later(1, Unsetters)

\* Which messages set and unset the addresses never changes.
LEMMA SettersSame == Setters' = Setters /\ Unsetters' = Unsetters /\ \A T : OfType(T)' = OfType(T) /\ Updates' = Updates
  BY DEF Setters, Unsetters, SchulenOf, OfType, Updates

\* Nor do the sets of messages of one type.
LEMMA NamedOfType == OfType({"updated", "renamed"})' = OfType({"updated", "renamed"}) /\ OfType({"locks"})' = OfType({"locks"})
                     /\ OfType({"deleted"})' = OfType({"deleted"})
  BY DEF OfType

\* Nothing happens to the addresses and the topic.
LEMMA EmailSame ==
    ASSUME EmailInv, Steady, UNCHANGED <<email, name, locked, topic>>, Told("email")' => Told("email"),
           \A M : Later(From("email"), M) => Later(From("email"), M)',
           Told("email")' => SeenEmailInv'
    PROVE  EmailInv'
  <1> SUFFICES ASSUME Told("email")' PROVE NoEmailInv' /\ SomeEmailInv' /\ LocksInv' /\ GoneInv'
    BY DEF EmailInv
  <1>0. NoEmailInv /\ SomeEmailInv /\ LocksInv /\ GoneInv /\ SeenEmailInv'
    BY DEF EmailInv
  <1>1. /\ Writing' \/ (~Writing /\ SchulenOf(Due, Email)' = SchulenOf(Due, Email))
        /\ Gone' => Gone
        /\ Unsetting => Unsetting'
        /\ SchulenOf(Due, Email)' = {} => SchulenOf(Due, Email) = {} \/ Unsetting'
    BY DEF Steady, SchulenOf
  <1>2. Index' = Index /\ \A i : \A M : Later(i, M)' <=> Later(i, M)
    BY LaterSame DEF Index
  <1>3. NoEmailInv'
    <2>1. ASSUME SchulenOf(Due, Email)' = {}
          PROVE  /\ \A i \in Index : topic[i] \in Setters => Unsetting' \/ Later(i, Unsetters)
                 /\ email.state = "set" => Unsetting' \/ Later(From("email"), Unsetters)
      BY <1>0, <1>1, <2>1 DEF NoEmailInv
    <2> QED
      BY <1>0, <1>2, <2>1, SettersSame DEF NoEmailInv, SeenEmailInv
  <1>4. SomeEmailInv'
    BY <1>0, <1>1, SettersSame, NamedOfType DEF SomeEmailInv
  <1>5. LocksInv'
    BY <1>0, NamedOfType DEF LocksInv
  <1>6. GoneInv'
    BY <1>0, <1>1, NamedOfType DEF GoneInv
  <1> QED
    BY <1>3, <1>4, <1>5, <1>6

\* What was read is still there, or is gone.
LEMMA SeenEmailSame ==
    ASSUME EmailInv, Told("email"), Steady, UNCHANGED topic, read'["email"] = read["email"] \/ ~read'["email"].done
    PROVE  SeenEmailInv'
  <1>1. SeenEmailInv
    BY DEF EmailInv, NoEmailInv, SeenEmailInv
  <1>2. SchulenOf(read["email"].seen.rows, Email)' # {} /\ read'["email"] = read["email"] => SchulenOf(read["email"].seen.rows, Email) # {}
    BY DEF SchulenOf
  <1>3. /\ Unsetting => Unsetting'
        /\ SchulenOf(Due, Email)' = {} => SchulenOf(Due, Email) = {} \/ Unsetting'
    BY DEF Steady
  <1>4. \A i : \A M : Later(i, M)' <=> Later(i, M)
    BY LaterSame
  <1> QED
    BY <1>1, <1>2, <1>3, <1>4, SettersSame DEF SeenEmailInv

\* Contexts with e-mail that are read now are there, or are about to go with an event.
LEMMA SeenEmailRead ==
    ASSUME MirrorsTypeOK, CommonInv, Told("email"), Read("email")
    PROVE  SeenEmailInv'
  <1>0. "email" \in System /\ TopicInv
    BY DEF System, CommonInv, Trusted, Told
  <1>1. /\ RestStep /\ Handling("email") /\ Reads("email", Head(topic)) /\ UNCHANGED topic
        /\ read' = [read EXCEPT !["email"] = [done |-> TRUE, seen |-> Present]]
    BY <1>0, ReadForm
  <1>2. read'["email"].seen.rows = rows
    BY <1>0, <1>1, PresentFields DEF MirrorsTypeOK, Reading
  <1>3. SchulenOf(read["email"].seen.rows, Email)' = SchulenOf(rows, Email)
    BY <1>2 DEF SchulenOf
  <1>4. SchulenOf(Due, Email)' = SchulenOf(Due, Email) /\ \A i : \A M : Later(i, M)' <=> Later(i, M)
    BY <1>1, RestMove, LaterSame DEF RestStep
  <1>5. ASSUME SchulenOf(Due, Email) = {}, SchulenOf(rows, Email) # {}, topic[1].type # "updated" PROVE Later(1, Unsetters)
    <2>1. Leaving
      BY <1>5 DEF Due
    <2>2. Later(1, Removal)
      BY <1>0, <1>1, <1>5, <2>1, ReadLeaving
    <2>3. Removal \subseteq Unsetters
      BY <1>5 DEF Removal, Unsetters, SchulenOf
    <2> QED
      BY <2>2, <2>3, LaterMore
  <1> QED
    BY <1>1, <1>3, <1>4, <1>5, SettersSame DEF SeenEmailInv

\* The event of an update keeps the invariant of the addresses.
LEMMA EmailTellsUpdate ==
    ASSUME MirrorsTypeOK, NoEmailInv, SomeEmailInv, LocksInv, GoneInv, NEW m, TellsUpdate(m) \/ TellsRemoval(m)
    PROVE  NoEmailInv' /\ SomeEmailInv' /\ LocksInv' /\ GoneInv'
  <1>1. /\ Appended(m) /\ email' = email /\ read' = read /\ m.type = "updated" /\ locked' = locked /\ name' = name
        /\ ~Gone' /\ Due = rows
    BY DEF TellsUpdate, TellsRemoval, Appended, Unmoved
  <1> DEFINE n == Len(topic) + 1
  <1>2. /\ m \in Message /\ Index' = Index \cup {n} /\ topic'[n] = m
        /\ \A i \in Index : topic'[i] = topic[i] /\ \A M : Later(i, M)' <=> Later(i, M) \/ m \in M
        /\ \A M : Later(From("email"), M)' <=> Later(From("email"), M) \/ m \in M
    BY <1>1, AppendedFacts, FromAppend DEF System
  <1> HIDE DEF n
  <1>3. read["email"].done => 1 \in Index
    BY LenNat, TopicHead DEF MirrorsTypeOK, Handling, System
  <1>4. m \in Updates /\ m \in OfType({"updated", "renamed"})
    BY <1>1, <1>2, OldTypes
  <1>5. NoEmailInv'
    <2> SUFFICES ASSUME SchulenOf(Due, Email)' = {}
                 PROVE  /\ \A i \in Index' : topic'[i] \in Setters => Unsetting' \/ Later(i, Unsetters)'
                        /\ email.state = "set" => Unsetting' \/ Later(From("email"), Unsetters)'
                        /\ read["email"].done /\ SchulenOf(read["email"].seen.rows, Email) # {} =>
                              topic'[1].type = "updated" \/ Unsetting' \/ Later(1, Unsetters)'
      <3>1. SchulenOf(read["email"].seen.rows, Email)' = SchulenOf(read["email"].seen.rows, Email)
        BY <1>1 DEF SchulenOf
      <3> QED
        BY <1>1, <3>1, SettersSame DEF NoEmailInv
    <2>1. SchulenOf(m.current, Email) = {}
      <3>1. CASE TellsUpdate(m)
        BY <3>1 DEF TellsUpdate, SchulenOf
      <3>2. CASE TellsRemoval(m)
        BY <3>2 DEF TellsRemoval, SchulenOf
      <3> QED
        BY <3>1, <3>2
    <2>2. m \notin Setters
      BY <1>2, <2>1, SetterTypes
    <2>3. CASE m \in Unsetters
      BY <1>2, <1>3, <2>2, <2>3
    <2>4. CASE m \notin Unsetters
      <3>1. SchulenOf(m.removed, Email) = {}
        BY <1>1, <1>2, <2>1, <2>4, SetterTypes
      <3>2. ~Unsetting /\ SchulenOf(Due, Email) = {}
        <4>1. CASE TellsUpdate(m)
          BY <3>1, <4>1 DEF TellsUpdate, SchulenOf
        <4>2. CASE TellsRemoval(m)
          BY <3>1, <4>2 DEF TellsRemoval
        <4> QED
          BY <4>1, <4>2
      <3>3. /\ \A i \in Index : topic[i] \in Setters => Later(i, Unsetters)
            /\ email.state = "set" => Later(From("email"), Unsetters)
            /\ read["email"].done /\ SchulenOf(read["email"].seen.rows, Email) # {} =>
                  topic[1].type = "updated" \/ Later(1, Unsetters)
        BY <3>2 DEF NoEmailInv
      <3> QED
        BY <1>2, <1>3, <2>2, <3>3
    <2> QED
      BY <2>3, <2>4
  <1>6. SomeEmailInv'
    BY <1>2, <1>4, SettersSame, NamedOfType DEF SomeEmailInv
  <1>7. LocksInv'
    BY <1>1, <1>2, NamedOfType DEF LocksInv
  <1>8. GoneInv'
    BY <1>1 DEF GoneInv
  <1> QED
    BY <1>5, <1>6, <1>7, <1>8

\* So do the other messages.
LEMMA EmailTellsOther ==
    ASSUME MirrorsTypeOK, NoEmailInv, SomeEmailInv, LocksInv, GoneInv, NEW m, TellsDeletion(m) \/ Asks(m)
    PROVE  NoEmailInv' /\ SomeEmailInv' /\ LocksInv' /\ GoneInv'
  <1>1. /\ Appended(m) /\ email' = email /\ read' = read /\ m.type # "updated"
        /\ m.type = "locks" \/ locked' = locked
        /\ m.type = "renamed" \/ name' = name
        /\ Gone' => m.type = "deleted"
    <2>1. CASE TellsDeletion(m)
      BY <2>1 DEF TellsDeletion, Appended, Unmoved
    <2>2. CASE Asks(m)
      <3>1. ~Gone'
        BY <2>2, RestMove DEF Asks
      <3> QED
        BY <2>2, <3>1 DEF Asks, Appended, Unmoved
    <2> QED
      BY <2>1, <2>2
  <1>a. /\ ~Writing' => ~Writing
        /\ SchulenOf(Due, Email)' = SchulenOf(Due, Email)
        /\ Unsetting => Unsetting'
    <2>1. CASE TellsDeletion(m)
      BY <2>1 DEF TellsDeletion, SchulenOf
    <2>2. CASE Asks(m)
      BY <2>2, RestMove DEF Asks
    <2> QED
      BY <2>1, <2>2
  <1> DEFINE n == Len(topic) + 1
  <1>2. /\ m \in Message /\ Index' = Index \cup {n} /\ topic'[n] = m
        /\ \A i \in Index : topic'[i] = topic[i] /\ \A M : Later(i, M)' <=> Later(i, M) \/ m \in M
        /\ \A M : Later(From("email"), M)' <=> Later(From("email"), M) \/ m \in M
    BY <1>1, AppendedFacts, FromAppend DEF System
  <1> HIDE DEF n
  <1>3. read["email"].done => 1 \in Index
    BY LenNat, TopicHead DEF MirrorsTypeOK, Handling, System
  <1>4. m \notin Setters
    BY <1>1, <1>2, SetterTypes
  <1>5. NoEmailInv'
    <2>1. SchulenOf(read["email"].seen.rows, Email)' = SchulenOf(read["email"].seen.rows, Email)
      BY <1>1 DEF SchulenOf
    <2> QED
      BY <1>1, <1>a, <1>2, <1>3, <1>4, <2>1, SettersSame DEF NoEmailInv
  <1>6. SomeEmailInv'
    <2>1. m.type = "renamed" => m \in OfType({"updated", "renamed"})
      BY <1>2, OldTypes
    <2> QED
      BY <1>1, <1>a, <1>2, <2>1, SettersSame, NamedOfType DEF SomeEmailInv
  <1>7. LocksInv'
    <2>1. m.type = "locks" => m \in OfType({"locks"})
      BY <1>2, OldTypes
    <2> QED
      BY <1>1, <1>2, <2>1, NamedOfType DEF LocksInv
  <1>8. GoneInv'
    <2>1. m.type = "deleted" => m \in OfType({"deleted"})
      BY <1>2, OldTypes
    <2> QED
      BY <1>1, <1>2, <2>1, NamedOfType DEF GoneInv
  <1> QED
    BY <1>5, <1>6, <1>7, <1>8

\* And a commit.
LEMMA EmailCommit ==
    ASSUME MirrorsTypeOK, EmailInv, Commit
    PROVE  EmailInv'
  <1> SUFFICES ASSUME Told("email") PROVE NoEmailInv' /\ SomeEmailInv' /\ LocksInv' /\ GoneInv'
    BY CommitRest DEF EmailInv, Told, RestStep
  <1>0. NoEmailInv /\ SomeEmailInv /\ LocksInv /\ GoneInv /\ "email" \in watched /\ "email" \in System
    BY DEF EmailInv, Told, System
  <1>1. /\ email' = email /\ name' = name /\ locked' = locked /\ ~read'["email"].done
        /\ Writing' = Writing /\ Gone' = Gone /\ Unsetting' = Unsetting /\ SchulenOf(Due, Email)' = SchulenOf(Due, Email)
    BY <1>0, CommitForm, CommitRest, RestMove DEF RestStep
  <1>2. topic[1] \in Message
    BY CommitForm, TopicHead
  <1>3. ASSUME NEW M \in {Updates, Unsetters, OfType({"updated", "renamed"}), OfType({"locks"}), OfType({"deleted"})}
        PROVE  Later(From("email"), M)' <=> Later(From("email"), M)
    <2>1. "email" \notin Interested(topic[1]) => topic[1].type = "deadline"
      BY <1>2 DEF Interested, Message, System
    <2>2. topic[1].type = "deadline" => topic[1] \notin M
      BY <1>2, OldTypes, SetterTypes
    <2> QED
      BY <1>0, <2>1, <2>2, FromCommit
  <1>4. /\ \A i \in Index' : i \in Nat /\ i + 1 \in Index /\ topic'[i] = topic[i + 1]
        /\ \A i \in Nat : \A M : Later(i, M)' <=> Later(i + 1, M)
    BY CommitFacts
  <1>5. NoEmailInv'
    BY <1>0, <1>1, <1>3, <1>4, SettersSame DEF NoEmailInv
  <1>6. SomeEmailInv'
    BY <1>0, <1>1, <1>3, SettersSame, NamedOfType DEF SomeEmailInv
  <1>7. LocksInv'
    BY <1>0, <1>1, <1>3, NamedOfType DEF LocksInv
  <1>8. GoneInv'
    BY <1>0, <1>1, <1>3, NamedOfType DEF GoneInv
  <1> QED
    BY <1>5, <1>6, <1>7, <1>8

\* Every step keeps the invariant of the addresses.
LEMMA EmailStep ==
    ASSUME TypeOK, TypeOK', MirrorsTypeOK, Serially, CommonInv, EmailInv, [MirrorsNext]_allvars
    PROVE  EmailInv'
  <1>0. "email" \in System /\ RequestInv
    BY DEF System, CommonInv
  <1>a. ASSUME RestStep PROVE Steady /\ name' = name /\ locked' = locked
    BY <1>a, RestSteady DEF RestStep
  <1>1. CASE CalmStep
    <2>1. From("email")' = From("email") /\ UNCHANGED <<topic, read, email, name, locked>> /\ Told("email")' = Told("email") /\ Steady
      BY <1>1 DEF CalmStep, Unmoved, From, Told
    <2> QED
      BY <1>0, <2>1, FromSame, EmailSame, SeenEmailSame
  <1>2. CASE StrayStep
    BY <1>2 DEF StrayStep, Stray, System, EmailInv, Told
  <1>3. ASSUME NEW m, TellsUpdate(m) \/ TellsRemoval(m) \/ TellsDeletion(m) \/ Asks(m) PROVE EmailInv'
    <2>1. Told("email")' = Told("email")
      BY <1>3 DEF TellsUpdate, TellsRemoval, TellsDeletion, Asks, Appended, Unmoved, Told
    <2> QED
      BY <1>3, <2>1, EmailTellsUpdate, EmailTellsOther DEF EmailInv
  <1>4. ASSUME NEW s \in System, Read(s) PROVE EmailInv'
    <2>1. /\ RestStep /\ UNCHANGED <<topic, handled, email, stray>>
          /\ read' = [read EXCEPT ![s] = [done |-> TRUE, seen |-> Present]]
      BY <1>4, ReadForm
    <2>2. From("email")' = From("email") /\ Told("email")' = Told("email")
      BY <2>1 DEF From, Told, RestStep
    <2>3. Told("email") => SeenEmailInv'
      <3>1. CASE s = "email"
        BY <1>4, <3>1, SeenEmailRead
      <3>2. CASE s # "email"
        <4>1. read'["email"] = read["email"]
          BY <1>0, <2>1, <3>2 DEF MirrorsTypeOK, Reading
        <4> QED
          BY <1>a, <2>1, <4>1, SeenEmailSame
      <3> QED
        BY <3>1, <3>2
    <2> QED
      BY <1>0, <1>a, <2>1, <2>2, <2>3, FromSame, EmailSame
  <1>5. ASSUME NEW s \in System, Handle(s) \/ HandleFails(s), s # "email" PROVE EmailInv'
    <2>1. RestStep /\ Settle(s) /\ UNCHANGED topic
      BY <1>5, SettleRest
    <2>2. From("email")' = From("email") /\ read'["email"] = read["email"]
      BY <1>0, <1>5, <2>1, FromSettle, SettledReads
    <2>3. email' = email /\ (Told("email")' => Told("email"))
      BY <1>5, <2>1, HandleForm, FailForm DEF Settled, Told, RestStep
    <2> QED
      BY <1>0, <1>a, <2>1, <2>2, <2>3, FromSame, EmailSame, SeenEmailSame
  <1>6. CASE Handle("email")
    <2>1. CASE "email" \in stray'
      BY <2>1 DEF EmailInv, Told
    <2> QED
      BY <1>6, <2>1, EmailHandles, EmailRepaired
  <1>7. CASE HandleFails("email")
    BY <1>0, <1>7, FailForm DEF EmailInv, Told
  <1>8. CASE Commit
    BY <1>8, EmailCommit
  <1>9. CASE Restart
    <2>1. RestStep /\ UNCHANGED <<topic, email, stray>> /\ read' = NoReads /\ ~read'["email"].done
      BY <1>0, <1>9, RestartForm DEF NoReads
    <2>2. Told("email")' = Told("email")
      BY <2>1 DEF Told, RestStep
    <2> QED
      BY <1>0, <1>9, <1>a, <2>1, <2>2, FromRestart, EmailSame, SeenEmailSame
  <1> QED
    BY <1>0, <1>1, <1>2, <1>3, <1>4, <1>5, <1>6, <1>7, <1>8, <1>9, Steps

----------------------------------------------------------------------------
(* LDAP                                                                    *)

\* Which messages touch a school never changes.
LEMMA TouchingSame == \A x, n : Touching(x, n)' = Touching(x, n)
  BY DEF Touching, Touches, Joined, Unjustified, SchulenOf

\* Nor which messages rename and delete.
LEMMA RenamesSame == Renames' = Renames /\ OfType({"deleted"})' = OfType({"deleted"})
  BY DEF Renames, OfType

\* What is to come is about the name with which the topic begins, or a newer one.
LEMMA ChainTouch ==
    ASSUME MirrorsTypeOK, NEW c \in Nat, ChainInv(c), NEW x, NEW k \in Nat, Later(k, Touching(x, 0))
    PROVE  Later(k, Touching(x, c))
  <1>1. PICK i \in Index : i > k /\ topic[i] \in Touching(x, 0)
    BY DEF Later
  <1>2. topic[i].type = "updated"
    BY <1>1 DEF Touching, Touches
  <1>3. c <= topic[i].name
    BY <1>2 DEF ChainInv, NamedTypes, OldName
  <1> QED
    BY <1>1, <1>3 DEF Later, Touching

\* Behind a change of the name nothing is about the former one.
LEMMA ChainTouchNext ==
    ASSUME MirrorsTypeOK, topic # <<>>, NEW c \in Nat, ChainInv(c), topic[1].type = "renamed", NEW x, NEW n, Later(1, Touching(x, n))
    PROVE  Later(1, Touching(x, topic[1].name))
  <1>1. PICK i \in Index : i > 1 /\ topic[i] \in Touching(x, n)
    BY DEF Later
  <1>2. topic[i].type = "updated" /\ 1 \in Index
    BY <1>1, LenNat, TopicHead DEF Touching, Touches
  <1>3. topic[1].name <= topic[i].name
    BY <1>1, <1>2 DEF ChainInv, NamedTypes, OldName
  <1> QED
    BY <1>1, <1>3 DEF Later, Touching

\* The first message begins with that name.
LEMMA ChainHead ==
    ASSUME MirrorsTypeOK, topic # <<>>, NEW c \in Nat, ChainInv(c), topic[1].type \in NamedTypes
    PROVE  OldName(topic[1]) = c
  <1>1. 1 \in Index /\ \A k \in Index : ~(k < 1)
    BY LenNat, TopicHead, NameNat
  <1> QED
    BY <1>1 DEF ChainInv

\* Topic and name alone decide the chain of the names.
LEMMA ChainSame ==
    ASSUME NEW c, ChainInv(c), UNCHANGED <<topic, name>>
    PROVE  ChainInv(c)'
  <1>1. Later(0, Renames)' <=> Later(0, Renames)
    BY LaterSame, RenamesSame
  <1> QED
    BY <1>1 DEF ChainInv, Index, OldName

\* A message continues the chain.
LEMMA ChainAppend ==
    ASSUME MirrorsTypeOK, BoundInv, NameInv, NEW c \in Nat, ChainInv(c), c <= name, NEW m, Appended(m),
           m.type \in NamedTypes => OldName(m) = name, m.type = "renamed" \/ name' = name
    PROVE  ChainInv(c)'
  <1> DEFINE n == Len(topic) + 1
  <1>1. /\ m \in Message /\ Index' = Index \cup {n} /\ topic'[n] = m
        /\ \A i \in Index : topic'[i] = topic[i] /\ i \in Nat /\ i < n
        /\ \A M : Later(0, M)' <=> Later(0, M) \/ m \in M
        /\ n \in Nat
    BY AppendedFacts
  <1> HIDE DEF n
  <1>2. ~Later(0, Renames)' => c = name'
    BY <1>1, RenamesSame, OldTypes DEF ChainInv
  <1>3. ASSUME NEW i \in Index, topic[i].type \in NamedTypes
        PROVE  /\ c <= OldName(topic[i])
               /\ (\A k \in Index' : k < i => topic'[k].type # "renamed") => OldName(topic[i]) = c
               /\ \A k \in Index' : k < i /\ topic'[k].type = "renamed" =>
                     /\ topic'[k].name <= OldName(topic[i])
                     /\ (\A l \in Index' : k < l /\ l < i => topic'[l].type # "renamed") => OldName(topic[i]) = topic'[k].name
    <2>1. \A k \in Index' : k < i => k \in Index /\ topic'[k] = topic[k]
      BY <1>1
    <2>2. \A k \in Index : k < i => k \in Index' /\ topic'[k] = topic[k]
      BY <1>1
    <2>3. c <= OldName(topic[i])
      BY <1>3 DEF ChainInv
    <2>4. (\A k \in Index' : k < i => topic'[k].type # "renamed") => OldName(topic[i]) = c
      BY <1>3, <2>2 DEF ChainInv
    <2>5. ASSUME NEW k \in Index', k < i, topic'[k].type = "renamed"
          PROVE  /\ topic'[k].name <= OldName(topic[i])
                 /\ (\A l \in Index' : k < l /\ l < i => topic'[l].type # "renamed") => OldName(topic[i]) = topic'[k].name
      BY <1>3, <2>1, <2>2, <2>5 DEF ChainInv
    <2> QED
      BY <2>3, <2>4, <2>5
  <1>4. ASSUME m.type \in NamedTypes
        PROVE  /\ c <= OldName(m)
               /\ (\A k \in Index' : k < n => topic'[k].type # "renamed") => OldName(m) = c
               /\ \A k \in Index' : k < n /\ topic'[k].type = "renamed" =>
                     /\ topic'[k].name <= OldName(m)
                     /\ (\A l \in Index' : k < l /\ l < n => topic'[l].type # "renamed") => OldName(m) = topic'[k].name
    <2>0. OldName(m) = name
      BY <1>4
    <2>1. (\A k \in Index' : k < n => topic'[k].type # "renamed") => c = name
      <3> SUFFICES ASSUME \A k \in Index' : k < n => topic'[k].type # "renamed" PROVE c = name
        OBVIOUS
      <3>1. \A k \in Index : topic[k].type # "renamed"
        BY <1>1
      <3>2. ~Later(0, Renames)
        BY <3>1 DEF Later, Renames, OfType
      <3> QED
        BY <3>2 DEF ChainInv
    <2>2. ASSUME NEW k \in Index', k < n, topic'[k].type = "renamed"
          PROVE  /\ topic'[k].name <= name
                 /\ (\A l \in Index' : k < l /\ l < n => topic'[l].type # "renamed") => name = topic'[k].name
      <3>1. k \in Index /\ topic'[k] = topic[k]
        BY <1>1, <2>2
      <3>2. ASSUME \A l \in Index' : k < l /\ l < n => topic'[l].type # "renamed" PROVE ~Later(k, Renames)
        <4>1. \A l \in Index : l > k => topic[l].type # "renamed"
          BY <1>1, <3>1, <3>2
        <4> QED
          BY <4>1 DEF Later, Renames, OfType
      <3> QED
        BY <2>2, <3>1, <3>2 DEF BoundInv, NameInv, NamedTypes
    <2> QED
      BY <2>0, <2>1, <2>2
  <1>5. \A i \in Index' : i = n \/ (i \in Index /\ topic'[i] = topic[i])
    BY <1>1
  <1>6. \A i \in Index' : OldName(topic[i])' = OldName(topic'[i])
    BY DEF OldName
  <1> QED
    BY <1>1, <1>2, <1>3, <1>4, <1>5 DEF ChainInv, OldName

\* The first message is no change of the name.
LEMMA ChainCommit ==
    ASSUME MirrorsTypeOK, NEW c \in Nat, ChainInv(c), Commit, topic[1].type # "renamed"
    PROVE  ChainInv(c)'
  <1>1. /\ \A i \in Index' : i \in Nat /\ i + 1 \in Index /\ topic'[i] = topic[i + 1]
        /\ Later(0, Renames)' <=> Later(1, Renames)
        /\ name' = name
    <2>1. Later(0, Renames)' <=> Later(0 + 1, Renames)
      BY CommitFacts, RenamesSame
    <2> QED
      BY <2>1, CommitFacts, CommitForm
  <1>2. \A k \in Index : k = 1 \/ (k - 1 \in Index' /\ topic'[k - 1] = topic[k])
    BY CommitForm, TopicTail, NameNat
  <1>3. Later(0, Renames) <=> Later(1, Renames)
    BY CommitForm, LaterHere, OldTypes
  <1>4. ASSUME NEW i \in Index', topic'[i].type \in NamedTypes
        PROVE  /\ c <= OldName(topic'[i])
               /\ (\A k \in Index' : k < i => topic'[k].type # "renamed") => OldName(topic'[i]) = c
               /\ \A k \in Index' : k < i /\ topic'[k].type = "renamed" =>
                     /\ topic'[k].name <= OldName(topic'[i])
                     /\ (\A l \in Index' : k < l /\ l < i => topic'[l].type # "renamed") => OldName(topic'[i]) = topic'[k].name
    <2>1. i + 1 \in Index /\ topic'[i] = topic[i + 1] /\ i \in Nat
      BY <1>1
    <2>2. c <= OldName(topic'[i])
      BY <1>4, <2>1 DEF ChainInv
    <2>3. ASSUME \A k \in Index' : k < i => topic'[k].type # "renamed" PROVE OldName(topic'[i]) = c
      <3>1. ASSUME NEW k \in Index, k < i + 1 PROVE topic[k].type # "renamed"
        <4>1. CASE k = 1
          BY <4>1
        <4>2. CASE k # 1
          <5>1. k - 1 \in Index' /\ topic'[k - 1] = topic[k] /\ k \in Nat
            BY <1>2, <4>2, NameNat
          <5>2. k - 1 < i
            BY <2>1, <3>1, <5>1
          <5> QED
            BY <2>3, <5>1, <5>2
        <4> QED
          BY <4>1, <4>2
      <3> QED
        BY <1>4, <2>1, <3>1 DEF ChainInv
    <2>4. ASSUME NEW k \in Index', k < i, topic'[k].type = "renamed"
          PROVE  /\ topic'[k].name <= OldName(topic'[i])
                 /\ (\A l \in Index' : k < l /\ l < i => topic'[l].type # "renamed") => OldName(topic'[i]) = topic'[k].name
      <3>a. k + 1 \in Index /\ topic'[k] = topic[k + 1] /\ k \in Nat
        BY <1>1
      <3>b. k + 1 < i + 1
        BY <2>1, <2>4, <3>a
      <3>1. k + 1 \in Index /\ topic'[k] = topic[k + 1] /\ k \in Nat /\ k + 1 < i + 1
        BY <3>a, <3>b
      <3>2. ASSUME \A l \in Index' : k < l /\ l < i => topic'[l].type # "renamed", NEW l \in Index, k + 1 < l, l < i + 1
            PROVE  topic[l].type # "renamed"
        <4>1. l \in Nat /\ l # 1
          BY <3>1, <3>2, NameNat
        <4>2. l - 1 \in Index' /\ topic'[l - 1] = topic[l]
          BY <1>2, <4>1
        <4>3. k < l - 1 /\ l - 1 < i
          BY <2>1, <3>1, <3>2, <4>1
        <4> QED
          BY <3>2, <4>2, <4>3
      <3> QED
        BY <1>4, <2>1, <2>4, <3>1, <3>2 DEF ChainInv
    <2> QED
      BY <2>2, <2>3, <2>4
  <1> QED
    BY <1>1, <1>3, <1>4 DEF ChainInv, OldName

\* The first message is one: the topic begins with the new name then.
LEMMA ChainCommitRenamed ==
    ASSUME MirrorsTypeOK, NameInv, NEW c \in Nat, ChainInv(c), Commit, topic[1].type = "renamed", NEW d \in Nat, d = topic[1].name
    PROVE  ChainInv(d)'
  <1>0. 1 \in Index
    BY CommitForm, TopicHead
  <1>1. /\ \A i \in Index' : i \in Nat \ {0} /\ i + 1 \in Index /\ topic'[i] = topic[i + 1]
        /\ Later(0, Renames)' <=> Later(1, Renames)
        /\ name' = name
    <2>1. Later(0, Renames)' <=> Later(0 + 1, Renames)
      BY CommitFacts, RenamesSame
    <2> QED
      BY <2>1, CommitForm, TopicTail
  <1>2. \A k \in Index : k = 1 \/ (k - 1 \in Index' /\ topic'[k - 1] = topic[k])
    BY CommitForm, TopicTail, NameNat
  <1>3. ~Later(1, Renames) => d = name
    BY <1>0 DEF NameInv, NamedTypes
  <1>4. ASSUME NEW i \in Index', topic'[i].type \in NamedTypes
        PROVE  /\ d <= OldName(topic'[i])
               /\ (\A k \in Index' : k < i => topic'[k].type # "renamed") => OldName(topic'[i]) = d
               /\ \A k \in Index' : k < i /\ topic'[k].type = "renamed" =>
                     /\ topic'[k].name <= OldName(topic'[i])
                     /\ (\A l \in Index' : k < l /\ l < i => topic'[l].type # "renamed") => OldName(topic'[i]) = topic'[k].name
    <2>1. i + 1 \in Index /\ topic'[i] = topic[i + 1] /\ i \in Nat /\ 1 < i + 1
      BY <1>1
    <2>2. d <= OldName(topic'[i])
      BY <1>0, <1>4, <2>1 DEF ChainInv
    <2>3. ASSUME \A k \in Index' : k < i => topic'[k].type # "renamed" PROVE OldName(topic'[i]) = d
      <3>1. ASSUME NEW k \in Index, 1 < k, k < i + 1 PROVE topic[k].type # "renamed"
        <4>1. k - 1 \in Index' /\ topic'[k - 1] = topic[k] /\ k \in Nat
          BY <1>2, <3>1, NameNat
        <4>2. k - 1 < i
          BY <2>1, <3>1, <4>1
        <4> QED
          BY <2>3, <4>1, <4>2
      <3> QED
        BY <1>0, <1>4, <2>1, <3>1 DEF ChainInv
    <2>4. ASSUME NEW k \in Index', k < i, topic'[k].type = "renamed"
          PROVE  /\ topic'[k].name <= OldName(topic'[i])
                 /\ (\A l \in Index' : k < l /\ l < i => topic'[l].type # "renamed") => OldName(topic'[i]) = topic'[k].name
      <3>a. k + 1 \in Index /\ topic'[k] = topic[k + 1] /\ k \in Nat
        BY <1>1
      <3>b. k + 1 < i + 1
        BY <2>1, <2>4, <3>a
      <3>1. k + 1 \in Index /\ topic'[k] = topic[k + 1] /\ k \in Nat /\ k + 1 < i + 1
        BY <3>a, <3>b
      <3>2. ASSUME \A l \in Index' : k < l /\ l < i => topic'[l].type # "renamed", NEW l \in Index, k + 1 < l, l < i + 1
            PROVE  topic[l].type # "renamed"
        <4>1. l \in Nat /\ l # 1
          BY <3>1, <3>2, NameNat
        <4>2. l - 1 \in Index' /\ topic'[l - 1] = topic[l]
          BY <1>2, <4>1
        <4>3. k < l - 1 /\ l - 1 < i
          BY <2>1, <3>1, <3>2, <4>1
        <4> QED
          BY <3>2, <4>2, <4>3
      <3> QED
        BY <1>4, <2>1, <2>4, <3>1, <3>2 DEF ChainInv
    <2> QED
      BY <2>2, <2>3, <2>4
  <1> QED
    BY <1>1, <1>3, <1>4 DEF ChainInv, OldName

\* Nothing happens to LDAP and the topic.
LEMMA LdapSame ==
    ASSUME NEW c \in Nat, NEW v \in Nat, LdapAt(c, v), Steady, UNCHANGED <<ldap, topic, name>>,
           "ldapOld" \in stray => "ldapOld" \in stray', "ldap" \in handled' => "ldap" \in handled,
           \A M : Later(From("ldap"), M) => Later(From("ldap"), M)', SyncInv(v)'
    PROVE  LdapAt(c, v)'
  <1>0. ChainInv(c) /\ EntryInv(c, v) /\ MemberInv(v) /\ OnlyInv(c, v) /\ DroppedInv(v)
    BY DEF LdapAt
  <1>1. ChainInv(c)'
    BY <1>0, ChainSame
  <1>2. EntryInv(c, v)'
    BY <1>0 DEF EntryInv
  <1>3. MemberInv(v)'
    BY <1>0, TouchingSame DEF MemberInv, Steady
  <1>4. OnlyInv(c, v)'
    BY <1>0 DEF OnlyInv
  <1>5. DroppedInv(v)'
    BY <1>0, RenamesSame DEF DroppedInv, Steady
  <1> QED
    BY <1>1, <1>2, <1>3, <1>4, <1>5 DEF LdapAt

\* What was read is still there, or is gone.
LEMMA SyncSame ==
    ASSUME NEW v \in Nat, SyncInv(v), Steady, UNCHANGED topic, read'["ldap"] = read["ldap"] \/ ~read'["ldap"].done
    PROVE  SyncInv(v)'
  <1>1. CASE ~read'["ldap"].done
    BY <1>1 DEF SyncInv
  <1>2. CASE read'["ldap"] = read["ldap"]
    <2>1. /\ SchulenOf(read["ldap"].seen.rows, Uem)' = SchulenOf(read["ldap"].seen.rows, Uem)
          /\ \A x : Touching(x, read["ldap"].seen.name)' = Touching(x, read["ldap"].seen.name)
      BY <1>2 DEF SchulenOf, Touching, Touches, Joined, Unjustified
    <2>2. \A i : \A M : Later(i, M)' <=> Later(i, M)
      BY LaterSame
    <2>3. \A x : Later(1, Touching(x, read["ldap"].seen.name))' <=> Later(1, Touching(x, read["ldap"].seen.name))
      BY <2>1, <2>2
    <2> QED
      BY <1>2, <2>1, <2>3 DEF SyncInv, Steady
  <1> QED
    BY <1>1, <1>2

\* The contexts that a synchronisation of LDAP reads are due, or a later message corrects them.
LEMMA SyncRead ==
    ASSUME MirrorsTypeOK, CommonInv, Told("ldap"), Read("ldap"), NEW v \in Nat, v <= name
    PROVE  SyncInv(v)'
  <1>0. "ldap" \in System /\ TopicInv
    BY DEF System, CommonInv, Trusted, Told
  <1>1. /\ RestStep /\ Handling("ldap") /\ Reads("ldap", Head(topic)) /\ UNCHANGED topic
        /\ read' = [read EXCEPT !["ldap"] = [done |-> TRUE, seen |-> Present]]
    BY <1>0, ReadForm
  <1>2. read'["ldap"].seen.rows = rows /\ read'["ldap"].seen.name = name
    BY <1>0, <1>1, PresentFields DEF MirrorsTypeOK, Reading
  <1>3. /\ SchulenOf(read["ldap"].seen.rows, Uem)' = SchulenOf(rows, Uem)
        /\ \A x : Touching(x, read["ldap"].seen.name)' = Touching(x, name)
    BY <1>2 DEF SchulenOf, Touching, Touches, Joined, Unjustified
  <1>4. /\ SchulenOf(Due, Uem)' = SchulenOf(Due, Uem)
        /\ \A i : \A M : Later(i, M)' <=> Later(i, M)
    BY <1>1, RestMove, LaterSame DEF RestStep
  <1>5. \A x : Later(1, Touching(x, read["ldap"].seen.name))' <=> Later(1, Touching(x, name))
    BY <1>3, <1>4
  <1>6. ASSUME NEW x \in Schule, ~Later(1, Touching(x, name)) PROVE x \in SchulenOf(rows, Uem) <=> x \in SchulenOf(Due, Uem)
    <2>1. CASE ~Leaving
      BY <2>1 DEF Due
    <2>2. CASE Leaving
      <3>1. topic[1].type = "sync"
        BY <1>0, <1>1, HandlingFacts DEF Reads
      <3>2. Later(1, Removal)
        BY <1>0, <1>1, <2>2, <3>1, ReadLeaving
      <3>3. x \in SchulenOf(rows, Uem) => Removal \subseteq Touching(x, name)
        BY NameNat DEF Removal, Touching, Touches, Unjustified, SchulenOf
      <3>4. x \notin SchulenOf(rows, Uem)
        BY <1>6, <3>2, <3>3, LaterMore
      <3>5. x \notin SchulenOf(Due, Uem)
        BY <2>2 DEF Due, SchulenOf
      <3> QED
        BY <3>4, <3>5
    <2> QED
      BY <2>1, <2>2
  <1> QED
    BY <1>2, <1>3, <1>4, <1>5, <1>6 DEF SyncInv

\* What is published is ahead of the handler of LDAP.
LEMMA LdapAppend ==
    ASSUME MirrorsTypeOK, CommonInv, Told("ldap"), NEW c \in Nat, NEW v \in Nat, LdapAt(c, v), NEW m,
           TellsUpdate(m) \/ TellsRemoval(m) \/ TellsDeletion(m) \/ Asks(m)
    PROVE  LdapAt(c, v)'
  <1>0. /\ ChainInv(c) /\ EntryInv(c, v) /\ MemberInv(v) /\ SyncInv(v) /\ OnlyInv(c, v) /\ DroppedInv(v)
        /\ BoundInv /\ TopicInv
    BY DEF LdapAt, CommonInv, Told, Trusted, System
  <1>1. Appended(m) /\ m \in Message /\ UNCHANGED <<ldap, read, handled, stray>>
    BY DEF TellsUpdate, TellsRemoval, TellsDeletion, Asks, Appended, Unmoved
  <1>2. /\ Index' = Index \cup {Len(topic) + 1} /\ topic' # <<>>
        /\ \A i \in Index : topic'[i] = topic[i]
        /\ \A M : Later(From("ldap"), M)' <=> Later(From("ldap"), M) \/ m \in M
        /\ topic # <<>> => 1 \in Index /\ (\A M : Later(1, M)' <=> Later(1, M) \/ m \in M)
    <2>1. topic # <<>> => 1 \in Index
      BY LenNat, TopicHead
    <2> QED
      BY <1>1, <2>1, AppendedFacts, FromAppend DEF System
  <1>3. name \in Nat /\ name' \in Nat /\ name <= name' /\ c <= name /\ v <= name
    <2>1. name \in Nat
      BY NameNat
    <2>2. name' = name \/ name' = name + 1
      BY DEF TellsUpdate, TellsRemoval, TellsDeletion, Asks
    <2> QED
      BY <1>0, <2>1, <2>2 DEF EntryInv
  <1>4. ChainInv(c)'
    <2>1. (m.type \in NamedTypes => OldName(m) = name) /\ (m.type = "renamed" \/ name' = name)
      <3>1. CASE m.type = "renamed"
        <4>1. m.name = name + 1
          BY <3>1 DEF TellsUpdate, TellsRemoval, TellsDeletion, Asks
        <4> QED
          BY <1>3, <3>1, <4>1 DEF OldName
      <3>2. CASE m.type # "renamed"
        <4>1. name' = name /\ m.name = name
          BY <3>2 DEF TellsUpdate, TellsRemoval, TellsDeletion, Asks
        <4> QED
          BY <3>2, <4>1 DEF OldName
      <3> QED
        BY <3>1, <3>2
    <2> QED
      BY <1>0, <1>1, <1>3, <2>1, ChainAppend DEF TopicInv
  <1>5. "ldap" \in handled => topic # <<>>
    BY DEF MirrorsTypeOK
  <1>6. EntryInv(c, v)'
    BY <1>0, <1>1, <1>2, <1>3, <1>5 DEF EntryInv
  <1>7. OnlyInv(c, v)'
    BY <1>0, <1>1, <1>2 DEF OnlyInv
  <1>8. DroppedInv(v)'
    <2>1. Gone' => m \in OfType({"deleted"})
      <3>1. Gone' => m.type = "deleted"
        BY RestMove DEF TellsUpdate, TellsRemoval, TellsDeletion, Asks
      <3> QED
        BY <1>1, <3>1, OldTypes
    <2> QED
      BY <1>2, <2>1, RenamesSame DEF DroppedInv
  <1>9. ASSUME NEW x \in Schule, NEW n \in Nat, n <= name, m \notin Touching(x, n), ~Open(x)'
        PROVE  ~Open(x) /\ (x \in SchulenOf(Due, Uem)' <=> x \in SchulenOf(Due, Uem))
    <2>1. CASE TellsUpdate(m)
      <3>1. ~Touches(m, x)
        BY <1>1, <1>9, <2>1 DEF Touching, TellsUpdate
      <3> QED
        BY <2>1, <3>1 DEF TellsUpdate, SchulenOf
    <2>2. CASE TellsRemoval(m)
      <3>1. ~Touches(m, x)
        BY <1>1, <1>9, <2>2 DEF Touching, TellsRemoval
      <3>2. x \notin SchulenOf(rows, Uem)
        BY <2>2, <3>1 DEF TellsRemoval, Touches, Unjustified, SchulenOf
      <3> QED
        BY <2>2, <3>2 DEF TellsRemoval, SchulenOf
    <2>3. CASE TellsDeletion(m)
      BY <2>3 DEF TellsDeletion, SchulenOf
    <2>4. CASE Asks(m)
      BY <1>9, <2>4, RestMove DEF Asks
    <2> QED
      BY <2>1, <2>2, <2>3, <2>4
  <1>10. MemberInv(v)'
    <2> SUFFICES ASSUME NEW x \in Schule, ~Open(x)', ~Later(From("ldap"), Touching(x, v))'
                 PROVE  v \in ldap.members[x] <=> x \in SchulenOf(Due, Uem)'
      BY <1>1 DEF MemberInv
    <2>1. m \notin Touching(x, v) /\ ~Later(From("ldap"), Touching(x, v))
      BY <1>2, TouchingSame
    <2>2. ~Open(x) /\ (x \in SchulenOf(Due, Uem)' <=> x \in SchulenOf(Due, Uem))
      BY <1>3, <1>9, <2>1
    <2> QED
      BY <1>0, <2>1, <2>2 DEF MemberInv
  <1>11. SyncInv(v)'
    <2> DEFINE w == read["ldap"].seen.name
               T == SchulenOf(read["ldap"].seen.rows, Uem)
    <2>1. /\ SchulenOf(read["ldap"].seen.rows, Uem)' = T /\ read' = read
          /\ \A x : Touching(x, read["ldap"].seen.name)' = Touching(x, w)
      BY <1>1 DEF SchulenOf, Touching, Touches, Joined, Unjustified
    <2>2. read["ldap"].done => topic # <<>>
      BY DEF MirrorsTypeOK, System, Handling
    <2>3. w \in Nat /\ w <= name
      BY <1>0, NameNat DEF BoundInv, System
    <2>4. ASSUME read["ldap"].done PROVE \A x : Later(1, Touching(x, read["ldap"].seen.name))' <=> Later(1, Touching(x, w)) \/ m \in Touching(x, w)
      BY <1>2, <2>1, <2>2, <2>4
    <2>5. ASSUME read["ldap"].done, NEW x \in Schule, ~Open(x)', ~Later(1, Touching(x, w)), m \notin Touching(x, w)
          PROVE  x \in T <=> x \in SchulenOf(Due, Uem)'
      <3>1. ~Open(x) /\ (x \in SchulenOf(Due, Uem)' <=> x \in SchulenOf(Due, Uem))
        BY <1>9, <2>3, <2>5
      <3> QED
        BY <1>0, <2>5, <3>1 DEF SyncInv
    <2>6. read["ldap"].done => v <= w
      BY <1>0 DEF SyncInv
    <2> HIDE DEF T
    <2> QED
      BY <2>1, <2>4, <2>5, <2>6 DEF SyncInv
  <1> QED
    BY <1>4, <1>6, <1>7, <1>8, <1>10, <1>11 DEF LdapAt

\* A commit of a message without a new name keeps the entry.
LEMMA LdapCommitOther ==
    ASSUME MirrorsTypeOK, CommonInv, Told("ldap"), NEW c \in Nat, NEW v \in Nat, LdapAt(c, v), Commit, topic[1].type # "renamed"
    PROVE  LdapAt(c, v)'
  <1>0. /\ ChainInv(c) /\ EntryInv(c, v) /\ MemberInv(v) /\ OnlyInv(c, v) /\ DroppedInv(v)
        /\ "ldap" \in System /\ "ldap" \in watched
    BY DEF LdapAt, Told, System
  <1>1. /\ UNCHANGED <<ldap, name, stray>> /\ ~read'["ldap"].done /\ handled' = {}
        /\ Gone' = Gone /\ SchulenOf(Due, Uem)' = SchulenOf(Due, Uem) /\ \A x \in Schule : Open(x)' = Open(x)
    BY <1>0, CommitForm, CommitRest, RestMove DEF RestStep
  <1>2. topic[1] \in Message
    BY CommitForm, TopicHead
  <1>3. \A M : topic[1] \notin M => (Later(From("ldap"), M)' <=> Later(From("ldap"), M))
    BY <1>0, FromCommit
  <1>4. "ldap" \notin Interested(topic[1]) => topic[1].type = "locks"
    BY <1>2 DEF Interested, Message, System
  <1>5. ASSUME NEW x PROVE Later(From("ldap"), Touching(x, v))' <=> Later(From("ldap"), Touching(x, v))
    <2>1. "ldap" \notin Interested(topic[1]) => topic[1] \notin Touching(x, v)
      BY <1>4 DEF Touching, Touches
    <2> QED
      BY <1>0, <2>1, FromCommit, TouchingSame
  <1>6. Later(From("ldap"), OfType({"deleted"}))' <=> Later(From("ldap"), OfType({"deleted"}))
    <2>1. "ldap" \notin Interested(topic[1]) => topic[1] \notin OfType({"deleted"})
      BY <1>2, <1>4, OldTypes
    <2> QED
      BY <1>0, <2>1, FromCommit, RenamesSame
  <1>7. ChainInv(c)'
    BY <1>0, ChainCommit
  <1>8. EntryInv(c, v)'
    BY <1>0, <1>1 DEF EntryInv
  <1>9. MemberInv(v)'
    BY <1>0, <1>1, <1>5 DEF MemberInv
  <1>10. OnlyInv(c, v)'
    BY <1>0, <1>1 DEF OnlyInv
  <1>11. DroppedInv(v)'
    BY <1>0, <1>1, <1>6 DEF DroppedInv
  <1>12. SyncInv(v)'
    BY <1>1 DEF SyncInv
  <1> QED
    BY <1>7, <1>8, <1>9, <1>10, <1>11, <1>12 DEF LdapAt

\* After the commit of a change of the name the chain begins with the new one.
LEMMA LdapCommitRenamed ==
    ASSUME MirrorsTypeOK, CommonInv, Told("ldap"), NEW c \in Nat, NEW v \in Nat, LdapAt(c, v), Commit, topic[1].type = "renamed"
    PROVE  \E d, w \in Nat : LdapAt(d, w)'
  <1> DEFINE d == c + 1
             w == IF v = c THEN d ELSE v
  <1>0. /\ ChainInv(c) /\ EntryInv(c, v) /\ MemberInv(v) /\ OnlyInv(c, v) /\ DroppedInv(v)
        /\ "ldap" \in System /\ "ldap" \in watched /\ BoundInv /\ TopicInv
    BY DEF LdapAt, Told, System, CommonInv, Trusted
  <1>1. /\ UNCHANGED <<ldap, name, stray>> /\ ~read'["ldap"].done /\ handled' = {}
        /\ Gone' = Gone /\ SchulenOf(Due, Uem)' = SchulenOf(Due, Uem) /\ \A x \in Schule : Open(x)' = Open(x)
    BY <1>0, CommitForm, CommitRest, RestMove DEF RestStep
  <1>2. topic[1] \in Message /\ 1 \in Index /\ topic # <<>>
    BY CommitForm, TopicHead
  <1>3. topic[1].name = d
    <2>1. topic[1].name - 1 = c
      BY <1>0, <1>2, ChainHead DEF OldName, NamedTypes
    <2>2. topic[1].name \in Nat
      BY <1>2, NameNat
    <2> QED
      BY <2>1, <2>2
  <1>4. "ldap" \in handled
    <2>1. "ldap" \in Interested(topic[1])
      BY <1>2 DEF Interested, System
    <2> QED
      BY <1>0, <2>1, CommitForm
  <1>5. From("ldap") = 1 /\ \A M : Later(From("ldap"), M)' <=> Later(1, M)
    <2>1. From("ldap") = 1
      BY <1>4 DEF From
    <2> QED
      BY <1>0, <1>2, <1>4, <2>1, CommitForm, FromCommit
  <1>6. c \in ldap.entries => d \in ldap.entries
    BY <1>0, <1>2, <1>4 DEF EntryInv
  <1>7. d <= name /\ name \in Nat
    BY <1>0, <1>2, <1>3, NameNat DEF BoundInv
  <1>8. /\ d \in Nat /\ w \in Nat /\ d <= w /\ w <= name /\ v <= w
        /\ w = d \/ (w = v /\ v # c /\ v \in ldap.entries)
    BY <1>0, <1>7 DEF EntryInv
  <1>9. ldap.entries \subseteq Nat /\ \A x \in Schule : ldap.members[x] \subseteq Nat
    BY NameNat
  <1>10. ASSUME v = c
         PROVE  /\ c \notin ldap.entries /\ d \notin ldap.entries
                /\ \A x \in Schule : c \notin ldap.members[x] /\ d \notin ldap.members[x]
    <2>1. d \notin ldap.entries
      BY <1>0, <1>10 DEF EntryInv
    <2>2. c \notin ldap.entries
      BY <1>6, <2>1
    <2> QED
      BY <1>0, <2>1, <2>2 DEF EntryInv
  <1>11. ChainInv(d)'
    BY <1>0, <1>3, <1>8, ChainCommitRenamed DEF TopicInv
  <1>12. EntryInv(d, w)'
    <2>1. \A n \in ldap.entries : n <= w
      BY <1>0, <1>8, <1>9 DEF EntryInv
    <2>2. ASSUME NEW x \in Schule, NEW n \in ldap.members[x], n >= d PROVE n \in ldap.entries
      BY <1>0, <1>9, <2>2 DEF EntryInv
    <2> HIDE DEF d, w
    <2> QED
      BY <1>1, <1>8, <2>1, <2>2 DEF EntryInv
  <1>13. MemberInv(w)'
    <2> SUFFICES ASSUME NEW x \in Schule, ~Open(x), ~Later(1, Touching(x, w))
                 PROVE  w \in ldap.members[x] <=> x \in SchulenOf(Due, Uem)
      BY <1>1, <1>5, TouchingSame DEF MemberInv
    <2>1. CASE v # c
      BY <1>0, <1>5, <2>1 DEF MemberInv
    <2>2. CASE v = c
      <3>1. ~Later(1, Touching(x, c))
        BY <1>0, <1>2, <1>3, <2>2, ChainTouchNext
      <3>2. c \in ldap.members[x] <=> x \in SchulenOf(Due, Uem)
        BY <1>0, <1>5, <2>2, <3>1 DEF MemberInv
      <3> QED
        BY <1>10, <2>2, <3>2
    <2> QED
      BY <2>1, <2>2
  <1>14. OnlyInv(d, w)'
    <2> SUFFICES ASSUME "ldapOld" \notin stray
                 PROVE  /\ \A n \in ldap.entries : n = w
                        /\ \A x \in Schule : \A n \in ldap.members[x] : n = w
                        /\ w = d
      BY <1>1 DEF OnlyInv
    <2>1. /\ \A n \in ldap.entries : n = v
          /\ \A x \in Schule : \A n \in ldap.members[x] : n = v
          /\ v = c \/ v = d
      BY <1>0 DEF OnlyInv
    <2>2. CASE v = c
      BY <1>10, <2>1, <2>2
    <2>3. CASE v # c
      BY <2>1, <2>3
    <2> QED
      BY <2>2, <2>3
  <1>15. DroppedInv(w)'
    <2>1. Gone /\ ~Later(1, OfType({"deleted"})) => v \notin ldap.entries
      BY <1>0, <1>5 DEF DroppedInv
    <2>2. Gone /\ ~Later(1, OfType({"deleted"})) => w \notin ldap.entries
      BY <1>10, <2>1
    <2> QED
      BY <1>1, <1>5, <2>2, RenamesSame DEF DroppedInv
  <1>16. SyncInv(w)'
    BY <1>1 DEF SyncInv
  <1> HIDE DEF d, w
  <1>17. LdapAt(d, w)'
    BY <1>11, <1>12, <1>13, <1>14, <1>15, <1>16 DEF LdapAt
  <1> QED
    BY <1>8, <1>17

\* What the handler of LDAP finds when it was told of everything.
LEMMA LdapNow ==
    ASSUME MirrorsTypeOK, CommonInv, "ldap" \notin stray, NEW c \in Nat, NEW v \in Nat, LdapAt(c, v), Handle("ldap")
    PROVE  /\ ChainInv(c) /\ EntryInv(c, v) /\ MemberInv(v) /\ SyncInv(v) /\ OnlyInv(c, v) /\ DroppedInv(v)
           /\ BoundInv /\ TopicInv /\ RequestInv
           /\ "ldap" \in System /\ "ldap" \in watched /\ "ldap" \in handled'
           /\ RestStep /\ UNCHANGED topic /\ topic # <<>> /\ 1 \in Index /\ topic[1] \in Message
           /\ topic[1].type \in {"updated", "renamed", "sync", "deleted", "deadline"}
           /\ topic[1].type \in NamedTypes => OldName(topic[1]) = c
           /\ read["ldap"].seen \in Snapshot /\ (topic[1].type = "sync" => read["ldap"].done)
           /\ ldap \in LdapSet /\ ldap' = LdapAfter(ldap, topic[1], read["ldap"].seen)
           /\ ~read'["ldap"].done /\ stray' = Settled("ldap")
           /\ Gone' = Gone /\ SchulenOf(Due, Uem)' = SchulenOf(Due, Uem) /\ \A x \in Schule : Open(x)' = Open(x)
           /\ \A M : Later(From("ldap"), M)' <=> Later(1, M)
           /\ \A M : Later(From("ldap"), M) <=> topic[1] \in M \/ Later(1, M)
           /\ ChainInv(c)' /\ SyncInv(v)'
  <1>0. /\ ChainInv(c) /\ EntryInv(c, v) /\ MemberInv(v) /\ SyncInv(v) /\ OnlyInv(c, v) /\ DroppedInv(v)
        /\ BoundInv /\ TopicInv /\ RequestInv /\ "ldap" \in System
    BY DEF LdapAt, System, CommonInv, Trusted
  <1>1. Settle("ldap") /\ RestStep /\ Handling("ldap") /\ UNCHANGED topic
    BY <1>0, SettleRest DEF Settle
  <1>2. /\ topic # <<>> /\ topic[1] \in Message /\ Head(topic) = topic[1] /\ "ldap" \in watched
        /\ read["ldap"].seen \in Snapshot /\ ldap \in LdapSet
        /\ "ldap" \in Interested(topic[1])
    BY <1>0, <1>1, HandlingFacts
  <1>3. topic[1].type \in {"updated", "renamed", "sync", "deleted", "deadline"}
    BY <1>2 DEF Interested, Message
  <1>4. 1 \in Index
    BY <1>2, LenNat, TopicHead
  <1>5. topic[1].type = "sync" => read["ldap"].done
    BY <1>2, HandleForm DEF Reads, System
  <1>6. ldap' = LdapAfter(ldap, topic[1], read["ldap"].seen) /\ stray' = Settled("ldap")
    BY <1>0, <1>2, HandleForm
  <1>7. ~read'["ldap"].done /\ "ldap" \in handled'
    BY <1>0, <1>1, SettledReads
  <1>8. Gone' = Gone /\ SchulenOf(Due, Uem)' = SchulenOf(Due, Uem) /\ \A x \in Schule : Open(x)' = Open(x)
    BY <1>1, RestMove DEF RestStep
  <1>9. /\ \A M : Later(From("ldap"), M)' <=> Later(1, M)
        /\ \A M : Later(From("ldap"), M) <=> topic[1] \in M \/ Later(1, M)
    BY <1>0, <1>1, FromSettle
  <1>10. ChainInv(c)'
    BY <1>0, <1>1, ChainSame DEF RestStep
  <1>11. SyncInv(v)'
    BY <1>7 DEF SyncInv
  <1>12. topic[1].type \in NamedTypes => OldName(topic[1]) = c
    BY <1>0, <1>2, ChainHead
  <1> QED
    BY <1>0, <1>1, <1>2, <1>3, <1>4, <1>5, <1>6, <1>7, <1>8, <1>9, <1>10, <1>11, <1>12

\* The last of the messages is another one than the first.
LEMMA MoreThanOne == ASSUME NEW n \in Nat, 1 \in 1..n, n # 1 PROVE n > 1
  OBVIOUS

\* A message that is not the deletion is not the last one of a person that goes.
LEMMA NotDropped ==
    ASSUME MirrorsTypeOK, TopicInv, topic # <<>>, topic[1].type # "deleted"
    PROVE  Gone => Later(1, OfType({"deleted"}))
  <1> SUFFICES ASSUME Gone PROVE Later(1, OfType({"deleted"}))
    OBVIOUS
  <1>1. topic[Len(topic)].type = "deleted"
    BY DEF TopicInv, EndInv
  <1>2. Len(topic) \in Nat /\ Len(topic) \in Index /\ 1 \in Index
    BY LenNat, TopicHead DEF Index
  <1>3. topic[Len(topic)] \in OfType({"deleted"})
    BY <1>1, <1>2, NameNat, OldTypes
  <1>4. Len(topic) > 1
    <2>1. Len(topic) # 1
      BY <1>1
    <2>2. 1 \in 1..Len(topic)
      BY <1>2 DEF Index
    <2> QED
      BY <1>2, <2>1, <2>2, MoreThanOne
  <1> QED
    BY <1>2, <1>3, <1>4 DEF Later

\* After a deletion no school is left.
LEMMA EndedFacts ==
    ASSUME Serially, RequestInv, Ended
    PROVE  Due = {} /\ \A x : ~Open(x)
  <1>1. Due = {}
    BY DEF Ended, Due, RequestInv, Leaving
  <1>2. \A j \in Job : job[j].at \notin WriteSteps
    <2>1. CASE person \in {"deleted", "expired"}
      BY <2>1 DEF RequestInv, KnowInv
    <2>2. CASE \E j \in Job : job[j].at = "drop"
      BY <2>2 DEF Serially, WriteSteps
    <2> QED
      BY <2>1, <2>2 DEF Ended
  <1> QED
    BY <1>1, <1>2 DEF Open, Opens

\* An update joins and leaves groups of the schools that it touches.
LEMMA LdapHandlesUpdated ==
    ASSUME TypeOK, MirrorsTypeOK, CommonInv, "ldap" \notin stray, NEW c \in Nat, NEW v \in Nat, LdapAt(c, v), Handle("ldap"),
           topic[1].type = "updated"
    PROVE  LdapAt(c, v)'
  <1> DEFINE e == topic[1]
  <1>1. /\ ChainInv(c) /\ EntryInv(c, v) /\ MemberInv(v) /\ OnlyInv(c, v)
        /\ BoundInv /\ TopicInv /\ RestStep /\ UNCHANGED topic /\ topic # <<>> /\ 1 \in Index /\ e \in Message
        /\ ldap \in LdapSet /\ ldap' = LdapAfter(ldap, e, read["ldap"].seen)
        /\ stray' = Settled("ldap")
        /\ Gone' = Gone /\ SchulenOf(Due, Uem)' = SchulenOf(Due, Uem) /\ \A x \in Schule : Open(x)' = Open(x)
        /\ \A M : Later(From("ldap"), M)' <=> Later(1, M)
        /\ \A M : Later(From("ldap"), M) <=> e \in M \/ Later(1, M)
        /\ ChainInv(c)' /\ SyncInv(v)'
    BY LdapNow
  <1>2. e.name = c
    BY LdapNow DEF OldName, NamedTypes
  <1>3. /\ \A k : k \in ldap'.entries <=> k \in ldap.entries \/ (k = c /\ Joined(e) # {})
        /\ \A x \in Schule : \A k : k \in ldap'.members[x] <=>
             (x \in Joined(e) /\ k = c) \/ (k \in ldap.members[x] /\ ~(x \in Unjustified(e) /\ k = c))
    <2>1. ldap' = LdapUpdated(ldap, e)
      BY <1>1 DEF LdapAfter
    <2>2. /\ \A k : k \in ldap'.entries <=> k \in ldap.entries \/ (k = e.name /\ Joined(e) # {})
          /\ \A x \in Schule : \A k : k \in ldap'.members[x] <=>
               (x \in Joined(e) /\ k = e.name) \/ (k \in ldap.members[x] /\ ~(x \in Unjustified(e) /\ k = e.name))
      BY <1>1, <2>1, UpdatedFields
    <2> HIDE DEF e
    <2> QED
      BY <1>2, <2>2
  <1>4. ldap.entries \subseteq Nat /\ name' = name /\ \A x \in Schule : ldap.members[x] \subseteq Nat
    BY <1>1, NameNat DEF RestStep
  <1>5. EntryInv(c, v)'
    <2>1. c <= v /\ v <= name /\ (v = c \/ v \in ldap'.entries)
      BY <1>1, <1>3 DEF EntryInv
    <2>2. \A n \in ldap'.entries : n <= v
      BY <1>1, <1>3 DEF EntryInv
    <2>3. ASSUME NEW x \in Schule, NEW n \in ldap'.members[x], n >= c PROVE n \in ldap'.entries
      <3>1. CASE x \in Joined(e) /\ n = c
        BY <1>3, <3>1
      <3>2. CASE n \in ldap.members[x]
        BY <1>1, <1>3, <2>3, <3>2 DEF EntryInv
      <3> QED
        BY <1>3, <2>3, <3>1, <3>2
    <2> QED
      BY <1>1, <1>4, <2>1, <2>2, <2>3 DEF EntryInv
  <1>6. MemberInv(v)'
    <2> SUFFICES ASSUME NEW x \in Schule, ~Open(x), ~Later(1, Touching(x, v))
                 PROVE  v \in ldap'.members[x] <=> x \in SchulenOf(Due, Uem)
      BY <1>1, TouchingSame DEF MemberInv
    <2>1. CASE e \notin Touching(x, v)
      <3>1. v \in ldap.members[x] <=> x \in SchulenOf(Due, Uem)
        BY <1>1, <2>1 DEF MemberInv
      <3>2. v # c \/ ~Touches(e, x)
        BY <1>1, <1>2, <2>1 DEF Touching
      <3>3. v # c \/ (x \notin Joined(e) /\ x \notin Unjustified(e))
        BY <3>2 DEF Touches
      <3> QED
        BY <1>3, <3>1, <3>3
    <2>2. CASE e \in Touching(x, v)
      <3>1. v = c /\ Touches(e, x)
        BY <1>1, <1>2, <2>2 DEF Touching, EntryInv
      <3>2. ~Later(1, Touching(x, 0))
        BY <1>1, <3>1, ChainTouch
      <3>3. x \in Joined(e) <=> x \in SchulenOf(Due, Uem)
        BY <1>1, <3>1, <3>2 DEF TopicInv, TouchInv
      <3>4. x \in Joined(e) \/ x \in Unjustified(e)
        BY <3>1 DEF Touches
      <3> QED
        BY <1>3, <3>1, <3>3, <3>4
    <2> QED
      BY <2>1, <2>2
  <1>7. OnlyInv(c, v)'
    <2> SUFFICES ASSUME "ldapOld" \notin stray'
                 PROVE  (\A n \in ldap'.entries : n = v) /\ (\A x \in Schule : \A n \in ldap'.members[x] : n = v) /\ v = c
      BY DEF OnlyInv
    <2>1. "ldapOld" \notin stray
      BY <1>1 DEF Settled
    <2>2. v = c /\ (\A n \in ldap.entries : n = v) /\ \A x \in Schule : \A n \in ldap.members[x] : n = v
      BY <1>1, <2>1 DEF OnlyInv
    <2> QED
      BY <1>3, <2>2
  <1>8. DroppedInv(v)'
    <2>1. Gone => Later(1, OfType({"deleted"}))
      BY <1>1, NotDropped
    <2> QED
      BY <1>1, <2>1, RenamesSame DEF DroppedInv
  <1> QED
    BY <1>1, <1>5, <1>6, <1>7, <1>8 DEF LdapAt

\* Nothing is to be done.
LEMMA LdapHandlesNothing ==
    ASSUME TypeOK, MirrorsTypeOK, CommonInv, "ldap" \notin stray, NEW c \in Nat, NEW v \in Nat, LdapAt(c, v), Handle("ldap"),
           ldap' = ldap, topic[1].type \in {"renamed", "sync"},
           topic[1].type = "renamed" => c \notin ldap.entries \/ c + 1 \in ldap.entries
    PROVE  LdapAt(c, v)'
  <1> DEFINE e == topic[1]
  <1>1. /\ ChainInv(c) /\ EntryInv(c, v) /\ MemberInv(v) /\ OnlyInv(c, v)
        /\ BoundInv /\ TopicInv /\ RestStep /\ UNCHANGED topic /\ topic # <<>> /\ 1 \in Index /\ e \in Message
        /\ stray' = Settled("ldap")
        /\ Gone' = Gone /\ SchulenOf(Due, Uem)' = SchulenOf(Due, Uem) /\ \A x \in Schule : Open(x)' = Open(x)
        /\ \A M : Later(From("ldap"), M)' <=> Later(1, M)
        /\ \A M : Later(From("ldap"), M) <=> e \in M \/ Later(1, M)
        /\ ChainInv(c)' /\ SyncInv(v)'
    BY LdapNow
  <1>2. EntryInv(c, v)'
    BY <1>1 DEF EntryInv, RestStep
  <1>3. MemberInv(v)'
    <2>1. \A x : e \notin Touching(x, v)
      BY DEF Touching, Touches
    <2> QED
      BY <1>1, <2>1, TouchingSame DEF MemberInv
  <1>4. OnlyInv(c, v)'
    <2>1. "ldapOld" \in stray => "ldapOld" \in stray'
      BY <1>1 DEF Settled
    <2> QED
      BY <1>1, <2>1 DEF OnlyInv
  <1>5. DroppedInv(v)'
    <2>1. Gone => Later(1, OfType({"deleted"}))
      BY <1>1, NotDropped
    <2> QED
      BY <1>1, <2>1, RenamesSame DEF DroppedInv
  <1> QED
    BY <1>1, <1>2, <1>3, <1>4, <1>5 DEF LdapAt

\* The entry and its memberships get the new name, unless a synchronisation has made it already.
LEMMA LdapHandlesRenamed ==
    ASSUME TypeOK, MirrorsTypeOK, CommonInv, "ldap" \notin stray, NEW c \in Nat, NEW v \in Nat, LdapAt(c, v), Handle("ldap"),
           topic[1].type = "renamed"
    PROVE  \E w \in Nat : LdapAt(c, w)'
  <1> DEFINE e == topic[1]
             d == c + 1
             w == IF v = c THEN d ELSE v
  <1>1. /\ ChainInv(c) /\ EntryInv(c, v) /\ MemberInv(v) /\ OnlyInv(c, v)
        /\ BoundInv /\ TopicInv /\ RestStep /\ UNCHANGED topic /\ topic # <<>> /\ 1 \in Index /\ e \in Message
        /\ ldap \in LdapSet /\ ldap' = LdapAfter(ldap, e, read["ldap"].seen)
        /\ stray' = Settled("ldap") /\ ~read'["ldap"].done
        /\ Gone' = Gone /\ SchulenOf(Due, Uem)' = SchulenOf(Due, Uem) /\ \A x \in Schule : Open(x)' = Open(x)
        /\ \A M : Later(From("ldap"), M)' <=> Later(1, M)
        /\ \A M : Later(From("ldap"), M) <=> e \in M \/ Later(1, M)
        /\ ChainInv(c)'
    BY LdapNow
  <1>2. e.name = d /\ e.name - 1 = c /\ ldap' = LdapRenamed(ldap, e)
    <2>1. e.name - 1 = c
      BY LdapNow DEF OldName, NamedTypes
    <2>2. e.name \in Nat
      BY <1>1, NameNat
    <2> QED
      BY <1>1, <2>1, <2>2 DEF LdapAfter
  <1>3. CASE c \notin ldap.entries \/ d \in ldap.entries
    <2>1. ldap' = ldap
      BY <1>1, <1>2, <1>3, RenamedFields
    <2>2. LdapAt(c, v)'
      BY <1>3, <2>1, LdapHandlesNothing
    <2> QED
      BY <2>2
  <1>4. CASE c \in ldap.entries /\ d \notin ldap.entries
    <2>0. d # c /\ d \in Nat /\ name' = name
      BY <1>1 DEF RestStep
    <2>1. /\ \A k : k \in ldap'.entries <=> k = d \/ (k \in ldap.entries /\ k # c)
          /\ \A x \in Schule : \A k : k \in ldap'.members[x] <=> (k = d /\ c \in ldap.members[x]) \/ (k \in ldap.members[x] /\ k # c)
      BY <1>1, <1>2, <1>4, RenamedFields
    <2>2. d <= name /\ name \in Nat /\ ldap.entries \subseteq Nat /\ \A x \in Schule : ldap.members[x] \subseteq Nat
      BY <1>1, <1>2, NameNat DEF BoundInv
    <2>3. w \in Nat /\ c <= w /\ d <= w /\ v <= w /\ w <= name /\ (w = d \/ (w = v /\ v # c /\ v # d /\ v \in ldap.entries))
      BY <1>1, <1>4, <2>0, <2>2 DEF EntryInv
    <2>4. \A x \in Schule : d \notin ldap.members[x]
      BY <1>1, <1>4, <2>0 DEF EntryInv
    <2>5. EntryInv(c, w)'
      <3>1. w = c \/ w \in ldap'.entries
        BY <2>1, <2>3
      <3>2. \A n \in ldap'.entries : n <= w
        BY <1>1, <2>1, <2>2, <2>3 DEF EntryInv
      <3>3. ASSUME NEW x \in Schule, NEW n \in ldap'.members[x], n >= c PROVE n \in ldap'.entries
        <4>1. CASE n = d
          BY <2>1, <4>1
        <4>2. CASE n \in ldap.members[x] /\ n # c
          BY <1>1, <2>1, <3>3, <4>2 DEF EntryInv
        <4> QED
          BY <2>1, <4>1, <4>2
      <3>4. c \notin ldap'.entries
        BY <2>0, <2>1
      <3> HIDE DEF w
      <3> QED
        BY <2>0, <2>3, <3>1, <3>2, <3>3, <3>4 DEF EntryInv
    <2>6. MemberInv(w)'
      <3> SUFFICES ASSUME NEW x \in Schule, ~Open(x), ~Later(1, Touching(x, w))
                   PROVE  w \in ldap'.members[x] <=> x \in SchulenOf(Due, Uem)
        BY <1>1, TouchingSame DEF MemberInv
      <3>1. \A n : e \notin Touching(x, n)
        BY DEF Touching, Touches
      <3>2. CASE v = c
        <4>1. ~Later(1, Touching(x, c))
          BY <1>1, <1>2, <3>2, ChainTouchNext
        <4>2. c \in ldap.members[x] <=> x \in SchulenOf(Due, Uem)
          BY <1>1, <3>1, <3>2, <4>1 DEF MemberInv
        <4> QED
          BY <2>0, <2>1, <2>4, <3>2, <4>2
      <3>3. CASE v # c
        <4>0. w = v /\ v # d
          BY <1>1, <1>4, <2>3, <3>3 DEF EntryInv
        <4>1. v \in ldap.members[x] <=> x \in SchulenOf(Due, Uem)
          BY <1>1, <3>1, <3>3, <4>0 DEF MemberInv
        <4> HIDE DEF w, d
        <4> QED
          BY <2>1, <3>3, <4>0, <4>1
      <3> QED
        BY <3>2, <3>3
    <2>7. OnlyInv(c, w)'
      <3> SUFFICES ASSUME "ldapOld" \notin stray'
                   PROVE  /\ \A n \in ldap'.entries : n = w
                          /\ \A x \in Schule : \A n \in ldap'.members[x] : n = w
                          /\ w = d
        BY <1>1 DEF OnlyInv
      <3>1. "ldapOld" \notin stray
        BY <1>1 DEF Settled
      <3>2. (\A n \in ldap.entries : n = v) /\ \A x \in Schule : \A n \in ldap.members[x] : n = v
        BY <1>1, <3>1 DEF OnlyInv
      <3>3. v = c /\ w = d
        BY <1>4, <3>2
      <3> QED
        BY <2>1, <3>2, <3>3
    <2>8. DroppedInv(w)'
      <3>1. Gone => Later(1, OfType({"deleted"}))
        BY <1>1, NotDropped
      <3> QED
        BY <1>1, <3>1, RenamesSame DEF DroppedInv
    <2>9. SyncInv(w)'
      BY <1>1 DEF SyncInv
    <2> HIDE DEF w
    <2>10. LdapAt(c, w)'
      BY <1>1, <2>5, <2>6, <2>7, <2>8, <2>9 DEF LdapAt
    <2> QED
      BY <2>3, <2>10
  <1> QED
    BY <1>3, <1>4

\* A synchronisation makes the entry of the name that it has read.
LEMMA LdapHandlesSync ==
    ASSUME TypeOK, MirrorsTypeOK, CommonInv, "ldap" \notin stray, NEW c \in Nat, NEW v \in Nat, LdapAt(c, v), Handle("ldap"),
           topic[1].type = "sync"
    PROVE  \E w \in Nat : LdapAt(c, w)'
  <1> DEFINE e == topic[1]
             seen == read["ldap"].seen
             S == SchulenOf(seen.rows, Uem)
  <1>1. /\ ChainInv(c) /\ EntryInv(c, v) /\ MemberInv(v) /\ OnlyInv(c, v) /\ SyncInv(v)
        /\ BoundInv /\ TopicInv /\ RestStep /\ UNCHANGED topic /\ topic # <<>> /\ 1 \in Index /\ e \in Message
        /\ seen \in Snapshot /\ read["ldap"].done
        /\ ldap \in LdapSet /\ ldap' = LdapAfter(ldap, e, seen)
        /\ stray' = Settled("ldap") /\ ~read'["ldap"].done
        /\ Gone' = Gone /\ SchulenOf(Due, Uem)' = SchulenOf(Due, Uem) /\ \A x \in Schule : Open(x)' = Open(x)
        /\ \A M : Later(From("ldap"), M)' <=> Later(1, M)
        /\ \A M : Later(From("ldap"), M) <=> e \in M \/ Later(1, M)
        /\ ChainInv(c)'
    BY LdapNow
  <1>2. ldap' = LdapSynced(ldap, seen)
    BY <1>1 DEF LdapAfter
  <1>3. CASE Unsynced(ldap, seen)
    <2>1. ldap' = ldap
      BY <1>1, <1>2, <1>3, SyncedFields
    <2>2. LdapAt(c, v)'
      BY <2>1, LdapHandlesNothing
    <2> QED
      BY <2>2
  <1>4. CASE ~Unsynced(ldap, seen)
    <2>a. seen.name \in Nat
      BY NameNat DEF System
    <2>0. PICK w \in Nat : w = seen.name
      BY <2>a
    <2>1. /\ \A k : k \in ldap'.entries <=> k \in ldap.entries \/ k = w
          /\ \A x \in Schule : \A k : k \in ldap'.members[x] <=> (x \in S /\ k = w) \/ (k \in ldap.members[x] /\ k # w)
      BY <1>1, <1>2, <1>4, <2>0, SyncedFields
    <2>2. v <= w /\ w <= name /\ name \in Nat /\ name' = name /\ c <= v
      BY <1>1, <2>0, NameNat DEF SyncInv, BoundInv, EntryInv, RestStep, System
    <2>3. ldap.entries \subseteq Nat /\ \A x \in Schule : ldap.members[x] \subseteq Nat
      BY NameNat
    <2>4. \A x \in Schule : ~Open(x) /\ ~Later(1, Touching(x, w)) => (x \in S <=> x \in SchulenOf(Due, Uem))
      BY <1>1, <2>0 DEF SyncInv
    <2> HIDE DEF S, seen
    <2>5. EntryInv(c, w)'
      <3>1. w = c \/ w \in ldap'.entries
        BY <2>1
      <3>2. \A n \in ldap'.entries : n <= w
        BY <1>1, <2>1, <2>2, <2>3 DEF EntryInv
      <3>3. ASSUME NEW x \in Schule, NEW n \in ldap'.members[x], n >= c PROVE n \in ldap'.entries
        <4>1. CASE n = w
          BY <2>1, <4>1
        <4>2. CASE n \in ldap.members[x]
          BY <1>1, <2>1, <3>3, <4>2 DEF EntryInv
        <4> QED
          BY <2>1, <4>1, <4>2
      <3>4. topic'[1].type # "renamed" /\ c <= w
        BY <1>1, <2>2
      <3> QED
        BY <2>2, <3>1, <3>2, <3>3, <3>4 DEF EntryInv
    <2>6. MemberInv(w)'
      BY <1>1, <2>1, <2>4, TouchingSame DEF MemberInv
    <2>7. OnlyInv(c, w)'
      <3> SUFFICES ASSUME "ldapOld" \notin stray'
                   PROVE  /\ \A n \in ldap'.entries : n = w
                          /\ \A x \in Schule : \A n \in ldap'.members[x] : n = w
                          /\ w = c
        BY <1>1 DEF OnlyInv
      <3>1. "ldapOld" \notin stray
        BY <1>1 DEF Settled
      <3>2. ~Later(0, Renames)
        <4>1. Head(topic) = e /\ Len(topic) \in Nat
          BY <1>1, LenNat, TopicHead
        <4>2. ASSUME NEW i \in Index, topic[i].type = "renamed" PROVE FALSE
          <5>1. i \in 2..Len(topic) /\ Len(topic) # 1
            BY <4>1, <4>2, NameNat
          <5>2. ~Repairs("ldap") /\ Overtakes("ldap")
            BY <4>1, <4>2, <5>1 DEF Repairs, Overtakes
          <5> QED
            BY <1>1, <5>2 DEF Settled
        <4> QED
          BY <4>2 DEF Later, Renames, OfType
      <3>3. c = name
        BY <1>1, <3>2 DEF ChainInv
      <3>4. v = c /\ w = c
        BY <2>2, <3>3
      <3>5. (\A n \in ldap.entries : n = v) /\ \A x \in Schule : \A n \in ldap.members[x] : n = v
        BY <1>1, <3>1 DEF OnlyInv
      <3> QED
        BY <2>1, <3>4, <3>5
    <2>8. DroppedInv(w)'
      <3>1. Gone => Later(1, OfType({"deleted"}))
        BY <1>1, NotDropped
      <3> QED
        BY <1>1, <3>1, RenamesSame DEF DroppedInv
    <2>9. SyncInv(w)'
      BY <1>1 DEF SyncInv
    <2>10. LdapAt(c, w)'
      BY <1>1, <2>5, <2>6, <2>7, <2>8, <2>9 DEF LdapAt
    <2> QED
      BY <2>10
  <1> QED
    BY <1>3, <1>4

\* A deletion comes last, when the entry has no memberships any more.
LEMMA LdapHandlesDeletion ==
    ASSUME TypeOK, MirrorsTypeOK, Serially, CommonInv, "ldap" \notin stray, NEW c \in Nat, NEW v \in Nat, LdapAt(c, v), Handle("ldap"),
           topic[1].type \in {"deleted", "deadline"}
    PROVE  LdapAt(c, v)'
  <1> DEFINE e == topic[1]
  <1>1. /\ ChainInv(c) /\ EntryInv(c, v) /\ MemberInv(v) /\ OnlyInv(c, v)
        /\ BoundInv /\ TopicInv /\ RequestInv /\ RestStep /\ UNCHANGED topic /\ topic # <<>> /\ 1 \in Index /\ e \in Message
        /\ ldap \in LdapSet /\ ldap' = LdapAfter(ldap, e, read["ldap"].seen)
        /\ stray' = Settled("ldap")
        /\ Gone' = Gone /\ SchulenOf(Due, Uem)' = SchulenOf(Due, Uem) /\ \A x \in Schule : Open(x)' = Open(x)
        /\ \A M : Later(From("ldap"), M)' <=> Later(1, M)
        /\ \A M : Later(From("ldap"), M) <=> e \in M \/ Later(1, M)
        /\ ChainInv(c)' /\ SyncInv(v)'
    BY LdapNow
  <1>2. e.name = c
    BY LdapNow DEF OldName, NamedTypes
  <1>3. ldap'.entries = ldap.entries \ {c} /\ ldap'.members = ldap.members
    <2>1. ldap' = [ldap EXCEPT !.entries = @ \ {c}]
      BY <1>1, <1>2 DEF LdapAfter
    <2> QED
      BY <1>1, <2>1, DeletedFields
  <1>4. Len(topic) = 1 /\ Ended
    BY <1>1 DEF TopicInv, EndInv
  <1>5. \A M : ~Later(1, M)
    <2>1. \A k \in Index : ~(k > 1)
      BY <1>4 DEF Index
    <2> QED
      BY <2>1 DEF Later
  <1>6. c = name
    <2>1. ~Later(0, Renames)
      BY <1>1, <1>5, LaterHere, OldTypes
    <2> QED
      BY <1>1, <2>1 DEF ChainInv
  <1>7. v = c /\ name \in Nat /\ name' = name
    BY <1>1, <1>6, NameNat DEF EntryInv, RestStep
  <1>8. Due = {} /\ \A x \in Schule : ~Open(x)
    BY <1>1, <1>4, EndedFacts
  <1>9. \A x \in Schule : x \notin SchulenOf(Due, Uem)
    BY <1>8 DEF SchulenOf
  <1>10. \A x \in Schule : v \notin ldap.members[x]
    <2>1. \A x : e \notin Touching(x, v)
      BY DEF Touching, Touches
    <2> QED
      BY <1>1, <1>5, <1>8, <1>9, <2>1 DEF MemberInv
  <1>11. EntryInv(c, v)'
    <2>1. ldap.entries \subseteq Nat /\ \A x \in Schule : ldap.members[x] \subseteq Nat
      BY NameNat
    <2>2. \A x \in Schule : \A n \in ldap.members[x] : n >= c => n = c
      BY <1>1, <1>6, <2>1 DEF BoundInv
    <2>3. \A x \in Schule : \A n \in ldap.members[x] : ~(n >= c)
      BY <1>7, <1>10, <2>2
    <2> QED
      BY <1>1, <1>3, <1>7, <2>3 DEF EntryInv
  <1>12. MemberInv(v)'
    BY <1>1, <1>3, <1>9, <1>10 DEF MemberInv
  <1>13. OnlyInv(c, v)'
    <2>1. "ldapOld" \in stray => "ldapOld" \in stray'
      BY <1>1 DEF Settled
    <2> QED
      BY <1>1, <1>3, <1>7, <2>1 DEF OnlyInv
  <1>14. DroppedInv(v)'
    BY <1>3, <1>7 DEF DroppedInv
  <1> QED
    BY <1>1, <1>11, <1>12, <1>13, <1>14 DEF LdapAt

\* A synchronisation that sees everything repairs LDAP.
LEMMA LdapRepaired ==
    ASSUME TypeOK, MirrorsTypeOK, CommonInv, Handle("ldap"), "ldap" \in stray, "ldap" \notin stray'
    PROVE  \E n \in Nat : LdapAt(n, n)'
  <1> DEFINE e == topic[1]
             seen == read["ldap"].seen
             S == SchulenOf(Due, Uem)
  <1>0. "ldap" \in System /\ BoundInv /\ OldInv /\ RequestInv
    BY DEF System, CommonInv
  <1>1. /\ Settle("ldap") /\ RestStep /\ Handling("ldap") /\ UNCHANGED topic /\ Repairs("ldap")
        /\ stray' = stray \ {"ldap"} /\ name' = name
    BY <1>0, SettleRest, HandleForm DEF Settle, Settled, RestStep
  <1>2. /\ Gone' = Gone /\ SchulenOf(Due, Uem)' = S
    BY <1>1, RestMove DEF RestStep
  <1>3. /\ e.type = "sync" /\ Index = {1} /\ seen = Present /\ person = "present" /\ Due = rows /\ ~Gone
    BY <1>0, <1>1, RepairFacts
  <1>4. seen.name = name /\ seen.rows = Due /\ seen.present
    BY <1>3, PresentFields
  <1>5. name \in Nat /\ ldap \in LdapSet /\ seen \in Snapshot /\ e \in Message /\ Head(topic) = e
    BY <1>0, <1>1, NameNat, HandlingFacts
  <1>6. ldap' = LdapSynced(ldap, seen)
    <2>1. ldap' = LdapAfter(ldap, e, seen)
      BY <1>0, <1>5, HandleForm
    <2> QED
      BY <1>3, <2>1 DEF LdapAfter
  <1>7. ~Unsynced(ldap, seen)
    <2>1. S # {} \/ name \in ldap.entries
      BY <1>1, <1>3 DEF Repairs
    <2> QED
      BY <1>4, <2>1 DEF Unsynced
  <1>8. /\ \A k : k \in ldap'.entries <=> k \in ldap.entries \/ k = seen.name
        /\ \A x \in Schule : \A k : k \in ldap'.members[x] <=>
             (x \in SchulenOf(seen.rows, Uem) /\ k = seen.name) \/ (k \in ldap.members[x] /\ k # seen.name)
    BY <1>5, <1>6, <1>7, SyncedFields
  <1>9. /\ \A k : k \in ldap'.entries <=> k \in ldap.entries \/ k = name
        /\ \A x \in Schule : \A k : k \in ldap'.members[x] <=> (x \in S /\ k = name) \/ (k \in ldap.members[x] /\ k # name)
    BY <1>4, <1>8
  <1>10. /\ ldap.entries \subseteq Nat /\ \A x \in Schule : ldap.members[x] \subseteq Nat
         /\ \A n \in ldap.entries : n <= name
         /\ \A x \in Schule : \A n \in ldap.members[x] : n <= name
    BY <1>0, NameNat DEF BoundInv
  <1>11. Index' = Index /\ topic'[1].type = "sync"
    BY <1>1, <1>3 DEF Index
  <1> HIDE DEF e, seen, S
  <1>n. PICK n \in Nat : n = name
    BY <1>5
  <1>12. ChainInv(n)'
    <2>1. \A i \in Index' : topic'[i].type \notin NamedTypes
      BY <1>3, <1>11 DEF NamedTypes
    <2> QED
      BY <1>1, <1>n, <2>1 DEF ChainInv
  <1>13. EntryInv(n, n)'
    <2>1. n <= name /\ \A k \in ldap'.entries : k <= n
      BY <1>n, <1>5, <1>9, <1>10
    <2>2. ASSUME NEW x \in Schule, NEW k \in ldap'.members[x], k >= n PROVE k \in ldap'.entries
      <3>1. k = n
        BY <1>n, <1>5, <1>9, <1>10, <2>2
      <3> QED
        BY <1>n, <1>9, <3>1
    <2> QED
      BY <1>n, <1>1, <1>9, <1>11, <2>1, <2>2 DEF EntryInv
  <1>14. MemberInv(n)'
    BY <1>n, <1>1, <1>2, <1>9 DEF MemberInv
  <1>15. SyncInv(n)'
    BY <1>0, <1>1, SettledReads DEF SyncInv
  <1>16. OnlyInv(n, n)'
    BY <1>0, <1>1 DEF OnlyInv, OldInv
  <1>17. DroppedInv(n)'
    BY <1>2, <1>3 DEF DroppedInv
  <1> QED
    BY <1>5, <1>12, <1>13, <1>14, <1>15, <1>16, <1>17 DEF LdapAt

\* The handler of LDAP keeps the invariant of LDAP.
LEMMA LdapHandles ==
    ASSUME TypeOK, MirrorsTypeOK, Serially, CommonInv, "ldap" \notin stray, NEW c \in Nat, NEW v \in Nat, LdapAt(c, v), Handle("ldap")
    PROVE  \E w \in Nat : LdapAt(c, w)'
  <1>1. topic[1].type \in {"updated", "renamed", "sync", "deleted", "deadline"}
    BY LdapNow
  <1>2. CASE topic[1].type = "updated"
    BY <1>2, LdapHandlesUpdated
  <1>3. CASE topic[1].type = "renamed"
    BY <1>3, LdapHandlesRenamed
  <1>4. CASE topic[1].type = "sync"
    BY <1>4, LdapHandlesSync
  <1>5. CASE topic[1].type \in {"deleted", "deadline"}
    BY <1>5, LdapHandlesDeletion
  <1> QED
    BY <1>1, <1>2, <1>3, <1>4, <1>5

\* Other steps than those of the handler of LDAP, and the reads.
LEMMA LdapElse ==
    ASSUME TypeOK, MirrorsTypeOK, Serially, CommonInv, Told("ldap"), NEW c \in Nat, NEW v \in Nat, LdapAt(c, v),
           \/ CalmStep \/ Restart
           \/ \E s \in System : Read(s)
           \/ \E s \in System : s # "ldap" /\ (Handle(s) \/ HandleFails(s))
    PROVE  LdapAt(c, v)'
  <1>0. "ldap" \in System /\ SyncInv(v) /\ EntryInv(c, v)
    BY DEF System, LdapAt
  <1>a. ASSUME RestStep PROVE Steady /\ name' = name
    BY <1>a, RestSteady DEF RestStep
  <1>1. CASE CalmStep
    <2>1. From("ldap")' = From("ldap") /\ UNCHANGED <<topic, read, ldap, name, stray, handled>> /\ Steady
      BY <1>1 DEF CalmStep, Unmoved, From
    <2> QED
      BY <1>0, <2>1, FromSame, SyncSame, LdapSame
  <1>2. CASE Restart
    <2>1. RestStep /\ UNCHANGED <<topic, ldap, stray>> /\ handled' = {} /\ read' = NoReads
      BY <1>2, RestartForm
    <2>2. ~read'["ldap"].done
      BY <1>0, <2>1 DEF NoReads, NotRead
    <2> QED
      BY <1>0, <1>2, <1>a, <2>1, <2>2, FromRestart, SyncSame, LdapSame
  <1>3. ASSUME NEW s \in System, Read(s) PROVE LdapAt(c, v)'
    <2>1. /\ RestStep /\ UNCHANGED <<topic, handled, ldap, stray>>
          /\ read' = [read EXCEPT ![s] = [done |-> TRUE, seen |-> Present]]
      BY <1>3, ReadForm
    <2>2. From("ldap")' = From("ldap")
      BY <2>1 DEF From
    <2>3. SyncInv(v)'
      <3>1. CASE s = "ldap"
        BY <1>0, <1>3, <3>1, SyncRead DEF EntryInv
      <3>2. CASE s # "ldap"
        <4>1. read'["ldap"] = read["ldap"]
          BY <1>0, <2>1, <3>2 DEF MirrorsTypeOK, Reading
        <4> QED
          BY <1>0, <1>a, <2>1, <4>1, SyncSame
      <3> QED
        BY <3>1, <3>2
    <2> QED
      BY <1>0, <1>a, <2>1, <2>2, <2>3, FromSame, LdapSame
  <1>4. ASSUME NEW s \in System, s # "ldap", Handle(s) \/ HandleFails(s) PROVE LdapAt(c, v)'
    <2>1. RestStep /\ Settle(s) /\ UNCHANGED topic
      BY <1>4, SettleRest
    <2>2. From("ldap")' = From("ldap") /\ read'["ldap"] = read["ldap"] /\ handled' = handled \cup {s}
      BY <1>0, <1>4, <2>1, FromSettle, SettledReads
    <2>3. ldap' = ldap
      BY <1>4, HandleForm, FailForm
    <2>4. "ldapOld" \in stray => "ldapOld" \in stray'
      <3>1. s # "ldapOld"
        BY DEF System
      <3> QED
        BY <1>4, <3>1, HandleForm, FailForm DEF Settled
    <2> QED
      BY <1>0, <1>4, <1>a, <2>1, <2>2, <2>3, <2>4, FromSame, SyncSame, LdapSame
  <1> QED
    BY <1>1, <1>2, <1>3, <1>4

\* Every step keeps the invariant of LDAP.
LEMMA LdapStep ==
    ASSUME TypeOK, TypeOK', MirrorsTypeOK, Serially, CommonInv, LdapInv, [MirrorsNext]_allvars
    PROVE  LdapInv'
  <1> SUFFICES ASSUME Told("ldap")' PROVE \E d, w \in Nat : LdapAt(d, w)'
    BY DEF LdapInv
  <1>0. "ldap" \in System /\ RequestInv
    BY DEF System, CommonInv
  <1>1. CASE Told("ldap")
    <2>1. PICK c \in Nat, v \in Nat : LdapAt(c, v)
      BY <1>1 DEF LdapInv
    <2>2. CASE \/ CalmStep \/ Restart
               \/ \E s \in System : Read(s)
               \/ \E s \in System : s # "ldap" /\ (Handle(s) \/ HandleFails(s))
      <3>1. LdapAt(c, v)'
        BY <1>1, <2>1, <2>2, LdapElse
      <3> QED
        BY <3>1
    <2>3. ASSUME NEW m, TellsUpdate(m) \/ TellsRemoval(m) \/ TellsDeletion(m) \/ Asks(m) PROVE \E d, w \in Nat : LdapAt(d, w)'
      <3>1. LdapAt(c, v)'
        BY <1>1, <2>1, <2>3, LdapAppend
      <3> QED
        BY <3>1
    <2>4. CASE Commit
      <3>1. CASE topic[1].type = "renamed"
        BY <1>1, <2>1, <2>4, <3>1, LdapCommitRenamed
      <3>2. CASE topic[1].type # "renamed"
        <4>1. LdapAt(c, v)'
          BY <1>1, <2>1, <2>4, <3>2, LdapCommitOther
        <4> QED
          BY <4>1
      <3> QED
        BY <3>1, <3>2
    <2>5. CASE Handle("ldap")
      <3>1. \E w \in Nat : LdapAt(c, w)'
        BY <1>1, <2>1, <2>5, LdapHandles DEF Told
      <3> QED
        BY <3>1
    <2>6. ~StrayStep /\ ~HandleFails("ldap")
      BY <1>0, FailForm DEF StrayStep, Stray, Told
    <2> QED
      BY <1>0, <2>2, <2>3, <2>4, <2>5, <2>6, Steps
  <1>2. CASE ~Told("ldap")
    <2>1. watched' = watched
      BY <1>0, Steps, CommitForm
         DEF CalmStep, StrayStep, TellsUpdate, TellsRemoval, TellsDeletion, Asks, Appended, Unmoved,
             Read, Handle, HandleFails, Restart, own
    <2>2. "ldap" \in stray /\ "ldap" \notin stray'
      BY <1>2, <2>1 DEF Told
    <2>3. Handle("ldap")
      <3>1. ASSUME NEW s \in System, Handle(s), s # "ldap" PROVE FALSE
        BY <2>2, <3>1, HandleForm DEF Settled
      <3>2. ASSUME NEW s \in System, HandleFails(s) PROVE FALSE
        BY <2>2, <3>2, FailForm
      <3> QED
        BY <1>0, <2>2, <3>1, <3>2, Steps, ReadForm, CommitRest, RestartForm
           DEF CalmStep, StrayStep, Stray, TellsUpdate, TellsRemoval, TellsDeletion, Asks, Appended
    <2> QED
      BY <2>2, <2>3, LdapRepaired
  <1> QED
    BY <1>1, <1>2

\* At the start nothing is under way.
LEMMA StartRequests ==
    ASSUME MirrorsInit
    PROVE  /\ RequestInv /\ ~Writing /\ ~Leaving /\ ~Gone /\ ~Ended /\ Due = rows
           /\ \A x : ~Open(x)
           /\ Index = {} /\ \A i : \A M : ~Later(i, M)
           /\ \A s \in System : ~read[s].done /\ read[s].seen.name = 0
           /\ name = 0 /\ locked = FALSE /\ stray = {} /\ topic = <<>> /\ handled = {}
  <1>1. /\ (person = "planned" \/ person = "present") /\ (person = "planned" => rows = {})
        /\ job = [j \in Job |-> Idle]
    BY DEF MirrorsInit, Init
  <1>2. \A j \in Job : job[j].at = "idle"
    BY <1>1 DEF Idle
  <1>3. /\ name = 0 /\ locked = FALSE /\ stray = {} /\ topic = <<>> /\ handled = {} /\ read = NoReads
    BY DEF MirrorsInit
  <1>4. Index = {}
    BY <1>3 DEF Index
  <1>5. \A s \in System : ~read[s].done /\ read[s].seen.name = 0
    BY <1>3 DEF NoReads, NotRead
  <1>6. RequestInv
    BY <1>1, <1>2 DEF RequestInv, KnowInv, WriteSteps
  <1>7. ~Writing /\ ~Leaving /\ ~Gone /\ ~Ended
    BY <1>1, <1>2 DEF Writing, WriteSteps, Leaving, Gone, Ended
  <1>8. \A x : ~Open(x)
    BY <1>2 DEF Open, Opens, WriteSteps
  <1> QED
    BY <1>3, <1>4, <1>5, <1>6, <1>7, <1>8 DEF Due, Later

\* The invariant holds at the start: its common part,
LEMMA CommonStart == ASSUME MirrorsInit PROVE CommonInv
  <1>1. /\ \A n \in ldap.entries : n = 0
        /\ \A x \in Schule : \A n \in ldap.members[x] : n = 0
    BY DEF MirrorsInit
  <1>2. BoundInv
    BY <1>1, StartRequests DEF BoundInv
  <1>3. TopicInv
    BY StartRequests DEF TopicInv, CurrentInv, NameInv, LeavingInv, EndInv, TouchInv
  <1> QED
    BY <1>2, <1>3, StartRequests DEF CommonInv, OldInv, ReadInv

\* that of itslearning,
LEMMA ItslearningStart == ASSUME MirrorsInit PROVE ItslearningInv
  <1> DEFINE S == SchulenOf(Due, Itslearning)
  <1>1. itslearning = IF S = {} THEN NoUser ELSE User(0, S)
    BY StartRequests DEF MirrorsInit, Enrolled
  <1>2. CASE S = {}
    <2>1. itslearning = NoUser /\ ~itslearning.known
      BY <1>1, <1>2 DEF NoUser
    <2> QED
      BY <1>2, <2>1 DEF ItslearningInv
  <1>3. CASE S # {}
    <2>1. itslearning.known /\ itslearning.schulen = S /\ itslearning.name = 0
      BY <1>1, <1>3 DEF User
    <2> QED
      BY <1>3, <2>1, StartRequests DEF ItslearningInv
  <1> QED
    BY <1>2, <1>3

\* that of the addresses,
LEMMA EmailStart == ASSUME MirrorsInit PROVE EmailInv
  <1> DEFINE S == SchulenOf(Due, Email)
  <1>0. "email" \in System
    BY DEF System
  <1>1. email = IF S = {} THEN NoEmail ELSE SetEmail(0, S, FALSE)
    BY StartRequests DEF MirrorsInit
  <1>2. CASE S = {}
    <2>1. email.state = "none"
      BY <1>1, <1>2 DEF NoEmail
    <2> QED
      BY <1>0, <1>2, <2>1, StartRequests DEF EmailInv, NoEmailInv, SomeEmailInv, LocksInv, GoneInv
  <1>3. CASE S # {}
    <2>1. email.state = "set" /\ email.schulen = S /\ email.name = 0 /\ email.locked = FALSE
      <3>1. email = SetEmail(0, S, FALSE)
        BY <1>1, <1>3
      <3>2. /\ SetEmail(0, S, FALSE).state = "set" /\ SetEmail(0, S, FALSE).schulen = S
            /\ SetEmail(0, S, FALSE).name = 0 /\ SetEmail(0, S, FALSE).locked = FALSE
        BY DEF SetEmail
      <3> HIDE DEF S
      <3> QED
        BY <3>1, <3>2, Zenon
    <2> QED
      BY <1>0, <1>3, <2>1, StartRequests DEF EmailInv, NoEmailInv, SomeEmailInv, LocksInv, GoneInv
  <1> QED
    BY <1>2, <1>3

\* and that of LDAP, with the first name.
LEMMA LdapStart == ASSUME MirrorsInit PROVE LdapInv
  <1> DEFINE S == SchulenOf(Due, Uem)
  <1>0. "ldap" \in System
    BY DEF System
  <1>1. ldap = [entries |-> IF S = {} THEN {} ELSE {0}, members |-> [s \in Schule |-> IF s \in S THEN {0} ELSE {}]]
    BY StartRequests DEF MirrorsInit
  <1>2. S \subseteq Schule
    BY StartRequests, MirrorsTypeInit, SchulenTyped DEF TypeOK, RowSet
  <1> HIDE DEF S
  <1>3. /\ \A n : n \in ldap.entries <=> n = 0 /\ S # {}
        /\ \A x \in Schule : \A n : n \in ldap.members[x] <=> n = 0 /\ x \in S
    BY <1>1
  <1>4. ChainInv(0) /\ SyncInv(0) /\ DroppedInv(0)
    BY <1>0, StartRequests DEF ChainInv, SyncInv, DroppedInv
  <1>5. EntryInv(0, 0)
    BY <1>3, StartRequests DEF EntryInv
  <1>6. MemberInv(0)
    BY <1>3 DEF MemberInv, S
  <1>7. OnlyInv(0, 0)
    BY <1>3 DEF OnlyInv
  <1>8. LdapAt(0, 0)
    BY <1>4, <1>5, <1>6, <1>7 DEF LdapAt
  <1> QED
    BY <1>8 DEF LdapInv

\* The invariant holds at the start.
LEMMA MirrorsInvStart == MirrorsInit => MirrorsInv
  BY MirrorsTypeInit, CommonStart, ItslearningStart, EmailStart, LdapStart DEF MirrorsInv

\* Every step keeps the invariant.
LEMMA MirrorsInvStep ==
    ASSUME Serially, MirrorsInv, [MirrorsNext]_allvars
    PROVE  MirrorsInv'
  <1>1. TypeOK /\ MirrorsTypeOK /\ CommonInv /\ ItslearningInv /\ EmailInv /\ LdapInv
    BY DEF MirrorsInv
  <1>2. TypeOK' /\ MirrorsTypeOK'
    BY <1>1, MirrorsTypeStep
  <1>3. CommonInv'
    BY <1>1, <1>2, CommonStep
  <1>4. ItslearningInv'
    BY <1>1, <1>2, ItslearningStep
  <1>5. EmailInv'
    BY <1>1, <1>2, EmailStep
  <1>6. LdapInv'
    BY <1>1, <1>2, LdapStep
  <1> QED
    BY <1>2, <1>3, <1>4, <1>5, <1>6 DEF MirrorsInv

----------------------------------------------------------------------------
(* When everything has settled                                             *)

\* When everything has settled nothing is due but the contexts, and nothing is to come.
LEMMA QuietFacts ==
    ASSUME MirrorsInv, Quiet
    PROVE  /\ ~Writing /\ ~Leaving /\ ~Unsetting /\ Due = rows /\ \A x : ~Open(x)
           /\ \A i : \A M : ~Later(i, M)
           /\ person \in {"deleted", "expired"} => rows = {}
           /\ Gone <=> person = "deleted"
  <1>1. topic = <<>> /\ \A j \in Job : job[j].at \in {"idle", "viewed"}
    BY DEF Quiet, Busy
  <1>2. ~Writing /\ ~Leaving /\ ~Unsetting /\ \A x : ~Open(x)
    BY <1>1 DEF Writing, WriteSteps, Leaving, Unsetting, Open, Opens
  <1>3. Index = {}
    BY <1>1 DEF Index
  <1>4. person \in {"deleted", "expired"} => rows = {}
    BY DEF MirrorsInv, CommonInv, RequestInv
  <1>5. Gone <=> person = "deleted"
    BY <1>1 DEF Gone
  <1> QED
    BY <1>2, <1>3, <1>4, <1>5 DEF Due, Later

\* Then itslearning knows what the database has.
LEMMA ItslearningQuiet ==
    ASSUME MirrorsInv, Quiet, Told("itslearning")
    PROVE  ItslearningAgrees
  <1> DEFINE S == SchulenOf(rows, Itslearning)
  <1>1. /\ itslearning.known <=> S # {}
        /\ itslearning.known => itslearning.schulen = S /\ itslearning.name = name
        /\ ~itslearning.known => itslearning = NoUser
    BY QuietFacts DEF MirrorsInv, ItslearningInv
  <1>2. itslearning \in ItslearningSet
    BY DEF MirrorsInv, MirrorsTypeOK, ItslearningSet
  <1>3. CASE S = {}
    BY <1>1, <1>3 DEF ItslearningAgrees, Enrolled
  <1>4. CASE S # {}
    <2>1. itslearning = [known |-> TRUE, name |-> name, schulen |-> S]
      BY <1>1, <1>2, <1>4 DEF ItslearningSet
    <2> QED
      BY <1>4, <2>1 DEF ItslearningAgrees, Enrolled, User
  <1> QED
    BY <1>3, <1>4

\* So does the e-mail microservice.
LEMMA EmailQuiet ==
    ASSUME MirrorsInv, Quiet, Told("email")
    PROVE  /\ EmailAgrees
           /\ person = "deleted" => email.state = "none"
  <1> DEFINE S == SchulenOf(rows, Email)
  <1>1. /\ S = {} => email.state # "set"
        /\ S # {} => email.state = "set" /\ email.schulen = S /\ email.name = name
        /\ email.state # "none" => email.locked = locked
        /\ person = "deleted" => email.state = "none"
    BY QuietFacts DEF MirrorsInv, EmailInv, NoEmailInv, SomeEmailInv, LocksInv, GoneInv
  <1>2. email \in EmailSet
    BY DEF MirrorsInv, MirrorsTypeOK, EmailSet
  <1>3. CASE S = {}
    BY <1>1, <1>3 DEF EmailAgrees
  <1>4. CASE S # {}
    <2>1. email = [state |-> "set", name |-> name, schulen |-> S, locked |-> locked]
      BY <1>1, <1>2, <1>4 DEF EmailSet
    <2> QED
      BY <1>1, <1>4, <2>1 DEF EmailAgrees, SetEmail
  <1> QED
    BY <1>1, <1>3, <1>4

\* And LDAP.
LEMMA LdapQuiet ==
    ASSUME MirrorsInv, Quiet, Told("ldap")
    PROVE  /\ LdapAgrees
           /\ "ldapOld" \notin stray => NothingUnderOldNames
           /\ person = "deleted" /\ "ldapOld" \notin stray => ldap.entries = {}
  <1>1. PICK c \in Nat, v \in Nat : LdapAt(c, v)
    BY DEF MirrorsInv, LdapInv
  <1>2. c = name
    BY <1>1, QuietFacts DEF LdapAt, ChainInv
  <1>3. name \in Nat /\ v = name
    BY <1>1, <1>2 DEF LdapAt, EntryInv
  <1>4. \A x \in Schule : name \in ldap.members[x] <=> x \in SchulenOf(rows, Uem)
    BY <1>1, <1>3, QuietFacts DEF LdapAt, MemberInv
  <1>5. SchulenOf(rows, Uem) # {} => name \in ldap.entries
    <2>1. SchulenOf(rows, Uem) \subseteq Schule
      BY SchulenTyped DEF MirrorsInv, TypeOK, RowSet
    <2>2. \A x \in Schule : name \in ldap.members[x] => name \in ldap.entries
      BY <1>1, <1>2, <1>3 DEF LdapAt, EntryInv
    <2> QED
      BY <1>4, <2>1, <2>2
  <1>6. "ldapOld" \notin stray => NothingUnderOldNames
    BY <1>1, <1>3 DEF LdapAt, OnlyInv, NothingUnderOldNames
  <1>7. person = "deleted" => name \notin ldap.entries
    BY <1>1, <1>3, QuietFacts DEF LdapAt, DroppedInv
  <1> QED
    BY <1>4, <1>5, <1>6, <1>7 DEF LdapAgrees, NothingUnderOldNames

\* The invariant implies the agreement.
LEMMA Agreement == ASSUME MirrorsInv PROVE MirrorsAgree
  BY ItslearningQuiet, EmailQuiet, LdapQuiet DEF MirrorsAgree

\* The invariant implies that a deleted person is forgotten.
LEMMA Forgotten == ASSUME MirrorsInv PROVE DeletedIsForgotten
  <1> SUFFICES ASSUME Quiet, person \in {"deleted", "expired"}
               PROVE  /\ Told("ldap") /\ "ldapOld" \notin stray =>
                            /\ \A s \in Schule : ldap.members[s] = {}
                            /\ person = "deleted" => ldap.entries = {}
                      /\ Told("itslearning") => ~itslearning.known
                      /\ Told("email") => email.state # "set" /\ (person = "deleted" => email.state = "none")
    BY DEF DeletedIsForgotten
  <1>1. \A S : SchulenOf(rows, S) = {}
    BY QuietFacts DEF SchulenOf
  <1>2. ASSUME Told("ldap"), "ldapOld" \notin stray
        PROVE  (\A s \in Schule : ldap.members[s] = {}) /\ (person = "deleted" => ldap.entries = {})
    BY <1>1, <1>2, LdapQuiet DEF LdapAgrees, NothingUnderOldNames
  <1>3. ASSUME Told("itslearning") PROVE ~itslearning.known
    BY <1>1, <1>3, ItslearningQuiet DEF ItslearningAgrees, Enrolled, NoUser
  <1>4. ASSUME Told("email") PROVE email.state # "set" /\ (person = "deleted" => email.state = "none")
    BY <1>1, <1>4, EmailQuiet DEF EmailAgrees
  <1> QED
    BY <1>2, <1>3, <1>4

\* The invariant holds always.
LEMMA MirrorsInvHolds == ASSUME Serially PROVE MirrorsSpec => []MirrorsInv
  <1>1. MirrorsInv /\ [MirrorsNext]_allvars => MirrorsInv'
    BY MirrorsInvStep
  <1> QED
    BY <1>1, MirrorsInvStart, PTL DEF MirrorsSpec

\* With one request of the person at a time: when everything has settled, every
\* system that was told of every change, or was synchronised since without
\* disturbance, knows the contexts, the name and the locks that the database has.
\* For any number of requests, changes of the name and messages under way, any
\* order of handlers and writes, any redelivery.
THEOREM MirrorsComeToAgree == ASSUME Serially PROVE MirrorsSpec => []MirrorsAgree
  <1>1. MirrorsInv => MirrorsAgree
    BY Agreement
  <1> QED
    BY <1>1, MirrorsInvHolds, PTL

\* With one request of the person at a time: when everything has settled after a
\* deletion, these systems have forgotten the person, or only keep what the
\* deadline leaves (suspended addresses, an entry without memberships).
THEOREM DeletionIsForgotten == ASSUME Serially PROVE MirrorsSpec => []DeletedIsForgotten
  <1>1. MirrorsInv => DeletedIsForgotten
    BY Forgotten
  <1> QED
    BY <1>1, MirrorsInvHolds, PTL

=============================================================================
