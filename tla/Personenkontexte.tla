-------------------------- MODULE Personenkontexte --------------------------
(***************************************************************************)
(* The Personenkontexte of one person and what changes them: the update    *)
(* that a client or a cron job commits, the removal of one context by id,  *)
(* and the deletion of the person by hand or after 90 days without a       *)
(* context.  Requests run side by side; none of them is a transaction, and *)
(* an update is refused if the contexts are not those the client saw,      *)
(* recognised by their number and by the newest updatedAt.                 *)
(*                                                                         *)
(* Each action is one access to the database, with the computation up to   *)
(* the next one.  `event' is the event that the last step published.       *)
(***************************************************************************)
EXTENDS Naturals, FiniteSets

CONSTANTS
    Job,          \* requests and cron jobs that run at once
    Kontext,      \* pairs of an Organisation and a Rolle
    Befristbar,   \* bound: contexts that may be given a Befristung
    RollenartOf,  \* the Rollenart of each context's Rolle
    MaxRequests,  \* bound: requests and cron jobs
    MaxTroubles   \* bound: failing calls

ASSUME KontextAssumption ==
    /\ Befristbar \subseteq Kontext
    /\ IsFiniteSet(Kontext)
    /\ DOMAIN RollenartOf = Kontext

ASSUME BoundsAssumption == MaxRequests \in Nat /\ MaxTroubles \in Nat

VARIABLES
    person,      \* "planned", "present", "deleted" by hand or "expired"
    rows,        \* the Personenkontexte in the database
    unassigned,  \* orgUnassignmentDate: undefined, recent, or at least 90 days old
    job,         \* the requests, each with its local variables
    event,       \* what the last step published
    used,        \* how much of each bound is used up
    undated,     \* history: a request ended before its syncOrgUnassignmentDate
    gap          \* history: a Rollenart check met no contexts while another request ran

database == <<person, rows, unassigned>>
vars     == <<database, job, event, used, undated, gap>>

----------------------------------------------------------------------------

\* Contexts whose Befristung is set are past it by the time of a cron job.
Row == {r \in [kontext : Kontext, befristet : BOOLEAN] : r.befristet => r.kontext \in Befristbar}

Kontexte(R) == {r.kontext : r \in R}

\* person, organisation and Rolle are unique.
RowSet == {R \in SUBSET Row : \A r, q \in R : r.kontext = q.kontext => r = q}

OneArt(R) == \A r, q \in R : RollenartOf[r.kontext] = RollenartOf[q.kontext]

\* A client's request has read the contexts (viewed), then its steps are
\* getSentPersonenkontexte (viewed), findByPerson (read), the Rollenart check,
\* validate, the writes, the new read with syncOrgUnassignmentDate and the event.
At == {"idle", "viewed", "read", "rollenart", "validate", "write", "date", "publish",
       "dateOnly", "listed", "tell", "told", "drop"}

Kind == {"none", "client", "create", "cron", "delete", "deadline"}

Idle == [at |-> "idle", kind |-> "none", seen |-> {}, newer |-> {}, sent |-> {}, found |-> {},
         existing |-> {}, removing |-> {}, adding |-> {}, removed |-> {}, added |-> {}, current |-> {}]

Nothing == [type |-> "none", added |-> {}, removed |-> {}, current |-> {}]

\* A change of which no event tells.
Untold == [Nothing EXCEPT !.type = "untold"]

EventSet == [type : {"none", "untold", "updated", "deleted", "deadline"},
             added : SUBSET Row, removed : SUBSET Row, current : SUBSET Row]

JobSet == [at : At, kind : Kind, seen : SUBSET Row, newer : SUBSET Kontext, sent : SUBSET Row,
           found : SUBSET Row, existing : SUBSET Row, removing : SUBSET Row, adding : SUBSET Row,
           removed : SUBSET Row, added : SUBSET Row, current : SUBSET Row]

\* Every value has its type, and no context is there twice.
TypeOK ==
    /\ person \in {"planned", "present", "deleted", "expired"}
    /\ rows \in RowSet
    /\ unassigned \in {"no", "recent", "long"}
    /\ job \in [Job -> JobSet]
    /\ event \in EventSet
    /\ used \in [requests : 0..MaxRequests, troubles : 0..MaxTroubles]
    /\ undated \in BOOLEAN
    /\ gap \in BOOLEAN

\* A person yet to be created, or one whose contexts have one Rollenart.
Init ==
    /\ \/ person = "planned" /\ rows = {} /\ unassigned = "no"
       \/ person = "present" /\ rows = {} /\ unassigned = "recent"
       \/ person = "present" /\ rows \in {R \in RowSet \ {{}} : OneArt(R)} /\ unassigned = "no"
    /\ job = [j \in Job |-> Idle]
    /\ event = Nothing
    /\ used = [requests |-> 0, troubles |-> 0]
    /\ undated = FALSE
    /\ gap = FALSE

----------------------------------------------------------------------------

Silent == event' = Nothing

Request(j) ==
    /\ job[j].at = "idle"
    /\ used.requests < MaxRequests
    /\ used' = [used EXCEPT !.requests = @ + 1]

Trouble ==
    /\ used.troubles < MaxTroubles
    /\ used' = [used EXCEPT !.troubles = @ + 1]

Busy(j) == job[j].at \notin {"idle", "viewed"}

End(j) == job' = [job EXCEPT ![j] = Idle]

----------------------------------------------------------------------------
(* Starting an update                                                      *)

\* A client reads the contexts, with their number and the newest updatedAt.
View(j) ==
    /\ Request(j)
    /\ person = "present"
    /\ job' = [job EXCEPT ![j] = [Idle EXCEPT !.at = "viewed", !.kind = "client", !.seen = rows]]
    /\ Silent
    /\ UNCHANGED <<database, undated, gap>>

\* createPersonWithPersonenkontexte stores the person, then commits with count 0.
Create(j) ==
    /\ Request(j)
    /\ person = "planned"
    /\ person' = "present"
    /\ job' = [job EXCEPT ![j] = [Idle EXCEPT !.at = "viewed", !.kind = "create"]]
    /\ Silent
    /\ UNCHANGED <<rows, unassigned, undated, gap>>

\* kontext-expired reads all contexts of a person who has an expired one.
ListExpired(j) ==
    /\ Request(j)
    /\ \E r \in rows : r.befristet
    /\ job' = [job EXCEPT ![j] = [Idle EXCEPT !.at = "viewed", !.kind = "cron", !.seen = rows]]
    /\ Silent
    /\ UNCHANGED <<database, undated, gap>>

\* What may be committed: a client sends any list, the cron job what is not
\* expired, with the present time as lastModified.
Sendable(j) ==
    IF job[j].kind = "cron" THEN {{r \in job[j].seen : ~r.befristet}}
    ELSE IF job[j].kind = "create" THEN RowSet \ {{}}
    ELSE RowSet

\* getSentPersonenkontexte: which of the sent contexts exist with this Befristung.
FindSent(j, sent) ==
    /\ job[j].at = "viewed"
    /\ job' = [job EXCEPT ![j].at = "read", ![j].sent = sent, ![j].found = sent \cap rows,
                          ![j].newer = IF job[j].kind = "cron" THEN {} ELSE @]
    /\ Silent
    /\ UNCHANGED <<database, used, undated, gap>>

ReadExisting(j) ==
    /\ job[j].at = "read"
    /\ job' = [job EXCEPT ![j].at = "rollenart", ![j].existing = rows]
    /\ Silent
    /\ UNCHANGED <<database, used, undated, gap>>

\* A refused creation leaves the person without contexts and without a date.
Refuse(j) ==
    /\ End(j)
    /\ undated' = (undated \/ job[j].kind = "create")

\* Mutant: what is sent is only compared with itself.
Verdicts_SentOnly(j) == {OneArt(job[j].sent)}

\* checkRollenart reads the contexts once more: all that is sent must have the
\* Rollenart of the first Rolle found, or of the first one sent if there is none.
Verdicts(j) ==
    IF job[j].sent = {} THEN {TRUE}
    ELSE {\A s \in job[j].sent : RollenartOf[s.kontext] = RollenartOf[f.kontext] :
          f \in IF rows = {} THEN job[j].sent ELSE rows}

CheckRollenart(j) ==
    /\ job[j].at = "rollenart"
    /\ \/ /\ TRUE \in Verdicts(j)
          /\ job' = [job EXCEPT ![j].at = "validate"]
          /\ gap' = (gap \/ (rows = {} /\ \E k \in Job \ {j} : Busy(k)))
          /\ UNCHANGED undated
       \/ /\ FALSE \in Verdicts(j)
          /\ Refuse(j)
          /\ UNCHANGED gap
    /\ Silent
    /\ UNCHANGED <<database, used>>

\* Mutant: only the number of contexts is compared.
Unchanged_CountOnly(j) == Cardinality(job[j].existing) = Cardinality(job[j].seen)

\* validate: the count, and no context newer than lastModified.
Unchanged(j) ==
    /\ Cardinality(job[j].existing) = Cardinality(job[j].seen)
    /\ job[j].newer = {}

\* The delete and add loops compare what exists with what is sent. A context
\* that was found and is gone by now is updated in vain.
Validate(j) ==
    /\ job[j].at = "validate"
    /\ \/ /\ person = "present" /\ Unchanged(j)
          /\ LET e == job[j].existing
                 s == job[j].sent
             IN  job' = [job EXCEPT ![j].at = "write", ![j].removing = e \ s, ![j].adding = s \ (e \cup job[j].found),
                                    ![j].existing = {}, ![j].sent = {}, ![j].found = {}, ![j].seen = {}]
          /\ UNCHANGED undated
       \/ /\ ~(person = "present" /\ Unchanged(j))
          /\ Refuse(j)
    /\ Silent
    /\ UNCHANGED <<database, used, gap>>

----------------------------------------------------------------------------
(* The writes of an update                                                 *)

Unread(k) == job[k].at \in {"viewed", "read"}

\* After a change of the rows: contexts younger than the view of a request.
Aged(jobs, gone, new) ==
    [k \in Job |-> IF Unread(k) THEN [jobs[k] EXCEPT !.newer = (@ \ gone) \cup new] ELSE jobs[k]]

\* DELETE WHERE person, organisation and Rolle, whatever the Befristung is.
RemoveRow(j, r) ==
    /\ job[j].at = "write" /\ r \in job[j].removing
    /\ rows' = {q \in rows : q.kontext # r.kontext}
    /\ job' = Aged([job EXCEPT ![j].removing = @ \ {r}, ![j].removed = @ \cup {r}], {r.kontext}, {})
    /\ Silent
    /\ UNCHANGED <<person, unassigned, used, undated, gap>>

\* The failure is logged, and the loop goes on.
RemoveFails(j, r) ==
    /\ job[j].at = "write" /\ r \in job[j].removing
    /\ Trouble
    /\ job' = [job EXCEPT ![j].removing = @ \ {r}]
    /\ Silent
    /\ UNCHANGED <<database, undated, gap>>

\* The database refuses a context that exists, and one without its person.
Insertable(r) == person = "present" /\ r.kontext \notin Kontexte(rows)

AddRow(j, r) ==
    /\ job[j].at = "write" /\ job[j].removing = {} /\ r \in job[j].adding
    /\ IF Insertable(r)
       THEN /\ rows' = rows \cup {r}
            /\ job' = Aged([job EXCEPT ![j].adding = @ \ {r}, ![j].added = @ \cup {r}], {}, {r.kontext})
       ELSE /\ job' = [job EXCEPT ![j].adding = @ \ {r}]
            /\ UNCHANGED rows
    /\ Silent
    /\ UNCHANGED <<person, unassigned, used, undated, gap>>

AddFails(j, r) ==
    /\ job[j].at = "write" /\ job[j].removing = {} /\ r \in job[j].adding
    /\ Trouble
    /\ job' = [job EXCEPT ![j].adding = @ \ {r}]
    /\ Silent
    /\ UNCHANGED <<database, undated, gap>>

Reread(j) ==
    /\ job[j].at = "write" /\ job[j].removing = {} /\ job[j].adding = {}
    /\ job' = [job EXCEPT ![j].at = "date", ![j].current = rows]
    /\ Silent
    /\ UNCHANGED <<database, used, undated, gap>>

\* Mutant: the date follows the contexts that the update has read itself.
SyncedDate_Read(j) == IF job[j].current # {} THEN "no" ELSE IF unassigned = "no" THEN "recent" ELSE unassigned

\* syncOrgUnassignmentDate counts the contexts in a transaction that locks the
\* person: a date that is set already is kept.
SyncedDate(j) == IF rows # {} THEN "no" ELSE IF unassigned = "no" THEN "recent" ELSE unassigned

SyncDate(j) ==
    /\ job[j].at \in {"date", "dateOnly"}
    /\ unassigned' = IF person = "present" THEN SyncedDate(j) ELSE unassigned
    /\ IF job[j].at = "date" THEN job' = [job EXCEPT ![j].at = "publish"] ELSE End(j)
    /\ Silent
    /\ UNCHANGED <<person, rows, used, undated, gap>>

\* The event is built from a new read of the person.
Publish(j) ==
    /\ job[j].at = "publish"
    /\ event' = IF person = "present"
                THEN [type |-> "updated", added |-> job[j].added, removed |-> job[j].removed, current |-> job[j].current]
                ELSE Nothing
    /\ End(j)
    /\ UNCHANGED <<database, used, undated, gap>>

----------------------------------------------------------------------------
(* Removal by id, deletion, and what goes wrong                            *)

\* deletePersonenkontextById: the date follows, but no event is published.
RemoveById(j, r) ==
    /\ Request(j)
    /\ r \in rows
    /\ rows' = rows \ {r}
    /\ job' = Aged([job EXCEPT ![j] = [Idle EXCEPT !.at = "dateOnly"]], {r.kontext}, {})
    /\ event' = Untold
    /\ UNCHANGED <<person, unassigned, undated, gap>>

RequestDeletion(j) ==
    /\ Request(j)
    /\ person = "present"
    /\ job' = [job EXCEPT ![j] = [Idle EXCEPT !.at = "listed", !.kind = "delete"]]
    /\ Silent
    /\ UNCHANGED <<database, undated, gap>>

\* person-without-org: nobody checks again that the person has no contexts.
ListUnassigned(j) ==
    /\ Request(j)
    /\ person = "present" /\ rows = {} /\ unassigned = "long"
    /\ job' = [job EXCEPT ![j] = [Idle EXCEPT !.at = "listed", !.kind = "deadline"]]
    /\ Silent
    /\ UNCHANGED <<database, undated, gap>>

ReadKontexte(j) ==
    /\ job[j].at = "listed"
    /\ job' = [job EXCEPT ![j].at = "tell", ![j].removed = rows]
    /\ Silent
    /\ UNCHANGED <<database, used, undated, gap>>

\* Mutant: the event does not name the contexts that were removed.
RemovalEvent_NoKontexte(j) == [Nothing EXCEPT !.type = "updated"]

RemovalEvent(j) == [Nothing EXCEPT !.type = "updated", !.removed = job[j].removed]

\* The Keycloak account goes first, then the first event is published.
TellRemoval(j) ==
    /\ job[j].at = "tell"
    /\ IF person = "present"
       THEN /\ event' = RemovalEvent(j)
            /\ job' = [job EXCEPT ![j].at = "told"]
       ELSE Silent /\ End(j)
    /\ UNCHANGED <<database, used, undated, gap>>

\* After the deadline this event needs an oxUserId, which not all persons have.
TellDeletion(j) ==
    /\ job[j].at = "told"
    /\ job' = [job EXCEPT ![j].at = "drop"]
    /\ IF job[j].kind = "delete" THEN event' = [Nothing EXCEPT !.type = "deleted"]
       ELSE event' \in {[Nothing EXCEPT !.type = "deadline"], Nothing}
    /\ UNCHANGED <<database, used, undated, gap>>

\* nativeDelete; the contexts go with the person.
Drop(j) ==
    /\ job[j].at = "drop"
    /\ person' = (IF job[j].kind = "delete" THEN "deleted" ELSE "expired")
    /\ rows' = {} /\ unassigned' = "no"
    /\ job' = Aged([job EXCEPT ![j] = Idle], Kontext, {})
    /\ Silent
    /\ UNCHANGED <<used, undated, gap>>

\* Before it changes anything a request may end for other reasons: permissions,
\* the other specifications, a call that throws.
GiveUp(j) ==
    /\ job[j].at \in {"viewed", "read", "rollenart", "validate", "listed", "tell"}
    /\ Refuse(j)
    /\ Silent
    /\ UNCHANGED <<database, used, gap>>

\* Later on a call throws, or the process stops.
Abort(j) ==
    /\ job[j].at \in {"write", "date", "dateOnly", "publish", "told", "drop"}
    /\ Trouble
    /\ End(j)
    /\ event' = IF job[j].at = "dateOnly" THEN Nothing ELSE Untold
    /\ undated' = (undated \/ job[j].at \in {"write", "date", "dateOnly"})
    /\ UNCHANGED <<database, gap>>

\* Requests do not take 90 days.
DaysPass ==
    /\ unassigned = "recent"
    /\ \A j \in Job : job[j].at = "idle"
    /\ unassigned' = "long"
    /\ Silent
    /\ UNCHANGED <<person, rows, job, used, undated, gap>>

Step(j) ==
    \/ View(j) \/ Create(j) \/ ListExpired(j) \/ \E sent \in Sendable(j) : FindSent(j, sent)
    \/ ReadExisting(j) \/ CheckRollenart(j) \/ Validate(j)
    \/ \E r \in Row : RemoveRow(j, r) \/ RemoveFails(j, r) \/ AddRow(j, r) \/ AddFails(j, r) \/ RemoveById(j, r)
    \/ Reread(j) \/ SyncDate(j) \/ Publish(j)
    \/ RequestDeletion(j) \/ ListUnassigned(j) \/ ReadKontexte(j) \/ TellRemoval(j) \/ TellDeletion(j) \/ Drop(j)
    \/ GiveUp(j) \/ Abort(j)

Next == DaysPass \/ \E j \in Job : Step(j)

Spec == Init /\ [][Next]_vars

----------------------------------------------------------------------------
(* Properties                                                              *)

\* Requests that may have changed the contexts, or created the person, without
\* having synchronised the date yet.
Undated(j) ==
    \/ job[j].at \in {"write", "date", "dateOnly"}
    \/ job[j].kind = "create" /\ job[j].at # "publish"

\* Whatever runs side by side, once every request that wrote contexts has
\* synchronised orgUnassignmentDate, the date is set exactly if the person has
\* no context; only a request that was cut short before can leave it wrong.
DateMatchesContexts ==
    (person = "present" /\ ~undated /\ \A j \in Job : ~Undated(j)) => (unassigned = "no" <=> rows # {})

\* An update whose optimistic check passes has read exactly the contexts that
\* its client had seen, although only a number and a time are compared.
ReadsWhatWasSeen ==
    [][\A j \in Job : (job[j].at = "validate" /\ job'[j].at = "write" /\ job[j].kind # "cron")
                          => job[j].existing = job[j].seen]_vars

\* The contexts of a person have one Rollenart, in spite of concurrent updates
\* and failing calls, unless one was checked while there were no contexts and
\* another request was running.
OneRollenart == ~gap => OneArt(rows)

=============================================================================
