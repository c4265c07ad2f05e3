-------------------------- MODULE EmailAddresses ---------------------------
(***************************************************************************)
(* The e-mail microservice (src/src/email): the addresses of one person in *)
(* its database and their representations in OX, in the LDAP directory and *)
(* in the UNDI directory.                                                  *)
(*                                                                         *)
(* A request is answered at once and worked off in the background, step by *)
(* step, from what the job has read before.  There are four kinds: set an  *)
(* address that matches the person's name, suspend the addresses, delete   *)
(* everything, and the nightly cron job.  Every external call may fail, or *)
(* take effect and be reported as failed; the process may stop between any *)
(* two steps.  Nothing keeps two jobs for one person apart except that a   *)
(* set request is refused while an address is PENDING.                     *)
(*                                                                         *)
(* An address is a name and the number that makes it unique.  A row keeps  *)
(* its newest status only.  Time is counted in days.                       *)
(***************************************************************************)
EXTENDS EmailPriorities

CONSTANTS
    Job,              \* the background jobs that can be under way at once
    Name,             \* the names the person may have
    Serial,           \* TRUE: a request arrives only when no job is under way
    RetryAttempts,    \* RETRY_ATTEMPTS of the set service
    MaxEmailPriority, \* MAX_EMAIL_PRIORITY, where new rows wait
    Deadline,         \* NON_ENABLED_EMAIL_ADDRESSES_DEADLINE_IN_DAYS
    MaxRows,          \* bound: rows ever created
    MaxRequests,      \* bound: requests
    MaxFaults,        \* bound: failing external calls
    MaxInterruptions, \* bound: restarts of the service and thrown errors
    MaxDays           \* bound: days that pass

ASSUME EmailBoundsAssumption ==
    /\ Serial \in BOOLEAN
    /\ {RetryAttempts, MaxEmailPriority, Deadline, MaxRows, MaxRequests, MaxFaults,
        MaxInterruptions, MaxDays} \subseteq Nat
    /\ RetryAttempts > 0 /\ Deadline > 0 /\ MaxEmailPriority > MaxRows + 2

VARIABLES
    db,        \* the rows, by id
    rows,      \* rows created so far; ids are not reused
    ox,        \* the person's OX user
    oxUsers,   \* OX users created so far; counters are not reused
    ldap,      \* the person's entry in LDAP
    undi,      \* the person's entry in UNDI
    today,
    job,       \* what each job works on
    requests, faults, interruptions,
    last,      \* history: how the last job ended
    recorded,  \* history: the OX counters that were ever saved
    partial,   \* history: a counter was saved while another row had none
    leftovers  \* history: what interrupted attempts may have left behind

external == <<ox, oxUsers, ldap, undi>>
store    == <<db, rows>>
budgets  == <<requests, faults, interruptions, today>>
history  == <<last, recorded, partial, leftovers>>
vars     == <<store, external, job, budgets, history>>

Ids       == 1..MaxRows
Address   == Name \X (0..MaxRows)
NoRow     == [id |-> 0]
NoUser    == [primary |-> <<>>]
NoAddress == <<>>
NoCounter == 0
NoDate    == -1

Status ==
    {"NONE", "PENDING", "ACTIVE", "DEACTIVE", "SUSPENDED", "FAILED", "TO_BE_DELETED",
     "EXISTS_ONLY_IN_OX"}

Row == [id : 0..MaxRows, address : Address, priority : Nat, status : Status,
        oxUserCounter : Nat, markedForCron : Nat \cup {NoDate}]

Kind == {"set", "suspend", "delete", "cron"}

Steps ==
    {"idle", "check", "choose", "insert", "reread", "shiftBack", "pend", "shift", "ensure", "ox",
     "saveOx", "ldap", "undi", "activate", "activateAlternative", "fail",
     "suspendRead", "suspendSave", "suspendOx", "suspendUndi",
     "deleteRead", "deleteMark", "deleteOx", "deleteLdap", "deleteUndi", "deleteRows",
     "purge", "cronRead", "cronMark", "cronOx", "cronLdap", "cronDelete"}

\* A job's local variables: the aggregates it holds and its loop counter.
Idle ==
    [at |-> "idle", kind |-> "none", name |-> <<>>, attempt |-> 0, primary |-> NoRow,
     alternative |-> NoRow, displaced |-> NoRow, held |-> {}, ok |-> TRUE]

Nothing == [kind |-> "none", name |-> <<>>, outcome |-> "none"]

----------------------------------------------------------------------------
(* The repository.                                                         *)

Persisted == {i \in Ids : db[i] # NoRow}
Rows      == {db[i] : i \in Persisted}
Exists(r) == r.id \in Persisted

\* find(em => em.priority === p) on a freshly read list; NoRow for undefined.
AtPriority(rs, p) ==
    LET found == {r \in rs : r.priority = p} IN IF found = {} THEN {NoRow} ELSE found

\* The first in the order of the priorities (ties in any order).
First(rs) == {r \in rs : \A s \in rs : r.priority <= s.priority}

\* Mutant: a row that is missing is created again.
Saved_Upsert(rs) ==
    [i \in Ids |-> IF \E r \in rs : r.id = i THEN CHOOSE r \in rs : r.id = i ELSE db[i]]

\* save of persisted aggregates: every field is assigned; a row that is gone
\* is an error and stays gone.
Saved(rs) ==
    [i \in Ids |-> IF i \in Persisted /\ \E r \in rs : r.id = i
                      THEN CHOOSE r \in rs : r.id = i ELSE db[i]]

Priorities == [i \in Persisted |-> db[i].priority]

WithPriorities(prio) ==
    [i \in Ids |-> IF i \in Persisted THEN [db[i] EXCEPT !.priority = prio[i]] ELSE NoRow]

\* Mutant: the address is put in place and nothing makes room for it.
Shifted_NoRoom(id, target) == {WithPriorities([Priorities EXCEPT ![id] = target])}

\* The databases shiftPriorities can leave behind.
Shifted(id, target) == {WithPriorities(prio) : prio \in Shifts(Priorities, id, target)}

\* Mutant: an address that falls behind priority 1 stays active.
EnsuredRow_KeepsActive(r, cronDate) ==
    [r EXCEPT
        !.markedForCron = IF r.priority = 0 THEN NoDate ELSE IF @ = NoDate THEN cronDate ELSE @]

\* ensureStatusesAndCronDateForPerson, for one row.
EnsuredRow(r, cronDate) ==
    [r EXCEPT
        !.markedForCron = IF r.priority = 0 THEN NoDate ELSE IF @ = NoDate THEN cronDate ELSE @,
        !.status = IF r.priority >= 2 /\ @ \in {"NONE", "ACTIVE", "SUSPENDED"} THEN "DEACTIVE" ELSE @]

Ensured(cronDate) ==
    [i \in Ids |-> IF i \in Persisted THEN EnsuredRow(db[i], cronDate) ELSE NoRow]

RowsOf(d) == {d[i] : i \in {k \in Ids : d[k] # NoRow}}

\* generateAvailableAddress: the smallest number that is free.
Available(name) ==
    LET taken == {r.address : r \in Rows}
        n == CHOOSE n \in 0..MaxRows :
                 <<name, n>> \notin taken /\ \A k \in 0..(n - 1) : <<name, k>> \in taken
    IN  <<name, n>>

Due(r) == r.markedForCron # NoDate /\ r.markedForCron <= today

----------------------------------------------------------------------------
(* Steps of a job.                                                         *)

At(j, step)        == job[j].at = step
Goto(j, step)      == job' = [job EXCEPT ![j].at = step]
Finish(j, outcome) ==
    /\ job' = [job EXCEPT ![j] = Idle]
    /\ last' = [kind |-> job[j].kind, name |-> job[j].name, outcome |-> outcome]

\* Mutant: the attempts are not counted.
Retry_Forever(j) ==
    /\ job' = [job EXCEPT ![j] = [Idle EXCEPT !.at = "choose", !.kind = "set",
                                           !.name = job[j].name, !.attempt = job[j].attempt]]
    /\ UNCHANGED last

\* Mutant: one attempt too many.
Retry_OneMore(j) ==
    IF job[j].attempt <= RetryAttempts
       THEN /\ job' = [job EXCEPT ![j] = [Idle EXCEPT !.at = "choose", !.kind = "set",
                                              !.name = job[j].name, !.attempt = job[j].attempt + 1]]
            /\ UNCHANGED last
       ELSE Finish(j, "failed")

\* The next round of createOrUpdateEmailWithRetries.
Retry(j) ==
    IF job[j].attempt < RetryAttempts
       THEN /\ job' = [job EXCEPT ![j] = [Idle EXCEPT !.at = "choose", !.kind = "set",
                                              !.name = job[j].name, !.attempt = job[j].attempt + 1]]
            /\ UNCHANGED last
       ELSE Finish(j, "failed")

\* The attempt fails; the address is about to be saved with that status.
Fail(j, status) ==
    job' = [job EXCEPT ![j].at = "fail", ![j].primary.status = status]

\* An external call: it succeeds, fails, or succeeds and is reported as
\* failed ("lost").
Outcome(o) ==
    /\ o = "ok" \/ faults < MaxFaults
    /\ faults' = IF o = "ok" THEN faults ELSE faults + 1

Calls == {"ok", "error", "lost"}

----------------------------------------------------------------------------
(* The controller: every request becomes a job.                            *)

FirstStep ==
    [set |-> "check", suspend |-> "suspendRead", delete |-> "deleteRead", cron |-> "purge"]

Request(j, kind, name) ==
    /\ At(j, "idle")
    /\ requests < MaxRequests
    /\ Serial => \A k \in Job : At(k, "idle")
    /\ requests' = requests + 1
    /\ job' = [job EXCEPT ![j] = [Idle EXCEPT !.at = FirstStep[kind], !.kind = kind, !.name = name]]
    /\ last' = Nothing
    /\ UNCHANGED <<store, external, faults, interruptions, today, recorded, partial, leftovers>>

----------------------------------------------------------------------------
(* Set: SetEmailAddressForSpshPersonService.                               *)

\* checkForPendingEmail
CheckPending(j) ==
    /\ At(j, "check")
    /\ IF \E r \in Rows : r.status = "PENDING"
          THEN Finish(j, "refused")
          ELSE /\ job' = [job EXCEPT ![j].at = "choose", ![j].attempt = 1]
               /\ UNCHANGED last
    /\ UNCHANGED <<store, external, budgets, recorded, partial, leftovers>>

\* Mutant: any usable address will do.
Matching_AnyName(name) == {r \in Rows : r.status # "EXISTS_ONLY_IN_OX"}

\* isEqualIgnoreCount: the number of the address does not matter.
Matching(name) == {r \in Rows : r.status # "EXISTS_ONLY_IN_OX" /\ r.address[1] = name}

\* getOrCreateAvailableEmail up to the insertion.
Choose(j) ==
    /\ At(j, "choose")
    /\ IF Matching(job[j].name) # {}
          THEN \E r \in First(Matching(job[j].name)) :
                  job' = [job EXCEPT ![j].at = "reread", ![j].primary = r]
          ELSE LET counters == {r \in Rows : r.oxUserCounter # NoCounter}
               IN  \E counter \in IF counters = {} THEN {NoCounter}
                                  ELSE {r.oxUserCounter : r \in First(counters)} :
                      job' = [job EXCEPT ![j].at = "insert",
                                         ![j].primary =
                                  [id |-> 0, address |-> Available(job[j].name),
                                   priority |-> MaxEmailPriority, status |-> "NONE",
                                   oxUserCounter |-> counter, markedForCron |-> NoDate]]
    /\ UNCHANGED <<store, external, budgets, history>>

\* The insertion; the address may have been taken meanwhile, then the unique
\* index throws.
Insert(j) ==
    /\ At(j, "insert")
    /\ IF \E r \in Rows : r.address = job[j].primary.address
          THEN Retry(j) /\ UNCHANGED store
          ELSE /\ rows < MaxRows
               /\ rows' = rows + 1
               /\ LET r == [job[j].primary EXCEPT !.id = rows + 1]
                  IN  /\ db' = [db EXCEPT ![rows + 1] = r]
                      /\ job' = [job EXCEPT ![j].at = "reread", ![j].primary = r]
               /\ UNCHANGED last
    /\ UNCHANGED <<external, budgets, recorded, partial, leftovers>>

\* The current primary address has to give way when it is not active.
Reread(j) ==
    /\ At(j, "reread")
    /\ \E zero \in AtPriority(Rows, 0) :
          IF zero # NoRow /\ zero.id # job[j].primary.id /\ zero.status # "ACTIVE"
             THEN job' = [job EXCEPT ![j].at = "shiftBack", ![j].displaced = zero]
             ELSE Goto(j, "pend")
    /\ UNCHANGED <<store, external, budgets, history>>

ShiftBack(j) ==
    /\ At(j, "shiftBack")
    /\ IF Exists(job[j].displaced)
          THEN db' \in Shifted(job[j].displaced.id, 2) /\ Goto(j, "pend")
          ELSE Fail(j, "FAILED") /\ UNCHANGED db
    /\ UNCHANGED <<rows, external, budgets, history>>

\* The address is not the primary one yet: save it as PENDING.
Pend(j) ==
    /\ At(j, "pend")
    /\ job[j].primary.priority > 0
    /\ LET r == [job[j].primary EXCEPT !.status = "PENDING"]
       IN  /\ db' = Saved({r})
           /\ job' = [job EXCEPT ![j].at = "shift", ![j].primary = r]
    /\ UNCHANGED <<rows, external, budgets, history>>

\* The address is the primary one already.
KeepPrimary(j) ==
    /\ At(j, "pend")
    /\ job[j].primary.priority = 0
    /\ \E r \in AtPriority(Rows, 1) :
          job' = [job EXCEPT ![j].at = "ox", ![j].alternative = r]
    /\ UNCHANGED <<store, external, budgets, history>>

ShiftToFront(j) ==
    /\ At(j, "shift")
    /\ IF Exists(job[j].primary)
          THEN db' \in Shifted(job[j].primary.id, 0) /\ Goto(j, "ensure")
          ELSE Fail(j, "FAILED") /\ UNCHANGED db
    /\ UNCHANGED <<rows, external, budgets, history>>

\* From here on the primary address is whichever has priority 0; if there is
\* none the next access throws.
Ensure(j) ==
    /\ At(j, "ensure")
    /\ db' = Ensured(today + Deadline)
    /\ \E zero \in AtPriority(RowsOf(db'), 0), one \in AtPriority(RowsOf(db'), 1) :
          IF zero = NoRow
             THEN Retry(j)
             ELSE /\ job' = [job EXCEPT ![j].at = "ox", ![j].primary = zero, ![j].alternative = one]
                  /\ UNCHANGED last
    /\ UNCHANGED <<rows, external, budgets, recorded, partial, leftovers>>

AddressOf(r) == IF r = NoRow THEN NoAddress ELSE r.address

\* "noGroups": the group update fails, which upsertOxUser ignores; "taken":
\* another OX user has the address.
OxCalls == Calls \cup {"noGroups", "taken"}

\* upsertOxUser of an address with a counter: the user must exist.
ChangeOxUser(j, o) ==
    /\ At(j, "ox")
    /\ job[j].primary.oxUserCounter # NoCounter
    /\ Outcome(o)
    /\ LET p == job[j].primary
           known == ox # NoUser /\ ox.id = p.oxUserCounter
       IN  /\ ox' = IF known /\ o \in {"ok", "lost", "noGroups"}
                       THEN [ox EXCEPT !.primary = p.address,
                                       !.aliases = {p.address, AddressOf(job[j].alternative)} \ {NoAddress},
                                       !.groups = @ \/ o = "ok"]
                       ELSE ox
           /\ IF known /\ o \in {"ok", "noGroups"}
                 THEN Goto(j, "saveOx")
                 ELSE Fail(j, IF known /\ o = "taken" THEN "EXISTS_ONLY_IN_OX" ELSE "FAILED")
    /\ UNCHANGED <<store, oxUsers, ldap, undi, requests, interruptions, today, history>>

\* upsertOxUser of an address without a counter: a user is created; its name
\* is the person's external id, which can exist only once.
CreateOxUser(j, o) ==
    /\ At(j, "ox")
    /\ job[j].primary.oxUserCounter = NoCounter
    /\ Outcome(o)
    /\ LET p == job[j].primary
           free == ox = NoUser
           created == free /\ o \in {"ok", "lost", "noGroups"}
       IN  /\ ox' = IF created
                       THEN [id |-> oxUsers + 1, primary |-> p.address, aliases |-> {p.address},
                             groups |-> o = "ok"]
                       ELSE ox
           /\ oxUsers' = IF created THEN oxUsers + 1 ELSE oxUsers
           /\ IF free /\ o \in {"ok", "noGroups"}
                 THEN job' = [job EXCEPT ![j].at = "saveOx", ![j].primary.oxUserCounter = oxUsers + 1]
                 ELSE Fail(j, IF free /\ o = "taken" THEN "EXISTS_ONLY_IN_OX" ELSE "FAILED")
    /\ UNCHANGED <<store, ldap, undi, requests, interruptions, today, history>>

\* The counter is saved and the date removed.
SaveOx(j) ==
    /\ At(j, "saveOx")
    /\ LET r == [job[j].primary EXCEPT !.markedForCron = NoDate]
       IN  IF Exists(r)
              THEN /\ db' = Saved({r})
                   /\ recorded' = recorded \cup {r.oxUserCounter}
                   /\ partial' = (partial \/ \E q \in Rows : q.id # r.id /\ q.oxUserCounter = NoCounter)
                   /\ job' = [job EXCEPT ![j].at = "ldap", ![j].primary = r]
              ELSE /\ Fail(j, "FAILED")
                   /\ UNCHANGED <<db, recorded, partial>>
    /\ UNCHANGED <<rows, external, budgets, last, leftovers>>

UpsertLdap(j, o) ==
    /\ At(j, "ldap")
    /\ Outcome(o)
    /\ ldap' = IF o = "error" THEN ldap
               ELSE [primary |-> job[j].primary.address,
                     alternative |-> AddressOf(job[j].alternative)]
    /\ IF o = "ok" THEN Goto(j, "undi") ELSE Fail(j, "FAILED")
    /\ UNCHANGED <<store, ox, oxUsers, undi, requests, interruptions, today, history>>

\* Mutant: a failed update is only logged.
UpsertUndi_LogsError(j, o) ==
    /\ At(j, "undi")
    /\ Outcome(o)
    /\ undi' = IF o = "error" THEN undi
               ELSE [primary |-> job[j].primary.address,
                     alternative |-> AddressOf(job[j].alternative), deaktiviert |-> FALSE]
    /\ job' = [job EXCEPT ![j].at = "activate", ![j].primary.status = "ACTIVE"]
    /\ UNCHANGED <<store, ox, oxUsers, ldap, requests, interruptions, today, history>>

UpsertUndi(j, o) ==
    /\ At(j, "undi")
    /\ Outcome(o)
    /\ undi' = IF o = "error" THEN undi
               ELSE [primary |-> job[j].primary.address,
                     alternative |-> AddressOf(job[j].alternative), deaktiviert |-> FALSE]
    /\ IF o = "ok"
          THEN job' = [job EXCEPT ![j].at = "activate", ![j].primary.status = "ACTIVE"]
          ELSE Fail(j, "FAILED")
    /\ UNCHANGED <<store, ox, oxUsers, ldap, requests, interruptions, today, history>>

\* Everything was a success; a row that is gone is ignored.
Activate(j) ==
    /\ At(j, "activate")
    /\ db' = Saved({job[j].primary})
    /\ IF job[j].alternative = NoRow
          THEN Finish(j, "ok")
          ELSE /\ job' = [job EXCEPT ![j].at = "activateAlternative",
                                     ![j].alternative.status = "ACTIVE"]
               /\ UNCHANGED last
    /\ UNCHANGED <<rows, external, budgets, recorded, partial, leftovers>>

ActivateAlternative(j) ==
    /\ At(j, "activateAlternative")
    /\ db' = Saved({job[j].alternative})
    /\ Finish(j, "ok")
    /\ UNCHANGED <<rows, external, budgets, recorded, partial, leftovers>>

\* Mutant: the failure is not persisted.
SaveFailure_OnlyRetries(j) ==
    /\ At(j, "fail")
    /\ Retry(j)
    /\ UNCHANGED <<store, external, budgets, recorded, partial, leftovers>>

\* The failed address is saved, then the next attempt begins.
SaveFailure(j) ==
    /\ At(j, "fail")
    /\ db' = Saved({job[j].primary})
    /\ Retry(j)
    /\ UNCHANGED <<rows, external, budgets, recorded, partial, leftovers>>

----------------------------------------------------------------------------
(* Suspend: SetEmailSuspendedService.                                      *)

Suspended(r) ==
    [r EXCEPT !.status = "SUSPENDED",
              !.markedForCron = IF @ = NoDate THEN today + Deadline ELSE @]

SuspendRead(j) ==
    /\ At(j, "suspendRead")
    /\ IF Rows = {}
          THEN Finish(j, "ok")
          ELSE /\ job' = [job EXCEPT ![j].at = "suspendSave",
                                     ![j].held = {Suspended(r) : r \in {s \in Rows : s.priority <= 1}}]
               /\ UNCHANGED last
    /\ UNCHANGED <<store, external, budgets, recorded, partial, leftovers>>

SuspendSave(j) ==
    /\ At(j, "suspendSave")
    /\ db' = Saved(job[j].held)
    /\ Goto(j, "suspendOx")
    /\ UNCHANGED <<rows, external, budgets, history>>

\* The counters an address list offers: that of the first row that has one.
Counters(rs) == {r.oxUserCounter : r \in First({s \in rs : s.oxUserCounter # NoCounter})}

SuspendOx(j, o) ==
    /\ At(j, "suspendOx")
    /\ Outcome(o)
    /\ \/ /\ Counters(job[j].held) = {} /\ o = "ok"
          /\ UNCHANGED ox
       \/ \E counter \in Counters(job[j].held) :
             ox' = IF ox # NoUser /\ ox.id = counter /\ o # "error"
                      THEN [ox EXCEPT !.groups = FALSE] ELSE ox
    /\ Goto(j, "suspendUndi")
    /\ UNCHANGED <<store, oxUsers, ldap, undi, requests, interruptions, today, history>>

SuspendUndi(j, o) ==
    /\ At(j, "suspendUndi")
    /\ Outcome(o)
    /\ undi' = IF undi # NoUser /\ o # "error" THEN [undi EXCEPT !.deaktiviert = TRUE] ELSE undi
    /\ Finish(j, "ok")
    /\ UNCHANGED <<store, ox, oxUsers, ldap, requests, interruptions, today, recorded, partial, leftovers>>

----------------------------------------------------------------------------
(* Delete: DeleteEmailsAddressesForSpshPersonService.                      *)

DeleteRead(j) ==
    /\ At(j, "deleteRead")
    /\ IF Rows = {}
          THEN Finish(j, "ok")
          ELSE /\ job' = [job EXCEPT ![j].at = "deleteMark",
                                     ![j].held = {[r EXCEPT !.status = "TO_BE_DELETED",
                                                            !.markedForCron = today] : r \in Rows}]
               /\ UNCHANGED last
    /\ UNCHANGED <<store, external, budgets, recorded, partial, leftovers>>

DeleteMark(j) ==
    /\ At(j, "deleteMark")
    /\ db' = Saved(job[j].held)
    /\ Goto(j, "deleteOx")
    /\ UNCHANGED <<rows, external, budgets, history>>

\* What a step of the deletion that was not successful leaves to be known.
Continue(j, step, success) ==
    job' = [job EXCEPT ![j].at = step, ![j].ok = @ /\ success]

\* No counter, or a user that is gone already, is a success.
DeleteOxUser(j, o) ==
    /\ At(j, "deleteOx")
    /\ Outcome(o)
    /\ \/ /\ Counters(job[j].held) = {} /\ o = "ok"
          /\ Continue(j, "deleteLdap", TRUE)
          /\ UNCHANGED ox
       \/ \E counter \in Counters(job[j].held) :
             /\ ox' = IF ox # NoUser /\ ox.id = counter /\ o # "error" THEN NoUser ELSE ox
             /\ Continue(j, "deleteLdap", o = "ok")
    /\ UNCHANGED <<store, oxUsers, ldap, undi, requests, interruptions, today, history>>

DeleteLdapPerson(j, o) ==
    /\ At(j, "deleteLdap")
    /\ Outcome(o)
    /\ ldap' = IF o = "error" THEN ldap ELSE NoUser
    /\ Continue(j, "deleteUndi", o = "ok")
    /\ UNCHANGED <<store, ox, oxUsers, undi, requests, interruptions, today, history>>

\* Mutant: the result of the UNDI deletion is not awaited.
DeleteUndiPerson_IgnoresResult(j, o) ==
    /\ At(j, "deleteUndi")
    /\ Outcome(o)
    /\ undi' = IF o = "error" THEN undi ELSE NoUser
    /\ IF job[j].ok
          THEN Goto(j, "deleteRows") /\ UNCHANGED last
          ELSE Finish(j, "kept")
    /\ UNCHANGED <<store, ox, oxUsers, ldap, requests, interruptions, today, recorded, partial, leftovers>>

DeleteUndiPerson(j, o) ==
    /\ At(j, "deleteUndi")
    /\ Outcome(o)
    /\ undi' = IF o = "error" THEN undi ELSE NoUser
    /\ IF job[j].ok /\ o = "ok"
          THEN Goto(j, "deleteRows") /\ UNCHANGED last
          ELSE Finish(j, "kept")
    /\ UNCHANGED <<store, ox, oxUsers, ldap, requests, interruptions, today, recorded, partial, leftovers>>

Without(rs) == [i \in Ids |-> IF \E r \in rs : r.id = i THEN NoRow ELSE db[i]]

DeleteRows(j) ==
    /\ At(j, "deleteRows")
    /\ db' = Without(job[j].held)
    /\ Finish(j, "ok")
    /\ UNCHANGED <<rows, external, budgets, recorded, partial, leftovers>>

----------------------------------------------------------------------------
(* The cron job: CronDeleteEmailsAddressesService.                         *)

\* deleteAllMarkedForCronSameOrEarlierDayWithPriorityGte2
Purge(j) ==
    /\ At(j, "purge")
    /\ db' = Without({r \in Rows : Due(r) /\ r.priority >= 2})
    /\ Goto(j, "cronRead")
    /\ UNCHANGED <<rows, external, budgets, history>>

\* The person is processed when one of the addresses 0 and 1 is due: all of
\* them are due, or exactly the alternative is.
CronRead(j) ==
    /\ At(j, "cronRead")
    /\ LET due == {r \in Rows : Due(r)}
           alternative == {r \in due : due = {r} /\ r.priority = 1}
           primaries == {r \in Rows : r.priority = 0}
       IN  \/ /\ ~\E r \in due : r.priority <= 1
              /\ Finish(j, "ok")
           \/ /\ \E r \in due : r.priority <= 1
              /\ due = Rows
              /\ Goto(j, "deleteRead") /\ UNCHANGED last
           \/ /\ \E r \in due : r.priority <= 1
              /\ due # Rows
              /\ alternative = {} \/ primaries = {}
              /\ Finish(j, "error")
           \/ /\ due # Rows
              /\ \E one \in alternative, zero \in primaries :
                    job' = [job EXCEPT ![j].at = "cronMark", ![j].primary = zero,
                                       ![j].alternative = [one EXCEPT !.status = "TO_BE_DELETED"]]
              /\ UNCHANGED last
    /\ UNCHANGED <<store, external, budgets, recorded, partial, leftovers>>

CronMark(j) ==
    /\ At(j, "cronMark")
    /\ db' = Saved({job[j].alternative})
    /\ Goto(j, "cronOx")
    /\ UNCHANGED <<rows, external, budgets, history>>

CronOx(j, o) ==
    /\ At(j, "cronOx")
    /\ Outcome(o)
    /\ LET zero == job[j].primary
           counter == IF job[j].alternative.oxUserCounter # NoCounter
                         THEN job[j].alternative.oxUserCounter ELSE zero.oxUserCounter
           known == ox # NoUser /\ ox.id = counter
       IN  IF counter = NoCounter
              THEN o = "ok" /\ Continue(j, "cronLdap", TRUE) /\ UNCHANGED ox
              ELSE /\ ox' = IF known /\ o # "error"
                               THEN [ox EXCEPT !.primary = zero.address, !.aliases = {zero.address}]
                               ELSE ox
                   /\ Continue(j, "cronLdap", known /\ o = "ok")
    /\ UNCHANGED <<store, oxUsers, ldap, undi, requests, interruptions, today, history>>

\* updatePersonEmails; the entry must exist.
CronLdap(j, o) ==
    /\ At(j, "cronLdap")
    /\ Outcome(o)
    /\ ldap' = IF ldap # NoUser /\ o # "error"
                  THEN [primary |-> job[j].primary.address, alternative |-> NoAddress] ELSE ldap
    /\ Continue(j, "cronDelete", ldap # NoUser /\ o = "ok")
    /\ UNCHANGED <<store, ox, oxUsers, undi, requests, interruptions, today, history>>

\* Mutant: the row goes although a representation could not be updated.
CronDelete_Always(j) ==
    /\ At(j, "cronDelete")
    /\ db' = Without({job[j].alternative})
    /\ Finish(j, "ok")
    /\ UNCHANGED <<rows, external, budgets, recorded, partial, leftovers>>

CronDelete(j) ==
    /\ At(j, "cronDelete")
    /\ db' = IF job[j].ok THEN Without({job[j].alternative}) ELSE db
    /\ Finish(j, IF job[j].ok THEN "ok" ELSE "kept")
    /\ UNCHANGED <<rows, external, budgets, recorded, partial, leftovers>>

----------------------------------------------------------------------------
NextDay ==
    /\ today < MaxDays
    /\ today' = today + 1
    /\ UNCHANGED <<store, external, job, requests, faults, interruptions, history>>

\* What a job may leave behind when it is interrupted at one of these steps: no
\* address in front, a PENDING one, or an ACTIVE one behind priority 1.
Unfinished ==
    [front   |-> {"reread", "shiftBack", "pend", "shift", "deleteRows"},
     pending |-> {"shift", "ensure", "ox", "saveOx", "ldap", "undi", "activate", "fail"},
     active  |-> {"ensure"}]

LeftBehind(j) == {k \in DOMAIN Unfinished : job[j].at \in Unfinished[k]}

\* The databases an interrupted step leaves: nothing of it was done, or it was
\* and the answer is lost, or (Promise.all) a part of it was.  The shifts and
\* ensureStatusesAndCronDateForPerson are transactions; that one of them was
\* done and its answer lost is the interruption of the next step.
Interrupted(j) ==
    {db} \cup
    CASE job[j].at \in {"suspendSave", "deleteMark"} -> {Saved(part) : part \in SUBSET job[j].held}
      [] job[j].at = "deleteRows"                    -> {Without(part) : part \in SUBSET job[j].held}
      [] job[j].at = "activate"                      -> {Saved({job[j].primary})}
      [] job[j].at = "activateAlternative"           -> {Saved({job[j].alternative})}
      [] OTHER                                       -> {}

\* The steps inside the try block of createOrUpdateEmailWithRetries.
AttemptSteps ==
    {"choose", "insert", "reread", "shiftBack", "pend", "shift", "ensure", "ox", "saveOx", "ldap",
     "undi", "activate", "activateAlternative", "fail"}

\* A call throws, because the database cannot be reached.  An attempt to set an
\* address is given up with nothing saved and the next one begins; any other
\* job ends.
Throw(j) ==
    /\ ~At(j, "idle")
    /\ interruptions < MaxInterruptions
    /\ interruptions' = interruptions + 1
    /\ db' \in Interrupted(j)
    /\ leftovers' = leftovers \cup LeftBehind(j)
    /\ IF job[j].at \in AttemptSteps THEN Retry(j) ELSE Finish(j, "failed")
    /\ UNCHANGED <<rows, external, requests, faults, today, recorded, partial>>

\* The process stops; the database and the other systems stay as they are.
Crash ==
    /\ \E j \in Job : ~At(j, "idle") /\ db' \in Interrupted(j)
    /\ interruptions < MaxInterruptions
    /\ interruptions' = interruptions + 1
    /\ leftovers' = leftovers \cup UNION {LeftBehind(j) : j \in Job}
    /\ job' = [j \in Job |-> Idle]
    /\ last' = Nothing
    /\ UNCHANGED <<rows, external, requests, faults, today, recorded, partial>>

Init ==
    /\ db = [i \in Ids |-> NoRow] /\ rows = 0
    /\ ox = NoUser /\ oxUsers = 0 /\ ldap = NoUser /\ undi = NoUser
    /\ job = [j \in Job |-> Idle]
    /\ requests = 0 /\ faults = 0 /\ interruptions = 0 /\ today = 0
    /\ last = Nothing /\ recorded = {} /\ partial = FALSE /\ leftovers = {}

Set(j) ==
    \/ CheckPending(j) \/ Choose(j) \/ Insert(j) \/ Reread(j) \/ ShiftBack(j)
    \/ Pend(j) \/ KeepPrimary(j) \/ ShiftToFront(j) \/ Ensure(j)
    \/ \E o \in OxCalls : ChangeOxUser(j, o) \/ CreateOxUser(j, o)
    \/ SaveOx(j)
    \/ \E o \in Calls : UpsertLdap(j, o) \/ UpsertUndi(j, o)
    \/ Activate(j) \/ ActivateAlternative(j) \/ SaveFailure(j)

Suspend(j) ==
    \/ SuspendRead(j) \/ SuspendSave(j)
    \/ \E o \in Calls : SuspendOx(j, o) \/ SuspendUndi(j, o)

Delete(j) ==
    \/ DeleteRead(j) \/ DeleteMark(j)
    \/ \E o \in Calls : DeleteOxUser(j, o) \/ DeleteLdapPerson(j, o) \/ DeleteUndiPerson(j, o)
    \/ DeleteRows(j)

Cron(j) ==
    \/ Purge(j) \/ CronRead(j) \/ CronMark(j)
    \/ \E o \in Calls : CronOx(j, o) \/ CronLdap(j, o)
    \/ CronDelete(j)

Next ==
    \/ \E j \in Job :
          \/ \E name \in Name : Request(j, "set", name)
          \/ \E kind \in Kind \ {"set"} : Request(j, kind, <<>>)
          \/ Set(j) \/ Suspend(j) \/ Delete(j) \/ Cron(j)
          \/ Throw(j)
    \/ NextDay
    \/ Crash

Spec == Init /\ [][Next]_vars

\* Every call is answered or times out, so a job that is under way proceeds.
FairSpec == Spec /\ \A j \in Job : WF_vars(Set(j) \/ Suspend(j) \/ Delete(j) \/ Cron(j))

----------------------------------------------------------------------------
(* Properties.                                                             *)

OptionalAddress == Address \cup {NoAddress}

OxUser == [id : Nat, primary : Address, aliases : SUBSET Address, groups : BOOLEAN]

LdapEntry == [primary : Address, alternative : OptionalAddress]

UndiEntry == [primary : Address, alternative : OptionalAddress, deaktiviert : BOOLEAN]

JobSet ==
    [at : Steps, kind : Kind \cup {"none"}, name : Name \cup {<<>>}, attempt : 0..RetryAttempts,
     primary : Row \cup {NoRow}, alternative : Row \cup {NoRow}, displaced : Row \cup {NoRow},
     held : SUBSET Row, ok : BOOLEAN]

TypeOK ==
    /\ db \in [Ids -> Row \cup {NoRow}] /\ rows \in 0..MaxRows
    /\ \A i \in Persisted : db[i].id = i /\ i <= rows
    /\ ox \in OxUser \cup {NoUser} /\ oxUsers \in Nat
    /\ ldap \in LdapEntry \cup {NoUser} /\ undi \in UndiEntry \cup {NoUser}
    /\ today \in Nat /\ interruptions \in Nat
    /\ job \in [Job -> JobSet]
    /\ recorded \in SUBSET Nat /\ partial \in BOOLEAN /\ leftovers \subseteq DOMAIN Unfinished

Quiet == \A j \in Job : At(j, "idle")

Primaries == {r \in Rows : r.priority = 0 /\ r.status = "ACTIVE"}

\* OX, LDAP and UNDI know the person by this primary address.
InSync(zero) ==
    /\ ox # NoUser /\ ox.id = zero.oxUserCounter /\ ox.primary = zero.address
    /\ ldap.primary = zero.address
    /\ undi.primary = zero.address /\ ~undi.deaktiviert

\* ... and by this alternative address.  (A new OX user gets the primary address
\* only.  That there is an alternative one by then takes rows of which some have
\* a counter and some have none.)
AlternativeInSync(one) ==
    /\ one.address \in ox.aliases \/ partial
    /\ ldap.alternative = one.address
    /\ undi.alternative = one.address

\* Between requests ACTIVE means what setEmailAddressForSpshPerson says when
\* it sets it, "everything was a success": OX, LDAP and UNDI carry the same
\* primary and alternative address, whatever requests, failed calls, retries
\* and restarts came before.
ActiveIsInSync ==
    Quiet => \A zero \in Primaries :
                /\ InSync(zero)
                /\ \A one \in Rows : one.priority = 1 /\ one.status = "ACTIVE" => AlternativeInSync(one)

\* OX and LDAP list no address of an active person that the database has
\* given up: a row is deleted only after its representations.
NoForgottenAddress ==
    Quiet /\ Primaries # {} =>
        (ox.aliases \cup {ldap.alternative}) \ {NoAddress} \subseteq
            {r.address : r \in {s \in Rows : s.priority <= 1}}

\* There is one primary and one alternative address at most, so that "the
\* address with priority 0" is well defined wherever the services search it.
AtMostOneAtFront ==
    Quiet => \A r, q \in Rows : r.priority = q.priority /\ r.priority <= 1 => r = q

\* An address behind priority 1 is not ACTIVE, unless an attempt was interrupted
\* between the shift to the front and the step that deactivates it.  A restart
\* does that, and so does a database error: the next attempt finds the new
\* address in front and has no reason to take that step again.
OnlyFrontActive ==
    Quiet /\ "active" \notin leftovers => \A r \in Rows : r.status = "ACTIVE" => r.priority <= 1

\* A set request that succeeded leaves an active primary address that fits
\* the requested name and is not due for deletion.
SuccessFits ==
    last.kind = "set" /\ last.outcome = "ok" =>
        \E r \in Primaries : r.address[1] = last.name /\ r.markedForCron = NoDate

\* As long as the person has an entry in LDAP or UNDI, or an OX user whose
\* counter was saved, a row is left from which the deletion can be retried.
\* (Unless a restart or a database error interrupted an attempt to set an address
\* before its address was in front, or the deletion of the rows: then perhaps no
\* row has priority 0 or 1, and the cron job purges rows behind them without
\* looking at the other systems.  And unless the OX user was created for an
\* address while another one had no counter: the rows that know the counter can
\* all go before that one.)
NothingOrphaned ==
    Rows = {} /\ "front" \notin leftovers =>
        ldap = NoUser /\ undi = NoUser /\ (ox = NoUser \/ ox.id \notin recorded \/ partial)

\* No address is left PENDING, which would refuse every further set request,
\* unless an attempt was interrupted after it had saved that status: a call that
\* fails saves another one, but a restart does not, nor does an error thrown by
\* the database, which the loop logs and forgets.
NoPendingLeft == Quiet /\ "pending" \notin leftovers => \A r \in Rows : r.status # "PENDING"

\* A row that was deleted does not come back, however late a job saves what
\* it read before the deletion.
NothingResurrected == [][\A i \in 1..rows : db[i] = NoRow => db'[i] = NoRow]_vars

\* Every background job ends, also when an external system fails for good.
JobsEnd == \A j \in Job : ~At(j, "idle") ~> At(j, "idle")

\* Line 158 of cron-delete-email-addresses.service.ts keeps the row of an
\* alternative address when "not all external representation could be
\* deleted".  The job never touches UNDI.
UndiForgetsAlternative ==
    Quiet /\ Primaries # {} =>
        undi.alternative \in {NoAddress} \cup {r.address : r \in Rows}

============================================================================
