--------------------------- MODULE PersonMirrors ---------------------------
(***************************************************************************)
(* What the systems around the backend know of one person: LDAP,           *)
(* itslearning and the e-mail microservice.  The requests of               *)
(* Personenkontexte, a change of the name, of the user locks, and an       *)
(* administrator's synchronisation publish events to Kafka; the handlers   *)
(* of one event run side by side and settle before the next event of the   *)
(* person is consumed.  Publishing is not awaited and may fail, a call of  *)
(* a handler may fail and is only logged, and a restart redelivers the     *)
(* event that is not committed yet.                                        *)
(*                                                                         *)
(* A handler either works with its event alone or first reads the          *)
(* database; the reads of one invocation are one step.                     *)
(*                                                                         *)
(* The properties are about histories with one request of the person at a  *)
(* time (Job has one element): overlapping requests may publish in another *)
(* order than they wrote, and the code does nothing about it.              *)
(***************************************************************************)
EXTENDS Personenkontexte, Sequences

CONSTANTS
    Schule,         \* schools
    SchuleOf,       \* the school of each context
    Uem,            \* contexts whose Rolle has the service provider UEM (LDAP)
    Itslearning,    \* contexts with itslearning, at a school that uses it
    Email,          \* contexts whose Rolle has the service provider e-mail
    MaxRenames,     \* bound: changes of the name
    MaxAsks,        \* bound: changes of name or locks, and synchronisations
    MaxTotal        \* bound: these and the requests together

ASSUME MirrorsAssumption ==
    /\ SchuleOf \in [Kontext -> Schule]
    /\ Uem \subseteq Kontext /\ Itslearning \subseteq Kontext /\ Email \subseteq Kontext
    /\ MaxRenames \in Nat /\ MaxAsks \in Nat /\ MaxTotal \in Nat

VARIABLES
    name,         \* the number of the person's present username
    locked,       \* there are user locks
    watched,      \* the systems followed here: no handler depends on another one
    topic,        \* the person's events that are not committed yet
    handled,      \* systems whose handler of the first event has settled
    read,         \* what a handler has read from the database
    ldap,         \* entries by username, and the members of each school's group
    itslearning,  \* the person with its memberships
    email,        \* what the microservice was asked for
    asks,         \* how much of MaxAsks is used up
    stray         \* history: systems that were not told of a change

mirrors   == <<ldap, itslearning, email>>
own       == <<name, locked, asks, watched>>
requests  == <<database, job, undated, gap>>
allvars   == <<vars, own, topic, handled, read, mirrors, stray>>

----------------------------------------------------------------------------

System == {"ldap", "itslearning", "email"}

\* LDAP entries under former usernames are a concern of their own.
Stray == System \cup {"ldapOld"}

Name == 0..MaxRenames

SchulenOf(R, S) == {SchuleOf[r.kontext] : r \in {q \in R : q.kontext \in S}}

NoUser  == [known |-> FALSE, name |-> 0, schulen |-> {}]
NoEmail == [state |-> "none", name |-> 0, schulen |-> {}, locked |-> FALSE]

Snapshot == [present : BOOLEAN, name : Name, rows : SUBSET Row, locked : BOOLEAN]
NotRead  == [present |-> FALSE, name |-> 0, rows |-> {}, locked |-> FALSE]
Reading  == [System -> [done : BOOLEAN, seen : Snapshot]]
NoReads  == [s \in System |-> [done |-> FALSE, seen |-> NotRead]]

Message == [type : {"updated", "deleted", "deadline", "renamed", "locks", "sync"}, name : Name,
            added : SUBSET Row, removed : SUBSET Row, current : SUBSET Row]

Interested(e) ==
    CASE e.type \in {"updated", "renamed", "sync"} -> System
      [] e.type = "locks" -> {"email"}
      [] e.type = "deleted" -> {"ldap", "email"}
      [] e.type = "deadline" -> {"ldap"}

\* Handlers that read the database before they write.
Reads(s, e) == e.type = "sync" \/ (s = "email" /\ e.type # "deleted")

Handling(s) == topic # <<>> /\ s \in (Interested(Head(topic)) \cap watched) \ handled

\* Every value has its type, and only handlers of the first event that have not
\* settled hold what they have read.
MirrorsTypeOK ==
    /\ name \in Name
    /\ locked \in BOOLEAN
    /\ asks \in 0..MaxAsks
    /\ watched \subseteq System
    /\ topic \in Seq(Message)
    /\ handled \subseteq (IF topic = <<>> THEN {} ELSE Interested(Head(topic)) \cap watched)
    /\ read \in Reading
    /\ \A s \in System : read[s].done => Handling(s) /\ Reads(s, Head(topic))
    /\ ldap \in [entries : SUBSET Name, members : [Schule -> SUBSET Name]]
    /\ itslearning \in [known : BOOLEAN, name : Name, schulen : SUBSET Schule]
    /\ email \in [state : {"none", "set", "suspended"}, name : Name, schulen : SUBSET Schule, locked : BOOLEAN]
    /\ stray \subseteq Stray

----------------------------------------------------------------------------
(* What the handlers do to the systems                                     *)

\* createLehrer adds the member first, then the entry if it is missing.
Enter(l, n, schulen) ==
    [entries |-> IF schulen = {} THEN l.entries ELSE l.entries \cup {n},
     members |-> [s \in Schule |-> IF s \in schulen THEN l.members[s] \cup {n} ELSE l.members[s]]]

Leave(l, n, schulen) ==
    [l EXCEPT !.members = [s \in Schule |-> IF s \in schulen THEN @[s] \ {n} ELSE @[s]]]

\* Mutant: any remaining context at the school keeps the membership.
Unjustified_AnyKontext(e) == SchulenOf(e.removed, Uem) \ SchulenOf(e.current, Kontext)

\* hatZuordnungZuOrganisationNachLoeschen: only a remaining context with UEM
\* at the school keeps the membership.
Unjustified(e) == SchulenOf(e.removed, Uem) \ SchulenOf(e.current, Uem)

LdapUpdated(l, e) == Enter(Leave(l, e.name, Unjustified(e)), e.name, SchulenOf(e.added, Uem))

Renamed(N, old, new) == IF old \in N THEN (N \ {old}) \cup {new} ELSE N

\* The entry of the old username and its memberships get the new one; the
\* directory refuses if there is an entry with the new one.
LdapRenamed(l, e) ==
    LET old == e.name - 1
    IN  IF old \notin l.entries \/ e.name \in l.entries THEN l
        ELSE [entries |-> Renamed(l.entries, old, e.name),
              members |-> [s \in Schule |-> Renamed(l.members[s], old, e.name)]]

\* fetchDataAndSync for the present username.
LdapSynced(l, seen) ==
    LET schulen == SchulenOf(seen.rows, Uem)
    IN  IF ~seen.present \/ (schulen = {} /\ seen.name \notin l.entries) THEN l
        ELSE Enter(Leave(l, seen.name, Schule \ schulen), seen.name, schulen)

LdapAfter(l, e, seen) ==
    CASE e.type = "updated" -> LdapUpdated(l, e)
      [] e.type = "renamed" -> LdapRenamed(l, e)
      [] e.type = "sync" -> LdapSynced(l, seen)
      [] e.type \in {"deleted", "deadline"} -> [l EXCEPT !.entries = @ \ {e.name}]

User(n, schulen) == [known |-> TRUE, name |-> n, schulen |-> schulen]

\* createOrUpdatePerson and setMemberships, or deletePerson.
Enrolled(n, schulen) == IF schulen = {} THEN NoUser ELSE User(n, schulen)

ItslearningAfter(i, e, seen) ==
    CASE e.type = "updated" -> Enrolled(e.name, SchulenOf(e.current, Itslearning))
      [] e.type = "renamed" -> IF i.known THEN [i EXCEPT !.name = e.name] ELSE i
      [] e.type = "sync" -> IF seen.present THEN Enrolled(seen.name, SchulenOf(seen.rows, Itslearning)) ELSE i

SetEmail(n, schulen, l) == [state |-> "set", name |-> n, schulen |-> schulen, locked |-> l]

\* set-suspended concerns the addresses that there are.
Suspended(m, l) == IF m.state = "none" THEN m ELSE [m EXCEPT !.state = "suspended", !.locked = l]

\* The current contexts but the removed ones, compared by their ids: one that was
\* removed and added again is another one, so that none is left out.
EmailUpdated(m, e, seen) ==
    LET schulen == SchulenOf(e.current, Email)
    IN  IF schulen # {} THEN SetEmail(e.name, schulen, seen.locked)
        ELSE IF SchulenOf(e.removed, Email) # {} THEN Suspended(m, seen.locked) ELSE m

\* syncPerson
EmailSynced(m, seen) ==
    LET schulen == SchulenOf(seen.rows, Email)
    IN  IF schulen # {} THEN SetEmail(seen.name, schulen, seen.locked) ELSE Suspended(m, seen.locked)

EmailRenamed(m, e, seen) ==
    LET schulen == SchulenOf(seen.rows, Email)
    IN  IF schulen # {} THEN SetEmail(e.name, schulen, seen.locked) ELSE m

EmailAfter(m, e, seen) ==
    CASE e.type = "updated" -> EmailUpdated(m, e, seen)
      [] e.type = "renamed" -> EmailRenamed(m, e, seen)
      [] e.type \in {"sync", "locks"} -> EmailSynced(m, seen)
      [] e.type = "deleted" -> NoEmail

----------------------------------------------------------------------------

\* Systems that agree with the contexts that the database has at the start.
MirrorsInit ==
    /\ Init
    /\ name = 0
    /\ locked = FALSE
    /\ asks = 0
    /\ watched \in SUBSET System
    /\ topic = <<>>
    /\ handled = {}
    /\ read = NoReads
    /\ ldap = [entries |-> IF SchulenOf(rows, Uem) = {} THEN {} ELSE {0},
               members |-> [s \in Schule |-> IF s \in SchulenOf(rows, Uem) THEN {0} ELSE {}]]
    /\ itslearning = Enrolled(0, SchulenOf(rows, Itslearning))
    /\ email = IF SchulenOf(rows, Email) = {} THEN NoEmail ELSE SetEmail(0, SchulenOf(rows, Email), FALSE)
    /\ stray = {}

----------------------------------------------------------------------------
(* Publishing                                                              *)

Kafka(type) == [type |-> type, name |-> name', added |-> {}, removed |-> {}, current |-> {}]

Publishes(m) == topic' = Append(topic, m)

\* A request of Personenkontexte takes a step; its event goes to the topic.
RequestStep ==
    /\ DaysPass \/ \E j \in Job : Step(j)
    /\ used'.requests + asks <= MaxTotal
    /\ UNCHANGED <<own, handled, read, mirrors>>
    /\ CASE event'.type = "none" -> UNCHANGED <<topic, stray>>
         [] event'.type = "untold" -> stray' = Stray /\ UNCHANGED topic
         [] OTHER -> /\ Publishes([Kafka(event'.type) EXCEPT !.added = event'.added, !.removed = event'.removed,
                                                             !.current = event'.current])
                     /\ UNCHANGED stray

Asked ==
    /\ person = "present"
    /\ asks < MaxAsks /\ used.requests + asks < MaxTotal
    /\ asks' = asks + 1
    /\ Silent
    /\ UNCHANGED <<requests, used, watched, handled, read, mirrors>>

Deleting == \E j \in Job : job[j].kind \in {"delete", "deadline"} /\ Busy(j)

\* updatePersonMetadata with a new username, between the other requests.
Rename ==
    /\ Asked
    /\ name < MaxRenames
    /\ \A j \in Job : ~Busy(j)
    /\ name' = name + 1
    /\ Publishes(Kafka("renamed"))
    /\ UNCHANGED <<locked, stray>>

\* The user locks change: LocksForPersonChanged.
ChangeLocks ==
    /\ Asked
    /\ locked' = ~locked
    /\ UNCHANGED name
    /\ Publishes(Kafka("locks"))
    /\ stray' = IF Deleting THEN Stray ELSE stray

\* An administrator asks for a synchronisation. During a deletion its handler
\* may bring back what the deletion has just removed.
RequestSync ==
    /\ Asked
    /\ UNCHANGED <<name, locked>>
    /\ Publishes(Kafka("sync"))
    /\ stray' = IF Deleting THEN Stray ELSE stray

\* Sending the newest event fails, which is only logged.
Lose ==
    /\ topic # <<>>
    /\ Len(topic) = 1 => handled = {} /\ read = NoReads
    /\ Trouble
    /\ topic' = SubSeq(topic, 1, Len(topic) - 1)
    /\ stray' = Stray
    /\ Silent
    /\ UNCHANGED <<requests, own, handled, read, mirrors>>

----------------------------------------------------------------------------
(* Consuming                                                               *)

Present == [present |-> person = "present", name |-> name, rows |-> rows, locked |-> locked]

Read(s) ==
    /\ Handling(s)
    /\ Reads(s, Head(topic)) /\ ~read[s].done
    /\ read' = [read EXCEPT ![s] = [done |-> TRUE, seen |-> Present]]
    /\ Silent
    /\ UNCHANGED <<requests, used, own, topic, handled, mirrors, stray>>

\* A synchronisation repairs what it sees completely: nothing is under way, and
\* for LDAP there are contexts or an entry to work with.
Repairs(s) ==
    /\ Head(topic).type = "sync" /\ Len(topic) = 1
    /\ read[s].seen = Present /\ person = "present"
    /\ \A j \in Job : ~Busy(j)
    /\ s = "ldap" => SchulenOf(rows, Uem) # {} \/ name \in ldap.entries

\* A synchronisation that is ahead of a change of the name creates the entry
\* to which the old one should have been renamed.
Overtakes(s) ==
    /\ s = "ldap" /\ Head(topic).type = "sync"
    /\ \E i \in 2..Len(topic) : topic[i].type = "renamed"

Settled(s) == IF Repairs(s) THEN stray \ {s} ELSE IF Overtakes(s) THEN stray \cup {"ldapOld"} ELSE stray

Handle(s) ==
    /\ Handling(s)
    /\ Reads(s, Head(topic)) => read[s].done
    /\ LET e == Head(topic)
           seen == read[s].seen
       IN  /\ ldap' = IF s = "ldap" THEN LdapAfter(ldap, e, seen) ELSE ldap
           /\ itslearning' = IF s = "itslearning" THEN ItslearningAfter(itslearning, e, seen) ELSE itslearning
           /\ email' = IF s = "email" THEN EmailAfter(email, e, seen) ELSE email
    /\ handled' = handled \cup {s} /\ read' = [read EXCEPT ![s] = NoReads[s]]
    /\ stray' = Settled(s)
    /\ Silent
    /\ UNCHANGED <<requests, used, own, topic>>

\* What is left half-done: no member is added, the entry of a new member is
\* missing, an entry has its new name or is created and the groups do not follow.
LdapHalves(l, e, seen) ==
    LET done == LdapAfter(l, e, seen)
    IN  CASE e.type = "updated" -> {Leave(l, e.name, Unjustified(e)), [l EXCEPT !.members = done.members]}
          [] e.type \in {"renamed", "sync"} -> {[l EXCEPT !.entries = done.entries]}
          [] OTHER -> {}

\* The person is written, and its memberships do not follow.
ItslearningHalves(i, e, seen) ==
    LET done == ItslearningAfter(i, e, seen)
    IN  IF done.known /\ e.type # "renamed" THEN {[done EXCEPT !.schulen = i.schulen]} ELSE {}

\* A call fails after all attempts, which is only logged: nothing is done, or
\* only a part.
HandleFails(s) ==
    /\ Handling(s)
    /\ Reads(s, Head(topic)) => read[s].done
    /\ Trouble
    /\ LET e == Head(topic)
           seen == read[s].seen
       IN  /\ ldap' \in {ldap} \cup (IF s = "ldap" THEN LdapHalves(ldap, e, seen) ELSE {})
           /\ itslearning' \in {itslearning} \cup (IF s = "itslearning" THEN ItslearningHalves(itslearning, e, seen) ELSE {})
    /\ handled' = handled \cup {s} /\ read' = [read EXCEPT ![s] = NoReads[s]]
    /\ stray' = stray \cup (IF s = "ldap" THEN {"ldap", "ldapOld"} ELSE {s})
    /\ Silent
    /\ UNCHANGED <<requests, own, topic, email>>

Commit ==
    /\ topic # <<>> /\ Interested(Head(topic)) \cap watched \subseteq handled
    /\ topic' = Tail(topic) /\ handled' = {}
    /\ Silent
    /\ UNCHANGED <<requests, used, own, read, mirrors, stray>>

\* The consumer restarts: its first event is delivered again.
Restart ==
    /\ handled # {} \/ read # NoReads
    /\ Trouble
    /\ handled' = {} /\ read' = NoReads
    /\ Silent
    /\ UNCHANGED <<requests, own, topic, mirrors, stray>>

MirrorsNext ==
    \/ RequestStep
    \/ Rename \/ ChangeLocks \/ RequestSync \/ Lose
    \/ \E s \in System : Read(s) \/ Handle(s) \/ HandleFails(s)
    \/ Commit \/ Restart

MirrorsSpec == MirrorsInit /\ [][MirrorsNext]_allvars

----------------------------------------------------------------------------
(* Properties                                                              *)

\* No request is under way, and every event is handled.
Quiet == topic = <<>> /\ \A j \in Job : ~Busy(j)

Told(s) == s \in watched \ stray

\* Exactly the groups of the schools where the person has a context with UEM,
\* under the present username, and an entry for it.
LdapAgrees ==
    /\ \A s \in Schule : name \in ldap.members[s] <=> s \in SchulenOf(rows, Uem)
    /\ SchulenOf(rows, Uem) # {} => name \in ldap.entries

NothingUnderOldNames == ldap.entries \subseteq {name} /\ \A s \in Schule : ldap.members[s] \subseteq {name}

ItslearningAgrees == itslearning = Enrolled(name, SchulenOf(rows, Itslearning))

EmailAgrees ==
    /\ IF SchulenOf(rows, Email) = {} THEN email.state # "set"
       ELSE email = SetEmail(name, SchulenOf(rows, Email), locked)
    /\ email.state # "none" => email.locked = locked

\* When everything has settled, LDAP, itslearning and the e-mail microservice
\* know the contexts, the name and the lock of the person that the database has,
\* whatever was requested, synchronised or redelivered in between: a system that
\* was told of every change, or was synchronised without disturbance since. With
\* one request of the person at a time; two that overlap break it.
MirrorsAgree ==
    (Quiet /\ person = "present") =>
        /\ Told("ldap") => LdapAgrees
        /\ Told("ldap") /\ "ldapOld" \notin stray => NothingUnderOldNames
        /\ Told("itslearning") => ItslearningAgrees
        /\ Told("email") => EmailAgrees

\* When everything has settled after a deletion, the systems have forgotten the
\* person. After the deadline the e-mail addresses are only suspended, and the
\* LDAP entry stays if no oxUserId was known. With one request at a time, as above.
DeletedIsForgotten ==
    (Quiet /\ person \in {"deleted", "expired"}) =>
        /\ Told("ldap") /\ "ldapOld" \notin stray =>
              /\ \A s \in Schule : ldap.members[s] = {}
              /\ person = "deleted" => ldap.entries = {}
        /\ Told("itslearning") => ~itslearning.known
        /\ Told("email") => email.state # "set" /\ (person = "deleted" => email.state = "none")

=============================================================================
