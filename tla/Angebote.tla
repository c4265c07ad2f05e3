------------------------------ MODULE Angebote ------------------------------
(***************************************************************************)
(* Angebote (service providers), the Rollen they are attached to, and the  *)
(* Rollenerweiterungen that open an Angebot to a Rolle at one organisation *)
(* only.  Angebote are changed by hand and, for schools, by the            *)
(* synchronisation with VIDIS.  Requests read what they need, one query    *)
(* after another and without a transaction, and then write.                *)
(*                                                                         *)
(* Each action is one access to the database with the computation up to    *)
(* the next one.                                                           *)
(***************************************************************************)
EXTENDS Naturals, FiniteSets

CONSTANTS
    School,       \* the schools
    Land,         \* the organisation above them
    None,         \* no Angebot, no offer, no Rolle, no organisation
    Sp,           \* ids of Angebote
    Offer,        \* ids of VIDIS
    Name,         \* names that are given by hand
    Title,        \* titles in VIDIS
    Rolle,        \* the Rollen
    Art,          \* Rollenarten
    ArtOf,        \* the Rollenart of each Rolle: it never changes
    RolleAt,      \* the organisation that administers it
    Start,        \* tables and VIDIS at the beginning
    Job,          \* requests that run at once
    PageSize,     \* SYNC_SCHOOLS_PAGE_SIZE
    MaxItems,     \* bound: ids in one request
    MaxRequests,  \* bound: requests
    MaxChanges,   \* bound: changes in VIDIS
    MaxCrashes    \* bound: restarts of the process

Orga == School \cup {Land}

\* open: VERFUEGBAR_FUER_ROLLENERWEITERUNG; arten: the whitelist, empty for all.
Angebot == [at : Orga, offer : Offer \cup {None}, name : Name \cup Title, open : BOOLEAN, arten : SUBSET Art]

NoAngebot == [at |-> None, offer |-> None, name |-> None, open |-> FALSE, arten |-> {}]

RolleRow == [sps : SUBSET Sp, version : Nat \ {0}]

NoRolle == [sps |-> {}, version |-> 0]

Erweiterung == [orga : Orga, rolle : Rolle, sp : Sp]

\* What VIDIS says: which school has activated which offer, and its title.
Offering == School \X Offer

View == [active : SUBSET Offering, title : [Offer -> Title]]

\* A Rollenart that the whitelist admits; a Rollenerweiterung that it may have.
Allows(a, r) == a.arten = {} \/ ArtOf[r] \in a.arten

Admits(a, r) == a.open /\ Allows(a, r)

ASSUME AngebotAssumption ==
    /\ Land \notin School
    /\ None \notin Orga \cup Sp \cup Offer \cup Name \cup Title \cup Rolle
    /\ ArtOf \in [Rolle -> Art]
    /\ RolleAt \in [Rolle -> Orga]
    /\ Start.sp \in [Sp -> Angebot \cup {NoAngebot}]
    /\ Start.rolle \in [Rolle -> RolleRow \cup {NoRolle}]
    /\ Start.erw \subseteq Erweiterung
    /\ Start.vidis \in View
    /\ \A e \in Start.erw : Admits(Start.sp[e.sp], e.rolle)
    /\ PageSize \in Nat \ {0}
    /\ {MaxItems, MaxRequests, MaxChanges, MaxCrashes} \subseteq Nat

VARIABLES
    sp,      \* the table service_provider with its Merkmale and whitelists
    born,    \* the ids that were given out
    rolle,   \* the table rolle with rolle_service_provider
    erw,     \* the table rollenerweiterung
    vidis,   \* what VIDIS says
    job,     \* the requests, each with its local variables
    used,    \* how many requests, changes and restarts there were
    raced    \* history: Angebote written by a request beside which they were written

tables == <<sp, born, rolle, erw>>

vars == <<tables, vidis, job, used, raced>>

----------------------------------------------------------------------------
(* The tables                                                              *)

Existing == {s \in Sp : sp[s] # NoAngebot}

Rollen == {r \in Rolle : rolle[r] # NoRolle}

Of(o) == {s \in Existing : sp[s].at = o}

Attached(s) == \E r \in Rolle : s \in rolle[r].sps

Extended(s) == \E e \in erw : e.sp = s

\* The foreign keys of rolle_service_provider and rollenerweiterung.
Removable(s) == ~Attached(s) /\ ~Extended(s)

\* NameUniqueAtOrgaSpecification
NameFree(o, n, s) == \A t \in Of(o) \ {s} : sp[t].name # n

\* findNonSchoolProvidedVidisAngebote.  The code reads them once for all schools;
\* nothing changes them.
OffersOfLand == {sp[s].offer : s \in Of(Land)}

----------------------------------------------------------------------------
(* Requests                                                                *)

At == {"idle", "load", "page", "read", "apply", "name", "rollen",
       "strip", "write", "attached", "extended", "drop", "save"}

Op == {"sync", "forRolle", "forAngebot", "patch", "create", "delete", "assign", "dropRolle"}

Pair == Rolle \X Sp

\* open: the schools of the page whose renamings have not begun; seen: the Angebote
\* of the page as they were read; check, ready: what is to be created or renamed;
\* beside: what others wrote while the request was under way.
JobSet == [at : At, op : Op, orga : Orga \cup {None}, id : Sp \cup {None}, rolle : Rolle \cup {None},
           vidis : View, todo : SUBSET School, page : SUBSET School, open : SUBSET School,
           seen : [Sp -> Angebot \cup {NoAngebot}],
           check : SUBSET Offering, ready : SUBSET Offering, strip : SUBSET Sp, drop : SUBSET Sp,
           add : SUBSET Pair, remove : SUBSET Pair,
           base : Angebot \cup {NoAngebot}, new : Angebot \cup {NoAngebot},
           row : RolleRow \cup {NoRolle}, sps : SUBSET Sp, beside : SUBSET Sp]

Nothing == [s \in Sp |-> NoAngebot]

Idle == [at |-> "idle", op |-> "sync", orga |-> None, id |-> None, rolle |-> None,
         vidis |-> Start.vidis, todo |-> {}, page |-> {}, open |-> {}, seen |-> Nothing,
         check |-> {}, ready |-> {}, strip |-> {}, drop |-> {}, add |-> {}, remove |-> {},
         base |-> NoAngebot, new |-> NoAngebot, row |-> NoRolle, sps |-> {}, beside |-> {}]

TypeOK ==
    /\ sp \in [Sp -> Angebot \cup {NoAngebot}]
    /\ Existing \subseteq born /\ born \subseteq Sp
    /\ rolle \in [Rolle -> RolleRow \cup {NoRolle}]
    /\ erw \subseteq Erweiterung
    /\ vidis \in View
    /\ job \in [Job -> JobSet]
    /\ used \in [requests : 0..MaxRequests, changes : 0..MaxChanges, crashes : 0..MaxCrashes]
    /\ raced \subseteq Sp

Init ==
    /\ sp = Start.sp
    /\ born = Existing
    /\ rolle = Start.rolle
    /\ erw = Start.erw
    /\ vidis = Start.vidis
    /\ job = [j \in Job |-> Idle]
    /\ used = [requests |-> 0, changes |-> 0, crashes |-> 0]
    /\ raced = {}

Busy(j) == job[j].at # "idle"

Is(j, at, op) == job[j].at = at /\ job[j].op = op

Begin(j, new) ==
    /\ ~Busy(j)
    /\ used.requests < MaxRequests
    /\ used' = [used EXCEPT !.requests = @ + 1]
    /\ job' = [job EXCEPT ![j] = new]
    /\ UNCHANGED <<tables, vidis, raced>>

\* A step that writes nothing.
Goto(j, new) == job' = [job EXCEPT ![j] = new] /\ UNCHANGED <<tables, vidis, used, raced>>

\* A step that writes the Angebote of S, or what refers to them: the others notice
\* for the record.
Wrote(j, S, new) ==
    /\ job' = [k \in Job |-> IF k = j THEN new
                             ELSE IF Busy(k) THEN [job[k] EXCEPT !.beside = @ \cup S]
                             ELSE job[k]]
    /\ raced' = raced \cup (S \cap job[j].beside)
    /\ UNCHANGED <<vidis, used>>

----------------------------------------------------------------------------
(* Synchronisation with VIDIS                                              *)

\* The button of one school, or all of them at night: VIDIS is asked once.
Sync(j) ==
    \E todo \in {{s} : s \in School} \cup {School} :
        Begin(j, [Idle EXCEPT !.at = "load", !.op = "sync", !.vidis = vidis, !.todo = todo])

\* findVidisAngeboteforSchools
VidisAngebote(P) == [t \in Sp |-> IF sp[t].at \in P /\ sp[t].offer # None THEN sp[t] ELSE NoAngebot]

Offered(v, s) == {o \in Offer : <<s, o>> \in v.active}

\* In VIDIS, but neither at the Land nor at the school.
Missing(v, seen, s) ==
    {s} \X {o \in Offered(v, s) \ OffersOfLand : \A t \in Sp : seen[t].at = s => seen[t].offer # o}

Withdrawn(v, seen, s) == {t \in Sp : seen[t].at = s /\ seen[t].offer \notin Offered(v, s)}

Outdated(v, seen, s) ==
    {s} \X {o \in Offered(v, s) :
                \E t \in Sp : seen[t].at = s /\ seen[t].offer = o /\ seen[t].name # v.title[o]}

\* syncSchoolsPage: the Angebote of a page of schools are read once, then all of
\* them are synchronised side by side, but for those without differences.  The
\* last page may be shorter.
LoadPage(j) ==
    /\ Is(j, "load", "sync")
    /\ \E P \in SUBSET job[j].todo :
        LET v == job[j].vidis
            seen == VidisAngebote(P)
        IN
        /\ Cardinality(P) = PageSize \/ (P = job[j].todo /\ Cardinality(P) < PageSize)
        /\ Goto(j, [job[j] EXCEPT
               !.at = "page", !.page = P, !.seen = seen,
               !.open = {s \in P : \/ Missing(v, seen, s) # {} \/ Withdrawn(v, seen, s) # {}
                                   \/ Outdated(v, seen, s) # {}},
               !.check = UNION {Missing(v, seen, s) : s \in P},
               !.strip = UNION {Withdrawn(v, seen, s) : s \in P}])

TitleOf(j, p) == job[j].vidis.title[p[2]]

\* The Angebot to be renamed; none for an offer to be created.
SeenOf(j, p) == {t \in Sp : job[j].seen[t].at = p[1] /\ job[j].seen[t].offer = p[2]}

\* ServiceProviderModificationService.create, up to the flush.  All creations
\* run side by side, with each other and with the removals.
CheckOffer(j) ==
    /\ Is(j, "page", "sync")
    /\ \E p \in job[j].check :
        /\ SeenOf(j, p) = {}
        /\ Goto(j, [job[j] EXCEPT !.check = @ \ {p},
                                  !.ready = IF NameFree(p[1], TitleOf(j, p), None) THEN @ \cup {p} ELSE @])

\* Mutant: the Angebote are removed without their Rollenerweiterungen.
OwnErweiterungen_None(s, S) == {}

\* deleteByOrganisationIdAndServiceProviderIds
OwnErweiterungen(s, S) == {e \in erw : e.orga = s /\ e.sp \in S}

StripWithdrawn(j) ==
    /\ Is(j, "page", "sync")
    /\ \E s \in job[j].open :
        LET S == {t \in job[j].strip : job[j].seen[t].at = s} IN
        /\ S # {}
        /\ erw' = erw \ OwnErweiterungen(s, S)
        /\ Wrote(j, S, [job[j] EXCEPT !.drop = @ \cup S, !.strip = @ \ S])
    /\ UNCHANGED <<sp, born, rolle>>

\* Its creations and removals are all settled.
StartRenames(j) ==
    /\ Is(j, "page", "sync")
    /\ \E s \in job[j].open :
        /\ \A p \in job[j].check \cup job[j].ready : p[1] # s
        /\ \A t \in job[j].strip \cup job[j].drop : job[j].seen[t].at # s
        /\ Goto(j, [job[j] EXCEPT !.open = @ \ {s},
                                  !.check = @ \cup Outdated(job[j].vidis, job[j].seen, s)])

\* ServiceProviderModificationService.update, up to the flush.
CheckRename(j) ==
    /\ Is(j, "page", "sync")
    /\ \E p \in job[j].check :
        /\ SeenOf(j, p) # {}
        /\ Goto(j, [job[j] EXCEPT !.check = @ \ {p},
                                  !.ready = IF \A t \in SeenOf(j, p) : NameFree(p[1], TitleOf(j, p), t)
                                               THEN @ \cup {p} ELSE @])

\* createVidisServiceProvider
FromVidis(j, p) ==
    [at |-> p[1], offer |-> p[2], name |-> TitleOf(j, p), open |-> TRUE, arten |-> {}]

\* The unique index on organisation and offer, and the foreign keys.
Flushable(G, D) ==
    /\ \A p \in G : \A t \in Of(p[1]) : sp[t].offer # p[2]
    /\ \A t \in D : Removable(t)

\* The rows after a flush: id is where the creations go, and a renaming, an UPDATE
\* by id, does nothing if the row is gone.
Flushed(j, id, renamed, D) ==
    [t \in Sp |->
        IF t \in D THEN NoAngebot
        ELSE IF \E p \in DOMAIN id : id[p] = t THEN FromVidis(j, CHOOSE p \in DOMAIN id : id[p] = t)
        ELSE IF t \in renamed THEN [sp[t] EXCEPT !.name = job[j].vidis.title[job[j].seen[t].offer]]
        ELSE sp[t]]

\* The schools of a page share an EntityManager.  A flush writes everything that is
\* pending in it, whichever school it is for, in one transaction: a violation spoils
\* what happens to be in it, and is only logged.
Flush(j) ==
    /\ Is(j, "page", "sync")
    /\ \E W \in SUBSET job[j].ready, D \in SUBSET job[j].drop :
        LET G == {p \in W : SeenOf(j, p) = {}}
            renamed == Existing \cap UNION {SeenOf(j, p) : p \in W}
            after == [job[j] EXCEPT !.ready = @ \ W, !.drop = @ \ D]
        IN
        /\ W # {} \/ D # {}
        /\ \/ /\ Flushable(G, D)
              /\ \E id \in [G -> Sp \ born] :
                    LET New == {id[p] : p \in G} IN
                    /\ \A p, q \in G : id[p] = id[q] => p = q
                    /\ sp' = Flushed(j, id, renamed, D)
                    /\ born' = born \cup New
                    /\ Wrote(j, D \cup New \cup renamed, after)
                    /\ UNCHANGED <<rolle, erw>>
           \/ ~Flushable(G, D) /\ Goto(j, after)

EndPage(j) ==
    /\ Is(j, "page", "sync")
    /\ job[j].open = {} /\ job[j].check = {} /\ job[j].ready = {}
    /\ Goto(j, IF job[j].todo = job[j].page THEN Idle
               ELSE [Idle EXCEPT !.at = "load", !.op = "sync", !.vidis = job[j].vidis,
                                 !.todo = job[j].todo \ job[j].page, !.beside = job[j].beside])

----------------------------------------------------------------------------
(* ApplyRollenerweiterungService                                           *)

\* What is added and removed in one request.
Change(X) == {c \in [add : SUBSET X, remove : SUBSET X] :
                 /\ c.add # {} \/ c.remove # {}
                 /\ Cardinality(c.add) + Cardinality(c.remove) <= MaxItems}

\* applyRollenerweiterungChangesForRolle
ForRolle(j) ==
    \E o \in Orga, r \in Rollen, c \in Change(Existing) :
        Begin(j, [Idle EXCEPT !.at = "read", !.op = "forRolle", !.orga = o, !.rolle = r, !.row = rolle[r],
                              !.add = {r} \X c.add, !.remove = {r} \X c.remove])

\* applyRollenerweiterungChangesForAngebot
ForAngebot(j) ==
    \E o \in Orga, s \in Existing, c \in Change(Rollen) :
        Begin(j, [Idle EXCEPT !.at = "read", !.op = "forAngebot", !.orga = o, !.id = s, !.base = sp[s],
                              !.add = c.add \X {s}, !.remove = c.remove \X {s}])

Exists(o, r, s) == [orga |-> o, rolle |-> r, sp |-> s] \in erw

\* Rollenerweiterung.createNew, with what the request has read of the Rolle and
\* of the Angebot.
Creatable(row, r, a, s) == s \notin row.sps /\ Admits(a, r)

\* A request with nothing left to add and to remove is done.
Rest(new) == IF new.add = {} /\ new.remove = {} THEN Idle ELSE new

\* The existing Rollenerweiterungen and the Angebote or Rollen are read; what
\* will be refused for each of them is known by then.
ReadForRolle(j) ==
    /\ Is(j, "read", "forRolle")
    /\ LET r == job[j].rolle IN
        Goto(j, Rest([job[j] EXCEPT !.at = "apply",
                   !.add = {p \in @ : /\ p[2] \in Existing
                                      /\ ~Exists(job[j].orga, r, p[2])
                                      /\ Creatable(job[j].row, r, sp[p[2]], p[2])},
                   !.remove = {p \in @ : p[2] \in Existing}]))

ReadForAngebot(j) ==
    /\ Is(j, "read", "forAngebot")
    /\ LET s == job[j].id IN
        Goto(j, Rest([job[j] EXCEPT !.at = "apply",
                   !.add = {p \in @ : /\ p[1] \in Rollen
                                      /\ ~Exists(job[j].orga, p[1], s)
                                      /\ Creatable(rolle[p[1]], p[1], job[j].base, s)},
                   !.remove = {p \in @ : p[1] \in Rollen}]))

\* One after another; one that exists by now is taken as created.  A Rolle or
\* an Angebot that is gone violates a foreign key, which ends the request.
Add(j) ==
    /\ job[j].at = "apply"
    /\ \E p \in job[j].add :
        IF p[1] \in Rollen /\ p[2] \in Existing
        THEN /\ erw' = erw \cup {[orga |-> job[j].orga, rolle |-> p[1], sp |-> p[2]]}
             /\ Wrote(j, {p[2]}, Rest([job[j] EXCEPT !.add = @ \ {p}]))
             /\ UNCHANGED <<sp, born, rolle>>
        ELSE Goto(j, Idle)

\* Once all are added.
Remove(j) ==
    /\ job[j].at = "apply" /\ job[j].add = {}
    /\ \E p \in job[j].remove :
        /\ erw' = erw \ {[orga |-> job[j].orga, rolle |-> p[1], sp |-> p[2]]}
        /\ Wrote(j, {p[2]}, Rest([job[j] EXCEPT !.remove = @ \ {p}]))
    /\ UNCHANGED <<sp, born, rolle>>

----------------------------------------------------------------------------
(* Angebote by hand                                                        *)

\* updateServiceProvider: the client sends any of the fields.  An Angebot of
\* VIDIS is refused.
Patch(j) ==
    \E s \in Existing, n \in Name, open \in BOOLEAN, arten \in SUBSET Art :
        LET new == [sp[s] EXCEPT !.name = n, !.open = open, !.arten = arten] IN
        /\ sp[s].offer = None
        /\ new # sp[s]
        /\ Begin(j, [Idle EXCEPT !.at = "name", !.op = "patch", !.id = s, !.base = sp[s], !.new = new])

\* createServiceProvider
Create(j) ==
    \E o \in Orga, n \in Name, open \in BOOLEAN, arten \in SUBSET Art :
        Begin(j, [Idle EXCEPT !.at = "name", !.op = "create",
                              !.new = [at |-> o, offer |-> None, name |-> n, open |-> open, arten |-> arten]])

\* A whitelist that changes and forbids something.
Narrows(j) == job[j].new.arten # job[j].base.arten /\ job[j].new.arten # {}

CheckName(j) ==
    /\ job[j].at = "name"
    /\ IF NameFree(job[j].new.at, job[j].new.name, job[j].id)
       THEN Goto(j, [job[j] EXCEPT !.at = IF job[j].op = "create" THEN "write"
                                          ELSE IF Narrows(j) THEN "rollen" ELSE "strip"])
       ELSE Goto(j, Idle)

\* Mutant: the Rollenarten are compared with the whitelist that is replaced.
Conflicts_Old(j) == \E r \in Rolle : job[j].id \in rolle[r].sps /\ ~Allows(job[j].base, r)

\* getAttachedRollenError
Conflicts(j) == \E r \in Rolle : job[j].id \in rolle[r].sps /\ ~Allows(job[j].new, r)

CheckRollen(j) ==
    /\ job[j].at = "rollen"
    /\ Goto(j, IF Conflicts(j) THEN Idle ELSE [job[j] EXCEPT !.at = "strip"])

\* Mutant: only the whitelist is looked at.
Spoilt_WhitelistOnly(j) ==
    IF Narrows(j) THEN {e \in erw : e.sp = job[j].id /\ ~Allows(job[j].new, e.rolle)} ELSE {}

\* The Rollenerweiterungen that the Angebot will not admit any more.
Spoilt(j) ==
    IF job[j].base.open /\ ~job[j].new.open THEN {e \in erw : e.sp = job[j].id}
    ELSE IF Narrows(j) THEN {e \in erw : e.sp = job[j].id /\ ~Allows(job[j].new, e.rolle)}
    ELSE {}

Strip(j) ==
    /\ job[j].at = "strip"
    /\ erw' = erw \ Spoilt(j)
    /\ Wrote(j, {job[j].id}, [job[j] EXCEPT !.at = "write"])
    /\ UNCHANGED <<sp, born, rolle>>

\* The flush inserts and deletes the rows of Merkmal and whitelist in which the
\* new values differ from those that were read.
Written(now, base, new) ==
    [now EXCEPT !.name = IF new.name # base.name THEN new.name ELSE @,
                !.open = IF new.open # base.open THEN new.open ELSE @,
                !.arten = (@ \ (base.arten \ new.arten)) \cup (new.arten \ base.arten)]

\* None of the rows to be inserted exists, and the Angebot does.
Insertable(now, base, new) ==
    /\ now # NoAngebot
    /\ (new.arten \ base.arten) \cap now.arten = {}
    /\ new.open /\ ~base.open => ~now.open

WritePatch(j) ==
    /\ Is(j, "write", "patch")
    /\ LET s == job[j].id IN
        IF Insertable(sp[s], job[j].base, job[j].new)
        THEN /\ sp' = [sp EXCEPT ![s] = Written(@, job[j].base, job[j].new)]
             /\ Wrote(j, {s}, Idle)
             /\ UNCHANGED <<born, rolle, erw>>
        ELSE Goto(j, Idle)

WriteCreate(j) ==
    /\ Is(j, "write", "create")
    /\ \E s \in Sp \ born :
        /\ sp' = [sp EXCEPT ![s] = job[j].new]
        /\ born' = born \cup {s}
        /\ Wrote(j, {s}, Idle)
    /\ UNCHANGED <<rolle, erw>>

\* deleteServiceProvider
Delete(j) ==
    \E s \in Existing :
        /\ sp[s].offer = None
        /\ Begin(j, [Idle EXCEPT !.at = "attached", !.op = "delete", !.id = s])

\* Rollen first, Rollenerweiterungen with the next query.
CheckAttached(j) ==
    /\ job[j].at = "attached"
    /\ Goto(j, IF Attached(job[j].id) THEN Idle ELSE [job[j] EXCEPT !.at = "extended"])

CheckExtended(j) ==
    /\ job[j].at = "extended"
    /\ Goto(j, IF Extended(job[j].id) THEN Idle ELSE [job[j] EXCEPT !.at = "drop"])

Drop(j) ==
    /\ Is(j, "drop", "delete")
    /\ IF Removable(job[j].id)
       THEN /\ sp' = [sp EXCEPT ![job[j].id] = NoAngebot]
            /\ Wrote(j, {job[j].id}, Idle)
            /\ UNCHANGED <<born, rolle, erw>>
       ELSE Goto(j, Idle)

----------------------------------------------------------------------------
(* Rollen                                                                  *)

\* updateRolleAuthorized: the Angebote exist and lie at the organisation of the
\* Rolle or above.
Assign(j) ==
    \E r \in Rollen : \E sps \in SUBSET (Of(RolleAt[r]) \cup Of(Land)) :
        /\ sps # rolle[r].sps
        /\ Begin(j, [Idle EXCEPT !.at = "save", !.op = "assign", !.rolle = r, !.row = rolle[r], !.sps = sps])

\* The version guards the Rolle, the foreign key new Angebote.
Save(j) ==
    /\ job[j].at = "save"
    /\ LET r == job[j].rolle
           S == job[j].sps \ job[j].row.sps
       IN  IF rolle[r].version = job[j].row.version /\ S \subseteq Existing
           THEN /\ rolle' = [rolle EXCEPT ![r] = [sps |-> job[j].sps, version |-> @.version + 1]]
                /\ Wrote(j, S \cup (job[j].row.sps \ job[j].sps), Idle)
                /\ UNCHANGED <<sp, born, erw>>
           ELSE Goto(j, Idle)

\* deleteAuthorized
DropRolle(j) ==
    \E r \in Rollen :
        Begin(j, [Idle EXCEPT !.at = "drop", !.op = "dropRolle", !.rolle = r, !.row = rolle[r]])

\* The connections that were read go with the Rolle, others forbid it; its
\* Rollenerweiterungen follow by the foreign key.
RemoveRolle(j) ==
    /\ Is(j, "drop", "dropRolle")
    /\ LET r == job[j].rolle
           own == {e \in erw : e.rolle = r}
       IN  IF rolle[r].sps \subseteq job[j].row.sps
           THEN /\ rolle' = [rolle EXCEPT ![r] = NoRolle]
                /\ erw' = erw \ own
                /\ Wrote(j, rolle[r].sps \cup {e.sp : e \in own}, Idle)
                /\ UNCHANGED <<sp, born>>
           ELSE Goto(j, Idle)

----------------------------------------------------------------------------

\* A school activates or gives up an offer, or the title changes.
VidisChanges ==
    /\ used.changes < MaxChanges
    /\ used' = [used EXCEPT !.changes = @ + 1]
    /\ \/ \E s \in School, o \in Offer :
            vidis' = [vidis EXCEPT !.active = IF <<s, o>> \in @ THEN @ \ {<<s, o>>} ELSE @ \cup {<<s, o>>}]
       \/ \E o \in Offer : \E n \in Title \ {vidis.title[o]} : vidis' = [vidis EXCEPT !.title[o] = n]
    /\ UNCHANGED <<tables, job, raced>>

\* The process stops in the middle of its requests.
Crash ==
    /\ \E j \in Job : Busy(j)
    /\ used.crashes < MaxCrashes
    /\ used' = [used EXCEPT !.crashes = @ + 1]
    /\ job' = [j \in Job |-> Idle]
    /\ UNCHANGED <<tables, vidis, raced>>

Step(j) ==
    \/ Sync(j) \/ LoadPage(j) \/ CheckOffer(j) \/ StripWithdrawn(j) \/ Flush(j)
    \/ StartRenames(j) \/ CheckRename(j) \/ EndPage(j)
    \/ ForRolle(j) \/ ForAngebot(j) \/ ReadForRolle(j) \/ ReadForAngebot(j)
    \/ Add(j) \/ Remove(j)
    \/ Patch(j) \/ Create(j) \/ CheckName(j) \/ CheckRollen(j) \/ Strip(j)
    \/ WritePatch(j) \/ WriteCreate(j) \/ Delete(j) \/ CheckAttached(j) \/ CheckExtended(j) \/ Drop(j)
    \/ Assign(j) \/ Save(j) \/ DropRolle(j) \/ RemoveRolle(j)

Next == (\E j \in Job : Step(j)) \/ VidisChanges \/ Crash

Spec == Init /\ [][Next]_vars

----------------------------------------------------------------------------
(* Properties                                                              *)

\* Every Rollenerweiterung is one that its Angebot admits by its Merkmal and its
\* whitelist, unless the Angebot was changed while one was being added or while
\* it was being changed by another request.
ErweiterungenAdmitted ==
    \A e \in erw : e.sp \in raced \/ Admits(sp[e.sp], e.rolle)

\* A Rollenart that a Rolle with the Angebot has is never taken from the whitelist,
\* unless the Rolle received the Angebot meanwhile or two requests changed the
\* whitelist side by side.  (A Rolle may receive an Angebot that forbids it.)
RollenStayAllowed ==
    [][\A s \in Existing \cap Existing', r \in Rolle :
         s \in rolle[r].sps /\ s \in rolle'[r].sps /\ Allows(sp[s], r)
            => Allows(sp'[s], r) \/ s \in raced']_vars

\* A title that is taken: by another offer of the school in VIDIS, by another
\* Angebot when the school was loaded, or by one that is not from VIDIS.
TitleTaken(j, s) ==
    LET v == job[j].vidis
        own == Offered(v, s) \ OffersOfLand
    IN
    \E o \in own :
        \/ \E p \in own \ {o} : v.title[p] = v.title[o]
        \/ \E t \in Sp : /\ job[j].seen[t].at = s /\ job[j].seen[t].offer # o
                         /\ job[j].seen[t].name = v.title[o]
        \/ \E t \in Of(s) : sp[t].offer = None /\ sp[t].name = v.title[o]

\* An Angebot to be removed that a Rolle has, or another organisation extends.
Retained(j, s) ==
    \E t \in Of(s) :
        /\ sp[t].offer \notin Offered(job[j].vidis, s) \cup {None}
        /\ Attached(t) \/ \E e \in erw : e.sp = t /\ e.orga # s

\* A synchronisation beside which nothing was written leaves a school with the
\* offers that it read from VIDIS and with their titles, whatever earlier ones, also
\* interrupted ones, have left, unless a title is taken at the school or an Angebot
\* cannot go: one of the school itself or of another of its page, whose violated
\* foreign key spoils what is flushed with it.
SyncedWithVidis ==
    [][\A j \in Job : \A s \in job[j].todo \ job'[j].todo :
         LET v == job[j].vidis IN
         \/ job[j].beside # {} \/ used' # used
         \/ TitleTaken(j, s) \/ \E p \in job[j].page : Retained(j, p)
         \/ /\ {sp[t].offer : t \in Of(s)} \ {None} = Offered(v, s) \ OffersOfLand
            /\ \A t \in Of(s) : sp[t].offer # None => sp[t].name = v.title[sp[t].offer]]_vars

=============================================================================
