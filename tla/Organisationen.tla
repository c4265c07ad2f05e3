--------------------------- MODULE Organisationen ---------------------------
(***************************************************************************)
(* The tree of organisations: every row names the organisation that        *)
(* administers it (administriertVon) and the one it belongs to             *)
(* (zugehoerigZu), both without a foreign key.  Requests validate what     *)
(* they are about to write against other rows, one query after another and *)
(* without a transaction, and then write a single row under its version.   *)
(*                                                                         *)
(* Each action is one access to the database with the computation up to    *)
(* the next one.  The root organisation never changes and is left out.     *)
(***************************************************************************)
EXTENDS Naturals, FiniteSets

CONSTANTS
    Orga,         \* organisations that exist or will be created
    None,         \* no organisation
    TypOf,        \* the type of each: it never changes
    Ersatz,       \* those whose name contains "Ersatz" directly below the root
    Name,         \* the names; of a SCHULE, the kennung
    Start,        \* the tree at the beginning
    Place,        \* the pairs of parents that are asked for
    Job,          \* requests that run at once
    MaxRequests   \* bound: requests

Typ == {"LAND", "TRAEGER", "SCHULE", "KLASSE", "BEHOERDE"}

\* The two columns that refer to a parent.
Relation == {"admin", "zug"}

Parent == Orga \cup {None}

Row == [admin : Parent, zug : Parent, name : Name, its : BOOLEAN, version : Nat \ {0}]

NoRow == [admin |-> None, zug |-> None, name |-> None, its |-> FALSE, version |-> 0]

Rows == [Orga -> Row \cup {NoRow}]

ASSUME TreeAssumption ==
    /\ None \notin Orga
    /\ IsFiniteSet(Orga)
    /\ TypOf \in [Orga -> Typ]
    /\ Ersatz \subseteq {o \in Orga : TypOf[o] = "LAND"}
    /\ Start \in Rows
    /\ \A o \in Orga : \A p \in {Start[o].admin, Start[o].zug} : p = None \/ Start[p] # NoRow
    /\ \A o, p \in Orga :
          (Start[o] # NoRow /\ Start[p] # NoRow /\ o # p /\ TypOf[o] = TypOf[p] /\ Start[o].name = Start[p].name)
             => \/ TypOf[o] \in {"LAND", "TRAEGER"}
                \/ TypOf[o] = "KLASSE" /\ Start[o].admin # Start[p].admin
    /\ Place \subseteq [admin : Parent, zug : Parent]
    /\ MaxRequests \in Nat

\* There is no circle to begin with: in every set of organisations one has its
\* parent outside.
ASSUME CircleAssumption ==
    \A rel \in Relation : \A S \in SUBSET Orga : S # {} => \E o \in S : Start[o][rel] \notin S

VARIABLES
    tree,     \* the table organisation: the row of each id, or NoRow
    born,     \* the ids that were given out
    job,      \* the requests, each with its local variables
    asked,    \* how many requests there were
    overlap   \* history: for each organisation, what others wrote while it was being written

vars == <<tree, born, job, asked, overlap>>

----------------------------------------------------------------------------
(* The tree                                                                *)

Existing == {o \in Orga : tree[o] # NoRow}

\* x and everything above it along one column: findParentOrgasForIds and the
\* other recursive queries, which follow administriertVon.
Up(rel, x) ==
    LET level[n \in 0..Cardinality(Orga)] ==
            IF n = 0 THEN {x}
            ELSE UNION {{y, IF y = None THEN None ELSE tree[y][rel]} : y \in level[n - 1]}
    IN  level[Cardinality(Orga)] \ {None}

OnCycle(rel, x) == x \in Existing /\ x \in Up(rel, tree[x][rel])

\* The recursive queries use UNION ALL: on a cycle they never end.
Ends(x) == \A y \in Up("admin", x) : ~OnCycle("admin", y)

\* findOrganisationZuordnungErsatzOderOeffentlich
IsErsatz(x) == Up("admin", x) \cap Ersatz # {}

OfTyp(t) == {o \in Existing : TypOf[o] = t}

----------------------------------------------------------------------------
(* Requests                                                                *)

At == {"idle", "viewed", "side", "admin", "zug", "references", "name", "save",
       "children", "zugehoerige", "remove"}

Op == {"create", "put", "rename", "move", "enable", "delete"}

\* base is the row a change is based on, and seen the identity map of the request.
JobSet == [at : At, op : Op, id : Parent, base : Row \cup {NoRow}, new : Row \cup {NoRow}, next : Parent,
           path : SUBSET Orga, seen : Rows, beside : SUBSET Orga]

Idle == [at |-> "idle", op |-> "create", id |-> None, base |-> NoRow, new |-> NoRow, next |-> None,
         path |-> {}, seen |-> [o \in Orga |-> NoRow], beside |-> {}]

TypeOK ==
    /\ tree \in Rows
    /\ Existing \subseteq born /\ born \subseteq Orga
    /\ job \in [Job -> JobSet]
    /\ asked \in 0..MaxRequests
    /\ overlap \in [Orga -> SUBSET Orga]

Init ==
    /\ tree = Start
    /\ born = Existing
    /\ job = [j \in Job |-> Idle]
    /\ asked = 0
    /\ overlap = [o \in Orga |-> {}]

Busy(j) == job[j].at # "idle"

End(j) == job' = [job EXCEPT ![j] = Idle] /\ UNCHANGED <<tree, born, asked, overlap>>

Go(j, at) == job' = [job EXCEPT ![j].at = at] /\ UNCHANGED <<tree, born, asked, overlap>>

\* A request begins; what it reads in its first step goes into the identity map.
Begin(j, new) ==
    /\ ~Busy(j)
    /\ asked < MaxRequests
    /\ asked' = asked + 1
    /\ job' = [job EXCEPT ![j] = new]
    /\ UNCHANGED <<tree, overlap>>

\* A request that has read the rows of S.
Reading(S) == [x \in Orga |-> IF x \in S THEN tree[x] ELSE NoRow]

----------------------------------------------------------------------------
(* What every request does with the row it writes                          *)

\* KlasseNurVonSchuleAdministriert, BehoerdeAdministriertVon
ParentsFit(o, row) ==
    CASE TypOf[o] = "KLASSE" ->
            /\ row.admin # None /\ TypOf[row.admin] = "SCHULE"
            /\ row.zug # None /\ TypOf[row.zug] = "SCHULE"
      [] TypOf[o] = "BEHOERDE" -> row.admin # None /\ TypOf[row.admin] \in {"BEHOERDE", "LAND"}
      [] OTHER -> TRUE

\* SchuleUnterTraeger
UnterTraeger(row) ==
    /\ row.admin # None /\ TypOf[row.admin] = "LAND"
    /\ row.zug # None /\ TypOf[row.zug] \in {"TRAEGER", "LAND"}

\* Mutant: the names of the others are not compared when an organisation is renamed.
NameFree_NewOnly(o, row) == o \in Existing \/ \A p \in OfTyp(TypOf[o]) : tree[p].name # row.name

\* KlassenNameAnSchuleEindeutig, SchuleKennungEindeutig, BehoerdeNameUnique, and for
\* a TRAEGER TraegerUnterRootChild and TraegerNameUniqueInSubtree.  The Klassen of
\* a school include the Klasse itself.
NameFree(o, row) ==
    CASE TypOf[o] = "KLASSE" ->
            \A k \in OfTyp("KLASSE") :
                row.admin \in {tree[k].admin} \cup Up("admin", tree[k].admin) => tree[k].name # row.name
      [] TypOf[o] = "TRAEGER" ->
            /\ row.zug # None /\ TypOf[row.zug] = "LAND"
            /\ \A t \in OfTyp("TRAEGER") \ {o} : row.zug \in Up("admin", t) => tree[t].name # row.name
      [] OTHER -> \A p \in OfTyp(TypOf[o]) \ {o} : tree[p].name # row.name

\* The recursive query of the school, or of the other Traeger of that name.
QueryEnds(o, row) ==
    CASE TypOf[o] = "KLASSE" -> ~OnCycle("admin", row.admin)
      [] TypOf[o] = "TRAEGER" -> \A t \in OfTyp("TRAEGER") \ {o} : tree[t].name = row.name => Ends(t)
      [] OTHER -> TRUE

CheckName(j) ==
    /\ job[j].at = "name"
    /\ QueryEnds(job[j].id, job[j].new)
    /\ IF NameFree(job[j].id, job[j].new) THEN Go(j, "save") ELSE End(j)

\* Writing one organisation ends the request; all others notice for the record.
Written(j, o) ==
    /\ job' = [k \in Job |-> IF k = j THEN Idle
                             ELSE IF Busy(k) THEN [job[k] EXCEPT !.beside = @ \cup {o}]
                             ELSE job[k]]
    /\ overlap' = [overlap EXCEPT ![o] = @ \cup job[j].beside]
    /\ UNCHANGED <<born, asked>>

\* Mutant: the version is only compared with the entity of the same request.
Unchanged_SameRequest(j) == job[j].id \in Existing

\* update and its flush: UPDATE ... WHERE version = the one that was read.
Unchanged(j) == job[j].id \in Existing /\ tree[job[j].id].version = job[j].base.version

Save(j) ==
    /\ job[j].at = "save" /\ job[j].op # "create"
    /\ IF Unchanged(j)
       THEN /\ tree' = [tree EXCEPT ![job[j].id] = [job[j].new EXCEPT !.version = @ + 1]]
            /\ Written(j, job[j].id)
       ELSE End(j)

----------------------------------------------------------------------------
(* Looking for circles                                                     *)

Known(j, o) == IF job[j].seen[o] # NoRow THEN job[j].seen[o] ELSE tree[o]

Found(j, o) == o # None /\ Known(j, o) # NoRow

Climbing(j) == job[j].at \in Relation

\* Mutant: the list of ZyklusInOrganisationen begins with the first parent.
Met_ParentsOnly(j) == job[j].path

\* The organisation itself and those met on the way.
Met(j) == job[j].path \cup {job[j].id}

\* The next parent is not the organisation itself and was not met before.
ClimbUp(j) ==
    /\ Climbing(j)
    /\ LET o == job[j].next IN
        /\ Found(j, o)
        /\ o \notin Met(j)
        /\ job' = [job EXCEPT ![j].next = Known(j, o)[job[j].at],
                              ![j].path = @ \cup {o},
                              ![j].seen[o] = Known(j, o)]
    /\ UNCHANGED <<tree, born, asked, overlap>>

\* ZyklusInOrganisationen
ClimbCircle(j) ==
    /\ Climbing(j)
    /\ job[j].next \in Met(j)
    /\ End(j)

AtTop(j) == Climbing(j) /\ ~Found(j, job[j].next)

ClimbZug(j) ==
    /\ AtTop(j) /\ job[j].at = "admin"
    /\ job' = [job EXCEPT ![j].at = "zug", ![j].next = job[j].new.zug, ![j].path = {}]
    /\ UNCHANGED <<tree, born, asked, overlap>>

\* The parents were read: they exist, and their types are known.
ParentsSeen(j) == {job[j].new.admin, job[j].new.zug} \subseteq {o \in Orga : job[j].seen[o] # NoRow} \cup {None}

Climbed(j) ==
    /\ AtTop(j) /\ job[j].at = "zug"
    /\ IF ParentsSeen(j) /\ ParentsFit(job[j].id, job[j].new)
       THEN Go(j, IF job[j].op = "put" /\ TypOf[job[j].id] # "TRAEGER" THEN "name" ELSE "save")
       ELSE End(j)

----------------------------------------------------------------------------
(* createOrganisation                                                      *)

Create(j) ==
    \E o \in Orga \ born, p \in Place, n \in Name :
        /\ TypOf[o] # "LAND"
        /\ Begin(j, [Idle EXCEPT !.at = "references", !.op = "create", !.id = o,
                                 !.new = [admin |-> p.admin, zug |-> p.zug, name |-> n,
                                          its |-> FALSE, version |-> 1]])
        /\ born' = born \cup {o}

\* validateOrganisationReferences and the types of the parents.
CheckReferences(j) ==
    /\ job[j].at = "references"
    /\ IF /\ {job[j].new.admin, job[j].new.zug} \subseteq Existing \cup {None}
          /\ ParentsFit(job[j].id, job[j].new)
       THEN Go(j, "name")
       ELSE End(j)

Insert(j) ==
    /\ job[j].at = "save" /\ job[j].op = "create"
    /\ tree' = [tree EXCEPT ![job[j].id] = job[j].new]
    /\ Written(j, job[j].id)

----------------------------------------------------------------------------
(* updateOrganisation                                                      *)

\* The client sends all fields.  A SCHULE keeps its parents and its kennung.
Update(row, o, p, n) ==
    IF TypOf[o] = "SCHULE" THEN row ELSE [row EXCEPT !.admin = p.admin, !.zug = p.zug, !.name = n]

Put(j) ==
    \E o \in Existing, p \in Place, n \in Name :
        /\ TypOf[o] # "LAND"
        /\ LET new == Update(tree[o], o, p, n) IN
            Begin(j, [Idle EXCEPT !.at = "admin", !.op = "put", !.id = o, !.base = tree[o],
                                  !.new = new, !.next = new.admin, !.seen = Reading({o})])
        /\ UNCHANGED born

----------------------------------------------------------------------------
(* updateOrganisationName                                                  *)

\* The client looks at the organisation and will send the version it saw.
View(j) ==
    \E o \in Existing :
        /\ TypOf[o] \in {"KLASSE", "TRAEGER"}
        /\ Begin(j, [Idle EXCEPT !.at = "viewed", !.op = "rename", !.id = o, !.base = tree[o]])
        /\ UNCHANGED born

\* The row is read again, and for a Klasse its school.
Rename(j) ==
    /\ job[j].at = "viewed"
    /\ LET o == job[j].id IN
        IF /\ o \in Existing
           /\ TypOf[o] = "KLASSE" => tree[o].admin \in Existing
        THEN \E n \in Name :
                job' = [job EXCEPT ![j].at = IF n = tree[o].name THEN "save" ELSE "name",
                                   ![j].new = [tree[o] EXCEPT !.name = n],
                                   ![j].beside = {}]
        ELSE job' = [job EXCEPT ![j] = Idle]
    /\ UNCHANGED <<tree, born, asked, overlap>>

----------------------------------------------------------------------------
(* setZugehoerigZu                                                         *)

\* The school and its new parent are read together.
Move(j) ==
    \E o, p \in Existing :
        /\ TypOf[o] = "SCHULE" /\ tree[o].zug # None
        /\ \E q \in Place : q.zug = p
        /\ Begin(j, [Idle EXCEPT !.at = "side", !.op = "move", !.id = o, !.base = tree[o],
                                 !.new = [tree[o] EXCEPT !.zug = p],
                                 !.seen = Reading({o, p})])
        /\ UNCHANGED born

\* OrganisationsOnSameSubtree, then SchuleUnterTraeger.  The recursive queries
\* bring the rows they return into the identity map.
CheckSide(j) ==
    /\ job[j].at = "side"
    /\ LET o == job[j].id
           p == job[j].new.zug
           read == (Up("admin", o) \cup Up("admin", p)) \cap Existing
       IN  /\ Ends(o) /\ Ends(p)
           /\ IF IsErsatz(o) = IsErsatz(p) /\ UnterTraeger(job[j].new)
              THEN job' = [job EXCEPT ![j].at = "admin", ![j].next = job[j].new.admin,
                                      ![j].seen = [x \in Orga |-> IF x \in read THEN tree[x] ELSE @[x]]]
              ELSE job' = [job EXCEPT ![j] = Idle]
    /\ UNCHANGED <<tree, born, asked, overlap>>

----------------------------------------------------------------------------
(* setEnabledForitslearning                                                *)

Enable(j) ==
    \E o \in OfTyp("SCHULE") :
        /\ Begin(j, [Idle EXCEPT !.at = "save", !.op = "enable", !.id = o, !.base = tree[o],
                                 !.new = [tree[o] EXCEPT !.its = TRUE]])
        /\ UNCHANGED born

----------------------------------------------------------------------------
(* deleteOrganisation                                                      *)

Delete(j) ==
    \E o \in Existing :
        /\ TypOf[o] # "LAND"
        /\ Begin(j, [Idle EXCEPT !.at = "children", !.op = "delete", !.id = o])
        /\ UNCHANGED born

\* Mutant: only the organisations that are administered are looked for.
CheckChildren_Only(j) ==
    /\ job[j].at = "children"
    /\ IF \A o \in Existing : tree[o].admin # job[j].id THEN Go(j, "remove") ELSE End(j)

\* hasNoReferences, one column after the other.
CheckChildren(j) ==
    /\ job[j].at = "children"
    /\ IF \A o \in Existing : tree[o].admin # job[j].id THEN Go(j, "zugehoerige") ELSE End(j)

CheckZugehoerige(j) ==
    /\ job[j].at = "zugehoerige"
    /\ IF \A o \in Existing : tree[o].zug # job[j].id THEN Go(j, "remove") ELSE End(j)

\* The row is removed by its id, whatever its version.
Remove(j) ==
    /\ job[j].at = "remove"
    /\ IF job[j].id \in Existing
       THEN /\ tree' = [tree EXCEPT ![job[j].id] = NoRow]
            /\ Written(j, job[j].id)
       ELSE End(j)

----------------------------------------------------------------------------

Step(j) ==
    \/ Create(j) \/ CheckReferences(j) \/ Insert(j)
    \/ Put(j) \/ ClimbUp(j) \/ ClimbCircle(j) \/ ClimbZug(j) \/ Climbed(j)
    \/ CheckName(j) \/ Save(j)
    \/ View(j) \/ Rename(j)
    \/ Move(j) \/ CheckSide(j)
    \/ Enable(j)
    \/ Delete(j) \/ CheckChildren(j) \/ CheckZugehoerige(j) \/ Remove(j)

Next == \E j \in Job : Step(j)

Spec == Init /\ [][Next]_vars

----------------------------------------------------------------------------
(* Properties                                                              *)

\* o and p were written side by side.
Beside(o, p) == p \in overlap[o] \/ o \in overlap[p]

\* No organisation is above itself, along either column, unless two on the circle
\* were written side by side: then each request found a tree without a circle.
NoCircle ==
    \A rel \in Relation : \A x \in Existing :
        OnCycle(rel, x) => \E p, q \in Up(rel, x) : Beside(p, q)

\* Every parent exists, although no foreign key demands it, unless the parent was
\* deleted while its child was being written.
ParentsExist ==
    \A o \in Existing :
        \A p \in {tree[o].admin, tree[o].zug} : p \in Existing \cup {None} \/ Beside(o, p)

\* The Klassen of a school, the kennungen of schools and the names of Behoerden are
\* unique, unless both were written side by side.
NamesUnique ==
    \A o, p \in Existing :
        (/\ o # p /\ TypOf[o] = TypOf[p] /\ TypOf[o] \in {"KLASSE", "SCHULE", "BEHOERDE"}
         /\ tree[o].name = tree[p].name
         /\ TypOf[o] = "KLASSE" => tree[o].admin = tree[p].admin)
            => Beside(o, p)

\* A row is only written over what the request had read, or over what the client
\* had seen when the version comes from the client.
NoLostUpdate ==
    [][\A o \in Existing \cap Existing' :
         tree'[o] # tree[o] =>
            \E j \in Job : job[j].at = "save" /\ job[j].id = o /\ job[j].base = tree[o]
                           /\ job'[j].at = "idle"]_vars

=============================================================================
