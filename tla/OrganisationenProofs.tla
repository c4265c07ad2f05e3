------------------------ MODULE OrganisationenProofs ------------------------
(***************************************************************************)
(* Proofs about Organisationen for every tree and every number of          *)
(* requests.                                                               *)
(*                                                                         *)
(* The inductive invariant says of each request what its validation is     *)
(* still worth: what it found holds of the present tree, up to what others *)
(* have written since it began.  A second one, on top of it, says the same *)
(* of the search for circles; a circle is a set of organisations that      *)
(* contains their parents.                                                 *)
(***************************************************************************)
EXTENDS Organisationen, FiniteSetTheorems, WellFoundedInduction, TLAPS

Writing == {"references", "name", "save", "side", "admin", "zug"}

\* A request that will write has a row to write; parents are climbed to change
\* them, and what the client has seen is not in the identity map.
PlanInv(j) ==
    Busy(j) => /\ job[j].id \in born
               /\ job[j].at \in Writing => job[j].new \in Row
               /\ job[j].at \in Relation => job[j].op \in {"put", "move"}
               /\ job[j].at = "side" => job[j].op = "move"
               /\ job[j].at = "viewed" => /\ job[j].op = "rename"
                                          /\ \A p \in Orga : job[j].seen[p] = NoRow

\* The id of a creation is its own.
FreshInv(j) ==
    (Busy(j) /\ job[j].op = "create") =>
        /\ tree[job[j].id] = NoRow
        /\ \A k \in Job \ {j} : Busy(k) => job[k].id # job[j].id

\* The version tells whether the row is still the one that was read.
BaseInv(j) ==
    (job[j].at \in Writing \cup {"viewed"} /\ job[j].op # "create") =>
        /\ tree[job[j].id] # NoRow =>
              /\ job[j].base.version <= tree[job[j].id].version
              /\ job[j].base.version = tree[job[j].id].version => job[j].base = tree[job[j].id]
        /\ job[j].at # "viewed" => job[j].base.version <= job[j].new.version

\* What was read exists, or others have written it since.
SeenInv(j) ==
    Busy(j) => \A p \in Orga : job[j].seen[p] # NoRow => tree[p] # NoRow \/ p \in job[j].beside

\* Excused by the history once the request has written.
Owed(j, p) == p \in job[j].beside \/ Beside(job[j].id, p)

RefersTo(row) == {row.admin, row.zug} \cap Orga

\* validateOrganisationReferences is still worth something.
RefersInv(j) ==
    job[j].at \in {"name", "save"} =>
        \A p \in RefersTo(job[j].new) : tree[p] # NoRow \/ Owed(j, p)

\* hasNoReferences is still worth something.
EmptyInv(j) ==
    /\ job[j].at \in {"zugehoerige", "remove"} =>
          \A o \in Orga : tree[o] # NoRow /\ tree[o].admin = job[j].id => o \in job[j].beside
    /\ job[j].at = "remove" =>
          \A o \in Orga : tree[o] # NoRow /\ tree[o].zug = job[j].id => o \in job[j].beside

\* Another organisation has the name that o has in row.
Clash(o, row, p) ==
    /\ tree[p] # NoRow /\ o # p
    /\ TypOf[o] = TypOf[p] /\ TypOf[o] \in {"KLASSE", "SCHULE", "BEHOERDE"}
    /\ row.name = tree[p].name
    /\ TypOf[o] = "KLASSE" => row.admin = tree[p].admin

\* The comparison of names is still worth something; a move keeps the name.
NamesInv(j) ==
    (job[j].at = "save" \/ (Busy(j) /\ job[j].op = "move")) =>
        \A p \in Orga : Clash(job[j].id, job[j].new, p) => Owed(j, p)

JobInv(j) ==
    /\ PlanInv(j) /\ BaseInv(j) /\ SeenInv(j)
    /\ RefersInv(j) /\ EmptyInv(j) /\ NamesInv(j)

IInv ==
    /\ TypeOK /\ ParentsExist /\ NamesUnique
    /\ \A j \in Job : FreshInv(j) /\ JobInv(j)

----------------------------------------------------------------------------
(* Types                                                                   *)

LEMMA NoRowIsNoRow == NoRow \notin Row /\ \A r \in Row : r.version # 0 /\ r # NoRow
  BY DEF Row, NoRow

LEMMA IdleIsJob == Idle \in JobSet
  BY DEF Idle, JobSet, At, Op, Rows, Parent

\* The fields of a request.
LEMMA JobFields ==
    ASSUME TypeOK, NEW j \in Job
    PROVE  /\ job[j] \in JobSet
           /\ job[j].at \in At /\ job[j].op \in Op /\ job[j].id \in Parent
           /\ job[j].base \in Row \cup {NoRow} /\ job[j].new \in Row \cup {NoRow}
           /\ job[j].next \in Parent /\ job[j].path \subseteq Orga
           /\ job[j].seen \in [Orga -> Row \cup {NoRow}] /\ job[j].beside \subseteq Orga
  BY DEF TypeOK, JobSet, Rows

\* Requests that end, go on or write.
LEMMA EndTyped == ASSUME TypeOK, NEW j \in Job, End(j) PROVE TypeOK'
  BY IdleIsJob DEF TypeOK, End, Existing

LEMMA GoTyped == ASSUME TypeOK, NEW j \in Job, NEW at \in At, Go(j, at) PROVE TypeOK'
  BY DEF TypeOK, Go, Existing, JobSet

LEMMA BeginTyped ==
    ASSUME TypeOK, NEW j \in Job, NEW new \in JobSet, Begin(j, new), UNCHANGED born
    PROVE  TypeOK'
  BY TreeAssumption DEF TypeOK, Begin, Existing

LEMMA WrittenTyped ==
    ASSUME TypeOK, NEW j \in Job, NEW o \in born, NEW r \in Row \cup {NoRow},
           tree' = [tree EXCEPT ![o] = r], Written(j, o)
    PROVE  TypeOK'
  <1>1. o \in Orga
    BY DEF TypeOK
  <1>2. tree' \in Rows /\ Existing' \subseteq born'
    BY <1>1 DEF TypeOK, Rows, Existing, Written
  <1>3. \A k \in Job : [job[k] EXCEPT !.beside = @ \cup {o}] \in JobSet
    BY <1>1 DEF TypeOK, JobSet
  <1>4. job' \in [Job -> JobSet]
    BY <1>3, IdleIsJob DEF TypeOK, Written
  <1>5. overlap' \in [Orga -> SUBSET Orga]
    <2>1. job[j].beside \subseteq Orga
      BY JobFields
    <2> QED
      BY <1>1, <2>1 DEF TypeOK, Written
  <1> QED
    BY <1>2, <1>4, <1>5 DEF TypeOK, Written

\* The rows that a request reads.
LEMMA ReadingTyped == ASSUME TypeOK, NEW S PROVE Reading(S) \in Rows
  BY DEF TypeOK, Reading, Rows

LEMMA KnownTyped ==
    ASSUME TypeOK, NEW j \in Job, NEW o \in Orga
    PROVE  Known(j, o) \in Row \cup {NoRow}
  BY JobFields DEF TypeOK, Known, Rows

\* Types are kept by every step.
LEMMA TypeStep == IInv /\ [Next]_vars => TypeOK'
  <1> SUFFICES ASSUME IInv, [Next]_vars PROVE TypeOK'
    OBVIOUS
  <1> USE DEF IInv
  <1>1. CASE UNCHANGED vars
    BY <1>1 DEF vars, TypeOK, Existing
  <1>2. ASSUME NEW j \in Job, Step(j) PROVE TypeOK'
    <2> USE <1>2
    <2>0. /\ Idle \in JobSet /\ JobInv(j)
          /\ {"references", "admin", "viewed", "side", "children", "zugehoerige", "name", "save", "remove"} \subseteq At
          /\ {"create", "put", "rename", "move", "enable", "delete"} \subseteq Op
      BY IdleIsJob DEF At, Op
    <2>00. \A o \in Existing : tree[o] \in Row /\ o \in Orga /\ o \in born /\ tree[o].admin \in Parent /\ tree[o].zug \in Parent
      BY DEF TypeOK, Rows, Existing, Row
    <2>1. CASE Create(j)
      <3>1. PICK o \in Orga \ born, p \in Place, n \in Name :
                /\ Begin(j, [Idle EXCEPT !.at = "references", !.op = "create", !.id = o,
                                         !.new = [admin |-> p.admin, zug |-> p.zug, name |-> n,
                                                  its |-> FALSE, version |-> 1]])
                /\ born' = born \cup {o}
        BY <2>1 DEF Create
      <3>2. [admin |-> p.admin, zug |-> p.zug, name |-> n, its |-> FALSE, version |-> 1] \in Row
        BY TreeAssumption DEF Row
      <3>3. job' \in [Job -> JobSet]
        BY <2>0, <3>1, <3>2 DEF Begin, TypeOK, JobSet, Idle, Parent
      <3> QED
        BY TreeAssumption, <3>1, <3>3 DEF Begin, TypeOK, Existing
    <2>2. CASE CheckReferences(j)
      BY <2>0, <2>2, GoTyped, EndTyped DEF CheckReferences
    <2>3. CASE Insert(j)
      <3>1. job[j].id \in born /\ job[j].new \in Row
        BY <2>0, <2>3 DEF Insert, JobInv, PlanInv, Writing, Busy
      <3> QED
        BY <2>3, <3>1, WrittenTyped DEF Insert
    <2>4. CASE Put(j)
      <3>1. PICK o \in Existing, p \in Place, n \in Name :
                /\ Begin(j, [Idle EXCEPT !.at = "admin", !.op = "put", !.id = o, !.base = tree[o],
                                         !.new = Update(tree[o], o, p, n), !.next = Update(tree[o], o, p, n).admin,
                                         !.seen = Reading({o})])
                /\ UNCHANGED born
        BY <2>4 DEF Put
      <3>2. Update(tree[o], o, p, n) \in Row
        BY <2>00, TreeAssumption DEF Update, Row
      <3>3. Update(tree[o], o, p, n).admin \in Parent
        BY <3>2 DEF Row
      <3>4. Reading({o}) \in Rows
        BY ReadingTyped
      <3>5. [Idle EXCEPT !.at = "admin", !.op = "put", !.id = o, !.base = tree[o],
                        !.new = Update(tree[o], o, p, n), !.next = Update(tree[o], o, p, n).admin,
                        !.seen = Reading({o})] \in JobSet
        BY <2>0, <2>00, <3>2, <3>3, <3>4 DEF JobSet, Idle, Parent
      <3> QED
        BY <3>1, <3>5, BeginTyped
    <2>5. CASE ClimbUp(j)
      <3>1. job[j].next \in Orga /\ Known(j, job[j].next) \in Row /\ job[j].at \in Relation
        BY <2>5, JobFields, KnownTyped DEF ClimbUp, Found, Climbing, Parent
      <3>2. Known(j, job[j].next)[job[j].at] \in Parent
        BY <3>1 DEF Row, Relation
      <3>3. [job[j].seen EXCEPT ![job[j].next] = Known(j, job[j].next)] \in Rows
        BY <3>1, JobFields DEF Rows
      <3>4. job[j].path \cup {job[j].next} \in SUBSET Orga /\ job[j] \in JobSet
        BY <3>1, JobFields
      <3>5. [job[j] EXCEPT !.next = Known(j, job[j].next)[job[j].at],
                           !.path = job[j].path \cup {job[j].next},
                           !.seen = [job[j].seen EXCEPT ![job[j].next] = Known(j, job[j].next)]] \in JobSet
        BY <3>2, <3>3, <3>4 DEF JobSet
      <3>6. job' = [job EXCEPT ![j] = [job[j] EXCEPT
                        !.next = Known(j, job[j].next)[job[j].at],
                        !.path = job[j].path \cup {job[j].next},
                        !.seen = [job[j].seen EXCEPT ![job[j].next] = Known(j, job[j].next)]]]
        BY <2>5, <3>4 DEF ClimbUp, TypeOK, JobSet
      <3>7. job' \in [Job -> JobSet]
        BY <3>5, <3>6 DEF TypeOK
      <3> QED
        BY <2>5, <3>7 DEF ClimbUp, TypeOK, Existing
    <2>6. CASE ClimbCircle(j)
      BY <2>6, EndTyped DEF ClimbCircle
    <2>7. CASE ClimbZug(j)
      <3>1. job[j].new \in Row
        BY <2>0, <2>7 DEF ClimbZug, AtTop, Climbing, JobInv, PlanInv, Writing, Busy
      <3>2. job[j].new.zug \in Parent /\ "zug" \in At
        BY <3>1 DEF Row, At
      <3>3. [job[j] EXCEPT !.at = "zug", !.next = job[j].new.zug, !.path = {}] \in JobSet
        BY <3>2, JobFields DEF JobSet
      <3>4. job' = [job EXCEPT ![j] = [job[j] EXCEPT !.at = "zug", !.next = job[j].new.zug, !.path = {}]]
        BY <2>7 DEF ClimbZug, TypeOK
      <3>5. job' \in [Job -> JobSet]
        BY <3>3, <3>4 DEF TypeOK
      <3> QED
        BY <2>7, <3>5 DEF ClimbZug, TypeOK, Existing
    <2>8. CASE Climbed(j)
      BY <2>0, <2>8, GoTyped, EndTyped DEF Climbed
    <2>9. CASE CheckName(j)
      BY <2>0, <2>9, GoTyped, EndTyped DEF CheckName
    <2>10. CASE Save(j)
      <3>1. CASE Unchanged(j)
        <4>1. job[j].id \in born /\ job[j].new \in Row
          BY <2>0, <2>10 DEF Save, JobInv, PlanInv, Writing, Busy
        <4>2. [job[j].new EXCEPT !.version = @ + 1] \in Row
          BY <4>1 DEF Row
        <4> QED
          BY <2>10, <3>1, <4>1, <4>2, WrittenTyped DEF Save
      <3> QED
        BY <2>10, <3>1, EndTyped DEF Save
    <2>11. CASE View(j)
      <3>1. PICK o \in Existing :
                /\ Begin(j, [Idle EXCEPT !.at = "viewed", !.op = "rename", !.id = o, !.base = tree[o]])
                /\ UNCHANGED born
        BY <2>11 DEF View
      <3>2. [Idle EXCEPT !.at = "viewed", !.op = "rename", !.id = o, !.base = tree[o]] \in JobSet
        BY <2>0, <2>00 DEF JobSet, Idle, Parent
      <3> QED
        BY <3>1, <3>2, BeginTyped
    <2>12. CASE Rename(j)
      <3>1. ASSUME job[j].id \in Existing, NEW n \in Name
            PROVE  [tree[job[j].id] EXCEPT !.name = n] \in Row
        BY <2>00, <3>1 DEF Row
      <3>2. ASSUME NEW at \in {"save", "name"}, NEW row \in Row
            PROVE  [job[j] EXCEPT !.at = at, !.new = row, !.beside = {}] \in JobSet
        BY <2>0, <3>2, JobFields DEF JobSet
      <3>3. CASE job' = [job EXCEPT ![j] = Idle]
        BY <2>0, <2>12, <3>3 DEF Rename, TypeOK, Existing
      <3>4. CASE \E n \in Name :
                    job' = [job EXCEPT ![j].at = IF n = tree[job[j].id].name THEN "save" ELSE "name",
                                       ![j].new = [tree[job[j].id] EXCEPT !.name = n],
                                       ![j].beside = {}]
        <4> SUFFICES ASSUME job[j].id \in Existing, ~(job' = [job EXCEPT ![j] = Idle]) PROVE TypeOK'
          BY <2>12, <3>3 DEF Rename
        <4>1. PICK n \in Name :
                    job' = [job EXCEPT ![j].at = IF n = tree[job[j].id].name THEN "save" ELSE "name",
                                       ![j].new = [tree[job[j].id] EXCEPT !.name = n],
                                       ![j].beside = {}]
          BY <3>4
        <4> DEFINE at == IF n = tree[job[j].id].name THEN "save" ELSE "name"
        <4>2. [job[j] EXCEPT !.at = at, !.new = [tree[job[j].id] EXCEPT !.name = n], !.beside = {}] \in JobSet
          BY <3>1, <3>2
        <4>3. job' = [job EXCEPT ![j] = [job[j] EXCEPT
                          !.at = at, !.new = [tree[job[j].id] EXCEPT !.name = n], !.beside = {}]]
          BY <4>1 DEF TypeOK
        <4>4. job' \in [Job -> JobSet]
          BY <4>2, <4>3 DEF TypeOK
        <4> QED
          BY <2>12, <4>4 DEF Rename, TypeOK, Existing
      <3> QED
        BY <2>12, <3>3, <3>4 DEF Rename
    <2>13. CASE Move(j)
      <3>1. PICK o \in Existing, p \in Existing :
                /\ Begin(j, [Idle EXCEPT !.at = "side", !.op = "move", !.id = o, !.base = tree[o],
                                         !.new = [tree[o] EXCEPT !.zug = p], !.seen = Reading({o, p})])
                /\ UNCHANGED born
        BY <2>13 DEF Move
      <3>2. [tree[o] EXCEPT !.zug = p] \in Row /\ Reading({o, p}) \in Rows
        BY <2>00, ReadingTyped DEF Row, Parent
      <3>3. [Idle EXCEPT !.at = "side", !.op = "move", !.id = o, !.base = tree[o],
                        !.new = [tree[o] EXCEPT !.zug = p], !.seen = Reading({o, p})] \in JobSet
        BY <2>0, <2>00, <3>2 DEF JobSet, Idle, Parent
      <3> QED
        BY <3>1, <3>3, BeginTyped
    <2>14. CASE CheckSide(j)
      <3>1. PICK read \in SUBSET Existing :
                job' = [job EXCEPT ![j].at = "admin", ![j].next = job[j].new.admin,
                                   ![j].seen = [x \in Orga |-> IF x \in read THEN tree[x] ELSE @[x]]]
                \/ job' = [job EXCEPT ![j] = Idle]
        BY <2>14 DEF CheckSide
      <3>2. job[j].new \in Row
        BY <2>0, <2>14 DEF CheckSide, JobInv, PlanInv, Writing, Busy
      <3>3. job[j].new.admin \in Parent
        BY <3>2 DEF Row
      <3>4. [x \in Orga |-> IF x \in read THEN tree[x] ELSE job[j].seen[x]] \in Rows
        BY JobFields DEF TypeOK, Rows
      <3>5. job' \in [Job -> JobSet]
        BY <2>0, <3>1, <3>3, <3>4 DEF JobSet, TypeOK
      <3> QED
        BY <2>14, <3>5 DEF CheckSide, TypeOK, Existing
    <2>15. CASE Enable(j)
      <3>1. PICK o \in OfTyp("SCHULE") :
                /\ Begin(j, [Idle EXCEPT !.at = "save", !.op = "enable", !.id = o, !.base = tree[o],
                                         !.new = [tree[o] EXCEPT !.its = TRUE]])
                /\ UNCHANGED born
        BY <2>15 DEF Enable
      <3>2. o \in Existing
        BY DEF OfTyp
      <3>3. [tree[o] EXCEPT !.its = TRUE] \in Row
        BY <2>00, <3>2 DEF Row
      <3>4. [Idle EXCEPT !.at = "save", !.op = "enable", !.id = o, !.base = tree[o],
                        !.new = [tree[o] EXCEPT !.its = TRUE]] \in JobSet
        BY <2>0, <2>00, <3>2, <3>3 DEF JobSet, Idle, Parent
      <3> QED
        BY <3>1, <3>4, BeginTyped
    <2>16. CASE Delete(j)
      <3>1. PICK o \in Existing :
                /\ Begin(j, [Idle EXCEPT !.at = "children", !.op = "delete", !.id = o])
                /\ UNCHANGED born
        BY <2>16 DEF Delete
      <3>2. [Idle EXCEPT !.at = "children", !.op = "delete", !.id = o] \in JobSet
        BY <2>0, <2>00 DEF JobSet, Idle, Parent
      <3> QED
        BY <3>1, <3>2, BeginTyped
    <2>17. CASE CheckChildren(j)
      BY <2>0, <2>17, GoTyped, EndTyped DEF CheckChildren
    <2>18. CASE CheckZugehoerige(j)
      BY <2>0, <2>18, GoTyped, EndTyped DEF CheckZugehoerige
    <2>19. CASE Remove(j)
      <3>1. CASE job[j].id \in Existing
        BY <2>00, <2>19, <3>1, WrittenTyped DEF Remove
      <3> QED
        BY <2>19, <3>1, EndTyped DEF Remove
    <2> QED
      BY <2>1, <2>2, <2>3, <2>4, <2>5, <2>6, <2>7, <2>8, <2>9, <2>10, <2>11, <2>12, <2>13, <2>14,
         <2>15, <2>16, <2>17, <2>18, <2>19 DEF Step
  <1> QED
    BY <1>1, <1>2 DEF Next

----------------------------------------------------------------------------
(* What a step leaves to the other requests                                *)

LEMMA IdleKeeps ==
    ASSUME NEW j \in Job, job'[j] = Idle
    PROVE  JobInv(j)'
  BY DEF JobInv, PlanInv, BaseInv, SeenInv, RefersInv, EmptyInv, NamesInv, Idle, Busy, Writing

\* A step that writes nothing.
LEMMA LocalKeeps ==
    ASSUME NEW k \in Job, JobInv(k), job'[k] = job[k], UNCHANGED <<tree, overlap>>, born \subseteq born'
    PROVE  JobInv(k)'
  <1>1. PlanInv(k)'
    BY DEF JobInv, PlanInv, Busy
  <1>2. BaseInv(k)'
    BY DEF JobInv, BaseInv
  <1>3. SeenInv(k)'
    BY DEF JobInv, SeenInv, Busy
  <1>4. RefersInv(k)'
    BY DEF JobInv, RefersInv, RefersTo, Owed, Beside
  <1>5. EmptyInv(k)'
    BY DEF JobInv, EmptyInv
  <1>6. NamesInv(k)'
    BY DEF JobInv, NamesInv, Clash, Owed, Beside, Busy
  <1> QED
    BY <1>1, <1>2, <1>3, <1>4, <1>5, <1>6 DEF JobInv

\* A step that writes the row r of the organisation o.
Writes(j, o, r) == o \in Orga /\ tree' = [tree EXCEPT ![o] = r] /\ Written(j, o)

LEMMA WritesHistory ==
    ASSUME TypeOK, NEW j \in Job, NEW o, NEW r, Writes(j, o, r)
    PROVE  /\ \A p, q \in Orga : Beside(p, q) => Beside(p, q)'
           /\ \A p \in job[j].beside : Beside(o, p)'
           /\ \A p \in Orga \ {o} : tree'[p] = tree[p]
           /\ tree'[o] = r
  BY DEF TypeOK, Writes, Written, Beside, Rows

LEMMA WriteKeeps ==
    ASSUME TypeOK, NEW j \in Job, NEW k \in Job \ {j}, NEW o, NEW r \in Row \cup {NoRow},
           Writes(j, o, r), JobInv(k),
           tree[o] # NoRow /\ r # NoRow => tree[o].version < r.version,
           tree[o] = NoRow /\ Busy(k) => job[k].id # o
    PROVE  JobInv(k)'
  <1>1. CASE ~Busy(k)
    <2>1. job'[k] = job[k]
      BY <1>1 DEF TypeOK, Writes, Written
    <2>2. job[k].at = "idle"
      BY <1>1 DEF Busy
    <2> QED
      BY <2>1, <2>2 DEF JobInv, PlanInv, BaseInv, SeenInv, RefersInv, EmptyInv, NamesInv, Busy, Writing
  <1>2. CASE Busy(k)
    <2>1. /\ job'[k] = [job[k] EXCEPT !.beside = job[k].beside \cup {o}]
          /\ o \in Orga /\ born' = born /\ job[k].id \in Orga /\ job[k].id \in born
      BY <1>2 DEF TypeOK, Writes, Written, JobInv, PlanInv
    <2>2. /\ job[k] \in JobSet
          /\ job'[k].at = job[k].at /\ job'[k].op = job[k].op /\ job'[k].id = job[k].id
          /\ job'[k].base = job[k].base /\ job'[k].new = job[k].new /\ job'[k].seen = job[k].seen
          /\ job'[k].beside = job[k].beside \cup {o}
      BY <2>1, JobFields DEF JobSet
    <2>3. /\ \A p, q \in Orga : Beside(p, q) => Beside(p, q)'
          /\ \A p \in Orga \ {o} : tree'[p] = tree[p]
          /\ tree'[o] = r
      BY <2>1, WritesHistory
    <2>4. \A p \in Orga : Owed(k, p) => Owed(k, p)'
      BY <2>1, <2>2, <2>3 DEF Owed
    <2>5. Owed(k, o)'
      BY <2>2 DEF Owed
    <2>6. PlanInv(k)'
      BY <2>1, <2>2 DEF JobInv, PlanInv, Busy
    <2>7. BaseInv(k)'
      <3>1. CASE job[k].id = o /\ job[k].at \in Writing \cup {"viewed"} /\ job[k].op # "create"
        <4>1. tree[o] # NoRow
          BY <1>2, <3>1
        <4>2. BaseInv(k)
          BY DEF JobInv
        <4>3. job[k].base.version <= tree[o].version
          BY <3>1, <4>1, <4>2 DEF BaseInv
        <4>4. /\ job[k].base.version \in Nat /\ tree[o].version \in Nat
              /\ r # NoRow => r.version \in Nat
          BY <2>1, JobFields DEF TypeOK, Rows, Row, NoRow
        <4>5. r # NoRow => job[k].base.version < r.version
          BY <4>1, <4>3, <4>4
        <4>6. r # NoRow => job[k].base.version <= r.version /\ job[k].base.version # r.version
          BY <4>4, <4>5
        <4> QED
          BY <2>2, <2>3, <3>1, <4>2, <4>6 DEF BaseInv
      <3>2. CASE job[k].id # o
        BY <2>1, <2>2, <2>3, <3>2 DEF JobInv, BaseInv
      <3> QED
        BY <2>2, <3>1, <3>2 DEF BaseInv
    <2>8. SeenInv(k)'
      BY <1>2, <2>2, <2>3 DEF JobInv, SeenInv, Busy
    <2>9. RefersInv(k)'
      <3> SUFFICES ASSUME job[k].at \in {"name", "save"}, NEW p \in RefersTo(job[k].new)
                   PROVE  tree'[p] # NoRow \/ Owed(k, p)'
        BY <2>2 DEF RefersInv, RefersTo
      <3>1. p \in Orga /\ (tree[p] # NoRow \/ Owed(k, p))
        BY DEF JobInv, RefersInv, RefersTo
      <3> QED
        BY <2>3, <2>4, <2>5, <3>1
    <2>10. EmptyInv(k)'
      BY <2>1, <2>2, <2>3 DEF JobInv, EmptyInv
    <2>11. NamesInv(k)'
      <3> SUFFICES ASSUME job[k].at = "save" \/ (Busy(k) /\ job[k].op = "move"),
                          NEW p \in Orga, Clash(job[k].id, job[k].new, p)'
                   PROVE  Owed(k, p)'
        BY <2>2 DEF NamesInv, Busy
      <3>1. CASE p = o
        BY <2>5, <3>1
      <3>2. CASE p # o
        <4>1. Clash(job[k].id, job[k].new, p)
          BY <2>2, <2>3, <3>2 DEF Clash
        <4>2. Owed(k, p)
          BY <4>1 DEF JobInv, NamesInv
        <4> QED
          BY <2>4, <4>2
      <3> QED
        BY <3>1, <3>2
    <2> QED
      BY <2>6, <2>7, <2>8, <2>9, <2>10, <2>11 DEF JobInv
  <1> QED
    BY <1>1, <1>2

----------------------------------------------------------------------------
(* What a step that writes leaves of the tree                              *)

LEMMA BesideSymmetric == ASSUME NEW p, NEW q PROVE Beside(p, q) <=> Beside(q, p)
  BY DEF Beside

\* A change or a creation is written as it was validated.
LEMMA SaveKeepsTree ==
    ASSUME IInv, NEW j \in Job, NEW o, o = job[j].id, NEW r \in Row, job[j].at = "save", Writes(j, o, r),
           r.admin = job[j].new.admin, r.zug = job[j].new.zug, r.name = job[j].new.name
    PROVE  ParentsExist' /\ NamesUnique'
  <1>0. /\ TypeOK /\ JobInv(j) /\ o \in Orga /\ r # NoRow
        /\ \A p, q \in Orga : Beside(p, q) => Beside(p, q)'
        /\ \A p \in job[j].beside : Beside(o, p)'
        /\ \A p \in Orga \ {o} : tree'[p] = tree[p]
        /\ tree'[o] = r
    <2>1. TypeOK /\ JobInv(j) /\ o \in Orga
      BY DEF IInv, Writes
    <2>2. r # NoRow
      BY NoRowIsNoRow
    <2>3. /\ \A p, q \in Orga : Beside(p, q) => Beside(p, q)'
          /\ \A p \in job[j].beside : Beside(o, p)'
          /\ \A p \in Orga \ {o} : tree'[p] = tree[p]
          /\ tree'[o] = r
      BY <2>1, WritesHistory
    <2> QED
      BY <2>1, <2>2, <2>3
  <1>1. \A p \in Orga : Owed(j, p) => Beside(o, p)'
    BY <1>0 DEF Owed
  <1>2. ParentsExist'
    <2> SUFFICES ASSUME NEW x \in Orga, tree'[x] # NoRow, NEW p \in {tree'[x].admin, tree'[x].zug}, p # None
                 PROVE  (p \in Orga /\ tree'[p] # NoRow) \/ Beside(x, p)'
      BY DEF ParentsExist, Existing
    <2>1. CASE x = o
      <3>1. p \in RefersTo(job[j].new)
        BY <1>0, <2>1 DEF RefersTo, Row, Parent
      <3>2. p \in Orga /\ (tree[p] # NoRow \/ Owed(j, p))
        BY <1>0, <3>1 DEF JobInv, RefersInv, RefersTo
      <3> QED
        BY <1>0, <1>1, <2>1, <3>2
    <2>2. CASE x # o
      <3>1. x \in Existing /\ p \in {tree[x].admin, tree[x].zug} /\ tree[x] \in Row
        BY <1>0, <2>2 DEF Existing, TypeOK, Rows
      <3>2. p \in Orga
        BY <3>1 DEF Row, Parent
      <3>3. tree[p] # NoRow \/ Beside(x, p)
        BY <3>1, <3>2 DEF IInv, ParentsExist, Existing
      <3> QED
        BY <1>0, <3>2, <3>3
    <2> QED
      BY <2>1, <2>2
  <1>3. NamesUnique'
    <2> SUFFICES ASSUME NEW x \in Orga, NEW y \in Orga, tree'[x] # NoRow, tree'[y] # NoRow,
                        x # y, TypOf[x] = TypOf[y], TypOf[x] \in {"KLASSE", "SCHULE", "BEHOERDE"},
                        tree'[x].name = tree'[y].name,
                        TypOf[x] = "KLASSE" => tree'[x].admin = tree'[y].admin
                 PROVE  Beside(x, y)'
      BY DEF NamesUnique, Existing
    <2>1. CASE x = o
      <3>1. Clash(o, job[j].new, y)
        BY <1>0, <2>1 DEF Clash
      <3> QED
        BY <1>0, <1>1, <2>1, <3>1 DEF JobInv, NamesInv
    <2>2. CASE y = o
      <3>1. Clash(o, job[j].new, x)
        BY <1>0, <2>2 DEF Clash
      <3>2. Beside(y, x)'
        BY <1>0, <1>1, <2>2, <3>1 DEF JobInv, NamesInv
      <3> QED
        BY <3>2 DEF Beside
    <2>3. CASE x # o /\ y # o
      <3>1. Beside(x, y)
        BY <1>0, <2>3 DEF IInv, NamesUnique, Existing
      <3> QED
        BY <1>0, <3>1
    <2> QED
      BY <2>1, <2>2, <2>3
  <1> QED
    BY <1>2, <1>3

LEMMA RemoveKeepsTree ==
    ASSUME IInv, NEW j \in Job, NEW o, o = job[j].id, job[j].at = "remove", Writes(j, o, NoRow)
    PROVE  ParentsExist' /\ NamesUnique'
  <1>0. /\ TypeOK /\ JobInv(j) /\ o \in Orga
        /\ \A p, q \in Orga : Beside(p, q) => Beside(p, q)'
        /\ \A p \in job[j].beside : Beside(o, p)'
        /\ \A p \in Orga \ {o} : tree'[p] = tree[p]
        /\ tree'[o] = NoRow
    <2>1. TypeOK /\ JobInv(j) /\ o \in Orga
      BY DEF IInv, Writes
    <2>2. /\ \A p, q \in Orga : Beside(p, q) => Beside(p, q)'
          /\ \A p \in job[j].beside : Beside(o, p)'
          /\ \A p \in Orga \ {o} : tree'[p] = tree[p]
          /\ tree'[o] = NoRow
      BY <2>1, WritesHistory
    <2> QED
      BY <2>1, <2>2
  <1>1. ParentsExist'
    <2> SUFFICES ASSUME NEW x \in Orga, tree'[x] # NoRow, NEW p \in {tree'[x].admin, tree'[x].zug}, p # None
                 PROVE  (p \in Orga /\ tree'[p] # NoRow) \/ Beside(x, p)'
      BY DEF ParentsExist, Existing
    <2>1. x # o /\ x \in Existing /\ p \in {tree[x].admin, tree[x].zug} /\ tree[x] \in Row
      BY <1>0 DEF Existing, TypeOK, Rows
    <2>2. p \in Orga
      BY <2>1 DEF Row, Parent
    <2>3. CASE p = o
      <3>1. x \in job[j].beside
        BY <1>0, <2>1, <2>3 DEF JobInv, EmptyInv, Existing
      <3>2. Beside(o, x)'
        BY <1>0, <3>1
      <3> QED
        BY <2>3, <3>2 DEF Beside
    <2>4. CASE p # o
      <3>1. tree[p] # NoRow \/ Beside(x, p)
        BY <2>1, <2>2 DEF IInv, ParentsExist, Existing
      <3> QED
        BY <1>0, <2>2, <2>4, <3>1
    <2> QED
      BY <2>3, <2>4
  <1>2. NamesUnique'
    <2> SUFFICES ASSUME NEW x \in Orga, NEW y \in Orga, tree'[x] # NoRow, tree'[y] # NoRow,
                        x # y, TypOf[x] = TypOf[y], TypOf[x] \in {"KLASSE", "SCHULE", "BEHOERDE"},
                        tree'[x].name = tree'[y].name,
                        TypOf[x] = "KLASSE" => tree'[x].admin = tree'[y].admin
                 PROVE  Beside(x, y)'
      BY DEF NamesUnique, Existing
    <2>1. x # o /\ y # o
      BY <1>0
    <2>2. Beside(x, y)
      BY <1>0, <2>1 DEF IInv, NamesUnique, Existing
    <2> QED
      BY <1>0, <2>2
  <1> QED
    BY <1>1, <1>2

\* The id of a creation stays its own.
LEMMA FreshKept ==
    ASSUME IInv, NEW j \in Job,
           \A k \in Job \ {j} : job'[k].at = job[k].at /\ job'[k].op = job[k].op /\ job'[k].id = job[k].id,
           \/ job'[j] = Idle
           \/ Busy(j) /\ job'[j].op = job[j].op /\ job'[j].id = job[j].id
           \/ ~Busy(j) /\ job'[j].op # "create" /\ job'[j].id \in Existing
           \/ ~Busy(j) /\ job'[j].op = "create" /\ job'[j].id \in Orga \ born,
           \A p \in Orga : tree'[p] # tree[p] => Busy(j) /\ p = job[j].id /\ job'[j] = Idle
    PROVE  \A k \in Job : FreshInv(k)'
  <1> SUFFICES ASSUME NEW k \in Job, Busy(k)', job'[k].op = "create"
               PROVE  /\ tree'[job'[k].id] = NoRow
                      /\ \A i \in Job \ {k} : Busy(i)' => job'[i].id # job'[k].id
    BY DEF FreshInv
  <1>0. /\ Idle.at = "idle"
        /\ \A i \in Job : Busy(i) => job[i].id \in born /\ job[i].id \in Orga
        /\ \A o \in Orga : o \notin born => tree[o] = NoRow
        /\ \A i \in Job \ {j} : Busy(i)' <=> Busy(i)
    BY DEF Idle, IInv, JobInv, PlanInv, TypeOK, Existing, Busy
  <1>1. CASE k # j
    <2>1. FreshInv(k) /\ Busy(k) /\ job[k].op = "create" /\ job'[k].id = job[k].id /\ job[k].id \in Orga
      BY <1>0, <1>1 DEF IInv
    <2>2. /\ tree[job[k].id] = NoRow
          /\ \A i \in Job \ {k} : Busy(i) => job[i].id # job[k].id
      BY <2>1 DEF FreshInv
    <2>3. tree'[job[k].id] = NoRow
      BY <1>1, <2>1, <2>2
    <2>4. ASSUME NEW i \in Job \ {k}, Busy(i)' PROVE job'[i].id # job[k].id
      <3>1. CASE i # j
        BY <1>0, <2>2, <2>4, <3>1
      <3>2. CASE i = j
        <4>1. ~(job'[j] = Idle)
          BY <1>0, <2>4, <3>2 DEF Busy
        <4> QED
          BY <1>0, <2>1, <2>2, <3>2, <4>1 DEF Existing
      <3> QED
        BY <3>1, <3>2
    <2> QED
      BY <2>1, <2>3, <2>4
  <1>2. CASE k = j
    <2>1. ~(job'[j] = Idle)
      BY <1>0, <1>2 DEF Busy
    <2>2. \A p \in Orga : tree'[p] = tree[p]
      BY <2>1
    <2>3. CASE Busy(j) /\ job'[j].op = job[j].op /\ job'[j].id = job[j].id
      BY <1>0, <1>2, <2>2, <2>3 DEF IInv, FreshInv
    <2>4. CASE job'[j].id \in Orga \ born
      BY <1>0, <1>2, <2>2, <2>4
    <2> QED
      BY <1>2, <2>1, <2>3, <2>4
  <1> QED
    BY <1>1, <1>2

----------------------------------------------------------------------------
(* Steps that write nothing                                                *)

\* The request j goes on as new, and all that is to show is what new promises.
LEMMA LocalStep ==
    ASSUME IInv, NEW j \in Job, NEW new, job' = [job EXCEPT ![j] = new],
           UNCHANGED <<tree, overlap>>, born \subseteq born', JobInv(j)',
           \/ new = Idle
           \/ Busy(j) /\ new.op = job[j].op /\ new.id = job[j].id
           \/ ~Busy(j) /\ new.op # "create" /\ new.id \in Existing
           \/ ~Busy(j) /\ new.op = "create" /\ new.id \in Orga \ born
    PROVE  /\ ParentsExist' /\ NamesUnique'
           /\ \A k \in Job : FreshInv(k)' /\ JobInv(k)'
  <1>1. job'[j] = new /\ \A k \in Job \ {j} : job'[k] = job[k]
    BY DEF IInv, TypeOK
  <1>2. ParentsExist'
    BY DEF IInv, ParentsExist, Existing, Beside
  <1>3. NamesUnique'
    BY DEF IInv, NamesUnique, Existing, Beside
  <1>4. \A k \in Job : FreshInv(k)'
    BY <1>1, FreshKept
  <1>5. ASSUME NEW k \in Job PROVE JobInv(k)'
    <2>1. CASE k = j
      BY <2>1
    <2>2. CASE k # j
      BY <1>1, <2>2, LocalKeeps DEF IInv
    <2> QED
      BY <2>1, <2>2
  <1> QED
    BY <1>2, <1>3, <1>4, <1>5

LEMMA EndKeeps ==
    ASSUME IInv, NEW j \in Job, End(j)
    PROVE  /\ ParentsExist' /\ NamesUnique'
           /\ \A k \in Job : FreshInv(k)' /\ JobInv(k)'
  <1>1. job' = [job EXCEPT ![j] = Idle] /\ job'[j] = Idle /\ UNCHANGED <<tree, overlap, born>>
    BY DEF End, IInv, TypeOK
  <1>2. JobInv(j)'
    BY <1>1, IdleKeeps
  <1> QED
    BY <1>1, <1>2, LocalStep

\* The next step of a request: its local variables stay as they are.
LEMMA GoKeeps ==
    ASSUME IInv, NEW j \in Job, NEW at \in At, Go(j, at), Busy(j), at # "viewed",
           at \in Writing => job[j].at \in Writing,
           at \notin Relation \cup {"side"}, RefersInv(j)', EmptyInv(j)', NamesInv(j)'
    PROVE  /\ ParentsExist' /\ NamesUnique'
           /\ \A k \in Job : FreshInv(k)' /\ JobInv(k)'
  <1>1. /\ job' = [job EXCEPT ![j] = [job[j] EXCEPT !.at = at]]
        /\ job'[j] = [job[j] EXCEPT !.at = at] /\ UNCHANGED <<tree, overlap, born>>
    BY DEF Go, IInv, TypeOK
  <1>2. /\ job'[j].at = at /\ job'[j].op = job[j].op /\ job'[j].id = job[j].id
        /\ job'[j].base = job[j].base /\ job'[j].new = job[j].new /\ job'[j].seen = job[j].seen
        /\ job'[j].beside = job[j].beside
    BY <1>1, JobFields DEF JobSet, IInv
  <1>3. JobInv(j)
    BY DEF IInv
  <1>4. PlanInv(j)'
    BY <1>1, <1>2, <1>3 DEF JobInv, PlanInv, Busy
  <1>5. BaseInv(j)'
    BY <1>1, <1>2, <1>3 DEF JobInv, BaseInv, Writing
  <1>6. SeenInv(j)'
    BY <1>1, <1>2, <1>3 DEF JobInv, SeenInv
  <1>7. JobInv(j)'
    BY <1>4, <1>5, <1>6 DEF JobInv
  <1> QED
    BY <1>1, <1>2, <1>7, LocalStep

\* A request begins: what it has read is what the table holds.
LEMMA BeginKeeps ==
    ASSUME IInv, NEW j \in Job, NEW new \in JobSet, Begin(j, new), born \subseteq born',
           new.id \in born', new.beside = {},
           new.op = "create" => new.id \in Orga \ born,
           new.op # "create" => new.id \in Existing,
           new.at \in {"references", "admin", "side", "viewed", "save", "children"},
           new.at \in Writing => new.new \in Row,
           new.at \in Relation => new.op = "put",
           new.at = "side" => new.op = "move",
           new.at = "viewed" => new.op = "rename",
           new.op # "create" /\ new.at # "children" => new.base = tree[new.id],
           new.op # "create" /\ new.at \in Writing => new.new.version = tree[new.id].version,
           \A p \in Orga : new.seen[p] # NoRow => tree[p] # NoRow /\ new.at # "viewed",
           new.at = "save" => /\ new.id \in Existing
                              /\ new.new.admin = tree[new.id].admin /\ new.new.zug = tree[new.id].zug
                              /\ new.new.name = tree[new.id].name,
           new.op = "move" => /\ new.id \in Existing
                              /\ new.new.admin = tree[new.id].admin /\ new.new.name = tree[new.id].name
    PROVE  /\ ParentsExist' /\ NamesUnique'
           /\ \A k \in Job : FreshInv(k)' /\ JobInv(k)'
  <1>1. job' = [job EXCEPT ![j] = new] /\ job'[j] = new /\ UNCHANGED <<tree, overlap>> /\ ~Busy(j)
    BY DEF Begin, IInv, TypeOK
  <1>2. PlanInv(j)'
    BY <1>1 DEF PlanInv
  <1>3. BaseInv(j)'
    <2> SUFFICES ASSUME new.at \in Writing \cup {"viewed"}, new.op # "create"
                 PROVE  /\ tree[new.id].version <= tree[new.id].version
                        /\ new.base = tree[new.id]
                        /\ new.at # "viewed" => tree[new.id].version <= new.new.version
      BY <1>1 DEF BaseInv
    <2>1. tree[new.id].version \in Nat
      BY DEF IInv, TypeOK, Rows, Existing, Row
    <2>2. new.at # "children"
      BY DEF Writing
    <2> QED
      BY <2>1, <2>2
  <1>4. SeenInv(j)'
    BY <1>1 DEF SeenInv
  <1>5. RefersInv(j)'
    <2> SUFFICES ASSUME new.at = "save", NEW p \in RefersTo(new.new)
                 PROVE  tree[p] # NoRow \/ Beside(new.id, p)
      BY <1>1 DEF RefersInv, RefersTo, Owed, Beside
    <2>1. p \in Orga /\ p \in {tree[new.id].admin, tree[new.id].zug} /\ new.id \in Existing
      BY DEF RefersTo
    <2> QED
      BY <2>1, TreeAssumption DEF IInv, ParentsExist, Existing
  <1>6. EmptyInv(j)'
    BY <1>1 DEF EmptyInv
  <1>7. NamesInv(j)'
    <2> SUFFICES ASSUME new.at = "save" \/ new.op = "move", NEW p \in Orga, Clash(new.id, new.new, p)
                 PROVE  Beside(new.id, p)
      BY <1>1 DEF NamesInv, Clash, Owed, Beside
    <2>1. p \in Existing /\ new.id \in Existing /\ new.id # p
          /\ new.new.name = tree[new.id].name /\ new.new.admin = tree[new.id].admin
      BY DEF Clash, Existing
    <2> QED
      BY <2>1 DEF IInv, NamesUnique, Clash
  <1>8. JobInv(j)'
    BY <1>2, <1>3, <1>4, <1>5, <1>6, <1>7 DEF JobInv
  <1> QED
    BY <1>1, <1>8, LocalStep

----------------------------------------------------------------------------
(* Steps that write                                                        *)

LEMMA WriteStep ==
    ASSUME IInv, NEW j \in Job, Busy(j), NEW o, o = job[j].id, NEW r \in Row \cup {NoRow}, Writes(j, o, r),
           tree[o] # NoRow /\ r # NoRow => tree[o].version < r.version,
           tree[o] = NoRow => job[j].op = "create"
    PROVE  \A k \in Job : FreshInv(k)' /\ JobInv(k)'
  <1>0. TypeOK /\ o \in Orga /\ FreshInv(j)
    BY DEF IInv, Writes
  <1>1. job'[j] = Idle
    BY DEF Writes, Written
  <1>2. \A k \in Job \ {j} : job'[k].at = job[k].at /\ job'[k].op = job[k].op /\ job'[k].id = job[k].id
    <2> TAKE k \in Job \ {j}
    <2>1. job'[k] = [job[k] EXCEPT !.beside = @ \cup {o}] \/ job'[k] = job[k]
      BY DEF Writes, Written
    <2> QED
      BY <1>0, <2>1, JobFields DEF JobSet
  <1>3. \A p \in Orga : tree'[p] # tree[p] => p = o
    BY <1>0, WritesHistory
  <1>4. \A k \in Job : FreshInv(k)'
    BY <1>1, <1>2, <1>3, FreshKept
  <1>5. ASSUME NEW k \in Job PROVE JobInv(k)'
    <2>1. CASE k = j
      BY <1>1, <2>1, IdleKeeps
    <2>2. CASE k # j
      <3>1. tree[o] = NoRow /\ Busy(k) => job[k].id # o
        BY <1>0, <2>2 DEF FreshInv
      <3>2. JobInv(k)
        BY DEF IInv
      <3> QED
        BY <1>0, <2>2, <3>1, <3>2, WriteKeeps
    <2> QED
      BY <2>1, <2>2
  <1> QED
    BY <1>4, <1>5

----------------------------------------------------------------------------
(* The requests, one action after the other                                *)

Kept == /\ ParentsExist' /\ NamesUnique'
        /\ \A k \in Job : FreshInv(k)' /\ JobInv(k)'

\* Every existing row is a row.
LEMMA ExistingRows ==
    ASSUME TypeOK, NEW o \in Existing
    PROVE  o \in Orga /\ o \in born /\ tree[o] \in Row /\ tree[o] # NoRow
  BY DEF TypeOK, Existing, Rows

LEMMA CreateKeeps == ASSUME IInv, NEW j \in Job, Create(j) PROVE Kept
  <1>1. PICK o \in Orga \ born, p \in Place, n \in Name :
            /\ Begin(j, [Idle EXCEPT !.at = "references", !.op = "create", !.id = o,
                                     !.new = [admin |-> p.admin, zug |-> p.zug, name |-> n,
                                              its |-> FALSE, version |-> 1]])
            /\ born' = born \cup {o}
    BY DEF Create
  <1> DEFINE row == [admin |-> p.admin, zug |-> p.zug, name |-> n, its |-> FALSE, version |-> 1]
             new == [Idle EXCEPT !.at = "references", !.op = "create", !.id = o, !.new = row]
  <1>2. row \in Row
    BY TreeAssumption DEF Row
  <1> HIDE DEF row
  <1>3. new \in JobSet /\ new.at = "references" /\ new.op = "create" /\ new.id = o /\ new.new = row
        /\ new.beside = {} /\ new.seen = [x \in Orga |-> NoRow]
    BY <1>2, IdleIsJob DEF Idle, JobSet, At, Op, Parent
  <1>4. "references" \notin Relation
    BY DEF Relation
  <1>5. Begin(j, new) /\ born \subseteq born' /\ o \in born'
    BY <1>1 DEF row
  <1> HIDE DEF new
  <1> QED
    BY <1>1, <1>2, <1>3, <1>4, <1>5, BeginKeeps DEF Kept

LEMMA PutKeeps == ASSUME IInv, NEW j \in Job, Put(j) PROVE Kept
  <1>1. PICK o \in Existing, p \in Place, n \in Name :
            /\ Begin(j, [Idle EXCEPT !.at = "admin", !.op = "put", !.id = o, !.base = tree[o],
                                     !.new = Update(tree[o], o, p, n), !.next = Update(tree[o], o, p, n).admin,
                                     !.seen = Reading({o})])
            /\ UNCHANGED born
    BY DEF Put
  <1> DEFINE row == Update(tree[o], o, p, n)
             new == [Idle EXCEPT !.at = "admin", !.op = "put", !.id = o, !.base = tree[o],
                                 !.new = row, !.next = row.admin, !.seen = Reading({o})]
  <1>2. TypeOK /\ o \in Orga /\ o \in born /\ tree[o] \in Row /\ tree[o] # NoRow
    BY ExistingRows DEF IInv
  <1>3. row \in Row /\ row.version = tree[o].version
    BY <1>2, TreeAssumption DEF Update, Row
  <1>4. row.admin \in Parent
    BY <1>3 DEF Row
  <1>5. Reading({o}) \in Rows /\ \A x \in Orga : Reading({o})[x] # NoRow => tree[x] # NoRow
    BY <1>2, ReadingTyped DEF Reading
  <1> HIDE DEF row
  <1>6. /\ new \in JobSet /\ new.at = "admin" /\ new.op = "put" /\ new.id = o /\ new.new = row
        /\ new.beside = {} /\ new.base = tree[o] /\ new.seen = Reading({o})
    BY <1>2, <1>3, <1>4, <1>5, IdleIsJob DEF Idle, JobSet, At, Op, Parent
  <1>7. Begin(j, new)
    BY <1>1 DEF row
  <1> HIDE DEF new
  <1> QED
    BY <1>1, <1>2, <1>3, <1>5, <1>6, <1>7, BeginKeeps DEF Kept

LEMMA ViewKeeps == ASSUME IInv, NEW j \in Job, View(j) PROVE Kept
  <1>1. PICK o \in Existing :
            /\ Begin(j, [Idle EXCEPT !.at = "viewed", !.op = "rename", !.id = o, !.base = tree[o]])
            /\ UNCHANGED born
    BY DEF View
  <1> DEFINE new == [Idle EXCEPT !.at = "viewed", !.op = "rename", !.id = o, !.base = tree[o]]
  <1>2. TypeOK /\ o \in Orga /\ o \in born /\ tree[o] \in Row /\ tree[o] # NoRow
    BY ExistingRows DEF IInv
  <1>3. /\ new \in JobSet /\ new.at = "viewed" /\ new.op = "rename" /\ new.id = o
        /\ new.beside = {} /\ new.base = tree[o] /\ new.seen = [x \in Orga |-> NoRow]
    BY <1>2, IdleIsJob DEF Idle, JobSet, At, Op, Parent
  <1>4. "viewed" \notin Relation /\ "viewed" \notin Writing
    BY DEF Relation, Writing
  <1>5. Begin(j, new)
    BY <1>1
  <1> HIDE DEF new
  <1> QED
    BY <1>1, <1>2, <1>3, <1>4, <1>5, BeginKeeps DEF Kept

LEMMA MoveKeeps == ASSUME IInv, NEW j \in Job, Move(j) PROVE Kept
  <1>1. PICK o \in Existing, p \in Existing :
            /\ Begin(j, [Idle EXCEPT !.at = "side", !.op = "move", !.id = o, !.base = tree[o],
                                     !.new = [tree[o] EXCEPT !.zug = p], !.seen = Reading({o, p})])
            /\ UNCHANGED born
    BY DEF Move
  <1> DEFINE row == [tree[o] EXCEPT !.zug = p]
             new == [Idle EXCEPT !.at = "side", !.op = "move", !.id = o, !.base = tree[o],
                                 !.new = row, !.seen = Reading({o, p})]
  <1>2. TypeOK /\ o \in Orga /\ p \in Orga /\ o \in born /\ tree[o] \in Row /\ tree[o] # NoRow /\ tree[p] # NoRow
    BY ExistingRows DEF IInv
  <1>3. /\ row \in Row /\ row.version = tree[o].version
        /\ row.admin = tree[o].admin /\ row.name = tree[o].name
    BY <1>2 DEF Row, Parent
  <1>4. Reading({o, p}) \in Rows /\ \A x \in Orga : Reading({o, p})[x] # NoRow => tree[x] # NoRow
    BY <1>2, ReadingTyped DEF Reading
  <1> HIDE DEF row
  <1>5. /\ new \in JobSet /\ new.at = "side" /\ new.op = "move" /\ new.id = o /\ new.new = row
        /\ new.beside = {} /\ new.base = tree[o] /\ new.seen = Reading({o, p})
    BY <1>2, <1>3, <1>4, IdleIsJob DEF Idle, JobSet, At, Op, Parent
  <1>6. "side" \notin Relation
    BY DEF Relation
  <1>7. Begin(j, new)
    BY <1>1 DEF row
  <1> HIDE DEF new
  <1> QED
    BY <1>1, <1>2, <1>3, <1>4, <1>5, <1>6, <1>7, BeginKeeps DEF Kept

LEMMA EnableKeeps == ASSUME IInv, NEW j \in Job, Enable(j) PROVE Kept
  <1>1. PICK o \in OfTyp("SCHULE") :
            /\ Begin(j, [Idle EXCEPT !.at = "save", !.op = "enable", !.id = o, !.base = tree[o],
                                     !.new = [tree[o] EXCEPT !.its = TRUE]])
            /\ UNCHANGED born
    BY DEF Enable
  <1> DEFINE row == [tree[o] EXCEPT !.its = TRUE]
             new == [Idle EXCEPT !.at = "save", !.op = "enable", !.id = o, !.base = tree[o], !.new = row]
  <1>2. TypeOK /\ o \in Existing /\ o \in Orga /\ o \in born /\ tree[o] \in Row /\ tree[o] # NoRow
    BY ExistingRows DEF IInv, OfTyp
  <1>3. /\ row \in Row /\ row.version = tree[o].version
        /\ row.admin = tree[o].admin /\ row.zug = tree[o].zug /\ row.name = tree[o].name
    BY <1>2 DEF Row
  <1> HIDE DEF row
  <1>4. /\ new \in JobSet /\ new.at = "save" /\ new.op = "enable" /\ new.id = o /\ new.new = row
        /\ new.beside = {} /\ new.base = tree[o] /\ new.seen = [x \in Orga |-> NoRow]
    BY <1>2, <1>3, IdleIsJob DEF Idle, JobSet, At, Op, Parent
  <1>5. "save" \notin Relation
    BY DEF Relation
  <1>6. Begin(j, new)
    BY <1>1 DEF row
  <1> HIDE DEF new
  <1> QED
    BY <1>1, <1>2, <1>3, <1>4, <1>5, <1>6, BeginKeeps DEF Kept

LEMMA DeleteKeeps == ASSUME IInv, NEW j \in Job, Delete(j) PROVE Kept
  <1>1. PICK o \in Existing :
            /\ Begin(j, [Idle EXCEPT !.at = "children", !.op = "delete", !.id = o])
            /\ UNCHANGED born
    BY DEF Delete
  <1> DEFINE new == [Idle EXCEPT !.at = "children", !.op = "delete", !.id = o]
  <1>2. TypeOK /\ o \in Orga /\ o \in born
    BY ExistingRows DEF IInv
  <1>3. /\ new \in JobSet /\ new.at = "children" /\ new.op = "delete" /\ new.id = o
        /\ new.beside = {} /\ new.seen = [x \in Orga |-> NoRow]
    BY <1>2, IdleIsJob DEF Idle, JobSet, At, Op, Parent
  <1>4. "children" \notin Relation /\ "children" \notin Writing
    BY DEF Relation, Writing
  <1>5. Begin(j, new)
    BY <1>1
  <1> HIDE DEF new
  <1> QED
    BY <1>1, <1>2, <1>3, <1>4, <1>5, BeginKeeps DEF Kept

\* The parents were found, each with its own query.
LEMMA CheckReferencesKeeps == ASSUME IInv, NEW j \in Job, CheckReferences(j) PROVE Kept
  <1>1. CASE End(j)
    BY <1>1, EndKeeps DEF Kept
  <1>2. CASE /\ {job[j].new.admin, job[j].new.zug} \subseteq Existing \cup {None}
             /\ Go(j, "name")
    <2>1. /\ job'[j] = [job[j] EXCEPT !.at = "name"] /\ UNCHANGED <<tree, overlap, born>>
          /\ job[j].at = "references" /\ job[j] \in JobSet /\ JobInv(j)
      BY <1>2, JobFields DEF Go, IInv, TypeOK, CheckReferences
    <2>2. /\ job'[j].at = "name" /\ job'[j].op = job[j].op /\ job'[j].id = job[j].id
          /\ job'[j].new = job[j].new /\ job'[j].beside = job[j].beside
      BY <2>1 DEF JobSet
    <2>3. RefersInv(j)'
      BY <1>2, <2>1, <2>2, TreeAssumption DEF RefersInv, RefersTo, Existing
    <2>4. EmptyInv(j)'
      BY <2>2 DEF EmptyInv
    <2>5. NamesInv(j)'
      BY <2>1, <2>2 DEF JobInv, NamesInv, Clash, Owed, Beside, Busy
    <2>6. /\ "name" \in At /\ "name" \notin Relation \cup {"side"} /\ Busy(j)
          /\ job[j].at \in Writing
      BY <2>1 DEF At, Relation, Busy, Writing
    <2> QED
      BY <1>2, <2>3, <2>4, <2>5, <2>6, GoKeeps DEF Kept
  <1> QED
    BY <1>1, <1>2 DEF CheckReferences

\* The name is free, and a row with the same name has other parents.
LEMMA CheckNameKeeps == ASSUME IInv, NEW j \in Job, CheckName(j) PROVE Kept
  <1>1. CASE End(j)
    BY <1>1, EndKeeps DEF Kept
  <1>2. CASE NameFree(job[j].id, job[j].new) /\ Go(j, "save")
    <2>1. /\ job'[j] = [job[j] EXCEPT !.at = "save"] /\ UNCHANGED <<tree, overlap, born>>
          /\ job[j].at = "name" /\ job[j] \in JobSet /\ JobInv(j)
      BY <1>2, JobFields DEF Go, IInv, TypeOK, CheckName
    <2>2. /\ job'[j].at = "save" /\ job'[j].op = job[j].op /\ job'[j].id = job[j].id
          /\ job'[j].new = job[j].new /\ job'[j].beside = job[j].beside
      BY <2>1 DEF JobSet
    <2>3. RefersInv(j)'
      BY <2>1, <2>2 DEF JobInv, RefersInv, RefersTo, Owed, Beside
    <2>4. EmptyInv(j)'
      BY <2>2 DEF EmptyInv
    <2>5. ASSUME NEW p \in Orga, Clash(job[j].id, job[j].new, p)
          PROVE  FALSE
      <3>1. p \in OfTyp(TypOf[job[j].id]) /\ p # job[j].id
        BY <2>5 DEF Clash, OfTyp, Existing
      <3>2. CASE TypOf[job[j].id] = "KLASSE"
        <4>1. \A k \in OfTyp("KLASSE") :
                 job[j].new.admin \in {tree[k].admin} \cup Up("admin", tree[k].admin) => tree[k].name # job[j].new.name
          BY <1>2, <3>2 DEF NameFree
        <4>2. job[j].new.admin = tree[p].admin /\ job[j].new.name = tree[p].name
          BY <2>5, <3>2 DEF Clash
        <4> QED
          BY <3>1, <3>2, <4>1, <4>2
      <3>3. CASE TypOf[job[j].id] \in {"SCHULE", "BEHOERDE"}
        <4>1. \A q \in OfTyp(TypOf[job[j].id]) \ {job[j].id} : tree[q].name # job[j].new.name
          BY <1>2, <3>3 DEF NameFree
        <4> QED
          BY <2>5, <3>1, <4>1 DEF Clash
      <3> QED
        BY <2>5, <3>2, <3>3 DEF Clash
    <2>6. NamesInv(j)'
      BY <2>1, <2>2, <2>5 DEF NamesInv, Clash
    <2>7. /\ "save" \in At /\ "save" \notin Relation \cup {"side"} /\ Busy(j)
          /\ job[j].at \in Writing
      BY <2>1 DEF At, Relation, Busy, Writing
    <2> QED
      BY <1>2, <2>3, <2>4, <2>6, <2>7, GoKeeps DEF Kept
  <1> QED
    BY <1>1, <1>2 DEF CheckName

LEMMA CheckChildrenKeeps == ASSUME IInv, NEW j \in Job, CheckChildren(j) PROVE Kept
  <1>1. CASE End(j)
    BY <1>1, EndKeeps DEF Kept
  <1>2. CASE Go(j, "zugehoerige") /\ \A o \in Existing : tree[o].admin # job[j].id
    <2>1. /\ job'[j] = [job[j] EXCEPT !.at = "zugehoerige"] /\ UNCHANGED <<tree, overlap, born>>
          /\ job[j].at = "children" /\ job[j] \in JobSet /\ JobInv(j)
      BY <1>2, JobFields DEF Go, IInv, TypeOK, CheckChildren
    <2>2. /\ job'[j].at = "zugehoerige" /\ job'[j].op = job[j].op /\ job'[j].id = job[j].id
          /\ job'[j].new = job[j].new /\ job'[j].beside = job[j].beside
      BY <2>1 DEF JobSet
    <2>3. RefersInv(j)'
      BY <2>2 DEF RefersInv
    <2>4. EmptyInv(j)'
      BY <1>2, <2>1, <2>2 DEF EmptyInv, Existing
    <2>5. NamesInv(j)'
      BY <2>1, <2>2 DEF JobInv, NamesInv, Clash, Owed, Beside, Busy
    <2>6. /\ "zugehoerige" \in At /\ "zugehoerige" \notin Relation \cup {"side"} /\ Busy(j)
          /\ "zugehoerige" \notin Writing
      BY <2>1 DEF At, Relation, Busy, Writing
    <2> QED
      BY <1>2, <2>3, <2>4, <2>5, <2>6, GoKeeps DEF Kept
  <1> QED
    BY <1>1, <1>2 DEF CheckChildren

LEMMA CheckZugehoerigeKeeps == ASSUME IInv, NEW j \in Job, CheckZugehoerige(j) PROVE Kept
  <1>1. CASE End(j)
    BY <1>1, EndKeeps DEF Kept
  <1>2. CASE Go(j, "remove") /\ \A o \in Existing : tree[o].zug # job[j].id
    <2>1. /\ job'[j] = [job[j] EXCEPT !.at = "remove"] /\ UNCHANGED <<tree, overlap, born>>
          /\ job[j].at = "zugehoerige" /\ job[j] \in JobSet /\ JobInv(j)
      BY <1>2, JobFields DEF Go, IInv, TypeOK, CheckZugehoerige
    <2>2. /\ job'[j].at = "remove" /\ job'[j].op = job[j].op /\ job'[j].id = job[j].id
          /\ job'[j].new = job[j].new /\ job'[j].beside = job[j].beside
      BY <2>1 DEF JobSet
    <2>3. RefersInv(j)'
      BY <2>2 DEF RefersInv
    <2>4. EmptyInv(j)'
      BY <1>2, <2>1, <2>2 DEF JobInv, EmptyInv, Existing
    <2>5. NamesInv(j)'
      BY <2>1, <2>2 DEF JobInv, NamesInv, Clash, Owed, Beside, Busy
    <2>6. /\ "remove" \in At /\ "remove" \notin Relation \cup {"side"} /\ Busy(j)
          /\ "remove" \notin Writing
      BY <2>1 DEF At, Relation, Busy, Writing
    <2> QED
      BY <1>2, <2>3, <2>4, <2>5, <2>6, GoKeeps DEF Kept
  <1> QED
    BY <1>1, <1>2 DEF CheckZugehoerige

\* One more parent is read.
LEMMA ClimbUpKeeps == ASSUME IInv, NEW j \in Job, ClimbUp(j) PROVE Kept
  <1>1. /\ TypeOK /\ JobInv(j) /\ job[j] \in JobSet /\ job[j].at \in Relation
        /\ Known(j, job[j].next) # NoRow /\ job[j].next \in Orga /\ UNCHANGED <<tree, overlap, born>>
    BY JobFields DEF IInv, ClimbUp, Climbing, Found, Parent
  <1> DEFINE new == [job[j] EXCEPT !.next = Known(j, job[j].next)[job[j].at],
                                   !.path = job[j].path \cup {job[j].next},
                                   !.seen = [job[j].seen EXCEPT ![job[j].next] = Known(j, job[j].next)]]
  <1>3. job' = [job EXCEPT ![j] = new] /\ job'[j] = new
    BY <1>1 DEF ClimbUp, TypeOK, JobSet
  <1>4. /\ new.at = job[j].at /\ new.op = job[j].op /\ new.id = job[j].id /\ new.base = job[j].base
        /\ new.new = job[j].new /\ new.beside = job[j].beside
        /\ new.seen = [job[j].seen EXCEPT ![job[j].next] = Known(j, job[j].next)]
    BY <1>1 DEF JobSet
  <1> HIDE DEF new
  <1>5. Busy(j) /\ job[j].at # "viewed" /\ job[j].seen \in [Orga -> Row \cup {NoRow}]
    BY <1>1, JobFields DEF Busy, Relation
  <1>6. PlanInv(j)'
    BY <1>1, <1>3, <1>4, <1>5 DEF JobInv, PlanInv, Busy
  <1>7. BaseInv(j)'
    BY <1>1, <1>3, <1>4 DEF JobInv, BaseInv
  <1>8. SeenInv(j)'
    <2> SUFFICES ASSUME NEW p \in Orga, new.seen[p] # NoRow PROVE tree[p] # NoRow \/ p \in job[j].beside
      BY <1>1, <1>3, <1>4 DEF SeenInv
    <2>1. CASE p # job[j].next \/ job[j].seen[p] # NoRow
      <3>1. job[j].seen[p] # NoRow
        BY <1>4, <1>5, <2>1
      <3> QED
        BY <1>1, <1>5, <3>1 DEF JobInv, SeenInv
    <2>2. CASE p = job[j].next /\ job[j].seen[p] = NoRow
      BY <1>1, <2>2 DEF Known
    <2> QED
      BY <2>1, <2>2
  <1>9. RefersInv(j)' /\ EmptyInv(j)'
    BY <1>1, <1>3, <1>4 DEF RefersInv, EmptyInv, Relation
  <1>10. NamesInv(j)'
    BY <1>1, <1>3, <1>4 DEF JobInv, NamesInv, Clash, Owed, Beside, Busy
  <1>11. JobInv(j)'
    BY <1>6, <1>7, <1>8, <1>9, <1>10 DEF JobInv
  <1> QED
    BY <1>1, <1>3, <1>4, <1>5, <1>11, LocalStep DEF Kept

LEMMA ClimbZugKeeps == ASSUME IInv, NEW j \in Job, ClimbZug(j) PROVE Kept
  <1>1. /\ TypeOK /\ JobInv(j) /\ job[j] \in JobSet /\ job[j].at = "admin" /\ Busy(j)
        /\ UNCHANGED <<tree, overlap, born>>
    BY JobFields DEF IInv, ClimbZug, Busy
  <1> DEFINE new == [job[j] EXCEPT !.at = "zug", !.next = job[j].new.zug, !.path = {}]
  <1>2. job' = [job EXCEPT ![j] = new] /\ job'[j] = new
    BY <1>1 DEF ClimbZug, TypeOK
  <1>3. /\ new.at = "zug" /\ new.op = job[j].op /\ new.id = job[j].id /\ new.base = job[j].base
        /\ new.new = job[j].new /\ new.beside = job[j].beside /\ new.seen = job[j].seen
    BY <1>1 DEF JobSet
  <1> HIDE DEF new
  <1>4. PlanInv(j)'
    BY <1>1, <1>2, <1>3 DEF JobInv, PlanInv, Busy, Writing, Relation
  <1>5. BaseInv(j)'
    BY <1>1, <1>2, <1>3 DEF JobInv, BaseInv, Writing
  <1>6. SeenInv(j)'
    BY <1>1, <1>2, <1>3 DEF JobInv, SeenInv
  <1>7. RefersInv(j)' /\ EmptyInv(j)'
    BY <1>2, <1>3 DEF RefersInv, EmptyInv
  <1>8. NamesInv(j)'
    BY <1>1, <1>2, <1>3 DEF JobInv, NamesInv, Clash, Owed, Beside, Busy
  <1>9. JobInv(j)'
    BY <1>4, <1>5, <1>6, <1>7, <1>8 DEF JobInv
  <1> QED
    BY <1>1, <1>2, <1>3, <1>9, LocalStep DEF Kept

\* Both parents were met on the way up; only a Traeger is saved without its name
\* being compared, and a school that is moved keeps its kennung.
LEMMA ClimbedKeeps == ASSUME IInv, NEW j \in Job, Climbed(j) PROVE Kept
  <1>1. CASE End(j)
    BY <1>1, EndKeeps DEF Kept
  <1>2. CASE /\ ParentsSeen(j)
             /\ Go(j, IF job[j].op = "put" /\ TypOf[job[j].id] # "TRAEGER" THEN "name" ELSE "save")
    <2>0. PICK at : at = IF job[j].op = "put" /\ TypOf[job[j].id] # "TRAEGER" THEN "name" ELSE "save"
      OBVIOUS
    <2>1. /\ job'[j] = [job[j] EXCEPT !.at = at] /\ UNCHANGED <<tree, overlap, born>> /\ Go(j, at)
          /\ job[j].at = "zug" /\ job[j] \in JobSet /\ JobInv(j) /\ at \in {"name", "save"} /\ Busy(j)
      BY <1>2, <2>0, JobFields DEF Go, IInv, TypeOK, Climbed, Busy
    <2>2. /\ job'[j].at = at /\ job'[j].op = job[j].op /\ job'[j].id = job[j].id
          /\ job'[j].new = job[j].new /\ job'[j].beside = job[j].beside
      BY <2>1 DEF JobSet
    <2>3. RefersInv(j)'
      <3> SUFFICES ASSUME NEW p \in RefersTo(job[j].new) PROVE tree[p] # NoRow \/ p \in job[j].beside
        BY <2>1, <2>2 DEF RefersInv, RefersTo, Owed
      <3>1. p \in Orga /\ job[j].seen[p] # NoRow
        BY <1>2, TreeAssumption DEF RefersTo, ParentsSeen
      <3> QED
        BY <2>1, <3>1 DEF JobInv, SeenInv
    <2>4. EmptyInv(j)'
      BY <2>1, <2>2 DEF EmptyInv
    <2>5. NamesInv(j)'
      <3>1. CASE job[j].op = "move"
        BY <2>1, <2>2, <3>1 DEF JobInv, NamesInv, Clash, Owed, Beside
      <3>2. CASE job[j].op # "move"
        <4>1. job[j].op = "put"
          BY <2>1, <3>2 DEF JobInv, PlanInv, Relation
        <4>2. at = "save" => TypOf[job[j].id] = "TRAEGER"
          BY <2>0, <4>1
        <4> QED
          BY <2>2, <3>2, <4>2 DEF NamesInv, Clash
      <3> QED
        BY <3>1, <3>2
    <2>6. /\ at \in At /\ at \notin Relation \cup {"side"} /\ at # "viewed" /\ job[j].at \in Writing
      BY <2>1 DEF At, Relation, Writing
    <2> QED
      BY <2>1, <2>3, <2>4, <2>5, <2>6, GoKeeps DEF Kept
  <1> QED
    BY <1>1, <1>2 DEF Climbed

\* The row is read again, with its parents; what was written beside before is
\* what the client has missed.
LEMMA RenameKeeps == ASSUME IInv, NEW j \in Job, Rename(j) PROVE Kept
  <1>1. /\ TypeOK /\ JobInv(j) /\ job[j] \in JobSet /\ job[j].at = "viewed" /\ Busy(j)
        /\ job[j].seen \in [Orga -> Row \cup {NoRow}] /\ UNCHANGED <<tree, overlap, born>>
    BY JobFields DEF IInv, Rename, Busy
  <1>2. CASE job' = [job EXCEPT ![j] = Idle]
    <2>1. JobInv(j)'
      BY <1>1, <1>2, IdleKeeps DEF TypeOK
    <2> QED
      BY <1>1, <1>2, <2>1, LocalStep DEF Kept
  <1>3. CASE job[j].id \in Existing /\ job' # [job EXCEPT ![j] = Idle]
    <2>1. PICK n \in Name :
              job' = [job EXCEPT ![j].at = IF n = tree[job[j].id].name THEN "save" ELSE "name",
                                 ![j].new = [tree[job[j].id] EXCEPT !.name = n],
                                 ![j].beside = {}]
      BY <1>3 DEF Rename
    <2>2. PICK row : row = [tree[job[j].id] EXCEPT !.name = n]
      OBVIOUS
    <2>3. PICK at : at = IF n = tree[job[j].id].name THEN "save" ELSE "name"
      OBVIOUS
    <2> DEFINE new == [job[j] EXCEPT !.at = at, !.new = row, !.beside = {}]
    <2>4. job' = [job EXCEPT ![j] = new] /\ job'[j] = new
      BY <1>1, <2>1, <2>2, <2>3 DEF TypeOK
    <2>5. /\ new.at = at /\ new.op = job[j].op /\ new.id = job[j].id /\ new.base = job[j].base
          /\ new.new = row /\ new.beside = {} /\ new.seen = job[j].seen
      BY <1>1 DEF JobSet
    <2>6. /\ tree[job[j].id] \in Row /\ tree[job[j].id] # NoRow /\ job[j].id \in Existing /\ job[j].id \in Orga
      BY <1>1, <1>3, ExistingRows
    <2>7. /\ row \in Row /\ row.version = tree[job[j].id].version
          /\ row.admin = tree[job[j].id].admin /\ row.zug = tree[job[j].id].zug
          /\ at = "save" => row.name = tree[job[j].id].name
          /\ at \in {"save", "name"}
      BY <2>2, <2>3, <2>6 DEF Row
    <2> HIDE DEF new
    <2>8. PlanInv(j)'
      BY <1>1, <2>4, <2>5, <2>7 DEF JobInv, PlanInv, Busy, Relation
    <2>9. BaseInv(j)'
      <3>1. job[j].op # "create" =>
               /\ job[j].base.version <= tree[job[j].id].version
               /\ job[j].base.version = tree[job[j].id].version => job[j].base = tree[job[j].id]
        BY <1>1, <2>6 DEF JobInv, BaseInv
      <3> QED
        BY <1>1, <2>4, <2>5, <2>7, <3>1 DEF BaseInv
    <2>10. SeenInv(j)'
      BY <1>1, <2>4, <2>5 DEF JobInv, PlanInv, SeenInv
    <2>11. RefersInv(j)'
      <3> SUFFICES ASSUME NEW p \in RefersTo(row) PROVE tree[p] # NoRow \/ Beside(job[j].id, p)
        BY <1>1, <2>4, <2>5 DEF RefersInv, RefersTo, Owed, Beside
      <3>1. p \in Orga /\ p \in {tree[job[j].id].admin, tree[job[j].id].zug}
        BY <2>7 DEF RefersTo
      <3> QED
        BY <2>6, <3>1, TreeAssumption DEF IInv, ParentsExist, Existing
    <2>12. EmptyInv(j)'
      BY <2>4, <2>5, <2>7 DEF EmptyInv
    <2>13. NamesInv(j)'
      <3>1. CASE at = "save"
        <4> SUFFICES ASSUME NEW p \in Orga, Clash(job[j].id, row, p) PROVE Beside(job[j].id, p)
          BY <1>1, <2>4, <2>5 DEF NamesInv, Clash, Owed, Beside
        <4>1. p \in Existing
          BY DEF Clash, Existing
        <4> QED
          BY <2>6, <2>7, <3>1, <4>1 DEF IInv, NamesUnique, Clash
      <3>2. CASE job[j].op # "move" /\ at = "name"
        BY <2>4, <2>5, <3>2 DEF NamesInv
      <3> QED
        BY <1>1, <2>7, <3>1, <3>2 DEF JobInv, PlanInv
    <2>14. JobInv(j)'
      BY <2>8, <2>9, <2>10, <2>11, <2>12, <2>13 DEF JobInv
    <2> QED
      BY <1>1, <2>4, <2>5, <2>14, LocalStep DEF Kept
  <1> QED
    BY <1>2, <1>3 DEF Rename

\* The rows that the recursive queries return are read.
LEMMA CheckSideKeeps == ASSUME IInv, NEW j \in Job, CheckSide(j) PROVE Kept
  <1>1. /\ TypeOK /\ JobInv(j) /\ job[j] \in JobSet /\ job[j].at = "side" /\ Busy(j)
        /\ job[j].seen \in [Orga -> Row \cup {NoRow}] /\ UNCHANGED <<tree, overlap, born>>
    BY JobFields DEF IInv, CheckSide, Busy
  <1>2. CASE job' = [job EXCEPT ![j] = Idle]
    <2>1. JobInv(j)'
      BY <1>1, <1>2, IdleKeeps DEF TypeOK
    <2> QED
      BY <1>1, <1>2, <2>1, LocalStep DEF Kept
  <1>3. PICK read \in SUBSET Existing :
            job' = [job EXCEPT ![j].at = "admin", ![j].next = job[j].new.admin,
                               ![j].seen = [x \in Orga |-> IF x \in read THEN tree[x] ELSE @[x]]]
            \/ job' = [job EXCEPT ![j] = Idle]
    BY DEF CheckSide
  <1>4. CASE job' = [job EXCEPT ![j].at = "admin", ![j].next = job[j].new.admin,
                                ![j].seen = [x \in Orga |-> IF x \in read THEN tree[x] ELSE @[x]]]
    <2> DEFINE new == [job[j] EXCEPT !.at = "admin", !.next = job[j].new.admin,
                                     !.seen = [x \in Orga |-> IF x \in read THEN tree[x] ELSE job[j].seen[x]]]
    <2>1. job' = [job EXCEPT ![j] = new] /\ job'[j] = new
      BY <1>1, <1>4 DEF TypeOK, JobSet
    <2>2. /\ new.at = "admin" /\ new.op = job[j].op /\ new.id = job[j].id /\ new.base = job[j].base
          /\ new.new = job[j].new /\ new.beside = job[j].beside
          /\ new.seen = [x \in Orga |-> IF x \in read THEN tree[x] ELSE job[j].seen[x]]
      BY <1>1 DEF JobSet
    <2> HIDE DEF new
    <2>3. PlanInv(j)'
      BY <1>1, <2>1, <2>2 DEF JobInv, PlanInv, Busy, Writing, Relation
    <2>4. BaseInv(j)'
      BY <1>1, <2>1, <2>2 DEF JobInv, BaseInv, Writing
    <2>5. SeenInv(j)'
      <3> SUFFICES ASSUME NEW p \in Orga, new.seen[p] # NoRow PROVE tree[p] # NoRow \/ p \in job[j].beside
        BY <1>1, <2>1, <2>2 DEF SeenInv
      <3>1. p \in read \/ job[j].seen[p] # NoRow
        BY <2>2
      <3> QED
        BY <1>1, <3>1 DEF JobInv, SeenInv, Existing
    <2>6. RefersInv(j)' /\ EmptyInv(j)'
      BY <2>1, <2>2 DEF RefersInv, EmptyInv
    <2>7. NamesInv(j)'
      BY <1>1, <2>1, <2>2 DEF JobInv, NamesInv, Clash, Owed, Beside, Busy
    <2>8. JobInv(j)'
      BY <2>3, <2>4, <2>5, <2>6, <2>7 DEF JobInv
    <2> QED
      BY <1>1, <2>1, <2>2, <2>8, LocalStep DEF Kept
  <1> QED
    BY <1>2, <1>3, <1>4

LEMMA InsertKeeps == ASSUME IInv, NEW j \in Job, Insert(j) PROVE Kept
  <1>1. /\ TypeOK /\ JobInv(j) /\ FreshInv(j) /\ Busy(j) /\ job[j].at = "save" /\ job[j].op = "create"
    BY DEF IInv, Insert, Busy
  <1>2. PICK o : o = job[j].id
    OBVIOUS
  <1>3. o \in Orga /\ job[j].new \in Row /\ tree[o] = NoRow
    BY <1>1, <1>2 DEF JobInv, PlanInv, FreshInv, Writing, TypeOK
  <1>4. Writes(j, o, job[j].new)
    BY <1>2, <1>3 DEF Insert, Writes
  <1>5. ParentsExist' /\ NamesUnique'
    BY <1>1, <1>2, <1>3, <1>4, SaveKeepsTree
  <1>6. \A k \in Job : FreshInv(k)' /\ JobInv(k)'
    BY <1>1, <1>2, <1>3, <1>4, WriteStep
  <1> QED
    BY <1>5, <1>6 DEF Kept

\* The version guards every change.
LEMMA SaveKeeps == ASSUME IInv, NEW j \in Job, Save(j) PROVE Kept
  <1>1. CASE End(j)
    BY <1>1, EndKeeps DEF Kept
  <1>2. CASE /\ Unchanged(j)
             /\ tree' = [tree EXCEPT ![job[j].id] = [job[j].new EXCEPT !.version = @ + 1]]
             /\ Written(j, job[j].id)
    <2>1. /\ TypeOK /\ JobInv(j) /\ Busy(j) /\ job[j].at = "save" /\ job[j].op # "create"
      BY DEF IInv, Save, Busy
    <2>2. PICK o : o = job[j].id
      OBVIOUS
    <2>3. PICK r : r = [job[j].new EXCEPT !.version = @ + 1]
      OBVIOUS
    <2>4. o \in Orga /\ tree[o] # NoRow /\ tree[o] \in Row /\ job[j].new \in Row
          /\ tree[o].version = job[j].base.version
      BY <1>2, <2>1, <2>2 DEF JobInv, PlanInv, Writing, TypeOK, Unchanged, Existing, Rows
    <2>5. /\ r \in Row /\ r.admin = job[j].new.admin /\ r.zug = job[j].new.zug /\ r.name = job[j].new.name
          /\ r.version = job[j].new.version + 1
      BY <2>3, <2>4 DEF Row
    <2>6. Writes(j, o, r)
      BY <1>2, <2>2, <2>3, <2>4 DEF Writes
    <2>7. ParentsExist' /\ NamesUnique'
      BY <2>1, <2>2, <2>5, <2>6, SaveKeepsTree
    <2>8. tree[o].version < r.version
      <3>1. job[j].base.version <= job[j].new.version
        BY <2>1 DEF JobInv, BaseInv, Writing
      <3>2. tree[o].version \in Nat /\ job[j].new.version \in Nat
        BY <2>4 DEF Row
      <3> QED
        BY <2>4, <2>5, <3>1, <3>2
    <2>9. \A k \in Job : FreshInv(k)' /\ JobInv(k)'
      BY <2>1, <2>2, <2>4, <2>5, <2>6, <2>8, WriteStep
    <2> QED
      BY <2>7, <2>9 DEF Kept
  <1> QED
    BY <1>1, <1>2 DEF Save

LEMMA RemoveKeeps == ASSUME IInv, NEW j \in Job, Remove(j) PROVE Kept
  <1>1. CASE End(j)
    BY <1>1, EndKeeps DEF Kept
  <1>2. CASE /\ job[j].id \in Existing
             /\ tree' = [tree EXCEPT ![job[j].id] = NoRow]
             /\ Written(j, job[j].id)
    <2>1. /\ TypeOK /\ Busy(j) /\ job[j].at = "remove"
      BY DEF IInv, Remove, Busy
    <2>2. PICK o : o = job[j].id
      OBVIOUS
    <2>3. o \in Orga /\ tree[o] # NoRow
      BY <1>2, <2>2 DEF Existing
    <2>4. Writes(j, o, NoRow)
      BY <1>2, <2>2, <2>3 DEF Writes
    <2>5. ParentsExist' /\ NamesUnique'
      BY <2>1, <2>2, <2>4, RemoveKeepsTree
    <2>6. \A k \in Job : FreshInv(k)' /\ JobInv(k)'
      BY <2>1, <2>2, <2>3, <2>4, WriteStep
    <2> QED
      BY <2>5, <2>6 DEF Kept
  <1> QED
    BY <1>1, <1>2 DEF Remove

----------------------------------------------------------------------------
(* The inductive invariant                                                 *)

LEMMA InitInv == Init => IInv
  <1> SUFFICES ASSUME Init PROVE IInv
    OBVIOUS
  <1>1. \A j \in Job : job[j] = Idle /\ ~Busy(j) /\ job[j].at = "idle"
    BY DEF Init, Busy, Idle
  <1>2. TypeOK
    BY TreeAssumption, IdleIsJob DEF Init, TypeOK, Existing
  <1>3. ParentsExist
    <2> SUFFICES ASSUME NEW o \in Orga, Start[o] # NoRow, NEW p \in {Start[o].admin, Start[o].zug}, p # None
                 PROVE  p \in Orga /\ Start[p] # NoRow
      BY DEF Init, ParentsExist, Existing
    <2>1. Start[o] \in Row
      BY TreeAssumption DEF Rows
    <2>2. p \in Orga
      BY <2>1 DEF Row, Parent
    <2> QED
      BY <2>2, TreeAssumption
  <1>4. NamesUnique
    <2> SUFFICES ASSUME NEW o \in Orga, NEW p \in Orga, Start[o] # NoRow, Start[p] # NoRow, o # p,
                        TypOf[o] = TypOf[p], TypOf[o] \in {"KLASSE", "SCHULE", "BEHOERDE"},
                        Start[o].name = Start[p].name,
                        TypOf[o] = "KLASSE" => Start[o].admin = Start[p].admin
                 PROVE  FALSE
      BY DEF Init, NamesUnique, Existing
    <2> QED
      BY TreeAssumption
  <1>5. \A j \in Job : FreshInv(j) /\ JobInv(j)
    BY <1>1 DEF FreshInv, JobInv, PlanInv, BaseInv, SeenInv, RefersInv, EmptyInv, NamesInv, Writing, Busy
  <1> QED
    BY <1>2, <1>3, <1>4, <1>5 DEF IInv

LEMMA NextInv == IInv /\ [Next]_vars => IInv'
  <1> SUFFICES ASSUME IInv, [Next]_vars PROVE IInv'
    OBVIOUS
  <1>1. TypeOK'
    BY TypeStep
  <1>2. CASE UNCHANGED vars
    <2>1. ParentsExist' /\ NamesUnique'
      BY <1>2 DEF IInv, vars, ParentsExist, NamesUnique, Existing, Beside
    <2>2. \A k \in Job : FreshInv(k)'
      BY <1>2 DEF IInv, vars, FreshInv, Busy
    <2>3. \A k \in Job : JobInv(k)'
      BY <1>2, LocalKeeps DEF IInv, vars
    <2> QED
      BY <1>1, <2>1, <2>2, <2>3 DEF IInv
  <1>3. ASSUME NEW j \in Job, Step(j) PROVE Kept
    BY <1>3, CreateKeeps, CheckReferencesKeeps, InsertKeeps, PutKeeps, ClimbUpKeeps, EndKeeps,
       ClimbZugKeeps, ClimbedKeeps, CheckNameKeeps, SaveKeeps, ViewKeeps, RenameKeeps, MoveKeeps,
       CheckSideKeeps, EnableKeeps, DeleteKeeps, CheckChildrenKeeps, CheckZugehoerigeKeeps, RemoveKeeps
       DEF Step, ClimbCircle, Kept
  <1> QED
    BY <1>1, <1>2, <1>3 DEF Next, Kept, IInv

THEOREM Invariance == Spec => []IInv
  BY InitInv, NextInv, PTL DEF Spec

----------------------------------------------------------------------------
(* The way up                                                              *)

\* The parent of an organisation in one column.
Above(rel, y) == IF y = None THEN None ELSE tree[y][rel]

LEMMA AboveTyped ==
    ASSUME TypeOK, NEW rel \in Relation, NEW y \in Parent
    PROVE  Above(rel, y) \in Parent
  BY DEF TypeOK, Rows, Row, NoRow, Above, Relation, Parent

\* What holds of the numbers from 0 to N: one that does not hold has a least one.
LEMMA LeastNumber ==
    ASSUME NEW S \in SUBSET Nat, S # {}
    PROVE  \E n \in S : \A m \in 0..(n - 1) : m \notin S
  <1>1. PICK n \in S : \A m \in Nat : m < n => m \notin S
    <2>1. PICK n \in S : \A m \in S : ~(<<m, n>> \in OpToRel(<, Nat))
      BY NatLessThanWellFounded, WFMin, Zenon
    <2> QED
      BY <2>1 DEF OpToRel
  <1> QED
    BY <1>1

\* The path from x along a function.
Path(f, x, N, c) ==
    c[0] = x /\ \A n \in 1..N : c[n] = f[c[n - 1]]

LEMMA PathExists ==
    ASSUME NEW X, NEW f \in [X -> X], NEW x \in X, NEW N \in Nat
    PROVE  \E c \in [0..N -> X] : Path(f, x, N, c)
  <1> DEFINE Bad == {n \in Nat : ~ \E c \in [0..n -> X] : Path(f, x, n, c)}
  <1> SUFFICES ASSUME Bad # {} PROVE FALSE
    OBVIOUS
  <1>1. PICK n \in Bad : \A m \in 0..(n - 1) : m \notin Bad
    BY LeastNumber
  <1>2. CASE n = 0
    <2>1. [k \in 0..0 |-> x] \in [0..0 -> X] /\ Path(f, x, 0, [k \in 0..0 |-> x])
      BY DEF Path
    <2> QED
      BY <1>1, <1>2, <2>1
  <1>3. CASE n # 0
    <2>1. n - 1 \in Nat /\ n - 1 \in 0..(n - 1) /\ n \in Nat
      BY <1>3
    <2>2. PICK c \in [0..(n - 1) -> X] : Path(f, x, n - 1, c)
      BY <1>1, <2>1
    <2> DEFINE d == [k \in 0..n |-> IF k = n THEN f[c[n - 1]] ELSE c[k]]
    <2>3. d \in [0..n -> X]
      BY <2>1, <2>2
    <2>4. d[0] = x
      BY <1>3, <2>1, <2>2 DEF Path
    <2>5. ASSUME NEW k \in 1..n PROVE d[k] = f[d[k - 1]]
      BY <2>1, <2>2 DEF Path
    <2>6. Path(f, x, n, d)
      BY <2>4, <2>5 DEF Path
    <2> QED
      BY <1>1, <2>1, <2>3, <2>6
  <1> QED
    BY <1>2, <1>3

LEMMA CardinalityOfOrga == Cardinality(Orga) \in Nat
  BY TreeAssumption, FS_CardinalityType

\* Up returns the path.
LEMMA UpIsPath ==
    ASSUME TypeOK, NEW rel \in Relation, NEW x \in Parent
    PROVE  \E c \in [0..Cardinality(Orga) -> Parent] :
              /\ c[0] = x
              /\ \A n \in 1..Cardinality(Orga) : c[n] = Above(rel, c[n - 1])
              /\ Up(rel, x) = {c[n] : n \in 0..Cardinality(Orga)} \ {None}
  <1>1. PICK N : N = Cardinality(Orga)
    OBVIOUS
  <1>2. N \in Nat
    BY <1>1, CardinalityOfOrga
  <1> DEFINE f == [y \in Parent |-> Above(rel, y)]
  <1>3. f \in [Parent -> Parent]
    BY AboveTyped
  <1> HIDE DEF f
  <1>4. \E c \in [0..N -> Parent] : Path(f, x, N, c)
    BY <1>2, <1>3, PathExists
  <1>40. PICK c \in [0..N -> Parent] : Path(f, x, N, c)
    BY <1>4
  <1>5. c[0] = x /\ \A n \in 1..N : c[n] = Above(rel, c[n - 1])
    <2>1. c[0] = x /\ \A n \in 1..N : c[n] = f[c[n - 1]]
      BY <1>40 DEF Path
    <2>2. \A n \in 1..N : n - 1 \in 0..N
      BY <1>2
    <2>3. \A n \in 1..N : c[n - 1] \in Parent
      BY <2>2
    <2> QED
      BY <2>1, <2>3 DEF f
  <1> DEFINE Levels(g) ==
        g = [n \in 0..N |-> IF n = 0 THEN {x}
                            ELSE UNION {{y, IF y = None THEN None ELSE tree[y][rel]} : y \in g[n - 1]}]
  <1>6. \E g : Levels(g)
    <2> DEFINE g == [n \in 0..N |-> {c[k] : k \in 0..n}]
    <2>1. ASSUME NEW n \in 0..N
          PROVE  g[n] = IF n = 0 THEN {x}
                        ELSE UNION {{y, IF y = None THEN None ELSE tree[y][rel]} : y \in g[n - 1]}
      <3>1. CASE n = 0
        BY <1>2, <1>5, <3>1
      <3>2. CASE n # 0
        <4>1. n \in 1..N /\ n - 1 \in 0..N /\ n - 1 \in 0..(n - 1)
          BY <1>2, <3>2
        <4>2. g[n - 1] = {c[k] : k \in 0..(n - 1)} /\ g[n] = {c[k] : k \in 0..n}
          BY <4>1
        <4>3. \A k \in 0..(n - 1) : k + 1 \in 1..N /\ k + 1 \in 0..n /\ k \in 0..n
          BY <1>2, <4>1
        <4>4. \A k \in 0..(n - 1) : c[k + 1] = Above(rel, c[k])
          <5> TAKE k \in 0..(n - 1)
          <5>1. k + 1 \in 1..N /\ (k + 1) - 1 = k
            BY <1>2, <4>3
          <5> QED
            BY <1>5, <5>1
        <4>5. ASSUME NEW z \in g[n]
              PROVE  z \in UNION {{y, IF y = None THEN None ELSE tree[y][rel]} : y \in g[n - 1]}
          <5>1. PICK k \in 0..n : z = c[k]
            BY <4>2
          <5>2. CASE k \in 0..(n - 1)
            <6>1. z \in g[n - 1]
              BY <4>2, <5>1, <5>2
            <6>2. \E y \in g[n - 1] : z \in {y, IF y = None THEN None ELSE tree[y][rel]}
              BY <6>1
            <6> QED
              BY <6>2, Zenon
          <5>3. CASE k = n
            <6>1. z = Above(rel, c[n - 1])
              BY <1>5, <4>1, <5>1, <5>3
            <6>2. c[n - 1] \in g[n - 1]
              BY <4>1, <4>2
            <6>3. \E y \in g[n - 1] : z \in {y, IF y = None THEN None ELSE tree[y][rel]}
              BY <6>1, <6>2 DEF Above
            <6> QED
              BY <6>3, Zenon
          <5> QED
            BY <1>2, <4>1, <5>2, <5>3
        <4>6. ASSUME NEW y \in g[n - 1], NEW z \in {y, IF y = None THEN None ELSE tree[y][rel]}
              PROVE  z \in g[n]
          <5>1. PICK k \in 0..(n - 1) : y = c[k]
            BY <4>2
          <5>2. z = c[k] \/ z = c[k + 1]
            BY <4>4, <5>1 DEF Above
          <5> QED
            BY <4>2, <4>3, <5>2
        <4> HIDE DEF g
        <4> QED
          BY <3>2, <4>5, <4>6
      <3> QED
        BY <3>1, <3>2
    <2>2. g = [n \in 0..N |-> g[n]]
      OBVIOUS
    <2>3. Levels(g)
      <3> HIDE DEF g
      <3> QED
        BY <2>1, <2>2
    <2> QED
      BY <2>3
  <1> DEFINE level == CHOOSE g : Levels(g)
  <1>7. Up(rel, x) = level[N] \ {None}
    BY <1>1 DEF Up
  <1>8. Levels(level)
    BY <1>6
  <1> HIDE DEF level
  <1>9. \A n \in 0..N : level[n] = {c[k] : k \in 0..n}
    <2> DEFINE Bad == {n \in 0..N : level[n] # {c[k] : k \in 0..n}}
    <2> SUFFICES ASSUME Bad # {} PROVE FALSE
      OBVIOUS
    <2>0. Bad \subseteq Nat
      OBVIOUS
    <2>1. PICK n \in Bad : \A m \in 0..(n - 1) : m \notin Bad
      BY <2>0, LeastNumber
    <2>2. n \in 0..N
      OBVIOUS
    <2>3. level[n] = IF n = 0 THEN {x}
                     ELSE UNION {{y, IF y = None THEN None ELSE tree[y][rel]} : y \in level[n - 1]}
      BY <1>8, <2>2
    <2>4. CASE n = 0
      BY <1>2, <1>5, <2>1, <2>3, <2>4
    <2>5. CASE n # 0
      <3>1. n \in 1..N /\ n - 1 \in 0..N /\ n - 1 \in 0..(n - 1)
        BY <1>2, <2>2, <2>5
      <3>2. level[n - 1] = {c[k] : k \in 0..(n - 1)}
        BY <2>1, <3>1
      <3>3. level[n] = UNION {{c[k], Above(rel, c[k])} : k \in 0..(n - 1)}
        BY <2>3, <2>5, <3>2 DEF Above
      <3>4. \A k \in 0..(n - 1) : c[k + 1] = Above(rel, c[k]) /\ k + 1 \in 0..n /\ k \in 0..n
        <4> TAKE k \in 0..(n - 1)
        <4>1. k + 1 \in 1..N /\ (k + 1) - 1 = k /\ k + 1 \in 0..n /\ k \in 0..n
          BY <1>2, <3>1
        <4> QED
          BY <1>5, <4>1
      <3>5. ASSUME NEW k \in 0..n PROVE c[k] \in level[n]
        <4>1. CASE k \in 0..(n - 1)
          BY <3>3, <4>1
        <4>2. CASE k = n
          <5>1. (n - 1) + 1 = n
            BY <3>1
          <5>2. c[n] = Above(rel, c[n - 1])
            BY <3>1, <3>4, <5>1
          <5> QED
            BY <3>1, <3>3, <4>2, <5>2
        <4> QED
          BY <1>2, <3>1, <4>1, <4>2
      <3>6. ASSUME NEW z \in level[n] PROVE z \in {c[k] : k \in 0..n}
        <4>1. PICK k \in 0..(n - 1) : z \in {c[k], Above(rel, c[k])}
          BY <3>3
        <4>2. z = c[k] \/ z = c[k + 1]
          BY <3>4, <4>1
        <4> QED
          BY <3>4, <4>2
      <3>7. level[n] = {c[k] : k \in 0..n}
        BY <3>5, <3>6
      <3> QED
        BY <2>1, <3>7
    <2> QED
      BY <2>4, <2>5
  <1>10. N \in 0..N
    BY <1>2
  <1>11. Up(rel, x) = {c[n] : n \in 0..N} \ {None}
    BY <1>7, <1>9, <1>10
  <1> QED
    BY <1>1, <1>5, <1>11

\* A set of organisations whose parents in one column it contains: there is a
\* circle in it.
Closed(rel, S) == S # {} /\ \A y \in S : tree[y][rel] \in S

\* An organisation above itself is on a circle of organisations above it.
LEMMA CycleIsClosed ==
    ASSUME TypeOK, NEW rel \in Relation, NEW x, OnCycle(rel, x)
    PROVE  \E S \in SUBSET Orga : Closed(rel, S) /\ S \subseteq Up(rel, x)
  <1>1. PICK N : N = Cardinality(Orga)
    OBVIOUS
  <1>2. N \in Nat
    BY <1>1, CardinalityOfOrga
  <1>3. x \in Orga /\ x \in Parent /\ x # None /\ x \in Existing
    BY TreeAssumption DEF OnCycle, Existing, Parent
  <1>4. PICK q \in Parent : q = Above(rel, x)
    BY <1>3, AboveTyped
  <1>5. q = tree[x][rel] /\ x \in Up(rel, q)
    BY <1>3, <1>4 DEF Above, OnCycle
  <1>6. PICK c \in [0..N -> Parent] :
           /\ c[0] = x
           /\ \A n \in 1..N : c[n] = Above(rel, c[n - 1])
           /\ Up(rel, x) = {c[n] : n \in 0..N} \ {None}
    BY <1>1, <1>3, UpIsPath
  <1>7. PICK d \in [0..N -> Parent] :
           /\ d[0] = q
           /\ \A n \in 1..N : d[n] = Above(rel, d[n - 1])
           /\ Up(rel, q) = {d[n] : n \in 0..N} \ {None}
    BY <1>1, UpIsPath
  <1>8. PICK m \in 0..N : d[m] = x
    BY <1>5, <1>7
  \* The two paths are the same one, a step apart.
  <1>9. \A n \in 0..(N - 1) : d[n] = c[n + 1]
    <2> DEFINE Bad == {n \in 0..(N - 1) : d[n] # c[n + 1]}
    <2> SUFFICES ASSUME Bad # {} PROVE FALSE
      OBVIOUS
    <2>1. Bad \subseteq Nat
      OBVIOUS
    <2>2. PICK n \in Bad : \A i \in 0..(n - 1) : i \notin Bad
      BY <2>1, LeastNumber
    <2>3. n \in 0..(N - 1) /\ d[n] # c[n + 1]
      OBVIOUS
    <2>4. n + 1 \in 1..N /\ (n + 1) - 1 = n
      BY <1>2, <2>3
    <2>5. c[n + 1] = Above(rel, c[n])
      BY <1>6, <2>4
    <2>6. CASE n = 0
      BY <1>4, <1>6, <1>7, <2>3, <2>5, <2>6
    <2>7. CASE n # 0
      <3>1. n \in 1..N /\ n - 1 \in 0..(n - 1) /\ n - 1 \in 0..(N - 1) /\ (n - 1) + 1 = n
        BY <1>2, <2>3, <2>7
      <3>2. d[n - 1] = c[n]
        BY <2>2, <3>1
      <3>3. d[n] = Above(rel, d[n - 1])
        BY <1>7, <3>1
      <3> QED
        BY <2>3, <2>5, <3>2, <3>3
    <2> QED
      BY <2>6, <2>7
  \* Above None is None, so that None is not on the way back to x.
  <1>10. \A n \in 0..m : d[n] # None
    <2> DEFINE Bad == {i \in 0..m : d[m - i] = None}
    <2>1. ASSUME Bad # {} PROVE FALSE
      <3>1. Bad \subseteq Nat
        OBVIOUS
      <3>2. PICK i \in Bad : \A k \in 0..(i - 1) : k \notin Bad
        BY <2>1, <3>1, LeastNumber
      <3>3. i \in 0..m /\ d[m - i] = None
        OBVIOUS
      <3>4. i # 0
        BY <1>2, <1>3, <1>8, <3>3
      <3>5. i - 1 \in 0..(i - 1) /\ i - 1 \in 0..m
        BY <1>2, <3>3, <3>4
      <3>6. d[m - (i - 1)] # None
        BY <3>2, <3>5
      <3>7. m - (i - 1) \in 1..N /\ (m - (i - 1)) - 1 = m - i
        BY <1>2, <3>3, <3>4
      <3>8. d[m - (i - 1)] = Above(rel, d[m - i])
        BY <1>7, <3>7
      <3> QED
        BY <3>3, <3>6, <3>8 DEF Above
    <2>2. ASSUME NEW n \in 0..m PROVE d[n] # None
      <3>1. m - n \in 0..m /\ m - (m - n) = n
        BY <1>2
      <3>2. m - n \notin Bad
        BY <2>1
      <3> QED
        BY <3>1, <3>2
    <2> QED
      BY <2>2
  <1> DEFINE S == {d[n] : n \in 0..m}
  <1>11. S \subseteq Orga
    BY <1>2, <1>10 DEF Parent
  <1>12. S # {}
    BY <1>2
  <1>13. ASSUME NEW y \in S PROVE tree[y][rel] \in S
    <2>1. PICK n \in 0..m : y = d[n]
      OBVIOUS
    <2>2. tree[y][rel] = Above(rel, y)
      BY <1>10, <2>1 DEF Above
    <2>3. CASE n = m
      <3>1. tree[y][rel] = d[0]
        BY <1>5, <1>7, <1>8, <2>1, <2>3
      <3> QED
        BY <1>2, <3>1
    <2>4. CASE n # m
      <3>1. n + 1 \in 1..N /\ (n + 1) - 1 = n /\ n + 1 \in 0..m
        BY <1>2, <2>4
      <3>2. d[n + 1] = Above(rel, d[n])
        BY <1>7, <3>1
      <3> QED
        BY <2>1, <2>2, <3>1, <3>2
    <2> QED
      BY <2>3, <2>4
  <1>14. ASSUME NEW y \in S PROVE y \in Up(rel, x)
    <2>1. PICK n \in 0..m : y = d[n]
      OBVIOUS
    <2>2. y # None
      BY <1>10, <2>1
    <2>3. CASE n = m
      <3>1. y = c[0] /\ 0 \in 0..N
        BY <1>2, <1>6, <1>8, <2>1, <2>3
      <3> QED
        BY <1>6, <2>2, <3>1
    <2>4. CASE n # m
      <3>1. n \in 0..(N - 1) /\ n + 1 \in 0..N
        BY <1>2, <2>4
      <3>2. y = c[n + 1]
        BY <1>9, <2>1, <3>1
      <3> QED
        BY <1>6, <2>2, <3>1, <3>2
    <2> QED
      BY <2>3, <2>4
  <1> QED
    BY <1>11, <1>12, <1>13, <1>14 DEF Closed

----------------------------------------------------------------------------
(* What the search for circles is worth.  A request has read the rows on    *)
(* its way at different times; what it has met stays a way up from the new  *)
(* parent, except for what others have written since it began.             *)

\* Every circle has two organisations on it that were written side by side.
CirclesExcused ==
    \A rel \in Relation : \A S \in SUBSET Orga : Closed(rel, S) => \E p, q \in S : Beside(p, q)

\* What was read is what the table holds, or others have written it since.
ReadInv(j) ==
    Busy(j) => \A p \in Orga : job[j].seen[p] # NoRow => tree[p] = job[j].seen[p] \/ p \in job[j].beside

\* Which steps a kind of request takes.
OpInv(j) ==
    /\ job[j].at = "references" => job[j].op = "create"
    /\ job[j].at \in {"children", "zugehoerige", "remove"} => job[j].op = "delete"
    /\ job[j].at \in {"name", "save"} => job[j].op # "delete"

\* An organisation that is created is not its own parent.
NewInv(j) ==
    (job[j].op = "create" /\ job[j].at \in {"name", "save"}) =>
        job[j].id \notin {job[j].new.admin, job[j].new.zug}

\* A new name or a new setting leaves the parents alone, as long as the version is
\* the one that the request is based on.
SameInv(j) ==
    (job[j].op \in {"rename", "enable"} /\ job[j].at \in {"name", "save"}) =>
        /\ tree[job[j].id] # NoRow => job[j].new.version <= tree[job[j].id].version
        /\ job[j].base.version = job[j].new.version =>
              job[j].new.admin = job[j].base.admin /\ job[j].new.zug = job[j].base.zug

\* Where the search for a circle comes to from the new parent and from those in P.
Steps(j, rel, P) == {job[j].new[rel]} \cup {tree[x][rel] : x \in P \ job[j].beside}

\* Another organisation at which the search ended.
Top(j, y) == y # job[j].id /\ (y = None \/ y \in job[j].beside \/ tree[y] = NoRow)

\* The search ended without meeting the organisation itself, and is still worth
\* something: P is what it has met.
Cleared(j, rel) ==
    \E P \in SUBSET (Orga \ {job[j].id}) : \A y \in Steps(j, rel, P) : y \in P \/ Top(j, y)

ClimbInv(j) ==
    (Busy(j) /\ job[j].op \in {"put", "move"}) =>
        /\ job[j].seen[job[j].id] # NoRow
        /\ job[j].at = "side" => job[j].path = {}
        /\ job[j].at \in Relation =>
              /\ job[j].id \notin job[j].path
              /\ \A x \in job[j].path : job[j].seen[x] # NoRow
              /\ Steps(j, job[j].at, job[j].path) \subseteq job[j].path \cup {job[j].next}
        /\ job[j].at = "zug" => Cleared(j, "admin")
        /\ job[j].at \in {"name", "save"} => Cleared(j, "admin") /\ Cleared(j, "zug")

CircleInv(j) == ReadInv(j) /\ OpInv(j) /\ NewInv(j) /\ SameInv(j) /\ ClimbInv(j)

----------------------------------------------------------------------------
(* What a step leaves to the searches of the other requests                *)

LEMMA CircleIdle ==
    ASSUME NEW j \in Job, job'[j] = Idle
    PROVE  CircleInv(j)'
  BY DEF CircleInv, ReadInv, OpInv, NewInv, SameInv, ClimbInv, Idle, Busy

LEMMA CircleLocal ==
    ASSUME NEW k \in Job, CircleInv(k), job'[k] = job[k], UNCHANGED tree
    PROVE  CircleInv(k)'
  <1>1. ReadInv(k)'
    BY DEF CircleInv, ReadInv, Busy
  <1>2. OpInv(k)' /\ NewInv(k)' /\ SameInv(k)'
    BY DEF CircleInv, OpInv, NewInv, SameInv
  <1>3. \A rel, P : Steps(k, rel, P)' = Steps(k, rel, P)
    BY DEF Steps
  <1>4. \A y : Top(k, y)' = Top(k, y)
    BY DEF Top
  <1>5. \A rel : Cleared(k, rel)' = Cleared(k, rel)
    BY <1>3, <1>4 DEF Cleared
  <1>6. ClimbInv(k)'
    BY <1>3, <1>5 DEF CircleInv, ClimbInv, Busy
  <1> QED
    BY <1>1, <1>2, <1>6 DEF CircleInv

\* Where the request k has come to does not change for those that nobody has written.
LEMMA StepsKept ==
    ASSUME TypeOK, NEW j \in Job, NEW k \in Job \ {j}, NEW o \in Orga, NEW r, Writes(j, o, r),
           job'[k].new = job[k].new, job'[k].beside = job[k].beside \cup {o},
           NEW rel, NEW P \in SUBSET Orga
    PROVE  Steps(k, rel, P)' \subseteq Steps(k, rel, P)
  <1>1. \A x \in Orga \ {o} : tree'[x] = tree[x]
    BY WritesHistory
  <1>2. ASSUME NEW y \in Steps(k, rel, P)' PROVE y \in Steps(k, rel, P)
    <2>1. CASE y = job[k].new[rel]
      BY <2>1 DEF Steps
    <2>2. CASE y # job[k].new[rel]
      <3>1. PICK x \in P \ (job[k].beside \cup {o}) : y = tree'[x][rel]
        BY <1>2, <2>2 DEF Steps
      <3>2. tree'[x] = tree[x]
        BY <1>1, <3>1
      <3>3. x \in P \ job[k].beside /\ y = tree[x][rel]
        BY <3>1, <3>2
      <3> QED
        BY <3>3 DEF Steps
    <2> QED
      BY <2>1, <2>2
  <1> QED
    BY <1>2

LEMMA CircleWrite ==
    ASSUME IInv, NEW j \in Job, NEW k \in Job \ {j}, NEW o, NEW r \in Row \cup {NoRow},
           Writes(j, o, r), CircleInv(k),
           tree[o] # NoRow /\ r # NoRow => tree[o].version < r.version,
           tree[o] = NoRow /\ Busy(k) => job[k].id # o
    PROVE  CircleInv(k)'
  <1>0. TypeOK /\ JobInv(k) /\ o \in Orga
    BY DEF IInv, Writes
  <1>1. CASE ~Busy(k)
    <2>1. job'[k] = job[k]
      BY <1>0, <1>1 DEF TypeOK, Writes, Written
    <2>2. job[k].at = "idle"
      BY <1>1 DEF Busy
    <2> QED
      BY <2>1, <2>2 DEF CircleInv, ReadInv, OpInv, NewInv, SameInv, ClimbInv, Busy
  <1>2. CASE Busy(k)
    <2>1. /\ job'[k] = [job[k] EXCEPT !.beside = job[k].beside \cup {o}]
          /\ job[k].id \in Orga
      BY <1>0, <1>2 DEF TypeOK, Writes, Written, JobInv, PlanInv
    <2>2. /\ job[k] \in JobSet
          /\ job'[k].at = job[k].at /\ job'[k].op = job[k].op /\ job'[k].id = job[k].id
          /\ job'[k].base = job[k].base /\ job'[k].new = job[k].new /\ job'[k].seen = job[k].seen
          /\ job'[k].next = job[k].next /\ job'[k].path = job[k].path
          /\ job'[k].beside = job[k].beside \cup {o}
      BY <1>0, <2>1, JobFields DEF JobSet
    <2>3. /\ \A p \in Orga \ {o} : tree'[p] = tree[p]
          /\ tree'[o] = r
      BY <1>0, WritesHistory
    <2>4. ReadInv(k)'
      BY <1>2, <2>2, <2>3 DEF CircleInv, ReadInv, Busy
    <2>5. OpInv(k)' /\ NewInv(k)'
      BY <2>2 DEF CircleInv, OpInv, NewInv
    <2>6. SameInv(k)'
      <3> SUFFICES ASSUME job[k].op \in {"rename", "enable"}, job[k].at \in {"name", "save"}
                   PROVE  /\ tree'[job[k].id] # NoRow => job[k].new.version <= tree'[job[k].id].version
                          /\ job[k].base.version = job[k].new.version =>
                                job[k].new.admin = job[k].base.admin /\ job[k].new.zug = job[k].base.zug
        BY <2>2 DEF SameInv
      <3>1. SameInv(k)
        BY DEF CircleInv
      <3>2. /\ tree[job[k].id] # NoRow => job[k].new.version <= tree[job[k].id].version
            /\ job[k].base.version = job[k].new.version =>
                  job[k].new.admin = job[k].base.admin /\ job[k].new.zug = job[k].base.zug
        BY <3>1 DEF SameInv
      <3>3. CASE job[k].id # o
        BY <2>1, <2>3, <3>2, <3>3
      <3>4. CASE job[k].id = o /\ r # NoRow
        <4>1. tree[o] # NoRow
          BY <1>2, <3>4
        <4>2. job[k].new \in Row /\ tree[o] \in Row /\ r \in Row
          BY <1>0, <1>2, <3>4, <4>1 DEF JobInv, PlanInv, Writing, TypeOK, Rows
        <4>3. job[k].new.version \in Nat /\ tree[o].version \in Nat /\ r.version \in Nat
          BY <4>2 DEF Row
        <4>4. job[k].new.version <= tree[o].version /\ tree[o].version < r.version
          BY <3>2, <3>4, <4>1
        <4>5. job[k].new.version <= r.version
          BY <4>3, <4>4
        <4> QED
          BY <2>3, <3>2, <3>4, <4>5
      <3>5. CASE job[k].id = o /\ r = NoRow
        BY <2>3, <3>2, <3>5
      <3> QED
        BY <3>3, <3>4, <3>5
    <2>7. \A rel : \A P \in SUBSET Orga : Steps(k, rel, P)' \subseteq Steps(k, rel, P)
      BY <1>0, <2>2, StepsKept
    <2>8. \A y : (y = None \/ y \in Orga) /\ Top(k, y) => Top(k, y)'
      BY <2>2, <2>3 DEF Top
    <2>9. ASSUME NEW rel \in Relation, Cleared(k, rel), job[k].new \in Row PROVE Cleared(k, rel)'
      <3>1. PICK P \in SUBSET (Orga \ {job[k].id}) : \A y \in Steps(k, rel, P) : y \in P \/ Top(k, y)
        BY <2>9 DEF Cleared
      <3>2. P \in SUBSET Orga
        OBVIOUS
      <3>3. Steps(k, rel, P)' \subseteq Steps(k, rel, P)
        BY <2>7, <3>2
      <3>4. \A y \in Steps(k, rel, P) : y = None \/ y \in Orga
        <4>1. job[k].new[rel] \in Parent
          BY <2>9 DEF Row, Relation
        <4>2. \A x \in P : tree[x][rel] \in Parent
          BY <1>0 DEF TypeOK, Rows, Row, NoRow, Relation, Parent
        <4> QED
          BY <4>1, <4>2 DEF Steps, Parent
      <3>5. \A y \in Steps(k, rel, P)' : y \in P \/ Top(k, y)'
        BY <2>8, <3>1, <3>3, <3>4
      <3>6. P \in SUBSET (Orga \ {job'[k].id})
        BY <2>2
      <3> QED
        BY <3>5, <3>6 DEF Cleared
    <2>10. ClimbInv(k)'
      <3> SUFFICES ASSUME job[k].op \in {"put", "move"} PROVE ClimbInv(k)'
        BY <2>2 DEF ClimbInv
      <3>1. /\ job[k].seen[job[k].id] # NoRow
            /\ job[k].at = "side" => job[k].path = {}
            /\ job[k].at \in Relation =>
                  /\ job[k].id \notin job[k].path
                  /\ \A x \in job[k].path : job[k].seen[x] # NoRow
                  /\ Steps(k, job[k].at, job[k].path) \subseteq job[k].path \cup {job[k].next}
            /\ job[k].at = "zug" => Cleared(k, "admin")
            /\ job[k].at \in {"name", "save"} => Cleared(k, "admin") /\ Cleared(k, "zug")
        BY <1>2 DEF CircleInv, ClimbInv
      <3>2. job[k].path \in SUBSET Orga /\ {"admin", "zug"} \subseteq Relation
        BY <1>0, JobFields DEF Relation
      <3>3. job[k].at \in {"zug", "name", "save"} => job[k].new \in Row
        BY <1>0, <1>2 DEF JobInv, PlanInv, Writing
      <3>4. /\ job[k].at = "zug" => Cleared(k, "admin")'
            /\ job[k].at \in {"name", "save"} => Cleared(k, "admin")' /\ Cleared(k, "zug")'
        BY <2>9, <3>1, <3>2, <3>3
      <3>5. Steps(k, job[k].at, job[k].path)' \subseteq Steps(k, job[k].at, job[k].path)
        <4>1. PICK rel, P : rel = job[k].at /\ P = job[k].path
          OBVIOUS
        <4>2. Steps(k, rel, P)' \subseteq Steps(k, rel, P)
          BY <2>7, <3>2, <4>1
        <4>3. Steps(k, job[k].at, job[k].path)' = Steps(k, rel, P)'
          BY <2>2, <4>1 DEF Steps
        <4> QED
          BY <4>1, <4>2, <4>3
      <3>6. job[k].at \in Relation =>
                  Steps(k, job[k].at, job[k].path)' \subseteq job[k].path \cup {job[k].next}
        BY <3>1, <3>5
      <3> QED
        BY <2>2, <3>1, <3>4, <3>6 DEF ClimbInv
    <2> QED
      BY <2>4, <2>5, <2>6, <2>10 DEF CircleInv
  <1> QED
    BY <1>1, <1>2

----------------------------------------------------------------------------
(* What a step that writes leaves of the circles                           *)

\* Two organisations of S were written side by side.
Excused(S) == \E p, q \in S : Beside(p, q)

LEMMA ExcusedKept ==
    ASSUME TypeOK, NEW j \in Job, NEW o, NEW r, Writes(j, o, r), NEW S \in SUBSET Orga, Excused(S)
    PROVE  Excused(S)'
  <1>1. \A p, q \in Orga : Beside(p, q) => Beside(p, q)'
    BY WritesHistory
  <1> QED
    BY <1>1 DEF Excused

\* The parents of an organisation are organisations, or there is none.
LEMMA ParentTyped ==
    ASSUME TypeOK, NEW rel \in Relation, NEW x \in Orga
    PROVE  tree[x][rel] \in Parent
  BY DEF TypeOK, Rows, Row, NoRow, Relation, Parent

\* A removal makes no circle.
LEMMA RemoveMakesNoCircle ==
    ASSUME TypeOK, CirclesExcused, NEW j \in Job, NEW o, Writes(j, o, NoRow)
    PROVE  CirclesExcused'
  <1>0. /\ o \in Orga
        /\ \A p \in Orga \ {o} : tree'[p] = tree[p]
        /\ tree'[o] = NoRow
    BY WritesHistory DEF Writes
  <1> SUFFICES ASSUME NEW rel \in Relation, NEW S \in SUBSET Orga, S # {}, \A y \in S : tree'[y][rel] \in S
               PROVE  Excused(S)'
    BY DEF CirclesExcused, Closed, Excused
  <1>1. o \notin S
    <2>1. NoRow[rel] = None
      BY DEF NoRow, Relation
    <2> QED
      BY <1>0, <2>1, TreeAssumption
  <1>2. Closed(rel, S)
    BY <1>0, <1>1 DEF Closed
  <1>3. Excused(S)
    BY <1>2 DEF CirclesExcused, Excused
  <1> QED
    BY <1>3, ExcusedKept

\* A change that leaves the parents alone makes no circle.
LEMMA SameParentsMakeNoCircle ==
    ASSUME TypeOK, CirclesExcused, NEW j \in Job, NEW o, NEW r, Writes(j, o, r),
           r.admin = tree[o].admin, r.zug = tree[o].zug
    PROVE  CirclesExcused'
  <1>0. /\ o \in Orga
        /\ \A p \in Orga \ {o} : tree'[p] = tree[p]
        /\ tree'[o] = r
    BY WritesHistory DEF Writes
  <1> SUFFICES ASSUME NEW rel \in Relation, NEW S \in SUBSET Orga, S # {}, \A y \in S : tree'[y][rel] \in S
               PROVE  Excused(S)'
    BY DEF CirclesExcused, Closed, Excused
  <1>1. \A y \in Orga : tree'[y][rel] = tree[y][rel]
    BY <1>0 DEF Relation
  <1>2. Closed(rel, S)
    BY <1>1 DEF Closed
  <1>3. Excused(S)
    BY <1>2 DEF CirclesExcused, Excused
  <1> QED
    BY <1>3, ExcusedKept

\* A new organisation closes a circle only if its child was written beside it.
LEMMA InsertMakesNoCircle ==
    ASSUME TypeOK, ParentsExist, CirclesExcused, NEW j \in Job, NEW o, NEW r, Writes(j, o, r),
           tree[o] = NoRow, r.admin # o, r.zug # o
    PROVE  CirclesExcused'
  <1>0. /\ o \in Orga
        /\ \A p \in Orga \ {o} : tree'[p] = tree[p]
        /\ tree'[o] = r
        /\ \A p, q \in Orga : Beside(p, q) => Beside(p, q)'
    BY WritesHistory DEF Writes
  <1> SUFFICES ASSUME NEW rel \in Relation, NEW S \in SUBSET Orga, S # {}, \A y \in S : tree'[y][rel] \in S
               PROVE  Excused(S)'
    BY DEF CirclesExcused, Closed, Excused
  <1>1. \A y \in S \ {o} : tree[y][rel] \in S
    BY <1>0
  <1>2. CASE o \in S /\ \E y \in S \ {o} : tree[y][rel] = o
    <2>1. PICK y \in S \ {o} : tree[y][rel] = o
      BY <1>2
    <2>2. y \in Existing
      <3>1. NoRow[rel] = None
        BY DEF NoRow, Relation
      <3> QED
        BY <1>0, <2>1, <3>1, TreeAssumption DEF Existing
    <2>3. o \in {tree[y].admin, tree[y].zug}
      BY <2>1 DEF Relation
    <2>4. o \notin Existing \cup {None}
      BY <1>0, TreeAssumption DEF Existing
    <2>5. Beside(y, o)
      BY <2>2, <2>3, <2>4 DEF ParentsExist
    <2>6. Beside(y, o)'
      BY <1>0, <2>5
    <2> QED
      BY <1>2, <2>6 DEF Excused
  <1>3. CASE ~(o \in S /\ \E y \in S \ {o} : tree[y][rel] = o)
    <2>1. \A y \in S \ {o} : tree[y][rel] \in S \ {o}
      BY <1>1, <1>3
    <2>2. S \ {o} # {}
      <3>1. CASE o \in S
        <4>1. r[rel] \in S /\ r[rel] # o
          BY <1>0, <3>1 DEF Relation
        <4> QED
          BY <4>1
      <3> QED
        BY <3>1
    <2>3. Closed(rel, S \ {o})
      BY <2>1, <2>2 DEF Closed
    <2>4. S \ {o} \in SUBSET Orga
      OBVIOUS
    <2>5. Excused(S \ {o})
      BY <2>3, <2>4 DEF CirclesExcused, Excused
    <2>6. Excused(S)
      BY <2>5 DEF Excused
    <2> QED
      BY <2>6, ExcusedKept
  <1> QED
    BY <1>2, <1>3

\* A change of the parents closes a circle only with what was written beside it: the
\* search has met all the others, and not the organisation itself.
LEMMA SearchedMakesNoCircle ==
    ASSUME TypeOK, CirclesExcused, NEW j \in Job, NEW o, o = job[j].id, NEW r, Writes(j, o, r), tree[o] # NoRow,
           r.admin = job[j].new.admin, r.zug = job[j].new.zug, \A rel \in Relation : Cleared(j, rel)
    PROVE  CirclesExcused'
  <1>0. /\ o \in Orga
        /\ \A p \in Orga \ {o} : tree'[p] = tree[p]
        /\ tree'[o] = r
        /\ \A p \in job[j].beside : Beside(o, p)'
    <2>1. o \in Orga
      BY DEF Writes
    <2> QED
      BY <2>1, WritesHistory
  <1> SUFFICES ASSUME NEW rel \in Relation, NEW S \in SUBSET Orga, S # {}, \A y \in S : tree'[y][rel] \in S
               PROVE  Excused(S)'
    BY DEF CirclesExcused, Closed, Excused
  <1>1. CASE o \notin S
    <2>1. Closed(rel, S)
      BY <1>0, <1>1 DEF Closed
    <2>2. Excused(S)
      BY <2>1 DEF CirclesExcused, Excused
    <2> QED
      BY <2>2, ExcusedKept
  <1>2. CASE o \in S /\ S \cap job[j].beside # {}
    <2>1. PICK p \in S : p \in job[j].beside
      BY <1>2
    <2>2. Beside(o, p)'
      BY <1>0, <2>1
    <2> QED
      BY <1>2, <2>1, <2>2 DEF Excused
  <1>3. CASE o \in S /\ S \cap job[j].beside = {}
    <2>1. PICK P \in SUBSET (Orga \ {o}) : \A y \in Steps(j, rel, P) : y \in P \/ Top(j, y)
      BY DEF Cleared
    <2>2. \A y \in S : tree'[y] # NoRow
      <3>1. NoRow[rel] = None
        BY DEF NoRow, Relation
      <3> QED
        BY <3>1, TreeAssumption
    <2>3. \A y \in S \ {o} : tree[y] # NoRow /\ y # None
      BY <1>0, <2>2, TreeAssumption
    <2>4. \A y \in S : ~Top(j, y)
      BY <1>3, <2>3 DEF Top
    <2>5. r[rel] \in S /\ r[rel] \in Steps(j, rel, P)
      <3>1. r[rel] = job[j].new[rel]
        BY DEF Relation
      <3> QED
        BY <1>0, <1>3, <3>1 DEF Steps
    <2>6. S \cap P # {}
      BY <2>1, <2>4, <2>5
    <2>7. ASSUME NEW y \in S \cap P PROVE tree[y][rel] \in S \cap P
      <3>1. y # o /\ y \notin job[j].beside /\ y \in P
        BY <1>3, <2>1
      <3>2. tree[y][rel] \in S
        BY <1>0, <3>1
      <3>3. tree[y][rel] \in Steps(j, rel, P)
        BY <3>1 DEF Steps
      <3> QED
        BY <2>1, <2>4, <3>2, <3>3
    <2>8. Closed(rel, S \cap P)
      BY <2>6, <2>7 DEF Closed
    <2>9. S \cap P \in SUBSET Orga
      OBVIOUS
    <2>10. Excused(S \cap P)
      BY <2>8, <2>9 DEF CirclesExcused, Excused
    <2>11. Excused(S)
      BY <2>10 DEF Excused
    <2> QED
      BY <2>11, ExcusedKept
  <1> QED
    BY <1>1, <1>2, <1>3

LEMMA NothingWrittenNoCircle ==
    ASSUME CirclesExcused, UNCHANGED <<tree, overlap>>
    PROVE  CirclesExcused'
  <1>1. \A p, q : Beside(p, q)' = Beside(p, q)
    BY DEF Beside
  <1>2. \A rel, S : Closed(rel, S)' = Closed(rel, S)
    BY DEF Closed
  <1> QED
    BY <1>1, <1>2 DEF CirclesExcused

----------------------------------------------------------------------------
(* The request that takes the step                                         *)

\* A request that is about to read or to write nothing more than a name begins.
LEMMA CircleBegin ==
    ASSUME TypeOK, NEW j \in Job, NEW new, Begin(j, new), new.at # "idle",
           \A p \in Orga : new.seen[p] # NoRow => tree[p] = new.seen[p],
           new.at # "name" /\ (new.at = "save" => new.op = "enable"),
           new.at = "references" => new.op = "create",
           new.at \in {"children", "zugehoerige", "remove"} => new.op = "delete",
           new.op = "enable" => /\ tree[new.id] # NoRow => new.new.version <= tree[new.id].version
                                /\ new.new.admin = new.base.admin /\ new.new.zug = new.base.zug,
           new.op \in {"put", "move"} => /\ new.at \in {"side", "admin"} /\ new.seen[new.id] # NoRow
                                         /\ new.path = {}
                                         /\ new.at = "admin" => new.next = new.new.admin
    PROVE  CircleInv(j)'
  <1>1. job'[j] = new /\ tree' = tree
    BY DEF Begin, TypeOK
  <1>2. ReadInv(j)' /\ OpInv(j)' /\ NewInv(j)' /\ SameInv(j)'
    BY <1>1 DEF ReadInv, OpInv, NewInv, SameInv
  <1>3. new.at = "admin" /\ new.path = {} => Steps(j, "admin", {})' = {new.new.admin}
    BY <1>1 DEF Steps
  <1>4. ClimbInv(j)'
    <2> SUFFICES ASSUME new.op \in {"put", "move"} PROVE ClimbInv(j)'
      BY <1>1 DEF ClimbInv
    <2>1. CASE new.at = "side"
      BY <1>1, <2>1 DEF ClimbInv, Relation
    <2>2. CASE new.at = "admin"
      <3>1. Steps(j, job[j].at, job[j].path)' = {new.new.admin}
        BY <1>1, <2>2 DEF Steps
      <3>2. Steps(j, job[j].at, job[j].path)' \subseteq (job[j].path \cup {job[j].next})'
        BY <1>1, <2>2, <3>1
      <3> QED
        BY <1>1, <2>2, <3>2 DEF ClimbInv, Relation
    <2> QED
      BY <2>1, <2>2
  <1> QED
    BY <1>2, <1>4 DEF CircleInv

LEMMA CircleCreate == ASSUME IInv, NEW j \in Job, Create(j) PROVE CircleInv(j)'
  <1>1. PICK o \in Orga \ born, p \in Place, n \in Name :
            Begin(j, [Idle EXCEPT !.at = "references", !.op = "create", !.id = o,
                                  !.new = [admin |-> p.admin, zug |-> p.zug, name |-> n,
                                           its |-> FALSE, version |-> 1]])
    BY DEF Create
  <1> DEFINE new == [Idle EXCEPT !.at = "references", !.op = "create", !.id = o,
                                 !.new = [admin |-> p.admin, zug |-> p.zug, name |-> n,
                                          its |-> FALSE, version |-> 1]]
  <1>2. new.at = "references" /\ new.op = "create" /\ new.seen = [x \in Orga |-> NoRow]
    BY DEF Idle
  <1>3. Begin(j, new) /\ TypeOK
    BY <1>1 DEF IInv
  <1> HIDE DEF new
  <1> QED
    BY <1>2, <1>3, CircleBegin

LEMMA CirclePut == ASSUME IInv, NEW j \in Job, Put(j) PROVE CircleInv(j)'
  <1>1. PICK o \in Existing, p \in Place, n \in Name :
            Begin(j, [Idle EXCEPT !.at = "admin", !.op = "put", !.id = o, !.base = tree[o],
                                  !.new = Update(tree[o], o, p, n), !.next = Update(tree[o], o, p, n).admin,
                                  !.seen = Reading({o})])
    BY DEF Put
  <1> DEFINE row == Update(tree[o], o, p, n)
             new == [Idle EXCEPT !.at = "admin", !.op = "put", !.id = o, !.base = tree[o],
                                 !.new = row, !.next = row.admin, !.seen = Reading({o})]
  <1> HIDE DEF row
  <1>2. /\ new.at = "admin" /\ new.op = "put" /\ new.seen = Reading({o}) /\ new.id = o /\ new.path = {}
        /\ new.new = row /\ new.next = row.admin
    BY DEF Idle
  <1>3. Begin(j, new) /\ TypeOK /\ o \in Orga /\ tree[o] # NoRow
    BY <1>1, ExistingRows DEF IInv, row
  <1> HIDE DEF new
  <1>4. /\ \A x \in Orga : new.seen[x] # NoRow => tree[x] = new.seen[x]
        /\ new.seen[o] # NoRow
    BY <1>2, <1>3 DEF Reading
  <1> QED
    BY <1>2, <1>3, <1>4, CircleBegin

LEMMA CircleView == ASSUME IInv, NEW j \in Job, View(j) PROVE CircleInv(j)'
  <1>1. PICK o \in Existing :
            Begin(j, [Idle EXCEPT !.at = "viewed", !.op = "rename", !.id = o, !.base = tree[o]])
    BY DEF View
  <1> DEFINE new == [Idle EXCEPT !.at = "viewed", !.op = "rename", !.id = o, !.base = tree[o]]
  <1>2. new.at = "viewed" /\ new.op = "rename" /\ new.seen = [x \in Orga |-> NoRow]
    BY DEF Idle
  <1>3. Begin(j, new) /\ TypeOK
    BY <1>1 DEF IInv
  <1> HIDE DEF new
  <1> QED
    BY <1>2, <1>3, CircleBegin

LEMMA CircleMove == ASSUME IInv, NEW j \in Job, Move(j) PROVE CircleInv(j)'
  <1>1. PICK o \in Existing, p \in Existing :
            Begin(j, [Idle EXCEPT !.at = "side", !.op = "move", !.id = o, !.base = tree[o],
                                  !.new = [tree[o] EXCEPT !.zug = p], !.seen = Reading({o, p})])
    BY DEF Move
  <1> DEFINE new == [Idle EXCEPT !.at = "side", !.op = "move", !.id = o, !.base = tree[o],
                                 !.new = [tree[o] EXCEPT !.zug = p], !.seen = Reading({o, p})]
  <1>2. /\ new.at = "side" /\ new.op = "move" /\ new.seen = Reading({o, p}) /\ new.id = o /\ new.path = {}
    BY DEF Idle
  <1>3. Begin(j, new) /\ TypeOK /\ o \in Orga /\ tree[o] # NoRow
    BY <1>1, ExistingRows DEF IInv
  <1> HIDE DEF new
  <1>4. /\ \A x \in Orga : new.seen[x] # NoRow => tree[x] = new.seen[x]
        /\ new.seen[o] # NoRow
    BY <1>2, <1>3 DEF Reading
  <1> QED
    BY <1>2, <1>3, <1>4, CircleBegin

LEMMA CircleEnable == ASSUME IInv, NEW j \in Job, Enable(j) PROVE CircleInv(j)'
  <1>1. PICK o \in OfTyp("SCHULE") :
            Begin(j, [Idle EXCEPT !.at = "save", !.op = "enable", !.id = o, !.base = tree[o],
                                  !.new = [tree[o] EXCEPT !.its = TRUE]])
    BY DEF Enable
  <1> DEFINE row == [tree[o] EXCEPT !.its = TRUE]
             new == [Idle EXCEPT !.at = "save", !.op = "enable", !.id = o, !.base = tree[o], !.new = row]
  <1>2. TypeOK /\ o \in Existing /\ tree[o] \in Row
    BY ExistingRows DEF IInv, OfTyp
  <1>3. /\ row.version = tree[o].version /\ row.admin = tree[o].admin /\ row.zug = tree[o].zug
        /\ tree[o].version \in Nat
    BY <1>2 DEF Row
  <1> HIDE DEF row
  <1>4. /\ new.at = "save" /\ new.op = "enable" /\ new.seen = [x \in Orga |-> NoRow] /\ new.id = o
        /\ new.base = tree[o] /\ new.new = row
    BY DEF Idle
  <1>5. Begin(j, new)
    BY <1>1 DEF row
  <1> HIDE DEF new
  <1>6. new.new.version <= tree[new.id].version
    BY <1>3, <1>4
  <1> QED
    BY <1>2, <1>3, <1>4, <1>5, <1>6, CircleBegin

LEMMA CircleDelete == ASSUME IInv, NEW j \in Job, Delete(j) PROVE CircleInv(j)'
  <1>1. PICK o \in Existing : Begin(j, [Idle EXCEPT !.at = "children", !.op = "delete", !.id = o])
    BY DEF Delete
  <1> DEFINE new == [Idle EXCEPT !.at = "children", !.op = "delete", !.id = o]
  <1>2. new.at = "children" /\ new.op = "delete" /\ new.seen = [x \in Orga |-> NoRow]
    BY DEF Idle
  <1>3. Begin(j, new) /\ TypeOK
    BY <1>1 DEF IInv
  <1> HIDE DEF new
  <1> QED
    BY <1>2, <1>3, CircleBegin

\* The next step of a request that is not climbing.
LEMMA CircleGo ==
    ASSUME TypeOK, NEW j \in Job, CircleInv(j), NEW at, Go(j, at), Busy(j),
           \/ at \in {"zugehoerige", "remove"} /\ job[j].op = "delete"
           \/ at = "save" /\ job[j].at = "name"
           \/ at = "name" /\ job[j].op = "create" /\ job[j].id \notin {job[j].new.admin, job[j].new.zug}
    PROVE  CircleInv(j)'
  <1>1. job'[j] = [job[j] EXCEPT !.at = at] /\ tree' = tree
    BY DEF Go, TypeOK
  <1>2. /\ job'[j].at = at /\ job'[j].op = job[j].op /\ job'[j].id = job[j].id
        /\ job'[j].base = job[j].base /\ job'[j].new = job[j].new /\ job'[j].seen = job[j].seen
        /\ job'[j].path = job[j].path /\ job'[j].next = job[j].next /\ job'[j].beside = job[j].beside
    BY <1>1, JobFields DEF JobSet
  <1>3. ReadInv(j)'
    BY <1>1, <1>2 DEF CircleInv, ReadInv, Busy
  <1>4. OpInv(j)' /\ NewInv(j)'
    BY <1>2 DEF CircleInv, OpInv, NewInv
  <1>5. SameInv(j)'
    BY <1>1, <1>2 DEF CircleInv, SameInv
  <1>6. \A rel : Cleared(j, rel)' = Cleared(j, rel)
    <2>1. \A rel, P : Steps(j, rel, P)' = Steps(j, rel, P)
      BY <1>1, <1>2 DEF Steps
    <2>2. \A y : Top(j, y)' = Top(j, y)
      BY <1>1, <1>2 DEF Top
    <2> QED
      BY <1>2, <2>1, <2>2 DEF Cleared
  <1>7. ClimbInv(j)'
    <2> SUFFICES ASSUME job[j].op \in {"put", "move"}, at = "save", job[j].at = "name" PROVE ClimbInv(j)'
      BY <1>2 DEF ClimbInv
    <2>1. job[j].seen[job[j].id] # NoRow /\ Cleared(j, "admin") /\ Cleared(j, "zug")
      BY DEF CircleInv, ClimbInv, Busy
    <2> QED
      BY <1>2, <1>6, <2>1 DEF ClimbInv, Relation
  <1> QED
    BY <1>3, <1>4, <1>5, <1>7 DEF CircleInv

LEMMA CircleEnd == ASSUME TypeOK, NEW j \in Job, End(j) PROVE CircleInv(j)'
  <1>1. job'[j] = Idle
    BY DEF End, TypeOK
  <1> QED
    BY <1>1, CircleIdle

LEMMA CircleCheckReferences == ASSUME IInv, NEW j \in Job, CircleInv(j), CheckReferences(j) PROVE CircleInv(j)'
  <1>1. TypeOK /\ JobInv(j) /\ FreshInv(j) /\ Busy(j) /\ job[j].at = "references"
    BY DEF IInv, CheckReferences, Busy
  <1>2. CASE End(j)
    BY <1>1, <1>2, CircleEnd
  <1>3. CASE {job[j].new.admin, job[j].new.zug} \subseteq Existing \cup {None} /\ Go(j, "name")
    <2>1. job[j].op = "create"
      BY <1>1 DEF CircleInv, OpInv
    <2>2. tree[job[j].id] = NoRow /\ job[j].id # None
      BY <1>1, <2>1, TreeAssumption DEF FreshInv, JobInv, PlanInv, TypeOK
    <2>3. job[j].id \notin {job[j].new.admin, job[j].new.zug}
      BY <1>3, <2>2 DEF Existing
    <2> QED
      BY <1>1, <1>3, <2>1, <2>3, CircleGo
  <1> QED
    BY <1>2, <1>3 DEF CheckReferences

LEMMA CircleCheckName == ASSUME IInv, NEW j \in Job, CircleInv(j), CheckName(j) PROVE CircleInv(j)'
  <1>1. TypeOK /\ Busy(j) /\ job[j].at = "name"
    BY DEF IInv, CheckName, Busy
  <1> QED
    BY <1>1, CircleGo, CircleEnd DEF CheckName

LEMMA CircleCheckChildren == ASSUME IInv, NEW j \in Job, CircleInv(j), CheckChildren(j) PROVE CircleInv(j)'
  <1>1. TypeOK /\ Busy(j) /\ job[j].op = "delete"
    BY DEF IInv, CheckChildren, Busy, CircleInv, OpInv
  <1> QED
    BY <1>1, CircleGo, CircleEnd DEF CheckChildren

LEMMA CircleCheckZugehoerige == ASSUME IInv, NEW j \in Job, CircleInv(j), CheckZugehoerige(j) PROVE CircleInv(j)'
  <1>1. TypeOK /\ Busy(j) /\ job[j].op = "delete"
    BY DEF IInv, CheckZugehoerige, Busy, CircleInv, OpInv
  <1> QED
    BY <1>1, CircleGo, CircleEnd DEF CheckZugehoerige

\* One step up: what the next organisation refers to is where the search goes on.
LEMMA CircleClimbUp == ASSUME IInv, NEW j \in Job, CircleInv(j), ClimbUp(j) PROVE CircleInv(j)'
  <1>1. PICK o, rel : o = job[j].next /\ rel = job[j].at
    OBVIOUS
  <1>2. /\ TypeOK /\ JobInv(j) /\ job[j] \in JobSet /\ rel \in Relation /\ Busy(j)
        /\ Known(j, o) # NoRow /\ o \in Orga /\ o \notin Met(j) /\ tree' = tree
        /\ job[j].seen \in [Orga -> Row \cup {NoRow}]
    BY <1>1, JobFields DEF IInv, ClimbUp, Climbing, Found, Parent, Busy, Relation
  <1>3. /\ job' = [job EXCEPT ![j].next = Known(j, o)[rel], ![j].path = @ \cup {o}, ![j].seen[o] = Known(j, o)]
    BY <1>1 DEF ClimbUp
  <1> DEFINE new == [job[j] EXCEPT !.next = Known(j, o)[rel], !.path = job[j].path \cup {o},
                                   !.seen = [job[j].seen EXCEPT ![o] = Known(j, o)]]
  <1>4. job'[j] = new
    BY <1>2, <1>3 DEF TypeOK, JobSet
  <1>5. /\ new.at = job[j].at /\ new.op = job[j].op /\ new.id = job[j].id /\ new.base = job[j].base
        /\ new.new = job[j].new /\ new.beside = job[j].beside /\ new.next = Known(j, o)[rel]
        /\ new.path = job[j].path \cup {o} /\ new.seen = [job[j].seen EXCEPT ![o] = Known(j, o)]
    BY <1>2 DEF JobSet
  <1> HIDE DEF new
  <1>6. \A p \in Orga : new.seen[p] = IF p = o THEN Known(j, o) ELSE job[j].seen[p]
    BY <1>2, <1>5
  <1>7. tree[o] = Known(j, o) \/ o \in job[j].beside
    BY <1>2 DEF Known, CircleInv, ReadInv
  <1>8. ReadInv(j)'
    <2> SUFFICES ASSUME NEW p \in Orga, new.seen[p] # NoRow
                 PROVE  tree[p] = new.seen[p] \/ p \in job[j].beside
      BY <1>2, <1>4, <1>5 DEF ReadInv
    <2> QED
      BY <1>2, <1>6, <1>7 DEF CircleInv, ReadInv
  <1>9. OpInv(j)' /\ NewInv(j)' /\ SameInv(j)'
    BY <1>2, <1>4, <1>5 DEF CircleInv, OpInv, NewInv, SameInv
  <1>10. ClimbInv(j)'
    <2> SUFFICES ASSUME job[j].op \in {"put", "move"} PROVE ClimbInv(j)'
      BY <1>4, <1>5 DEF ClimbInv
    <2>1. /\ job[j].seen[job[j].id] # NoRow /\ job[j].id \notin job[j].path
          /\ \A x \in job[j].path : job[j].seen[x] # NoRow
          /\ Steps(j, rel, job[j].path) \subseteq job[j].path \cup {o}
          /\ rel = "zug" => Cleared(j, "admin")
      BY <1>1, <1>2 DEF CircleInv, ClimbInv
    <2>2. job[j].id \in Orga /\ job[j].path \subseteq Orga
      BY <1>2, JobFields DEF JobInv, PlanInv, TypeOK
    <2>3. new.seen[job[j].id] # NoRow /\ \A x \in new.path : new.seen[x] # NoRow
      BY <1>2, <1>5, <1>6, <2>1, <2>2
    <2>4. job[j].id \notin new.path
      BY <1>2, <1>5, <2>1 DEF Met
    <2>5. ASSUME NEW y \in {new.new[rel]} \cup {tree[x][rel] : x \in new.path \ new.beside}
          PROVE  y \in new.path \cup {new.next}
      <3>1. CASE y \in Steps(j, rel, job[j].path)
        BY <1>5, <2>1, <3>1
      <3>2. CASE y \notin Steps(j, rel, job[j].path)
        <4>1. y = tree[o][rel] /\ o \notin job[j].beside
          BY <1>5, <2>5, <3>2 DEF Steps
        <4> QED
          BY <1>5, <1>7, <4>1
      <3> QED
        BY <3>1, <3>2
    <2>6. Steps(j, job[j].at, job[j].path)' = {new.new[rel]} \cup {tree[x][rel] : x \in new.path \ new.beside}
      BY <1>1, <1>2, <1>4, <1>5 DEF Steps
    <2>7. Steps(j, job[j].at, job[j].path)' \subseteq new.path \cup {new.next}
      BY <2>5, <2>6
    <2>8. Cleared(j, "admin")' = Cleared(j, "admin")
      <3>1. \A P : Steps(j, "admin", P)' = Steps(j, "admin", P)
        BY <1>2, <1>4, <1>5 DEF Steps
      <3>2. \A y : Top(j, y)' = Top(j, y)
        BY <1>2, <1>4, <1>5 DEF Top
      <3> QED
        BY <1>4, <1>5, <3>1, <3>2 DEF Cleared
    <2>9. rel \notin {"side", "name", "save"}
      BY <1>2 DEF Relation
    <2> QED
      BY <1>1, <1>4, <1>5, <2>1, <2>3, <2>4, <2>7, <2>8, <2>9 DEF ClimbInv
  <1> QED
    BY <1>8, <1>9, <1>10 DEF CircleInv

\* At the top of one column: what was met there clears it.
LEMMA TopCleared ==
    ASSUME IInv, NEW j \in Job, CircleInv(j), AtTop(j), job[j].op \in {"put", "move"}
    PROVE  Cleared(j, job[j].at)
  <1>1. /\ TypeOK /\ JobInv(j) /\ job[j].at \in Relation /\ Busy(j) /\ ~Found(j, job[j].next)
        /\ job[j].path \subseteq Orga /\ job[j].next \in Parent
    BY JobFields DEF IInv, AtTop, Climbing, Busy, Relation
  <1>2. /\ job[j].seen[job[j].id] # NoRow /\ job[j].id \notin job[j].path
        /\ Steps(j, job[j].at, job[j].path) \subseteq job[j].path \cup {job[j].next}
    BY <1>1 DEF CircleInv, ClimbInv
  <1>3. job[j].id \in Orga
    BY <1>1 DEF JobInv, PlanInv, TypeOK
  <1>4. Top(j, job[j].next)
    <2>1. CASE job[j].next = None
      BY <1>3, <2>1, TreeAssumption DEF Top
    <2>2. CASE job[j].next # None
      <3>1. job[j].seen[job[j].next] = NoRow /\ tree[job[j].next] = NoRow
        BY <1>1, <2>2 DEF Found, Known
      <3> QED
        BY <1>2, <3>1 DEF Top
    <2> QED
      BY <2>1, <2>2
  <1>5. job[j].path \in SUBSET (Orga \ {job[j].id})
    BY <1>1, <1>2
  <1>6. \A y \in Steps(j, job[j].at, job[j].path) : y \in job[j].path \/ Top(j, y)
    BY <1>2, <1>4
  <1> QED
    BY <1>5, <1>6 DEF Cleared

LEMMA CircleClimbZug == ASSUME IInv, NEW j \in Job, CircleInv(j), ClimbZug(j) PROVE CircleInv(j)'
  <1>1. /\ TypeOK /\ JobInv(j) /\ job[j] \in JobSet /\ job[j].at = "admin" /\ Busy(j) /\ tree' = tree
        /\ AtTop(j)
    BY JobFields DEF IInv, ClimbZug, Busy
  <1> DEFINE new == [job[j] EXCEPT !.at = "zug", !.next = job[j].new.zug, !.path = {}]
  <1>2. job'[j] = new
    BY <1>1 DEF ClimbZug, TypeOK
  <1>3. /\ new.at = "zug" /\ new.op = job[j].op /\ new.id = job[j].id /\ new.base = job[j].base
        /\ new.new = job[j].new /\ new.beside = job[j].beside /\ new.seen = job[j].seen
        /\ new.path = {} /\ new.next = job[j].new.zug
    BY <1>1 DEF JobSet
  <1> HIDE DEF new
  <1>4. ReadInv(j)'
    BY <1>1, <1>2, <1>3 DEF CircleInv, ReadInv, Busy
  <1>5. OpInv(j)' /\ NewInv(j)' /\ SameInv(j)'
    BY <1>1, <1>2, <1>3 DEF CircleInv, OpInv, NewInv, SameInv
  <1>6. ClimbInv(j)'
    <2> SUFFICES ASSUME job[j].op \in {"put", "move"} PROVE ClimbInv(j)'
      BY <1>2, <1>3 DEF ClimbInv
    <2>1. Cleared(j, "admin")
      BY <1>1, TopCleared
    <2>2. Cleared(j, "admin")'
      <3>1. \A P : Steps(j, "admin", P)' = Steps(j, "admin", P)
        BY <1>1, <1>2, <1>3 DEF Steps
      <3>2. \A y : Top(j, y)' = Top(j, y)
        BY <1>1, <1>2, <1>3 DEF Top
      <3> QED
        BY <1>2, <1>3, <2>1, <3>1, <3>2 DEF Cleared
    <2>3. job[j].seen[job[j].id] # NoRow
      BY <1>1 DEF CircleInv, ClimbInv
    <2>4. Steps(j, job[j].at, job[j].path)' = {job[j].new.zug}
      BY <1>1, <1>2, <1>3 DEF Steps
    <2> QED
      BY <1>2, <1>3, <2>2, <2>3, <2>4 DEF ClimbInv
  <1> QED
    BY <1>4, <1>5, <1>6 DEF CircleInv

LEMMA CircleClimbed == ASSUME IInv, NEW j \in Job, CircleInv(j), Climbed(j) PROVE CircleInv(j)'
  <1>1. /\ TypeOK /\ JobInv(j) /\ job[j] \in JobSet /\ job[j].at = "zug" /\ Busy(j) /\ AtTop(j)
        /\ job[j].op \in {"put", "move"}
    BY JobFields DEF IInv, Climbed, Busy, JobInv, PlanInv, Relation
  <1>2. CASE End(j)
    BY <1>1, <1>2, CircleEnd
  <1>3. CASE Go(j, IF job[j].op = "put" /\ TypOf[job[j].id] # "TRAEGER" THEN "name" ELSE "save")
    <2>0. PICK at : at = IF job[j].op = "put" /\ TypOf[job[j].id] # "TRAEGER" THEN "name" ELSE "save"
      OBVIOUS
    <2>1. job'[j] = [job[j] EXCEPT !.at = at] /\ tree' = tree /\ at \in {"name", "save"}
      BY <1>1, <1>3, <2>0 DEF Go, TypeOK
    <2>2. /\ job'[j].at = at /\ job'[j].op = job[j].op /\ job'[j].id = job[j].id
          /\ job'[j].base = job[j].base /\ job'[j].new = job[j].new /\ job'[j].seen = job[j].seen
          /\ job'[j].beside = job[j].beside
      BY <1>1, <2>1 DEF JobSet
    <2>3. ReadInv(j)'
      BY <1>1, <2>1, <2>2 DEF CircleInv, ReadInv, Busy
    <2>4. OpInv(j)' /\ NewInv(j)' /\ SameInv(j)'
      BY <1>1, <2>1, <2>2 DEF OpInv, NewInv, SameInv
    <2>5. Cleared(j, "admin") /\ Cleared(j, "zug")
      <3>1. Cleared(j, "zug")
        BY <1>1, TopCleared
      <3> QED
        BY <1>1, <3>1 DEF CircleInv, ClimbInv
    <2>6. \A rel : Cleared(j, rel)' = Cleared(j, rel)
      <3>1. \A rel, P : Steps(j, rel, P)' = Steps(j, rel, P)
        BY <2>1, <2>2 DEF Steps
      <3>2. \A y : Top(j, y)' = Top(j, y)
        BY <2>1, <2>2 DEF Top
      <3> QED
        BY <2>2, <3>1, <3>2 DEF Cleared
    <2>7. job[j].seen[job[j].id] # NoRow
      BY <1>1 DEF CircleInv, ClimbInv
    <2>8. ClimbInv(j)'
      BY <2>1, <2>2, <2>5, <2>6, <2>7 DEF ClimbInv, Relation
    <2> QED
      BY <2>3, <2>4, <2>8 DEF CircleInv
  <1> QED
    BY <1>2, <1>3 DEF Climbed

LEMMA CircleRename == ASSUME IInv, NEW j \in Job, CircleInv(j), Rename(j) PROVE CircleInv(j)'
  <1>1. /\ TypeOK /\ JobInv(j) /\ job[j] \in JobSet /\ job[j].at = "viewed" /\ Busy(j) /\ tree' = tree
        /\ job[j].op = "rename" /\ \A p \in Orga : job[j].seen[p] = NoRow
    BY JobFields DEF IInv, Rename, Busy, JobInv, PlanInv
  <1>2. CASE job' = [job EXCEPT ![j] = Idle]
    BY <1>1, <1>2, CircleIdle DEF TypeOK
  <1>3. CASE job[j].id \in Existing /\ job' # [job EXCEPT ![j] = Idle]
    <2>1. PICK n \in Name :
              job' = [job EXCEPT ![j].at = IF n = tree[job[j].id].name THEN "save" ELSE "name",
                                 ![j].new = [tree[job[j].id] EXCEPT !.name = n],
                                 ![j].beside = {}]
      BY <1>3 DEF Rename
    <2>2. PICK row : row = [tree[job[j].id] EXCEPT !.name = n]
      OBVIOUS
    <2>3. PICK at : at = IF n = tree[job[j].id].name THEN "save" ELSE "name"
      OBVIOUS
    <2> DEFINE new == [job[j] EXCEPT !.at = at, !.new = row, !.beside = {}]
    <2>4. job'[j] = new
      BY <1>1, <2>1, <2>2, <2>3 DEF TypeOK
    <2>5. /\ new.at = at /\ new.op = job[j].op /\ new.id = job[j].id /\ new.base = job[j].base
          /\ new.new = row /\ new.seen = job[j].seen
      BY <1>1 DEF JobSet
    <2>6. /\ tree[job[j].id] \in Row /\ tree[job[j].id] # NoRow
      BY <1>1, <1>3, ExistingRows
    <2>7. /\ row.version = tree[job[j].id].version /\ tree[job[j].id].version \in Nat
          /\ row.admin = tree[job[j].id].admin /\ row.zug = tree[job[j].id].zug
          /\ at \in {"save", "name"}
      BY <2>2, <2>3, <2>6 DEF Row
    <2> HIDE DEF new
    <2>8. job[j].base.version = tree[job[j].id].version => job[j].base = tree[job[j].id]
      BY <1>1, <2>6 DEF JobInv, BaseInv
    <2>9. ReadInv(j)' /\ OpInv(j)' /\ NewInv(j)' /\ ClimbInv(j)'
      BY <1>1, <2>4, <2>5, <2>7 DEF ReadInv, OpInv, NewInv, ClimbInv
    <2>10. SameInv(j)'
      BY <1>1, <2>4, <2>5, <2>7, <2>8 DEF SameInv
    <2> QED
      BY <2>9, <2>10 DEF CircleInv
  <1> QED
    BY <1>2, <1>3 DEF Rename

LEMMA CircleCheckSide == ASSUME IInv, NEW j \in Job, CircleInv(j), CheckSide(j) PROVE CircleInv(j)'
  <1>1. /\ TypeOK /\ JobInv(j) /\ job[j] \in JobSet /\ job[j].at = "side" /\ Busy(j) /\ tree' = tree
        /\ job[j].seen \in [Orga -> Row \cup {NoRow}] /\ job[j].op = "move"
    BY JobFields DEF IInv, CheckSide, Busy, JobInv, PlanInv
  <1>2. CASE job' = [job EXCEPT ![j] = Idle]
    BY <1>1, <1>2, CircleIdle DEF TypeOK
  <1>3. PICK read \in SUBSET Existing :
            job' = [job EXCEPT ![j].at = "admin", ![j].next = job[j].new.admin,
                               ![j].seen = [x \in Orga |-> IF x \in read THEN tree[x] ELSE @[x]]]
            \/ job' = [job EXCEPT ![j] = Idle]
    BY DEF CheckSide
  <1>4. CASE job' = [job EXCEPT ![j].at = "admin", ![j].next = job[j].new.admin,
                                ![j].seen = [x \in Orga |-> IF x \in read THEN tree[x] ELSE @[x]]]
    <2> DEFINE new == [job[j] EXCEPT !.at = "admin", !.next = job[j].new.admin,
                                     !.seen = [x \in Orga |-> IF x \in read THEN tree[x] ELSE job[j].seen[x]]]
    <2>1. job'[j] = new
      BY <1>1, <1>4 DEF TypeOK, JobSet
    <2>2. /\ new.at = "admin" /\ new.op = job[j].op /\ new.id = job[j].id /\ new.base = job[j].base
          /\ new.new = job[j].new /\ new.beside = job[j].beside /\ new.path = job[j].path
          /\ new.next = job[j].new.admin
          /\ new.seen = [x \in Orga |-> IF x \in read THEN tree[x] ELSE job[j].seen[x]]
      BY <1>1 DEF JobSet
    <2> HIDE DEF new
    <2>3. job[j].seen[job[j].id] # NoRow /\ job[j].path = {} /\ job[j].id \in Orga
      BY <1>1 DEF CircleInv, ClimbInv, JobInv, PlanInv, TypeOK
    <2>4. ReadInv(j)'
      <3> SUFFICES ASSUME NEW p \in Orga, new.seen[p] # NoRow
                   PROVE  tree[p] = new.seen[p] \/ p \in job[j].beside
        BY <1>1, <2>1, <2>2 DEF ReadInv
      <3> QED
        BY <1>1, <2>2 DEF CircleInv, ReadInv
    <2>5. OpInv(j)' /\ NewInv(j)' /\ SameInv(j)'
      BY <1>1, <2>1, <2>2 DEF OpInv, NewInv, SameInv
    <2>6. new.seen[job[j].id] # NoRow
      BY <2>2, <2>3 DEF Existing
    <2>7. Steps(j, job[j].at, job[j].path)' = {job[j].new.admin}
      BY <2>1, <2>2, <2>3 DEF Steps
    <2>8. ClimbInv(j)'
      BY <2>1, <2>2, <2>3, <2>6, <2>7 DEF ClimbInv
    <2> QED
      BY <2>4, <2>5, <2>8 DEF CircleInv
  <1> QED
    BY <1>2, <1>3, <1>4

----------------------------------------------------------------------------
(* Circles: the steps together                                             *)

CirclesKept == CirclesExcused' /\ \A k \in Job : CircleInv(k)'

\* A step that writes nothing.
LEMMA CircleLocalStep ==
    ASSUME IInv, CirclesExcused, \A k \in Job : CircleInv(k), NEW j \in Job,
           UNCHANGED <<tree, overlap>>, \A k \in Job \ {j} : job'[k] = job[k], CircleInv(j)'
    PROVE  CirclesKept
  <1>1. CirclesExcused'
    BY NothingWrittenNoCircle
  <1>2. ASSUME NEW k \in Job PROVE CircleInv(k)'
    <2>1. CASE k = j
      BY <2>1
    <2>2. CASE k # j
      BY <2>2, CircleLocal
    <2> QED
      BY <2>1, <2>2
  <1> QED
    BY <1>1, <1>2 DEF CirclesKept

\* A step that writes a row ends its request; the others have it beside them.
LEMMA CircleWriteStep ==
    ASSUME IInv, \A k \in Job : CircleInv(k), NEW j \in Job, Busy(j), NEW o, o = job[j].id,
           NEW r \in Row \cup {NoRow}, Writes(j, o, r),
           tree[o] # NoRow /\ r # NoRow => tree[o].version < r.version,
           tree[o] = NoRow => job[j].op = "create", CirclesExcused'
    PROVE  CirclesKept
  <1>1. job'[j] = Idle
    BY DEF Writes, Written
  <1>2. ASSUME NEW k \in Job PROVE CircleInv(k)'
    <2>1. CASE k = j
      BY <1>1, <2>1, CircleIdle
    <2>2. CASE k # j
      <3>1. FreshInv(j)
        BY DEF IInv
      <3>2. tree[o] = NoRow /\ Busy(k) => job[k].id # o
        BY <2>2, <3>1 DEF FreshInv
      <3>3. k \in Job \ {j} /\ CircleInv(k)
        BY <2>2
      <3> QED
        BY <3>2, <3>3, CircleWrite
    <2> QED
      BY <2>1, <2>2
  <1> QED
    BY <1>2 DEF CirclesKept

LEMMA CircleInsert ==
    ASSUME IInv, CirclesExcused, \A k \in Job : CircleInv(k), NEW j \in Job, Insert(j)
    PROVE  CirclesKept
  <1>1. /\ TypeOK /\ JobInv(j) /\ FreshInv(j) /\ ParentsExist /\ Busy(j)
        /\ job[j].at = "save" /\ job[j].op = "create"
    BY DEF IInv, Insert, Busy
  <1>2. PICK o, r : o = job[j].id /\ r = job[j].new
    OBVIOUS
  <1>3. o \in Orga /\ r \in Row /\ tree[o] = NoRow
    BY <1>1, <1>2 DEF JobInv, PlanInv, FreshInv, Writing, TypeOK
  <1>4. Writes(j, o, r)
    BY <1>2, <1>3 DEF Insert, Writes
  <1>5. r.admin # o /\ r.zug # o
    BY <1>1, <1>2 DEF CircleInv, NewInv
  <1>6. CirclesExcused'
    BY <1>1, <1>3, <1>4, <1>5, InsertMakesNoCircle
  <1> QED
    BY <1>1, <1>2, <1>3, <1>4, <1>6, CircleWriteStep

LEMMA CircleRemove ==
    ASSUME IInv, CirclesExcused, \A k \in Job : CircleInv(k), NEW j \in Job,
           job[j].at = "remove", job[j].id \in Existing,
           tree' = [tree EXCEPT ![job[j].id] = NoRow], Written(j, job[j].id)
    PROVE  CirclesKept
  <1>1. TypeOK /\ Busy(j)
    BY DEF IInv, Busy
  <1>2. PICK o : o = job[j].id
    OBVIOUS
  <1>3. o \in Orga /\ tree[o] # NoRow
    BY <1>2 DEF Existing
  <1>4. Writes(j, o, NoRow)
    BY <1>2, <1>3 DEF Writes
  <1>5. CirclesExcused'
    BY <1>1, <1>4, RemoveMakesNoCircle
  <1> QED
    BY <1>1, <1>2, <1>3, <1>4, <1>5, CircleWriteStep

LEMMA CircleSave ==
    ASSUME IInv, CirclesExcused, \A k \in Job : CircleInv(k), NEW j \in Job,
           job[j].at = "save", job[j].op # "create", Unchanged(j),
           tree' = [tree EXCEPT ![job[j].id] = [job[j].new EXCEPT !.version = @ + 1]],
           Written(j, job[j].id)
    PROVE  CirclesKept
  <1>1. TypeOK /\ JobInv(j) /\ CircleInv(j) /\ Busy(j)
    BY DEF IInv, Busy
  <1>2. PICK o, r : o = job[j].id /\ r = [job[j].new EXCEPT !.version = @ + 1]
    OBVIOUS
  <1>3. o \in Orga /\ tree[o] # NoRow /\ tree[o] \in Row /\ job[j].new \in Row
        /\ tree[o].version = job[j].base.version
    BY <1>1, <1>2 DEF JobInv, PlanInv, Writing, TypeOK, Unchanged, Existing, Rows
  <1>4. /\ r \in Row /\ r.admin = job[j].new.admin /\ r.zug = job[j].new.zug
        /\ r.version = job[j].new.version + 1
        /\ tree[o].version \in Nat /\ job[j].new.version \in Nat
    BY <1>2, <1>3 DEF Row
  <1>5. Writes(j, o, r)
    BY <1>2, <1>3 DEF Writes
  <1>6. job[j].base.version <= job[j].new.version
        /\ (job[j].base.version = tree[o].version => job[j].base = tree[o])
    BY <1>1, <1>2, <1>3 DEF JobInv, BaseInv, Writing
  <1>7. tree[o].version < r.version
    BY <1>3, <1>4, <1>6
  <1>8. CASE job[j].op \in {"put", "move"}
    <2>1. \A rel \in Relation : Cleared(j, rel)
      BY <1>1, <1>8 DEF CircleInv, ClimbInv, Relation
    <2>2. CirclesExcused'
      BY <1>1, <1>2, <1>3, <1>4, <1>5, <2>1, SearchedMakesNoCircle
    <2> QED
      BY <1>1, <1>2, <1>3, <1>4, <1>5, <1>7, <2>2, CircleWriteStep
  <1>9. CASE job[j].op \in {"rename", "enable"}
    <2>1. /\ job[j].new.version <= tree[o].version
          /\ job[j].base.version = job[j].new.version =>
                job[j].new.admin = job[j].base.admin /\ job[j].new.zug = job[j].base.zug
      BY <1>1, <1>2, <1>3, <1>9 DEF CircleInv, SameInv
    <2>2. job[j].base.version = job[j].new.version
      BY <1>3, <1>4, <1>6, <2>1
    <2>3. r.admin = tree[o].admin /\ r.zug = tree[o].zug
      BY <1>3, <1>4, <1>6, <2>1, <2>2
    <2>4. CirclesExcused'
      BY <1>1, <1>5, <2>3, SameParentsMakeNoCircle
    <2> QED
      BY <1>1, <1>2, <1>3, <1>4, <1>5, <1>7, <2>4, CircleWriteStep
  <1> QED
    BY <1>1, <1>8, <1>9 DEF CircleInv, OpInv, TypeOK, JobSet, Op

\* The steps that write nothing change no other request.
LEMMA LocalChanges ==
    ASSUME NEW j \in Job, NEW k \in Job \ {j}, TypeOK,
           \/ Create(j) \/ CheckReferences(j) \/ Put(j) \/ ClimbUp(j) \/ ClimbCircle(j) \/ ClimbZug(j)
           \/ Climbed(j) \/ CheckName(j) \/ View(j) \/ Rename(j) \/ Move(j) \/ CheckSide(j) \/ Enable(j)
           \/ Delete(j) \/ CheckChildren(j) \/ CheckZugehoerige(j) \/ End(j)
    PROVE  UNCHANGED <<tree, overlap>> /\ job'[k] = job[k]
  <1>1. CASE Create(j) \/ Put(j) \/ View(j) \/ Move(j) \/ Enable(j) \/ Delete(j)
    <2>1. \E new : Begin(j, new)
      BY <1>1 DEF Create, Put, View, Move, Enable, Delete
    <2> QED
      BY <2>1 DEF Begin, TypeOK
  <1>2. CASE CheckReferences(j) \/ ClimbCircle(j) \/ Climbed(j) \/ CheckName(j) \/ CheckChildren(j)
             \/ CheckZugehoerige(j) \/ End(j)
    <2>1. End(j) \/ \E at : Go(j, at)
      BY <1>2 DEF CheckReferences, ClimbCircle, Climbed, CheckName, CheckChildren, CheckZugehoerige
    <2> QED
      BY <2>1 DEF End, Go, TypeOK
  <1>3. CASE ClimbUp(j)
    BY <1>3 DEF ClimbUp, TypeOK
  <1>4. CASE ClimbZug(j)
    BY <1>4 DEF ClimbZug, TypeOK
  <1>5. CASE Rename(j)
    BY <1>5 DEF Rename, TypeOK
  <1>6. CASE CheckSide(j)
    BY <1>6 DEF CheckSide, TypeOK
  <1> QED
    BY <1>1, <1>2, <1>3, <1>4, <1>5, <1>6

CirclesInv == CirclesExcused /\ \A j \in Job : CircleInv(j)

LEMMA CirclesInit == Init => CirclesInv
  <1> SUFFICES ASSUME Init PROVE CirclesInv
    OBVIOUS
  <1>1. CirclesExcused
    BY CircleAssumption DEF Init, CirclesExcused, Closed
  <1>2. \A j \in Job : job[j].at = "idle" /\ ~Busy(j)
    BY DEF Init, Busy, Idle
  <1> QED
    BY <1>1, <1>2 DEF CirclesInv, CircleInv, ReadInv, OpInv, NewInv, SameInv, ClimbInv

LEMMA CirclesNext == IInv /\ CirclesInv /\ [Next]_vars => CirclesInv'
  <1> SUFFICES ASSUME IInv, CirclesInv, [Next]_vars PROVE CirclesKept
    BY DEF CirclesKept, CirclesInv
  <1>0. TypeOK /\ CirclesExcused /\ \A k \in Job : CircleInv(k)
    BY DEF IInv, CirclesInv
  <1>1. CASE UNCHANGED vars
    <2>1. UNCHANGED <<tree, overlap>> /\ \A k \in Job : job'[k] = job[k]
      BY <1>1 DEF vars
    <2>2. \A k \in Job : CircleInv(k)'
      BY <1>0, <2>1, CircleLocal
    <2>3. CirclesExcused'
      BY <1>0, <2>1, NothingWrittenNoCircle
    <2> QED
      BY <2>2, <2>3 DEF CirclesKept
  <1>2. ASSUME NEW j \in Job, Step(j) PROVE CirclesKept
    <2>0. CircleInv(j)
      BY <1>0
    <2>1. CASE \/ Create(j) \/ CheckReferences(j) \/ Put(j) \/ ClimbUp(j) \/ ClimbCircle(j) \/ ClimbZug(j)
               \/ Climbed(j) \/ CheckName(j) \/ View(j) \/ Rename(j) \/ Move(j) \/ CheckSide(j) \/ Enable(j)
               \/ Delete(j) \/ CheckChildren(j) \/ CheckZugehoerige(j) \/ End(j)
      <3>1. CircleInv(j)'
        BY <1>0, <2>0, <2>1, CircleCreate, CircleCheckReferences, CirclePut, CircleClimbUp, CircleClimbZug,
           CircleClimbed, CircleCheckName, CircleView, CircleRename, CircleMove, CircleCheckSide, CircleEnable,
           CircleDelete, CircleCheckChildren, CircleCheckZugehoerige, CircleEnd DEF ClimbCircle
      <3>2. \A k \in Job \ {j} : UNCHANGED <<tree, overlap>> /\ job'[k] = job[k]
        BY <1>0, <2>1, LocalChanges
      <3>3. UNCHANGED <<tree, overlap>>
        BY <2>1 DEF Create, CheckReferences, Put, ClimbUp, ClimbCircle, ClimbZug, Climbed, CheckName, View,
                    Rename, Move, CheckSide, Enable, Delete, CheckChildren, CheckZugehoerige, End, Go, Begin
      <3> QED
        BY <1>0, <3>1, <3>2, <3>3, CircleLocalStep
    <2>2. CASE Insert(j)
      BY <1>0, <2>2, CircleInsert
    <2>3. CASE Save(j) /\ ~End(j)
      <3>1. /\ job[j].at = "save" /\ job[j].op # "create" /\ Unchanged(j)
            /\ tree' = [tree EXCEPT ![job[j].id] = [job[j].new EXCEPT !.version = @ + 1]]
            /\ Written(j, job[j].id)
        BY <2>3 DEF Save
      <3> QED
        BY <1>0, <3>1, CircleSave
    <2>4. CASE Remove(j) /\ ~End(j)
      <3>1. /\ job[j].at = "remove" /\ job[j].id \in Existing
            /\ tree' = [tree EXCEPT ![job[j].id] = NoRow] /\ Written(j, job[j].id)
        BY <2>4 DEF Remove
      <3> QED
        BY <1>0, <3>1, CircleRemove
    <2> QED
      BY <1>2, <2>1, <2>2, <2>3, <2>4 DEF Step
  <1> QED
    BY <1>1, <1>2 DEF Next

----------------------------------------------------------------------------
(* Results                                                                 *)

\* The table and the requests are well typed: every row has a version above zero,
\* and every row belongs to an id that was given out.
THEOREM OrganisationTypeCorrect == Spec => []TypeOK
  <1>1. IInv => TypeOK
    BY DEF IInv
  <1> QED
    BY <1>1, Invariance, PTL

\* Validating first and checking for references before a removal keeps every parent
\* present, as long as nobody writes the parent and the child side by side.
THEOREM ParentsStayPresent == Spec => []ParentsExist
  <1>1. IInv => ParentsExist
    BY DEF IInv
  <1> QED
    BY <1>1, Invariance, PTL

\* The comparisons of names keep Klassen, Schulen and Behoerden distinct, as long as
\* two of the same name are not written side by side.
THEOREM NamesStayUnique == Spec => []NamesUnique
  <1>1. IInv => NamesUnique
    BY DEF IInv
  <1> QED
    BY <1>1, Invariance, PTL

\* No organisation gets above itself, along either column, unless two organisations on
\* the circle were written side by side: the searches for circles, each of which
\* climbs row by row through what the request has read at different times, suffice
\* for requests that come one after another.
THEOREM NoCircleAppears == Spec => []NoCircle
  <1>1. IInv /\ CirclesInv => NoCircle
    <2> SUFFICES ASSUME IInv, CirclesInv, NEW rel \in Relation, NEW x \in Existing, OnCycle(rel, x)
                 PROVE  \E p, q \in Up(rel, x) : Beside(p, q)
      BY DEF NoCircle
    <2>1. TypeOK
      BY DEF IInv
    <2>2. PICK S \in SUBSET Orga : Closed(rel, S) /\ S \subseteq Up(rel, x)
      BY <2>1, CycleIsClosed
    <2>3. \E p, q \in S : Beside(p, q)
      BY <2>2 DEF CirclesInv, CirclesExcused
    <2> QED
      BY <2>2, <2>3
  <1>2. Init => CirclesInv
    BY CirclesInit
  <1>3. IInv /\ CirclesInv /\ [Next]_vars => CirclesInv'
    BY CirclesNext
  <1> QED
    BY <1>1, <1>2, <1>3, Invariance, PTL DEF Spec

\* The version column suffices: a change is only written over the row it was based on.
THEOREM VersionGuardsSaves == Spec => NoLostUpdate
  <1>1. ASSUME IInv, [Next]_vars, NEW o \in Existing \cap Existing', tree'[o] # tree[o]
        PROVE  \E j \in Job : job[j].at = "save" /\ job[j].id = o /\ job[j].base = tree[o]
                               /\ job'[j].at = "idle"
    <2>1. tree' # tree /\ o \in Orga /\ tree[o] # NoRow /\ tree'[o] # NoRow /\ TypeOK
      BY <1>1 DEF Existing, IInv
    <2>2. PICK j \in Job : Step(j)
      BY <1>1, <2>1 DEF Next, vars
    <2>3. Insert(j) \/ Save(j) \/ Remove(j)
      BY <2>1, <2>2 DEF Step, Create, CheckReferences, Put, ClimbUp, ClimbCircle, ClimbZug, Climbed, CheckName,
                        View, Rename, Move, CheckSide, Enable, Delete, CheckChildren, CheckZugehoerige,
                        Begin, End, Go
    <2>4. CASE Save(j)
      <3>1. /\ Unchanged(j) /\ Written(j, job[j].id) /\ job[j].at = "save" /\ job[j].op # "create"
            /\ tree' = [tree EXCEPT ![job[j].id] = [job[j].new EXCEPT !.version = @ + 1]]
        BY <2>1, <2>4 DEF Save, End
      <3>2. job[j].id = o
        BY <1>1, <2>1, <3>1 DEF TypeOK, Rows
      <3>3. BaseInv(j)
        BY <1>1 DEF IInv, JobInv
      <3>4. job[j].base = tree[o]
        BY <2>1, <3>1, <3>2, <3>3 DEF BaseInv, Unchanged, Writing
      <3>5. job'[j].at = "idle"
        BY <3>1 DEF Written, Idle
      <3> QED
        BY <3>1, <3>2, <3>4, <3>5
    <2>5. CASE Insert(j)
      <3>1. FreshInv(j) /\ tree' = [tree EXCEPT ![job[j].id] = job[j].new] /\ Busy(j) /\ job[j].op = "create"
        BY <1>1, <2>5 DEF IInv, Insert, Busy
      <3>2. tree[job[j].id] = NoRow
        BY <3>1 DEF FreshInv
      <3> QED
        BY <1>1, <2>1, <3>1, <3>2 DEF TypeOK, Rows
    <2>6. CASE Remove(j)
      <3>1. tree' = [tree EXCEPT ![job[j].id] = NoRow]
        BY <2>1, <2>6 DEF Remove, End
      <3> QED
        BY <1>1, <2>1, <3>1 DEF TypeOK, Rows
    <2> QED
      BY <2>3, <2>4, <2>5, <2>6
  <1>2. IInv /\ [Next]_vars =>
            [\A o \in Existing \cap Existing' :
               tree'[o] # tree[o] =>
                  \E j \in Job : job[j].at = "save" /\ job[j].id = o /\ job[j].base = tree[o]
                                 /\ job'[j].at = "idle"]_vars
    BY <1>1
  <1> QED
    BY <1>2, Invariance, PTL DEF Spec, NoLostUpdate
=============================================================================
