----------------------- MODULE ImportExecutionProofs -----------------------
(***************************************************************************)
(* Proofs about ImportExecution for all imports, items, schools and Rollen *)
(* and any number of requests, failing calls, timeouts and restarts.       *)
(*                                                                         *)
(* The inductive invariant follows an import: what refers to it was made   *)
(* after its upload (RefersInv), what a removal request knows of it        *)
(* (ClosingInv), how far an execution has come with its items (ItemsInv)   *)
(* and with its persons (PersonsInv), what is true as long as executions   *)
(* do not overlap (AloneInv), and how many executions there can be         *)
(* (CountInv).                                                             *)
(***************************************************************************)
EXTENDS ImportExecution, FiniteSetTheorems, WellFoundedInduction, TLAPS

----------------------------------------------------------------------------
(* The inductive invariant                                                 *)

\* The upload of the import is over.
Past(i) == status[i] # "none" /\ ~uploading[i].active

\* An import that was executed, or removed, after its upload.
After == {"INPROGRESS", "FINISHED", "FAILED", "COMPLETED", "CANCELLED"}

\* The import exists from its upload on, with a school and a Rolle.
UploadInv ==
    \A i \in Import :
        /\ status[i] = "none" => /\ ~uploading[i].active /\ closing[i] = NoClose
                                 /\ \A n \in Item : people[i][n] = {}
        /\ status[i] # "none" => choice[i] \in Choice
        /\ uploading[i].active => status[i] \in {"STARTED", "CANCELLED"}

\* What requests, events and executions refer to was uploaded; an execution
\* that reads the items has seen the import leave VALID.
RefersInv ==
    /\ \A i \in executing : Past(i)
    /\ \A x \in 1..Len(queue) : Past(queue[x])
    /\ \A k \in Run : Active(k) =>
        /\ job[k].import \in Import /\ Past(job[k].import)
        /\ selected \in Choice
        /\ job[k].at \in {"items", "loop", "contexts", "save"} => status[job[k].import] \in After

\* A removal ends in a status of its own, in COMPLETED only without items.
ClosingInv ==
    \A i \in Import :
        /\ closing[i].at # "idle" => closing[i].to \in {"COMPLETED", "CANCELLED", "FAILED"}
        /\ closing[i].at = "items" \/ closing[i].to \in {"COMPLETED", "FAILED"} => Past(i)
        /\ closing[i].at = "save" /\ closing[i].to = "COMPLETED" => Cleared(i)

\* The item that execution k is about to finish.
Open(k) == IF job[k].at \in {"contexts", "save"} THEN {job[k].item} ELSE {}

InLoop(k) == job[k].at \in {"loop", "contexts", "save"}

\* What is PENDING is still to come, and what is to come has a row unless all
\* were removed.
ItemsInv ==
    \A k \in Run :
        /\ ~InLoop(k) => ~job[k].succeeded
        /\ InLoop(k) =>
            LET i == job[k].import IN
            /\ Open(k) \subseteq Item \ job[k].todo
            /\ job[k].at = "save" => job[k].result \in {"SUCCESS", "FAILED"}
            /\ \A n \in Item : rows[i][n] = "PENDING" => n \in job[k].todo \cup Open(k)
            /\ Cleared(i) \/ \A n \in job[k].todo \cup Open(k) : rows[i][n] # "none"

\* An execution creates at most one person for an item, without contexts at first,
\* and reports success for one with both.
PersonsInv ==
    /\ \A i \in Import, n \in Item : \A p \in people[i][n] :
        /\ job[p.run].at \notin {"unused", "find", "execute", "items"}
        /\ i = job[p.run].import => n \notin job[p.run].todo
        /\ job[p.run].at = "contexts" /\ i = job[p.run].import /\ n = job[p.run].item => p.contexts = {}
    /\ \A k \in Run : job[k].at = "contexts" =>
        \E p \in people[job[k].import][job[k].item] : p.run = k
    /\ \A k \in Run : job[k].at = "save" /\ job[k].result = "SUCCESS" =>
        \E p \in people[job[k].import][job[k].item] : p.contexts = Contexts

\* An execution that found the import VALID and has not created a person.
Entering(k) == job[k].at \in {"execute", "items"}

\* The fields of the handler belong to the only execution.
OnlyOne ==
    /\ \A j, k \in Run : Active(j) /\ Active(k) => j = k
    /\ \A k \in Run : Active(k) => selected = choice[job[k].import]

\* Each import is executed once.
OnePerson ==
    /\ \A i \in Import, n \in Item : \A p, q \in people[i][n] : p = q
    /\ \A i \in Import, n \in Item : people[i][n] # {} => Past(i) /\ status[i] \in After

\* The items to come have no person yet.
Fresh ==
    /\ \A k \in Run : Entering(k) => \A n \in Item : people[job[k].import][n] = {}
    /\ \A k \in Run : InLoop(k) => \A n \in job[k].todo : people[job[k].import][n] = {}

\* The import of an execution is not finished before, and an item that
\* succeeded keeps its row unless all are removed.
Outlook ==
    /\ \A k \in Run : Entering(k) \/ InLoop(k) => status[job[k].import] # "FINISHED"
    /\ \A k \in Run : InLoop(k) /\ job[k].succeeded =>
        \/ Cleared(job[k].import)
        \/ \E n \in Item \ (job[k].todo \cup Open(k)) : rows[job[k].import][n] = "SUCCESS"

\* As long as executions do not overlap.
AloneInv == ~overlapped => OnlyOne /\ OnePerson /\ Fresh /\ Outlook

Started == {k \in Run : job[k].at # "unused"}

\* Events that will start an execution.
Waiting == IF current = 0 THEN Len(queue) ELSE Len(queue) - 1

\* Each execution needs a request or, for a redelivery, a restart.
CountInv ==
    /\ IsFiniteSet(executing)
    /\ current # 0 => queue # <<>>
    /\ Cardinality(Started) + Cardinality(executing) + Waiting <= used.executes + used.troubles

Facts ==
    /\ UploadInv /\ RefersInv /\ ClosingInv
    /\ ItemsInv /\ PersonsInv /\ AloneInv
    /\ ContextsAtChosenSchule /\ ChosenRolle /\ SuccessHasPerson /\ FinishedIsDone /\ CompletedIsCleared

IInv == TypeOK /\ CountInv /\ Facts

----------------------------------------------------------------------------
(* Runs and records                                                        *)

LEMMA SmallestRun ==
    ASSUME NEW S \in SUBSET Nat, S # {}
    PROVE  \E m \in S : \A n \in S : m <= n
  <1>1. PICK m \in S : \A n \in S : <<n, m>> \notin OpToRel(<, Nat)
    BY NatLessThanWellFounded, WFMin, Zenon
  <1>2. \A n \in S : ~(n < m)
    BY <1>1 DEF OpToRel
  <1> QED
    BY <1>2

At == {"unused", "find", "execute", "items", "loop", "contexts", "save", "ended"}
Results == {"PENDING", "SUCCESS", "FAILED"}
JobSet == [at : At, import : Import \cup {"none"}, todo : SUBSET Item, item : Item \cup {"none"},
           result : Results, caught : BOOLEAN, succeeded : BOOLEAN]
CloseSet == [at : {"idle", "items", "delete", "save"}, read : Status, to : Status]
UploadSet == [active : BOOLEAN, rest : SUBSET Item, invalid : BOOLEAN]
UsedSet == [executes : 0..MaxExecutes, closings : 0..MaxClosings, troubles : 0..MaxTroubles]

LEMMA TypeFields ==
    TypeOK => /\ job \in [Run -> JobSet] /\ closing \in [Import -> CloseSet]
              /\ uploading \in [Import -> UploadSet] /\ used \in UsedSet
  BY DEF TypeOK, JobSet, At, Results, CloseSet, UploadSet, UsedSet

LEMMA RunFinite == IsFiniteSet(Run) /\ Run \subseteq Nat /\ Cardinality(Run) = MaxExecutes + MaxTroubles
  <1>1. MaxExecutes + MaxTroubles \in Nat
    BY BoundsAssumption
  <1>2. IsFiniteSet(Run) /\ Cardinality(Run) = MaxExecutes + MaxTroubles
    BY <1>1, FS_Interval DEF Run
  <1> QED
    BY <1>1, <1>2 DEF Run

LEMMA StartedFinite ==
    TypeOK => IsFiniteSet(Started) /\ Cardinality(Started) \in Nat
  BY RunFinite, FS_Subset, FS_CardinalityType DEF Started

LEMMA WaitingNat == TypeOK /\ CountInv => Waiting \in Nat /\ (queue # <<>> /\ current = 0 => Waiting > 0)
  <1> SUFFICES ASSUME TypeOK, CountInv PROVE Waiting \in Nat /\ (queue # <<>> /\ current = 0 => Waiting > 0)
    OBVIOUS
  <1>1. queue \in Seq(Import) /\ Len(queue) \in Nat
    BY DEF TypeOK
  <1>2. queue # <<>> => Len(queue) > 0
    BY <1>1
  <1> QED
    BY <1>1, <1>2 DEF CountInv, Waiting

\* Whenever an execution starts, there is an unused place for it.
LEMMA NextRunUnused ==
    ASSUME TypeOK, CountInv, executing # {} \/ (queue # <<>> /\ current = 0)
    PROVE  NextRun \in Run /\ job[NextRun].at = "unused"
  <1> DEFINE Free == {k \in Run : job[k].at = "unused"}
  <1>1. Free # {}
    <2> SUFFICES ASSUME Free = {} PROVE FALSE
      OBVIOUS
    <2>1. Started = Run
      BY DEF Started
    <2>2. Cardinality(executing) \in Nat /\ (executing # {} => Cardinality(executing) > 0)
      BY FS_CardinalityType, FS_EmptySet DEF CountInv
    <2>3. used.executes <= MaxExecutes /\ used.troubles <= MaxTroubles /\ used.executes \in Nat /\ used.troubles \in Nat
      BY TypeFields, BoundsAssumption DEF UsedSet
    <2> QED
      BY <2>1, <2>2, <2>3, WaitingNat, RunFinite, BoundsAssumption DEF CountInv
  <1>2. PICK m \in Free : \A j \in Free : m <= j
    BY <1>1, RunFinite, SmallestRun
  <1>3. \E k \in Run : job[k].at = "unused" /\ \A j \in Run : job[j].at = "unused" => k <= j
    BY <1>2
  <1> QED
    BY <1>3 DEF NextRun

LEMMA UnusedIsJob == Unused \in JobSet /\ Ended \in JobSet
  BY DEF Unused, Ended, JobSet, At, Results

LEMMA NoCloseIsClose == NoClose \in CloseSet
  BY DEF NoClose, CloseSet, Status

LEMMA NoUploadIsUpload == NoUpload \in UploadSet
  BY DEF NoUpload, UploadSet

LEMMA TroubleTyped == TypeOK /\ Trouble => used' \in UsedSet
  BY TypeFields, BoundsAssumption DEF Trouble, UsedSet

LEMMA ExecuteUsed ==
    TypeOK /\ used.executes < MaxExecutes => [used EXCEPT !.executes = @ + 1] \in UsedSet
  BY TypeFields, BoundsAssumption DEF UsedSet

LEMMA StartTyped ==
    ASSUME TypeOK, NEW i \in Import, choice[i] \in Choice, NextRun \in Run, Start(i)
    PROVE  job' \in [Run -> JobSet] /\ selected' \in Choice /\ overlapped' \in BOOLEAN
  <1>1. [Unused EXCEPT !.at = "find", !.import = i] \in JobSet
    BY DEF Unused, JobSet, At, Results
  <1> QED
    BY <1>1, TypeFields DEF Start, Select, TypeOK

LEMMA EndTyped ==
    ASSUME TypeOK, CountInv, NEW k \in Run, End(k)
    PROVE  job' \in [Run -> JobSet] /\ current' \in Run \cup {0} /\ queue' \in Seq(Import)
  <1>1. job' \in [Run -> JobSet]
    BY UnusedIsJob, TypeFields DEF End
  <1>2. queue # <<>> => Tail(queue) \in Seq(Import)
    BY DEF TypeOK
  <1>3. k # 0
    BY BoundsAssumption DEF Run
  <1> QED
    BY <1>1, <1>2, <1>3 DEF End, TypeOK, CountInv

\* The records of the executions after their steps.
LEMMA JobRecords ==
    ASSUME NEW q \in JobSet, NEW S \in SUBSET Item
    PROVE  /\ [q EXCEPT !.at = "execute"] \in JobSet /\ [q EXCEPT !.at = "items"] \in JobSet
           /\ [q EXCEPT !.at = "loop", !.todo = S] \in JobSet
           /\ [q EXCEPT !.at = "save", !.result = "SUCCESS"] \in JobSet
           /\ [q EXCEPT !.at = "save", !.result = "FAILED"] \in JobSet
           /\ [q EXCEPT !.result = "FAILED", !.caught = TRUE] \in JobSet
           /\ [q EXCEPT !.at = "loop", !.item = "none", !.result = "PENDING", !.caught = FALSE,
                        !.succeeded = @ \/ q.result = "SUCCESS"] \in JobSet
  <1>1. /\ [q EXCEPT !.at = "execute"] \in JobSet /\ [q EXCEPT !.at = "items"] \in JobSet
        /\ [q EXCEPT !.at = "loop", !.todo = S] \in JobSet
    BY DEF JobSet, At
  <1>2. /\ [q EXCEPT !.at = "save", !.result = "SUCCESS"] \in JobSet
        /\ [q EXCEPT !.at = "save", !.result = "FAILED"] \in JobSet
        /\ [q EXCEPT !.result = "FAILED", !.caught = TRUE] \in JobSet
    BY DEF JobSet, At, Results
  <1>3. [q EXCEPT !.at = "loop", !.item = "none", !.result = "PENDING", !.caught = FALSE,
                  !.succeeded = @ \/ q.result = "SUCCESS"] \in JobSet
    BY DEF JobSet, At, Results
  <1> QED
    BY <1>1, <1>2, <1>3

LEMMA ItemRecords ==
    ASSUME NEW q \in JobSet, NEW n \in Item
    PROVE  /\ [q EXCEPT !.at = "contexts", !.todo = @ \ {n}, !.item = n] \in JobSet
           /\ [q EXCEPT !.at = "save", !.todo = @ \ {n}, !.item = n, !.result = "FAILED"] \in JobSet
  <1>1. q.todo \ {n} \in SUBSET Item
    BY DEF JobSet
  <1> QED
    BY <1>1 DEF JobSet, At, Results

----------------------------------------------------------------------------
(* Types                                                                   *)

RowSet == {"none", "PENDING", "SUCCESS", "FAILED"}

LEMMA TypeIntro ==
    ASSUME kafka' \in BOOLEAN, status' \in [Import -> Status], choice' \in [Import -> Choice \cup {NoChoice}],
           rows' \in [Import -> [Item -> RowSet]], people' \in [Import -> [Item -> SUBSET Person]],
           uploading' \in [Import -> UploadSet], executing' \subseteq Import, closing' \in [Import -> CloseSet],
           queue' \in Seq(Import), current' \in Run \cup {0}, job' \in [Run -> JobSet],
           selected' \in Choice \cup {NoChoice}, used' \in UsedSet, overlapped' \in BOOLEAN
    PROVE  TypeOK'
  BY DEF TypeOK, RowSet, UploadSet, CloseSet, JobSet, At, Results, UsedSet

LEMMA TypeElim ==
    ASSUME TypeOK
    PROVE  /\ kafka \in BOOLEAN /\ status \in [Import -> Status] /\ choice \in [Import -> Choice \cup {NoChoice}]
           /\ rows \in [Import -> [Item -> RowSet]] /\ people \in [Import -> [Item -> SUBSET Person]]
           /\ executing \subseteq Import /\ queue \in Seq(Import) /\ current \in Run \cup {0}
           /\ selected \in Choice \cup {NoChoice} /\ overlapped \in BOOLEAN
  BY DEF TypeOK, RowSet

\* A new row of statuses, or of persons, for one import.
LEMMA RowTyped ==
    ASSUME TypeOK, NEW i \in Import, NEW r \in [Item -> RowSet]
    PROVE  [rows EXCEPT ![i] = r] \in [Import -> [Item -> RowSet]]
  BY TypeElim

LEMMA PeopleTyped ==
    ASSUME TypeOK, NEW i \in Import, NEW n \in Item, NEW P \in SUBSET Person
    PROVE  [people EXCEPT ![i][n] = P] \in [Import -> [Item -> SUBSET Person]]
  BY TypeElim

LEMMA CloseRecords ==
    ASSUME NEW q \in CloseSet
    PROVE  /\ [q EXCEPT !.at = "delete"] \in CloseSet /\ [q EXCEPT !.at = "save"] \in CloseSet
           /\ [q EXCEPT !.at = "save", !.to = "FAILED"] \in CloseSet
  BY DEF CloseSet, Status

LEMMA AskTyped ==
    ASSUME TypeOK, NEW i \in Import, NEW r \in CloseSet, Ask(i, r)
    PROVE  TypeOK'
  <1>1. closing' \in [Import -> CloseSet] /\ used' \in UsedSet
    BY TypeFields, BoundsAssumption DEF Ask, UsedSet
  <1> QED
    BY <1>1, TypeIntro, TypeElim, TypeFields DEF Ask, database, bus

\* The person that AddContexts completes.
LEMMA ContextsPerson ==
    ASSUME TypeOK, RefersInv, ItemsInv, PersonsInv, NEW k \in Run, job[k].at = "contexts"
    PROVE  LET i == job[k].import
               n == job[k].item
               p == CHOOSE q \in people[i][n] : q.run = k
           IN  /\ i \in Import /\ n \in Item /\ p \in people[i][n] /\ p.run = k
               /\ \A added \in SUBSET Contexts :
                    (people[i][n] \ {p}) \cup {[p EXCEPT !.contexts = added]} \in SUBSET Person
  <1> DEFINE i == job[k].import
             n == job[k].item
             p == CHOOSE q \in people[i][n] : q.run = k
  <1>1. i \in Import
    BY DEF RefersInv, Active
  <1>2. n \in Item
    BY DEF ItemsInv, Open, InLoop
  <1>3. p \in people[i][n] /\ p.run = k
    BY DEF PersonsInv
  <1>4. people[i][n] \in SUBSET Person
    BY <1>1, <1>2, TypeElim
  <1>5. ASSUME NEW added \in SUBSET Contexts PROVE [p EXCEPT !.contexts = added] \in Person
    BY <1>3, <1>4 DEF Person
  <1> QED
    BY <1>1, <1>2, <1>3, <1>4, <1>5

LEMMA NewPerson ==
    ASSUME NEW k \in Run, selected \in Choice
    PROVE  [run |-> k, contexts |-> {}, schule |-> selected.schule, rolle |-> selected.rolle] \in Person
  BY DEF Person, Choice

\* Types are kept by every step, the executions among them.
LEMMA TypeStep == IInv /\ [Next]_vars => TypeOK'
  <1> SUFFICES ASSUME IInv, [Next]_vars PROVE TypeOK'
    OBVIOUS
  <1> USE TypeElim, TypeFields, TypeIntro
  <1>0. TypeOK /\ CountInv /\ UploadInv /\ RefersInv /\ ClosingInv /\ ItemsInv /\ PersonsInv
    BY DEF IInv, Facts
  <1> USE <1>0
  <1>1. CASE UNCHANGED vars
    BY <1>1 DEF vars, database, requests, bus, TypeOK
  <1>2. ASSUME NEW i \in Import, NEW c \in Choice, Upload(i, c) PROVE TypeOK'
    <2>1. [active |-> TRUE, rest |-> Item, invalid |-> FALSE] \in UploadSet
      BY DEF UploadSet
    <2>2. "STARTED" \in Status
      BY DEF Status
    <2> QED
      BY <1>2, <2>1, <2>2 DEF Upload, bus
  <1>3. ASSUME NEW i \in Import, NEW batch \in SUBSET Item, NEW invalid \in BOOLEAN,
               CreateItems(i, batch, invalid)
        PROVE  TypeOK'
    <2>1. [n \in Item |-> IF n \in batch THEN "PENDING" ELSE rows[i][n]] \in [Item -> RowSet]
      BY DEF RowSet
    <2>2. rows' \in [Import -> [Item -> RowSet]]
      BY <1>3, <2>1, RowTyped DEF CreateItems
    <2>3. uploading' \in [Import -> UploadSet]
      <3> DEFINE q == uploading[i]
      <3>1. q \in UploadSet
        OBVIOUS
      <3>2. [q EXCEPT !.rest = @ \ batch, !.invalid = @ \/ invalid] \in UploadSet
        BY <3>1 DEF UploadSet
      <3> QED
        BY <1>3, <3>2 DEF CreateItems
    <2> QED
      BY <1>3, <2>2, <2>3 DEF CreateItems, bus
  <1>4. ASSUME NEW i \in Import, Validate(i) PROVE TypeOK'
    <2>1. "INVALID" \in Status /\ "VALID" \in Status
      BY DEF Status
    <2> QED
      BY <1>4, <2>1, NoUploadIsUpload DEF Validate, bus
  <1>5. ASSUME NEW i \in Import, ExecuteRead(i) PROVE TypeOK'
    <2>1. used' \in UsedSet
      BY <1>5, ExecuteUsed DEF ExecuteRead
    <2> QED
      BY <1>5, <2>1 DEF ExecuteRead, database, bus
  <1>6. ASSUME NEW i \in Import, Publish(i) PROVE TypeOK'
    <2>1. i \in executing /\ choice[i] \in Choice
      BY <1>6 DEF Publish, RefersInv, Past, UploadInv
    <2>2. CASE ~kafka /\ Start(i) /\ UNCHANGED <<queue, used>>
      BY <1>6, <2>1, <2>2, NextRunUnused, StartTyped DEF Publish, SaveUnchanged
    <2>3. CASE kafka /\ UNCHANGED <<job, selected, overlapped>>
      <3>1. (queue' = Append(queue, i) /\ used' = used) \/ (Trouble /\ queue' = queue)
        BY <1>6, <2>3, Zenon DEF Publish
      <3>2. Append(queue, i) \in Seq(Import)
        OBVIOUS
      <3> QED
        BY <1>6, <2>3, <3>1, <3>2, TroubleTyped DEF Publish, SaveUnchanged
    <2> QED
      BY <1>6, <2>2, <2>3 DEF Publish
  <1>7. ASSUME NEW i \in Import, CancelOrComplete(i) PROVE TypeOK'
    <2>1. [at |-> "delete", read |-> status[i],
           to |-> IF status[i] = "FINISHED" THEN "COMPLETED" ELSE "CANCELLED"] \in CloseSet
      BY DEF CloseSet, Status
    <2> QED
      BY <1>7, <2>1, AskTyped DEF CancelOrComplete
  <1>8. ASSUME NEW i \in Import, Download(i) PROVE TypeOK'
    <2>1. [at |-> "items", read |-> "FINISHED", to |-> "COMPLETED"] \in CloseSet
      BY DEF CloseSet, Status
    <2> QED
      BY <1>8, <2>1, AskTyped DEF Download
  <1>9. ASSUME NEW i \in Import, MakeFile(i) PROVE TypeOK'
    <2>1. \E q \in CloseSet : closing' = [closing EXCEPT ![i] = q]
      <3> DEFINE q == closing[i]
      <3>1. /\ NoClose \in CloseSet /\ [q EXCEPT !.at = "delete"] \in CloseSet
            /\ [q EXCEPT !.at = "save", !.to = "FAILED"] \in CloseSet
        BY CloseRecords, NoCloseIsClose
      <3> QED
        BY <1>9, <3>1 DEF MakeFile
    <2>2. used' \in UsedSet
      BY <1>9, TroubleTyped DEF MakeFile
    <2> QED
      BY <1>9, <2>1, <2>2 DEF MakeFile, database, bus
  <1>10. ASSUME NEW i \in Import, DeleteItems(i) PROVE TypeOK'
    <2>1. DeleteAll(i) \in [Item -> RowSet]
      BY DEF DeleteAll, RowSet
    <2>2. rows' \in [Import -> [Item -> RowSet]]
      BY <1>10, <2>1, RowTyped DEF DeleteItems
    <2> QED
      BY <1>10, <2>2, CloseRecords DEF DeleteItems, bus
  <1>11. ASSUME NEW i \in Import, SaveClosed(i) PROVE TypeOK'
    <2>1. closing[i].to \in Status
      BY DEF CloseSet
    <2> QED
      BY <1>11, <2>1, NoCloseIsClose DEF SaveClosed, bus
  <1>12. ASSUME NEW i \in Import, CloseFails(i) PROVE TypeOK'
    BY <1>12, NoCloseIsClose, TroubleTyped DEF CloseFails, database, bus
  <1>13. CASE Deliver
    <2>1. Head(queue) \in Import /\ Past(Head(queue))
      BY <1>13 DEF Deliver, RefersInv
    <2>2. choice[Head(queue)] \in Choice
      BY <2>1 DEF UploadInv, Past
    <2>3. NextRun \in Run
      BY <1>13, NextRunUnused DEF Deliver
    <2>4. Start(Head(queue))
      BY <1>13 DEF Deliver
    <2> QED
      BY <1>13, <2>1, <2>2, <2>3, <2>4, StartTyped DEF Deliver, database, requests
  <1>14. ASSUME NEW k \in Run, FindVorgang(k) PROVE TypeOK'
    <2>1. job' \in [Run -> JobSet] /\ current' \in Run \cup {0} /\ queue' \in Seq(Import) /\ kafka' \in BOOLEAN
      <3>1. CASE End(k)
        BY <3>1, EndTyped DEF End
      <3>2. CASE job' = [job EXCEPT ![k].at = "execute"] /\ UNCHANGED bus
        <4>1. [job[k] EXCEPT !.at = "execute"] \in JobSet
          BY JobRecords
        <4> QED
          BY <3>2, <4>1 DEF bus
      <3> QED
        BY <1>14, <3>1, <3>2 DEF FindVorgang
    <2> QED
      BY <1>14, <2>1 DEF FindVorgang, database, requests
  <1>15. ASSUME NEW k \in Run, SaveInProgress(k) PROVE TypeOK'
    <2>1. [job[k] EXCEPT !.at = "items"] \in JobSet
      BY JobRecords
    <2>2. "INPROGRESS" \in Status
      BY DEF Status
    <2> QED
      BY <1>15, <2>1, <2>2 DEF SaveInProgress, requests, bus
  <1>16. ASSUME NEW k \in Run, ReadItems(k) PROVE TypeOK'
    <2> DEFINE found == {n \in Item : rows[job[k].import][n] # "none"}
    <2>1. job' \in [Run -> JobSet] /\ current' \in Run \cup {0} /\ queue' \in Seq(Import) /\ kafka' \in BOOLEAN
      <3>1. CASE End(k)
        BY <3>1, EndTyped DEF End
      <3>2. CASE job' = [job EXCEPT ![k].at = "loop", ![k].todo = found] /\ UNCHANGED bus
        <4>1. [job[k] EXCEPT !.at = "loop", !.todo = found] \in JobSet
          BY JobRecords
        <4> QED
          BY <3>2, <4>1 DEF bus
      <3> QED
        BY <1>16, <3>1, <3>2 DEF ReadItems
    <2>2. used' \in UsedSet
      BY <1>16, TroubleTyped DEF ReadItems
    <2> QED
      BY <1>16, <2>1, <2>2 DEF ReadItems, database, requests
  <1>17. ASSUME NEW k \in Run, NEW n \in Item, CreatePerson(k, n) PROVE TypeOK'
    <2> DEFINE i == job[k].import
               p == [run |-> k, contexts |-> {}, schule |-> selected.schule, rolle |-> selected.rolle]
    <2>1. i \in Import /\ selected \in Choice
      BY <1>17 DEF CreatePerson, RefersInv, Active
    <2>2. people[i][n] \cup {p} \in SUBSET Person
      BY <2>1, NewPerson
    <2>3. people' \in [Import -> [Item -> SUBSET Person]]
      <3>1. [people EXCEPT ![i][n] = people[i][n] \cup {p}] \in [Import -> [Item -> SUBSET Person]]
        BY <2>1, <2>2, PeopleTyped
      <3> QED
        BY <1>17, <3>1 DEF CreatePerson
    <2>4. job' \in [Run -> JobSet]
      <3>1. /\ [job[k] EXCEPT !.at = "contexts", !.todo = @ \ {n}, !.item = n] \in JobSet
            /\ [job[k] EXCEPT !.at = "save", !.todo = @ \ {n}, !.item = n, !.result = "FAILED"] \in JobSet
        BY ItemRecords
      <3> QED
        BY <1>17, <3>1 DEF CreatePerson
    <2>5. used' \in UsedSet
      BY <1>17, TroubleTyped DEF CreatePerson
    <2> QED
      BY <1>17, <2>3, <2>4, <2>5 DEF CreatePerson, requests, bus
  <1>18. ASSUME NEW k \in Run, AddContexts(k) PROVE TypeOK'
    <2> DEFINE i == job[k].import
               n == job[k].item
               p == CHOOSE q \in people[i][n] : q.run = k
               New(added) == (people[i][n] \ {p}) \cup {[p EXCEPT !.contexts = added]}
    <2>1. i \in Import /\ n \in Item /\ \A added \in SUBSET Contexts : New(added) \in SUBSET Person
      BY <1>18, ContextsPerson DEF AddContexts
    <2>2. people' = people \/ \E added \in SUBSET Contexts : people' = [people EXCEPT ![i][n] = New(added)]
      BY <1>18, Zenon DEF AddContexts
    <2>3. people' \in [Import -> [Item -> SUBSET Person]]
      <3>1. ASSUME NEW added \in SUBSET Contexts
            PROVE  [people EXCEPT ![i][n] = New(added)] \in [Import -> [Item -> SUBSET Person]]
        BY <2>1, PeopleTyped, Zenon
      <3>2. people \in [Import -> [Item -> SUBSET Person]]
        OBVIOUS
      <3>3. CASE people' = people
        BY <3>2, <3>3
      <3>4. CASE people' # people
        <4>1. PICK added \in SUBSET Contexts : people' = [people EXCEPT ![i][n] = New(added)]
          BY <2>2, <3>4, Zenon
        <4> QED
          BY <3>1, <4>1, Zenon
      <3> QED
        BY <3>3, <3>4
    <2>4. job' \in [Run -> JobSet]
      <3>1. \A r \in {"SUCCESS", "FAILED"} : [job[k] EXCEPT !.at = "save", !.result = r] \in JobSet
        BY JobRecords
      <3>2. \E r \in {"SUCCESS", "FAILED"} : job' = [job EXCEPT ![k].at = "save", ![k].result = r]
        BY <1>18 DEF AddContexts
      <3> QED
        BY <3>1, <3>2
    <2>5. used' \in UsedSet
      BY <1>18, TroubleTyped DEF AddContexts
    <2> QED
      BY <1>18, <2>3, <2>4, <2>5 DEF AddContexts, requests, bus
  <1>19. ASSUME NEW k \in Run, SaveItem(k) PROVE TypeOK'
    <2> DEFINE i == job[k].import
               n == job[k].item
               r == job[k].result
    <2>1. i \in Import /\ n \in Item /\ r \in {"SUCCESS", "FAILED"}
      BY <1>19 DEF SaveItem, RefersInv, Active, ItemsInv, Open, InLoop
    <2>2. rows' \in [Import -> [Item -> RowSet]]
      <3>1. [rows EXCEPT ![i][n] = IF @ = "none" THEN "none" ELSE r] \in [Import -> [Item -> RowSet]]
        BY <2>1 DEF RowSet
      <3> QED
        BY <1>19, <3>1 DEF SaveItem
    <2>3. job' \in [Run -> JobSet] /\ current' \in Run \cup {0} /\ queue' \in Seq(Import) /\ kafka' \in BOOLEAN
      <3>1. CASE End(k)
        BY <3>1, EndTyped DEF End
      <3>2. CASE ~End(k)
        <4>1. /\ [job[k] EXCEPT !.at = "loop", !.item = "none", !.result = "PENDING", !.caught = FALSE,
                                 !.succeeded = @ \/ r = "SUCCESS"] \in JobSet
              /\ [job[k] EXCEPT !.result = "FAILED", !.caught = TRUE] \in JobSet
          BY JobRecords
        <4>2. job' = [job EXCEPT ![k] = job'[k]] /\ job'[k] \in JobSet /\ UNCHANGED bus
          BY <1>19, <3>2, <4>1 DEF SaveItem
        <4> QED
          BY <4>2 DEF bus
      <3> QED
        BY <3>1, <3>2
    <2>4. used' \in UsedSet
      BY <1>19, TroubleTyped DEF SaveItem
    <2> QED
      BY <1>19, <2>2, <2>3, <2>4 DEF SaveItem, requests
  <1>20. ASSUME NEW k \in Run, Finish(k) PROVE TypeOK'
    <2>1. "FINISHED" \in Status /\ "FAILED" \in Status
      BY DEF Status
    <2>2. used' \in UsedSet
      BY <1>20, TroubleTyped DEF Finish
    <2>3. Outcome(k) \in Status
      BY <2>1 DEF Outcome
    <2>4. status' \in [Import -> Status]
      BY <1>20, <2>3 DEF Finish
    <2> QED
      BY <1>20, <2>2, <2>4, EndTyped DEF Finish, End, requests
  <1>21. ASSUME NEW k \in Run, TimeOut(k) PROVE TypeOK'
    <2>1. queue # <<>>
      BY <1>21, BoundsAssumption DEF TimeOut, CountInv, Run
    <2>2. Tail(queue) \in Seq(Import)
      BY <2>1
    <2> QED
      BY <1>21, <2>2, TroubleTyped DEF TimeOut, database, requests
  <1>22. CASE Crash
    <2>1. job' \in [Run -> JobSet]
      BY <1>22, UnusedIsJob DEF Crash
    <2> QED
      BY <1>22, <2>1, NoUploadIsUpload, NoCloseIsClose, TroubleTyped DEF Crash, database
  <1> QED
    BY <1>1, <1>2, <1>3, <1>4, <1>5, <1>6, <1>7, <1>8, <1>9, <1>10, <1>11, <1>12, <1>13, <1>14,
       <1>15, <1>16, <1>17, <1>18, <1>19, <1>20, <1>21, <1>22, Zenon
    DEF Next, UploadStep, Execution, CloseStep

----------------------------------------------------------------------------
(* How many executions there can be                                        *)

\* What a new or an ended execution does to the number of executions.
LEMMA StartedGrows ==
    ASSUME TypeOK, NEW k \in Run, NEW q, q.at # "unused", job[k].at = "unused",
           job' = [job EXCEPT ![k] = q]
    PROVE  Cardinality(Started') = Cardinality(Started) + 1
  <1>1. Started' = Started \cup {k} /\ k \notin Started
    BY TypeFields DEF Started
  <1> QED
    BY <1>1, StartedFinite, FS_AddElement

LEMMA StartedSame ==
    ASSUME \A k \in Run : job'[k].at # "unused" <=> job[k].at # "unused"
    PROVE  Started' = Started
  BY DEF Started

LEMMA EndKeepsCount ==
    ASSUME TypeOK, CountInv, NEW k \in Run, Active(k), End(k)
    PROVE  /\ Started' = Started /\ Waiting' = Waiting
           /\ current' # 0 => queue' # <<>>
  <1>1. Started' = Started
    BY TypeFields, StartedSame DEF End, Ended, Unused, Active
  <1>2. k # 0
    BY BoundsAssumption DEF Run
  <1>3. queue # <<>> => Len(Tail(queue)) = Len(queue) - 1
    BY TypeElim
  <1>4. Waiting' = Waiting /\ (current' # 0 => queue' # <<>>)
    BY <1>2, <1>3, TypeElim DEF End, CountInv, Waiting
  <1> QED
    BY <1>1, <1>4

LEMMA UsedGrows ==
    ASSUME TypeOK, Trouble
    PROVE  used'.executes + used'.troubles = used.executes + used.troubles + 1
  BY TypeFields DEF Trouble, UsedSet

\* Requests, events and restarts are enough for the executions.
LEMMA CountStep == IInv /\ [Next]_vars => CountInv'
  <1> SUFFICES ASSUME IInv, [Next]_vars PROVE CountInv'
    OBVIOUS
  <1>0. TypeOK /\ CountInv
    BY DEF IInv
  <1> DEFINE Counted == Cardinality(Started) + Cardinality(executing) + Waiting
             Limit == used.executes + used.troubles
  <1>a. /\ Cardinality(Started) \in Nat /\ Cardinality(executing) \in Nat /\ Waiting \in Nat
        /\ used.executes \in Nat /\ used.troubles \in Nat
    BY <1>0, StartedFinite, WaitingNat, FS_CardinalityType, TypeFields, BoundsAssumption DEF CountInv, UsedSet
  <1>b. Counted <= Limit
    BY <1>0 DEF CountInv
  <1>c. queue \in Seq(Import) /\ job \in [Run -> JobSet]
    BY <1>0, TypeElim, TypeFields
  <1>1. ASSUME UNCHANGED <<executing, queue, current>>, Started' = Started,
               used' = used \/ Trouble
        PROVE  CountInv'
    <2>1. Limit' >= Limit
      BY <1>0, <1>1, <1>a, UsedGrows
    <2>2. Waiting' = Waiting
      BY <1>1 DEF Waiting
    <2>3. Counted' = Counted
      BY <1>1, <2>2
    <2>4. Counted \in Nat /\ Limit \in Nat /\ Limit' \in Nat
      BY <1>0, <1>1, <1>a, UsedGrows
    <2>5. Counted' <= Limit'
      BY <1>b, <2>1, <2>3, <2>4
    <2> QED
      BY <1>0, <1>1, <2>5 DEF CountInv
  <1>2. ASSUME NEW k \in Run, Active(k), End(k), UNCHANGED executing, used' = used \/ Trouble
        PROVE  CountInv'
    <2>1. Limit' >= Limit
      BY <1>0, <1>2, <1>a, UsedGrows
    <2>2. Started' = Started /\ Waiting' = Waiting /\ (current' # 0 => queue' # <<>>)
      BY <1>0, <1>2, EndKeepsCount
    <2>3. Counted' = Counted
      BY <1>2, <2>2
    <2>4. Counted \in Nat /\ Limit \in Nat /\ Limit' \in Nat
      BY <1>0, <1>2, <1>a, UsedGrows
    <2>5. Counted' <= Limit'
      BY <1>b, <2>1, <2>3, <2>4
    <2> QED
      BY <1>0, <1>2, <2>2, <2>5 DEF CountInv
  <1>3. CASE UNCHANGED vars
    BY <1>1, <1>3 DEF vars, requests, bus, Started
  <1>4. CASE \E i \in Import : \/ \E c \in Choice : Upload(i, c)
                               \/ \E batch \in SUBSET Item, invalid \in BOOLEAN : CreateItems(i, batch, invalid)
                               \/ Validate(i) \/ DeleteItems(i) \/ SaveClosed(i)
    BY <1>1, <1>4 DEF Upload, CreateItems, Validate, DeleteItems, SaveClosed, Started, bus
  <1>5. CASE \E i \in Import : MakeFile(i) \/ CloseFails(i)
    BY <1>1, <1>5 DEF MakeFile, CloseFails, Started, bus
  <1>6. CASE \E i \in Import : CancelOrComplete(i) \/ Download(i)
    <2>1. /\ UNCHANGED <<executing, queue, current>> /\ Started' = Started
          /\ used' = [used EXCEPT !.closings = @ + 1]
      BY <1>6 DEF CancelOrComplete, Download, Ask, Started, bus
    <2>2. Limit' = Limit
      BY <1>0, <2>1, TypeFields DEF UsedSet
    <2> QED
      BY <1>0, <1>a, <2>1, <2>2 DEF CountInv, Waiting
  <1>7. ASSUME NEW i \in Import, ExecuteRead(i) PROVE CountInv'
    <2>1. /\ UNCHANGED <<queue, current>> /\ Started' = Started
          /\ used' = [used EXCEPT !.executes = @ + 1]
      BY <1>7 DEF ExecuteRead, Started, bus
    <2>2. Limit' = Limit + 1
      BY <1>0, <1>a, <2>1, TypeFields DEF UsedSet
    <2>3. IsFiniteSet(executing') /\ Cardinality(executing') = Cardinality(executing) + 1
      BY <1>0, <1>7, FS_AddElement DEF ExecuteRead, CountInv
    <2> QED
      BY <1>0, <1>a, <2>1, <2>2, <2>3 DEF CountInv, Waiting
  <1>8. ASSUME NEW i \in Import, Publish(i) PROVE CountInv'
    <2>1. i \in executing /\ executing' = executing \ {i} /\ current' = current
      BY <1>8 DEF Publish
    <2>2. IsFiniteSet(executing') /\ Cardinality(executing') = Cardinality(executing) - 1
      BY <1>0, <2>1, FS_RemoveElement DEF CountInv
    <2>3. NextRun \in Run /\ job[NextRun].at = "unused"
      BY <1>0, <2>1, NextRunUnused
    <2>4. CASE Start(i) /\ UNCHANGED <<queue, used>>
      <3>1. Cardinality(Started') = Cardinality(Started) + 1
        BY <1>0, <2>3, <2>4, StartedGrows DEF Start, Unused
      <3> QED
        BY <1>0, <1>a, <2>1, <2>2, <2>4, <3>1 DEF CountInv, Waiting
    <2>5. CASE queue' = Append(queue, i) /\ UNCHANGED <<used, job>>
      <3>1. Len(queue') = Len(queue) + 1 /\ queue' # <<>> /\ Started' = Started
        BY <1>c, <2>5 DEF Started
      <3>2. Waiting' = Waiting + 1
        BY <1>c, <2>1, <3>1 DEF Waiting
      <3> QED
        BY <1>0, <1>a, <2>2, <2>5, <3>1, <3>2 DEF CountInv
    <2>6. CASE Trouble /\ UNCHANGED <<queue, job>>
      <3>1. Started' = Started /\ Waiting' = Waiting
        BY <2>1, <2>6 DEF Started, Waiting
      <3> QED
        BY <1>0, <1>a, <2>1, <2>2, <2>6, <3>1, UsedGrows DEF CountInv
    <2> QED
      BY <1>8, <2>4, <2>5, <2>6, Zenon DEF Publish
  <1>9. CASE Deliver
    <2>1. queue # <<>> /\ current = 0 /\ current' = NextRun /\ UNCHANGED <<executing, queue, used>>
      BY <1>9 DEF Deliver, requests
    <2>2. NextRun \in Run /\ job[NextRun].at = "unused" /\ NextRun # 0
      BY <1>0, <2>1, NextRunUnused, BoundsAssumption DEF Run
    <2>3. Cardinality(Started') = Cardinality(Started) + 1
      BY <1>0, <1>9, <2>2, StartedGrows DEF Deliver, Start, Unused
    <2>4. Waiting' = Waiting - 1
      BY <1>c, <2>1, <2>2 DEF Waiting
    <2> QED
      BY <1>0, <1>a, <2>1, <2>3, <2>4 DEF CountInv
  <1>10. ASSUME NEW k \in Run, FindVorgang(k) \/ ReadItems(k) \/ SaveItem(k) \/ Finish(k) PROVE CountInv'
    <2>1. /\ Active(k) /\ UNCHANGED executing /\ (used' = used \/ Trouble)
          /\ End(k) \/ (UNCHANGED bus /\ \E q : job' = [job EXCEPT ![k] = q] /\ q.at # "unused")
      <3>1. CASE FindVorgang(k)
        BY <1>c, <3>1 DEF FindVorgang, Active, requests, JobSet
      <3>2. CASE ReadItems(k)
        BY <1>c, <3>2 DEF ReadItems, Active, requests, JobSet
      <3>3. CASE SaveItem(k)
        BY <1>c, <3>3 DEF SaveItem, Active, requests, JobSet
      <3>4. CASE Finish(k)
        BY <3>4 DEF Finish, Active, requests
      <3> QED
        BY <1>10, <3>1, <3>2, <3>3, <3>4
    <2>2. CASE ~End(k)
      <3>1. Started' = Started
        BY <1>c, <2>1, <2>2, StartedSame DEF Active
      <3> QED
        BY <1>1, <2>1, <2>2, <3>1 DEF bus
    <2> QED
      BY <1>2, <2>1, <2>2
  <1>11. ASSUME NEW k \in Run, SaveInProgress(k) \/ AddContexts(k) \/ \E n \in Item : CreatePerson(k, n)
         PROVE  CountInv'
    <2>1. UNCHANGED <<executing, queue, current>> /\ (used' = used \/ Trouble)
      BY <1>11 DEF SaveInProgress, AddContexts, CreatePerson, requests, bus
    <2>2. Active(k) /\ job'[k].at # "unused" /\ \A j \in Run \ {k} : job'[j] = job[j]
      <3>1. CASE SaveInProgress(k)
        BY <3>1, <1>c DEF SaveInProgress, Active, JobSet
      <3>2. CASE AddContexts(k)
        <4>1. PICK r : job' = [job EXCEPT ![k].at = "save", ![k].result = r]
          BY <3>2, Zenon DEF AddContexts
        <4>2. job[k].at = "contexts"
          BY <3>2 DEF AddContexts
        <4> QED
          BY <4>1, <4>2, <1>c DEF Active, JobSet
      <3>3. CASE \E n \in Item : CreatePerson(k, n)
        BY <3>3, <1>c DEF CreatePerson, Active, JobSet
      <3> QED
        BY <1>11, <3>1, <3>2, <3>3
    <2>3. Started' = Started
      BY <2>2, StartedSame DEF Active
    <2> QED
      BY <1>1, <2>1, <2>3
  <1>12. ASSUME NEW k \in Run, TimeOut(k) PROVE CountInv'
    <2>1. current # 0 /\ queue # <<>> /\ UNCHANGED executing /\ Started' = Started
      BY <1>0, <1>12, BoundsAssumption DEF TimeOut, Run, CountInv, requests, Started
    <2>2. Waiting' = Waiting /\ current' = 0
      BY <1>c, <1>12, <2>1 DEF TimeOut, Waiting
    <2> QED
      BY <1>0, <1>12, <1>a, <2>1, <2>2, UsedGrows DEF TimeOut, CountInv
  <1>13. CASE Crash
    <2>1. Started' = Started
      BY <1>c, <1>13, StartedSame DEF Crash, Active, Ended, Unused
    <2>2. IsFiniteSet(executing') /\ Cardinality(executing') = 0
      BY <1>13, FS_EmptySet DEF Crash
    <2>3. current' = 0 /\ Waiting' <= Waiting + 1
      BY <1>c, <1>13 DEF Crash, Waiting
    <2> QED
      BY <1>0, <1>13, <1>a, <2>1, <2>2, <2>3, UsedGrows DEF Crash, CountInv, Waiting
  <1> QED
    BY <1>3, <1>4, <1>5, <1>6, <1>7, <1>8, <1>9, <1>10, <1>11, <1>12, <1>13, Zenon
    DEF Next, UploadStep, Execution, CloseStep

----------------------------------------------------------------------------
(* The facts are kept by every step                                        *)

\* What each fact is about.
LEMMA Frame ==
    ASSUME Facts
    PROVE  /\ UNCHANGED <<status, uploading, closing, people, choice>> => UploadInv'
           /\ UNCHANGED <<executing, status, uploading, queue, job, selected>> => RefersInv'
           /\ UNCHANGED <<closing, status, uploading, rows>> => ClosingInv'
           /\ UNCHANGED <<job, rows>> => ItemsInv'
           /\ UNCHANGED <<job, people>> => PersonsInv'
           /\ ~overlapped' /\ UNCHANGED <<overlapped, job, selected, choice>> => OnlyOne'
           /\ ~overlapped' /\ UNCHANGED <<overlapped, people, status, uploading>> => OnePerson'
           /\ ~overlapped' /\ UNCHANGED <<overlapped, job, people>> => Fresh'
           /\ ~overlapped' /\ UNCHANGED <<overlapped, job, status, rows>> => Outlook'
           /\ UNCHANGED <<people, choice>> => ContextsAtChosenSchule'
           /\ UNCHANGED <<overlapped, people, choice>> => ChosenRolle'
           /\ UNCHANGED <<rows, people>> => SuccessHasPerson'
           /\ UNCHANGED <<status, rows, overlapped>> => FinishedIsDone'
           /\ UNCHANGED <<status, rows>> => CompletedIsCleared'
  <1>1. UNCHANGED <<status, uploading, closing, people, choice>> => UploadInv'
    BY DEF Facts, UploadInv
  <1>2. UNCHANGED <<executing, status, uploading, queue, job, selected>> => RefersInv'
    BY DEF Facts, RefersInv, Past, Active
  <1>3. UNCHANGED <<closing, status, uploading, rows>> => ClosingInv'
    BY DEF Facts, ClosingInv, Past, Cleared
  <1>4. UNCHANGED <<job, rows>> => ItemsInv'
    BY DEF Facts, ItemsInv, InLoop, Open, Cleared
  <1>5. UNCHANGED <<job, people>> => PersonsInv'
    BY DEF Facts, PersonsInv
  <1>0. ~overlapped => OnlyOne /\ OnePerson /\ Fresh /\ Outlook
    BY DEF Facts, AloneInv
  <1>6. ~overlapped' /\ UNCHANGED <<overlapped, job, selected, choice>> => OnlyOne'
    BY <1>0 DEF OnlyOne, Active
  <1>12. ~overlapped' /\ UNCHANGED <<overlapped, people, status, uploading>> => OnePerson'
    BY <1>0 DEF OnePerson, Past
  <1>13. ~overlapped' /\ UNCHANGED <<overlapped, job, people>> => Fresh'
    BY <1>0 DEF Fresh, Entering, InLoop
  <1>14. ~overlapped' /\ UNCHANGED <<overlapped, job, status, rows>> => Outlook'
    BY <1>0 DEF Outlook, Entering, InLoop, Open, Cleared
  <1>7. UNCHANGED <<people, choice>> => ContextsAtChosenSchule'
    BY DEF Facts, ContextsAtChosenSchule
  <1>8. UNCHANGED <<overlapped, people, choice>> => ChosenRolle'
    BY DEF Facts, ChosenRolle
  <1>9. UNCHANGED <<rows, people>> => SuccessHasPerson'
    BY DEF Facts, SuccessHasPerson
  <1>10. UNCHANGED <<status, rows, overlapped>> => FinishedIsDone'
    BY DEF Facts, FinishedIsDone, Cleared
  <1>11. UNCHANGED <<status, rows>> => CompletedIsCleared'
    BY DEF Facts, CompletedIsCleared, Cleared
  <1> QED
    BY <1>1, <1>2, <1>3, <1>4, <1>5, <1>6, <1>7, <1>8, <1>9, <1>10, <1>11, <1>12, <1>13, <1>14

LEMMA UploadKeeps ==
    ASSUME IInv, NEW i \in Import, NEW c \in Choice, Upload(i, c)
    PROVE  Facts'
  <1>1. /\ TypeOK /\ Facts /\ UploadInv /\ RefersInv /\ ClosingInv /\ AloneInv
        /\ status[i] = "none" /\ ~Past(i) /\ closing[i] = NoClose /\ \A n \in Item : people[i][n] = {}
    BY DEF IInv, Facts, Upload, UploadInv, Past
  <1>2. /\ status' = [status EXCEPT ![i] = "STARTED"] /\ choice' = [choice EXCEPT ![i] = c]
        /\ uploading'[i].active /\ \A j \in Import \ {i} : uploading'[j] = uploading[j]
        /\ UNCHANGED <<rows, people, executing, closing, queue, job, selected, overlapped>>
    BY <1>1, TypeFields DEF Upload, bus
  <1>3. \A j \in Import \ {i} : Past(j)' <=> Past(j)
    BY <1>1, <1>2, TypeElim DEF Past
  <1> USE <1>1, <1>2, <1>3
  <1>4. UploadInv'
    BY TypeElim DEF UploadInv
  <1>5. RefersInv'
    <2>1. \A j \in executing : j \in Import \ {i}
      BY TypeElim DEF RefersInv
    <2>2. \A x \in 1..Len(queue) : queue[x] \in Import \ {i}
      BY TypeElim DEF RefersInv
    <2>3. \A k \in Run : Active(k) => job[k].import \in Import \ {i}
      BY DEF RefersInv
    <2> QED
      BY <2>1, <2>2, <2>3, TypeElim DEF RefersInv, Active
  <1>6. ClosingInv'
    BY DEF ClosingInv, Cleared, NoClose
  <1>7. AloneInv'
    <2>1. \A k \in Run : Active(k) => job[k].import \in Import \ {i}
      BY DEF RefersInv
    <2>2. ASSUME ~overlapped PROVE OnlyOne' /\ OnePerson' /\ Outlook'
      <3>1. OnlyOne'
        BY <2>1, <2>2, TypeElim DEF AloneInv, OnlyOne, Active
      <3>2. OnePerson'
        BY <2>2, TypeElim DEF AloneInv, OnePerson
      <3>3. Outlook'
        BY <2>1, <2>2, TypeElim DEF AloneInv, Outlook, Active, InLoop, Entering, Open, Cleared
      <3> QED
        BY <3>1, <3>2, <3>3
    <2> QED
      BY <2>2, Frame DEF AloneInv
  <1>8. ContextsAtChosenSchule' /\ ChosenRolle'
    BY TypeElim DEF Facts, ContextsAtChosenSchule, ChosenRolle
  <1>9. FinishedIsDone' /\ CompletedIsCleared'
    BY TypeElim DEF Facts, FinishedIsDone, CompletedIsCleared, Cleared
  <1> QED
    BY <1>4, <1>5, <1>6, <1>7, <1>8, <1>9, Frame DEF Facts

LEMMA CreateItemsKeeps ==
    ASSUME IInv, NEW i \in Import, NEW batch \in SUBSET Item, NEW invalid \in BOOLEAN,
           CreateItems(i, batch, invalid)
    PROVE  Facts'
  <1>1. /\ TypeOK /\ Facts /\ UploadInv /\ RefersInv /\ ClosingInv
        /\ uploading[i].active /\ ~Past(i) /\ status[i] \in {"STARTED", "CANCELLED"}
    BY DEF IInv, Facts, CreateItems, UploadInv, Past
  <1>2. /\ \A n \in Item : rows'[i][n] \in {"PENDING", rows[i][n]}
        /\ \A j \in Import \ {i} : rows'[j] = rows[j]
        /\ \A j \in Import : uploading'[j].active = uploading[j].active
        /\ UNCHANGED <<status, choice, people, executing, closing, queue, job, selected, overlapped>>
    BY <1>1, TypeFields, TypeElim DEF CreateItems, bus, UploadSet
  <1>3. \A j : UNCHANGED rows[j] => (Cleared(j)' <=> Cleared(j))
    BY DEF Cleared
  <1>4. /\ \A j \in Import : Past(j)' <=> Past(j)
        /\ \A k \in Run : Active(k) => job[k].import \in Import \ {i}
    BY <1>1, <1>2 DEF Past, RefersInv
  <1> USE <1>1, <1>2, <1>3, <1>4
  <1>5. UploadInv'
    BY DEF UploadInv
  <1>6. RefersInv'
    BY TypeElim DEF RefersInv, Active
  <1>7. ClosingInv'
    BY DEF ClosingInv
  <1>8. ItemsInv'
    BY DEF Facts, ItemsInv, InLoop, Open, Active
  <1>9. AloneInv'
    <2>1. ASSUME ~overlapped PROVE OnePerson' /\ Outlook'
      <3>1. OnePerson'
        BY <2>1 DEF Facts, AloneInv, OnePerson
      <3>2. Outlook'
        BY <2>1 DEF Facts, AloneInv, Outlook, Active, InLoop, Entering, Open
      <3> QED
        BY <3>1, <3>2
    <2> QED
      BY <2>1, Frame DEF AloneInv
  <1>10. SuccessHasPerson' /\ FinishedIsDone' /\ CompletedIsCleared'
    <2>1. SuccessHasPerson'
      BY DEF Facts, SuccessHasPerson
    <2>2. \A j \in Import : status'[j] \in {"FINISHED", "COMPLETED"} => j # i
      OBVIOUS
    <2>3. FinishedIsDone'
      BY <2>2 DEF Facts, FinishedIsDone
    <2> QED
      BY <2>1, <2>2, <2>3 DEF Facts, CompletedIsCleared
  <1> QED
    BY <1>5, <1>6, <1>7, <1>8, <1>9, <1>10, Frame DEF Facts

LEMMA ValidateKeeps ==
    ASSUME IInv, NEW i \in Import, Validate(i)
    PROVE  Facts'
  <1>1. /\ TypeOK /\ Facts /\ UploadInv /\ RefersInv /\ ClosingInv
        /\ uploading[i].active /\ ~Past(i) /\ status[i] \in {"STARTED", "CANCELLED"}
    BY DEF IInv, Facts, Validate, UploadInv, Past
  <1>2. /\ status'[i] \in {"VALID", "INVALID"} /\ ~uploading'[i].active
        /\ \A j \in Import \ {i} : status'[j] = status[j] /\ uploading'[j] = uploading[j]
        /\ UNCHANGED <<rows, choice, people, executing, closing, queue, job, selected, overlapped>>
    BY <1>1, TypeFields, TypeElim DEF Validate, bus, NoUpload
  <1>3. /\ \A j \in Import : Past(j) => Past(j)'
        /\ \A k \in Run : Active(k) => job[k].import \in Import \ {i}
    BY <1>1, <1>2 DEF Past, RefersInv
  <1> USE <1>1, <1>2, <1>3
  <1>4. UploadInv'
    BY DEF UploadInv
  <1>5. RefersInv'
    BY TypeElim DEF RefersInv, Active
  <1>6. ClosingInv'
    BY DEF ClosingInv, Cleared
  <1>7. AloneInv'
    <2>1. ASSUME ~overlapped PROVE OnePerson' /\ Outlook'
      <3>1. OnePerson'
        BY <2>1 DEF Facts, AloneInv, OnePerson
      <3>2. Outlook'
        BY <2>1 DEF Facts, AloneInv, Outlook, Active, InLoop, Entering, Open, Cleared
      <3> QED
        BY <3>1, <3>2
    <2> QED
      BY <2>1, Frame DEF AloneInv
  <1>8. FinishedIsDone' /\ CompletedIsCleared'
    BY DEF Facts, FinishedIsDone, CompletedIsCleared, Cleared
  <1> QED
    BY <1>4, <1>5, <1>6, <1>7, <1>8, Frame DEF Facts

LEMMA ExecuteReadKeeps ==
    ASSUME IInv, NEW i \in Import, ExecuteRead(i)
    PROVE  Facts'
  <1>1. Facts /\ UploadInv /\ status[i] = "VALID" /\ Past(i)
    BY DEF IInv, Facts, ExecuteRead, UploadInv, Past
  <1>2. /\ executing' = executing \cup {i}
        /\ UNCHANGED <<status, rows, uploading, choice, people, closing, queue, job, selected, overlapped>>
    BY DEF ExecuteRead, database, bus
  <1>3. RefersInv'
    BY <1>1, <1>2 DEF Facts, RefersInv, Past, Active
  <1> QED
    BY <1>1, <1>2, <1>3, Frame DEF Facts, AloneInv

\* A new request to remove the items.
LEMMA AskKeeps ==
    ASSUME IInv, NEW i \in Import, NEW r \in CloseSet, Ask(i, r), status[i] # "none",
           r.to \in {"COMPLETED", "CANCELLED"}, r.at # "save",
           r.at = "items" \/ r.to = "COMPLETED" => status[i] = "FINISHED"
    PROVE  Facts'
  <1>1. Facts /\ UploadInv /\ ClosingInv /\ (status[i] = "FINISHED" => Past(i)) /\ closing \in [Import -> CloseSet]
    BY TypeFields DEF IInv, Facts, UploadInv, Past
  <1>2. /\ closing' = [closing EXCEPT ![i] = r]
        /\ UNCHANGED <<status, rows, uploading, choice, people, executing, queue, job, selected, overlapped>>
    BY DEF Ask, database, bus
  <1>3. UploadInv'
    BY <1>1, <1>2 DEF UploadInv
  <1>4. ClosingInv'
    BY <1>1, <1>2 DEF ClosingInv, Past, Cleared
  <1> QED
    BY <1>1, <1>2, <1>3, <1>4, Frame DEF Facts, AloneInv

\* The requests that were asked for.
LEMMA ClosingStepKeeps ==
    ASSUME IInv, NEW i \in Import, MakeFile(i) \/ CloseFails(i)
    PROVE  Facts'
  <1>1. Facts /\ UploadInv /\ ClosingInv /\ closing \in [Import -> CloseSet] /\ closing[i] # NoClose
    BY TypeFields DEF IInv, Facts, MakeFile, CloseFails, NoClose
  <1>2. /\ \A j \in Import \ {i} : closing'[j] = closing[j]
        /\ UNCHANGED <<status, rows, uploading, choice, people, executing, queue, job, selected, overlapped>>
    BY <1>1 DEF MakeFile, CloseFails, database, bus
  <1>3. \/ closing'[i] = NoClose
        \/ closing[i].at = "items" /\ closing'[i].at = "delete" /\ closing'[i].to = closing[i].to
        \/ closing[i].at = "items" /\ closing'[i].at = "save" /\ closing'[i].to = "FAILED"
    BY <1>1 DEF MakeFile, CloseFails, CloseSet
  <1>4. UploadInv'
    BY <1>1, <1>2 DEF UploadInv
  <1>5. ClosingInv'
    BY <1>1, <1>2, <1>3 DEF ClosingInv, Past, Cleared, NoClose
  <1> QED
    BY <1>1, <1>2, <1>4, <1>5, Frame DEF Facts, AloneInv

LEMMA DeleteItemsKeeps ==
    ASSUME IInv, NEW i \in Import, DeleteItems(i)
    PROVE  Facts'
  <1>1. /\ Facts /\ UploadInv /\ ClosingInv /\ closing \in [Import -> CloseSet]
        /\ rows \in [Import -> [Item -> RowSet]] /\ closing[i] # NoClose /\ closing[i].at = "delete"
    BY TypeFields, TypeElim DEF IInv, Facts, DeleteItems, NoClose
  <1>2. /\ \A n \in Item : rows'[i][n] = "none"
        /\ \A j \in Import \ {i} : rows'[j] = rows[j] /\ closing'[j] = closing[j]
        /\ closing'[i].at = "save" /\ closing'[i].to = closing[i].to
        /\ UNCHANGED <<status, uploading, choice, people, executing, queue, job, selected, overlapped>>
    BY <1>1 DEF DeleteItems, DeleteAll, bus, CloseSet
  <1>3. /\ Cleared(i)' /\ \A j \in Import \ {i} : Cleared(j)' <=> Cleared(j)
        /\ \A j \in Import : Past(j)' <=> Past(j)
        /\ \A k \in Run : Active(k) => job[k].import \in Import
    BY <1>1, <1>2 DEF Cleared, Past, Facts, RefersInv
  <1> USE <1>1, <1>2, <1>3
  <1>4. UploadInv'
    BY DEF UploadInv
  <1>5. ClosingInv'
    BY DEF ClosingInv
  <1>6. ItemsInv'
    BY DEF Facts, ItemsInv, InLoop, Open, Active
  <1>7. AloneInv'
    <2>1. ASSUME ~overlapped PROVE Outlook'
      BY <2>1 DEF Facts, AloneInv, Outlook, Active, InLoop, Entering, Open
    <2> QED
      BY <2>1, Frame DEF AloneInv
  <1>8. SuccessHasPerson' /\ FinishedIsDone' /\ CompletedIsCleared'
    BY DEF Facts, SuccessHasPerson, FinishedIsDone, CompletedIsCleared
  <1> QED
    BY <1>4, <1>5, <1>6, <1>7, <1>8, Frame DEF Facts

LEMMA SaveClosedKeeps ==
    ASSUME IInv, NEW i \in Import, SaveClosed(i)
    PROVE  Facts'
  <1>1. /\ Facts /\ UploadInv /\ ClosingInv /\ closing \in [Import -> CloseSet]
        /\ status \in [Import -> Status] /\ closing[i] # NoClose /\ closing[i].at = "save"
    BY TypeFields, TypeElim DEF IInv, Facts, SaveClosed, NoClose
  <1>2. /\ status'[i] \in {status[i], closing[i].to} /\ closing'[i] = NoClose
        /\ \A j \in Import \ {i} : status'[j] = status[j] /\ closing'[j] = closing[j]
        /\ UNCHANGED <<rows, uploading, choice, people, executing, queue, job, selected, overlapped>>
    BY <1>1 DEF SaveClosed, bus
  <1>3. /\ closing[i].to \in {"COMPLETED", "CANCELLED", "FAILED"} /\ status[i] # "none"
        /\ closing[i].to \in {"COMPLETED", "FAILED"} => Past(i)
        /\ closing[i].to = "COMPLETED" => Cleared(i)
    BY <1>1 DEF ClosingInv, UploadInv
  <1>4. /\ \A j \in Import : Past(j)' <=> Past(j)
        /\ \A j \in Import : status[j] \in After => status'[j] \in After
        /\ \A j \in Import : Cleared(j)' <=> Cleared(j)
        /\ \A k \in Run : Active(k) => job[k].import \in Import
    BY <1>1, <1>2, <1>3 DEF Past, Cleared, After, Facts, RefersInv
  <1> USE <1>1, <1>2, <1>3, <1>4
  <1>5. UploadInv'
    BY DEF UploadInv, Past
  <1>6. RefersInv'
    BY TypeElim DEF IInv, Facts, RefersInv, Active
  <1>7. ClosingInv'
    BY DEF ClosingInv, NoClose
  <1>8. AloneInv'
    <2>1. ASSUME ~overlapped PROVE OnePerson' /\ Outlook'
      <3>1. OnePerson'
        BY <2>1 DEF Facts, AloneInv, OnePerson
      <3>2. Outlook'
        BY <2>1 DEF Facts, AloneInv, Outlook, Active, InLoop, Entering, Open
      <3> QED
        BY <3>1, <3>2
    <2> QED
      BY <2>1, Frame DEF AloneInv
  <1>9. FinishedIsDone' /\ CompletedIsCleared'
    BY DEF Facts, FinishedIsDone, CompletedIsCleared
  <1> QED
    BY <1>5, <1>6, <1>7, <1>8, <1>9, Frame DEF Facts

\* The events that stay after a commit.
LEMMA TailPast ==
    ASSUME TypeOK, RefersInv, queue # <<>>, queue' = Tail(queue), UNCHANGED <<status, uploading>>
    PROVE  (\A x \in 1..Len(queue) : Past(queue[x]))'
  <1>1. \A x \in 1..Len(queue') : x + 1 \in 1..Len(queue) /\ queue'[x] = queue[x + 1]
    BY TypeElim
  <1>2. \A x \in 1..Len(queue') : Past(queue'[x])
    BY <1>1 DEF RefersInv
  <1> QED
    BY <1>2 DEF Past

\* The start of an execution.
LEMMA StartKeeps ==
    ASSUME IInv, NEW i \in Import, Past(i), NextRun \in Run, job[NextRun].at = "unused", Start(i),
           executing' \subseteq executing,
           UNCHANGED <<status, choice, rows, people, uploading, closing, queue>>
    PROVE  Facts'
  <1>0. PICK m \in Run : m = NextRun
    OBVIOUS
  <1>1. Facts /\ TypeOK /\ RefersInv /\ choice[i] \in Choice /\ job \in [Run -> JobSet]
    BY TypeFields DEF IInv, Facts, UploadInv, Past
  <1>2. /\ selected' = choice[i] /\ m \in Run /\ job[m].at = "unused"
        /\ job'[m].at = "find" /\ job'[m].import = i /\ job'[m].todo = {} /\ ~job'[m].succeeded
        /\ \A k \in Run \ {m} : job'[k] = job[k]
        /\ overlapped' = (overlapped \/ \E k \in Run : Active(k))
    BY <1>0, <1>1 DEF Start, Select, Unused
  <1>a. \A k \in Run \ {m} : (Active(k)' <=> Active(k)) /\ (InLoop(k)' <=> InLoop(k)) /\ (Entering(k)' <=> Entering(k))
    BY <1>2 DEF Active, InLoop, Entering
  <1>b. \A k \in Run \ {m} : Open(k)' = Open(k)
    BY <1>2 DEF Open
  <1>c. Active(m)' /\ ~InLoop(m)' /\ ~Entering(m)'
    BY <1>2 DEF Active, InLoop, Entering
  <1>3. /\ \A k \in Run : k = m \/ ((Active(k)' <=> Active(k)) /\ (InLoop(k)' <=> InLoop(k))
                                   /\ (Entering(k)' <=> Entering(k)) /\ Open(k)' = Open(k))
        /\ Active(m)' /\ ~InLoop(m)' /\ ~Entering(m)'
    BY <1>a, <1>b, <1>c
  <1>d. \A j \in Import : Cleared(j)' <=> Cleared(j)
    BY DEF Cleared
  <1>4. RefersInv'
    BY <1>1, <1>2, <1>3 DEF RefersInv, Past
  <1>5. ItemsInv'
    <2>1. \A k \in Run : InLoop(k)' => k # m /\ job[k].import \in Import
      BY <1>1, <1>3 DEF RefersInv, InLoop, Active
    <2> QED
      BY <1>1, <1>2, <1>3, <1>d, <2>1 DEF Facts, ItemsInv
  <1>6. PersonsInv'
    <2>1. \A j \in Import, n \in Item : \A p \in people[j][n] : p.run \in Run \ {m}
      <3>1. \A j \in Import, n \in Item : \A p \in people[j][n] : p.run \in Run
        BY <1>1, TypeElim DEF Person
      <3> QED
        BY <1>1, <1>2, <3>1 DEF Facts, PersonsInv
    <2>2. \A k \in Run : job'[k].at \in {"contexts", "save"} => k # m /\ job'[k] = job[k]
      BY <1>2
    <2> QED
      BY <1>1, <1>2, <2>1, <2>2 DEF Facts, PersonsInv
  <1>7. AloneInv'
    <2>1. ASSUME ~overlapped' PROVE ~overlapped /\ OnlyOne' /\ OnePerson' /\ Fresh' /\ Outlook'
      <3>1. ~overlapped /\ \A k \in Run : ~Active(k)
        BY <1>2, <2>1
      <3>2. OnlyOne'
        BY <1>2, <1>3, <3>1 DEF OnlyOne
      <3>3. OnePerson'
        BY <1>1, <3>1 DEF Facts, AloneInv, OnePerson, Past
      <3>4. \A k \in Run : ~InLoop(k)' /\ ~Entering(k)'
        <4>1. \A k \in Run : ~InLoop(k) /\ ~Entering(k)
          BY <3>1 DEF Active, InLoop, Entering
        <4> QED
          BY <1>3, <4>1
      <3> QED
        BY <3>1, <3>2, <3>3, <3>4 DEF Fresh, Outlook
    <2> QED
      BY <2>1 DEF AloneInv
  <1>8. overlapped => overlapped'
    BY <1>2
  <1>9. ChosenRolle' /\ FinishedIsDone'
    BY <1>1, <1>8 DEF Facts, ChosenRolle, FinishedIsDone, Cleared
  <1> QED
    BY <1>1, <1>4, <1>5, <1>6, <1>7, <1>9, Frame DEF Facts

LEMMA PublishKeeps ==
    ASSUME IInv, NEW i \in Import, Publish(i)
    PROVE  Facts'
  <1>1. /\ Facts /\ TypeOK /\ CountInv /\ RefersInv /\ i \in executing /\ Past(i)
        /\ executing' = executing \ {i}
        /\ UNCHANGED <<status, choice, rows, people, uploading, closing>>
    BY DEF IInv, Facts, Publish, RefersInv, SaveUnchanged
  <1>2. NextRun \in Run /\ job[NextRun].at = "unused"
    BY <1>1, NextRunUnused
  <1>3. CASE Start(i) /\ UNCHANGED queue
    BY <1>1, <1>2, <1>3, StartKeeps
  <1>4. CASE (queue' = Append(queue, i) \/ UNCHANGED queue) /\ UNCHANGED <<job, selected, overlapped>>
    <2>1. \A x \in 1..Len(queue') : Past(queue'[x])
      BY <1>1, <1>4, TypeElim DEF RefersInv
    <2>2. RefersInv'
      BY <1>1, <1>4, <2>1 DEF RefersInv, Past, Active
    <2> QED
      BY <1>1, <1>4, <2>2, Frame DEF Facts, AloneInv
  <1> QED
    BY <1>3, <1>4, Zenon DEF Publish

LEMMA DeliverKeeps ==
    ASSUME IInv, Deliver
    PROVE  Facts'
  <1>1. /\ Facts /\ TypeOK /\ CountInv /\ RefersInv /\ queue # <<>> /\ current = 0 /\ Start(Head(queue))
        /\ UNCHANGED <<executing, status, choice, rows, people, uploading, closing, queue>>
    BY DEF IInv, Facts, Deliver, database, requests
  <1>2. Head(queue) \in Import /\ Past(Head(queue))
    BY <1>1, TypeElim DEF RefersInv
  <1>3. NextRun \in Run /\ job[NextRun].at = "unused"
    BY <1>1, NextRunUnused
  <1> QED
    BY <1>1, <1>2, <1>3, StartKeeps

LEMMA TimeOutKeeps ==
    ASSUME IInv, NEW k \in Run, TimeOut(k)
    PROVE  Facts'
  <1>1. /\ Facts /\ TypeOK /\ RefersInv /\ queue # <<>> /\ queue' = Tail(queue)
        /\ UNCHANGED <<status, choice, rows, people, uploading, executing, closing, job, selected, overlapped>>
    BY BoundsAssumption DEF IInv, Facts, TimeOut, CountInv, Run, database, requests
  <1>2. RefersInv'
    BY <1>1, TailPast DEF RefersInv, Past, Active
  <1> QED
    BY <1>1, <1>2, Frame DEF Facts, AloneInv

LEMMA CrashKeeps ==
    ASSUME IInv, Crash
    PROVE  Facts'
  <1>1. /\ Facts /\ TypeOK /\ job \in [Run -> JobSet]
        /\ \A i \in Import : ~uploading'[i].active /\ closing'[i] = NoClose
        /\ executing' = {}
        /\ \A k \in Run : IF Active(k) THEN job'[k] = Ended ELSE job'[k] = job[k]
        /\ UNCHANGED <<status, choice, rows, people, queue, overlapped>>
    BY TypeFields DEF IInv, Facts, Crash, database, NoUpload
  <1>2. /\ \A k \in Run : ~Active(k)' /\ ~InLoop(k)' /\ ~Entering(k)' /\ ~job'[k].succeeded
        /\ \A k \in Run : job'[k].at \in {"unused", "ended"} /\ (job'[k].at = "unused" => job[k].at = "unused")
        /\ \A i : Past(i) /\ i \in Import => Past(i)'
    BY <1>1 DEF Active, InLoop, Entering, Ended, Unused, Past, Facts, ItemsInv
  <1>3. \A x \in 1..Len(queue) : queue[x] \in Import
    BY <1>1, TypeElim
  <1> USE <1>1, <1>2, <1>3
  <1>4. UploadInv'
    BY DEF Facts, UploadInv
  <1>5. RefersInv'
    BY DEF Facts, RefersInv
  <1>6. ClosingInv'
    BY DEF ClosingInv, NoClose
  <1>7. ItemsInv'
    BY DEF ItemsInv
  <1>8. PersonsInv'
    <2>1. \A j \in Import, n \in Item : \A p \in people[j][n] : p.run \in Run
      BY TypeElim DEF Person
    <2>2. \A k \in Run : job[k].at # "unused" => job'[k] = Ended \/ (job[k].at = "ended" /\ job'[k] = job[k])
      BY DEF Active
    <2>3. \A k \in Run : job'[k] = Ended => job'[k].at = "ended" /\ job'[k].todo = {}
      BY DEF Ended, Unused
    <2> QED
      BY <2>1, <2>2, <2>3 DEF Facts, PersonsInv
  <1>9. AloneInv'
    <2>1. ASSUME ~overlapped PROVE OnePerson'
      BY <2>1 DEF Facts, AloneInv, OnePerson
    <2> QED
      BY <2>1 DEF AloneInv, OnlyOne, Fresh, Outlook
  <1> QED
    BY <1>4, <1>5, <1>6, <1>7, <1>8, <1>9, Frame DEF Facts

\* What a step leaves alone of an execution.
Kept(j) ==
    /\ job'[j] = job[j] /\ Open(j)' = Open(j)
    /\ Active(j)' <=> Active(j)
    /\ InLoop(j)' <=> InLoop(j)
    /\ Entering(j)' <=> Entering(j)

\* The steps of an execution leave the others alone.
LEMMA OtherRuns ==
    ASSUME NEW k \in Run, \A j \in Run \ {k} : job'[j] = job[j]
    PROVE  \A j \in Run \ {k} : Kept(j)
  <1> SUFFICES ASSUME NEW j \in Run \ {k} PROVE Kept(j)
    OBVIOUS
  <1>1. job'[j] = job[j]
    OBVIOUS
  <1>2. Open(j)' = Open(j)
    BY <1>1 DEF Open
  <1> QED
    BY <1>1, <1>2 DEF Kept, Active, InLoop, Entering

LEMMA LoopIsActive == \A k \in Run : InLoop(k) \/ Entering(k) => Active(k)
  BY DEF InLoop, Entering, Active

\* Without overlap there is nothing to show for the other executions.
LEMMA OnlyRun ==
    ASSUME Facts, ~overlapped, NEW k \in Run, Active(k)
    PROVE  \A j \in Run : j = k \/ (~Active(j) /\ ~InLoop(j) /\ ~Entering(j))
  BY LoopIsActive DEF Facts, AloneInv, OnlyOne

\* The runs of the persons.
LEMMA PersonRun ==
    ASSUME TypeOK
    PROVE  \A i \in Import, n \in Item : \A p \in people[i][n] : p.run \in Run
  BY TypeElim DEF Person

\* An execution ends, and may have stored its result.
LEMMA EndKeeps ==
    ASSUME IInv, NEW k \in Run, Active(k), End(k),
           UNCHANGED <<choice, rows, people, requests, selected, overlapped>>,
           \/ status' = status
           \/ /\ job[k].at = "loop" /\ job[k].todo = {}
              /\ status' = [status EXCEPT ![job[k].import] = Outcome(k)]
    PROVE  Facts'
  <1>0. PICK i : i = job[k].import
    OBVIOUS
  <1>1. /\ Facts /\ TypeOK /\ CountInv /\ UploadInv /\ RefersInv /\ ClosingInv /\ ItemsInv
        /\ i \in Import /\ Past(i) /\ job \in [Run -> JobSet] /\ status \in [Import -> Status]
    BY <1>0, TypeFields, TypeElim DEF IInv, Facts, RefersInv
  <1>2. /\ job'[k].at = "ended" /\ job'[k].todo = {} /\ ~job'[k].succeeded
        /\ \A j \in Run \ {k} : job'[j] = job[j]
        /\ \A j \in Import \ {i} : status'[j] = status[j]
        /\ queue' = queue \/ (queue # <<>> /\ queue' = Tail(queue))
        /\ UNCHANGED <<choice, rows, people, uploading, executing, closing, selected, overlapped>>
    BY <1>0, <1>1, BoundsAssumption DEF End, Ended, Unused, requests, CountInv, Run
  <1>3. /\ \A j \in Run \ {k} : Kept(j)
        /\ ~Active(k)' /\ ~InLoop(k)' /\ ~Entering(k)'
    BY <1>2, OtherRuns DEF Active, InLoop, Entering
  <1>4. \/ status'[i] = status[i]
        \/ /\ status'[i] \in {"FINISHED", "FAILED"} /\ InLoop(k) /\ job[k].todo = {} /\ Open(k) = {}
           /\ status'[i] = "FINISHED" => job[k].succeeded
    BY <1>0, <1>1 DEF Outcome, InLoop, Open
  <1>5. /\ \A j \in Import : Past(j)' <=> Past(j)
        /\ \A j \in Import : Cleared(j)' <=> Cleared(j)
        /\ \A j \in Import : status[j] \in After => status'[j] \in After
        /\ \A j \in Import : status'[j] = status[j] \/ status'[j] \in {"FINISHED", "FAILED"}
    BY <1>1, <1>2, <1>4 DEF Past, Cleared, After
  <1>6. status'[i] # status[i] => \A n \in Item : rows[i][n] # "PENDING"
    BY <1>0, <1>1, <1>4 DEF ItemsInv
  <1>7. UploadInv'
    BY <1>1, <1>2, <1>5 DEF UploadInv, Past
  <1>8. RefersInv'
    <2>1. (\A x \in 1..Len(queue) : Past(queue[x]))'
      <3>1. \A x \in 1..Len(queue') : Past(queue'[x]) /\ queue'[x] \in Import
        <4>1. CASE queue' = queue
          BY <1>1, <4>1, TypeElim DEF RefersInv
        <4>2. CASE queue # <<>> /\ queue' = Tail(queue)
          <5>1. \A x \in 1..Len(queue') : x + 1 \in 1..Len(queue) /\ queue'[x] = queue[x + 1]
            BY <1>1, <4>2, TypeElim
          <5>2. \A x \in 1..Len(queue) : queue[x] \in Import
            BY <1>1, TypeElim
          <5> QED
            BY <1>1, <5>1, <5>2 DEF RefersInv
        <4> QED
          BY <1>2, <4>1, <4>2
      <3> QED
        BY <1>5, <3>1
    <2>2. (\A j \in executing : Past(j))'
      BY <1>1, <1>2, <1>5, TypeElim DEF RefersInv
    <2>3. \A j \in Run : Active(j)' => j # k
      BY <1>3
    <2> QED
      BY <1>1, <1>2, <1>3, <1>5, <2>1, <2>2, <2>3 DEF RefersInv, Kept
  <1>9. ClosingInv'
    BY <1>1, <1>2, <1>5 DEF ClosingInv
  <1>10. ItemsInv'
    <2>1. \A j \in Run : InLoop(j)' => j # k /\ job[j].import \in Import
      BY <1>1, <1>3, LoopIsActive DEF RefersInv, Kept
    <2> QED
      BY <1>1, <1>2, <1>3, <1>5, <2>1 DEF ItemsInv, Kept
  <1>11. PersonsInv'
    <2>1. \A j \in Run : job'[j].at \in {"contexts", "save"} => j # k /\ job'[j] = job[j]
      BY <1>2
    <2> QED
      BY <1>1, <1>2, <2>1, PersonRun DEF Facts, PersonsInv
  <1>12. ASSUME ~overlapped PROVE OnlyOne' /\ OnePerson' /\ Fresh' /\ Outlook'
    <2>1. \A j \in Run : ~Active(j)' /\ ~InLoop(j)' /\ ~Entering(j)'
      BY <1>1, <1>3, <1>12, OnlyRun DEF Kept
    <2>2. OnePerson'
      BY <1>1, <1>2, <1>5, <1>12 DEF Facts, AloneInv, OnePerson
    <2> QED
      BY <2>1, <2>2 DEF OnlyOne, Fresh, Outlook
  <1>13. FinishedIsDone'
    <2>1. ASSUME ~overlapped, status'[i] = "FINISHED", status[i] # "FINISHED", ~Cleared(i)
          PROVE  \E n \in Item : rows[i][n] = "SUCCESS"
      BY <1>0, <1>1, <1>4, <2>1 DEF Facts, AloneInv, Outlook
    <2> QED
      BY <1>1, <1>2, <1>5, <1>6, <2>1 DEF Facts, FinishedIsDone
  <1>14. CompletedIsCleared'
    BY <1>1, <1>5 DEF Facts, CompletedIsCleared
  <1> QED
    BY <1>1, <1>2, <1>7, <1>8, <1>9, <1>10, <1>11, <1>12, <1>13, <1>14, Frame DEF Facts, AloneInv

LEMMA FindVorgangKeeps ==
    ASSUME IInv, NEW k \in Run, FindVorgang(k)
    PROVE  Facts'
  <1>1. CASE End(k)
    BY <1>1, EndKeeps DEF FindVorgang, Active, database
  <1>2. CASE ~End(k)
    <2>0. PICK i : i = job[k].import
      OBVIOUS
    <2>1. /\ Facts /\ TypeOK /\ UploadInv /\ RefersInv /\ Active(k) /\ i \in Import
          /\ job \in [Run -> JobSet] /\ ~job[k].succeeded /\ status[i] = "VALID"
      BY <1>2, <2>0, TypeFields
      DEF IInv, Facts, FindVorgang, MayExecute, RefersInv, ItemsInv, Active, InLoop
    <2>2. /\ job'[k].at = "execute" /\ job'[k].import = i /\ ~job'[k].succeeded /\ job'[k].todo = job[k].todo
          /\ \A j \in Run \ {k} : job'[j] = job[j]
          /\ UNCHANGED <<status, choice, rows, people, uploading, executing, closing, queue, selected, overlapped>>
      BY <1>2, <2>0, <2>1 DEF FindVorgang, JobSet, database, requests, bus
    <2>3. /\ \A j \in Run \ {k} : Kept(j)
          /\ Active(k)' /\ ~InLoop(k)' /\ Entering(k)'
      BY <2>2, OtherRuns DEF Active, InLoop, Entering
    <2>4. RefersInv'
      BY <2>0, <2>1, <2>2, <2>3 DEF RefersInv, Kept, Past
    <2>5. ItemsInv'
      BY <2>1, <2>2, <2>3 DEF Facts, ItemsInv, Kept, Cleared
    <2>6. PersonsInv'
      <3>1. \A j \in Import, n \in Item : \A p \in people[j][n] : p.run \in Run \ {k}
        BY <1>2, <2>1, PersonRun DEF Facts, PersonsInv, FindVorgang
      <3>2. \A j \in Run : job'[j].at \in {"contexts", "save"} => j # k /\ job'[j] = job[j]
        BY <2>2
      <3> QED
        BY <2>1, <2>2, <3>1, <3>2 DEF Facts, PersonsInv
    <2>7. ASSUME ~overlapped PROVE OnlyOne' /\ Fresh' /\ Outlook'
      <3>1. \A j \in Run \ {k} : ~Active(j) /\ ~Active(j)' /\ ~InLoop(j)' /\ ~Entering(j)'
        BY <2>1, <2>3, <2>7, OnlyRun DEF Kept
      <3>2. OnlyOne'
        BY <2>0, <2>1, <2>2, <2>3, <2>7, <3>1 DEF Facts, AloneInv, OnlyOne
      <3>3. \A n \in Item : people[i][n] = {}
        BY <2>1, <2>7 DEF Facts, AloneInv, OnePerson, After
      <3> QED
        BY <2>1, <2>2, <2>3, <3>1, <3>2, <3>3 DEF Fresh, Outlook
    <2> QED
      BY <2>1, <2>2, <2>4, <2>5, <2>6, <2>7, Frame DEF Facts, AloneInv
  <1> QED
    BY <1>1, <1>2

LEMMA SaveInProgressKeeps ==
    ASSUME IInv, NEW k \in Run, SaveInProgress(k)
    PROVE  Facts'
  <1>0. PICK i : i = job[k].import
    OBVIOUS
  <1>1. /\ Facts /\ TypeOK /\ UploadInv /\ RefersInv /\ ClosingInv /\ Active(k) /\ i \in Import /\ Past(i)
        /\ job[k].at = "execute"
        /\ job \in [Run -> JobSet] /\ ~job[k].succeeded /\ status \in [Import -> Status]
    BY <1>0, TypeFields, TypeElim
    DEF IInv, Facts, SaveInProgress, RefersInv, ItemsInv, Active, InLoop
  <1>2. /\ job'[k].at = "items" /\ job'[k].import = i /\ ~job'[k].succeeded /\ job'[k].todo = job[k].todo
        /\ \A j \in Run \ {k} : job'[j] = job[j]
        /\ status'[i] = "INPROGRESS" /\ \A j \in Import \ {i} : status'[j] = status[j]
        /\ UNCHANGED <<choice, rows, people, uploading, executing, closing, queue, selected, overlapped>>
    BY <1>0, <1>1 DEF SaveInProgress, JobSet, requests, bus
  <1>3. /\ \A j \in Run \ {k} : Kept(j)
        /\ Active(k)' /\ ~InLoop(k)' /\ Entering(k)'
    BY <1>2, OtherRuns DEF Active, InLoop, Entering
  <1>4. /\ \A j \in Import : Past(j)' <=> Past(j)
        /\ \A j \in Import : Cleared(j)' <=> Cleared(j)
        /\ \A j \in Import : (status[j] \in After => status'[j] \in After)
        /\ \A j \in Import : status'[j] = status[j] \/ status'[j] = "INPROGRESS"
        /\ status'[i] \in After
    BY <1>1, <1>2 DEF Past, Cleared, After
  <1>5. UploadInv'
    BY <1>1, <1>2, <1>4 DEF UploadInv, Past
  <1>6. RefersInv'
    <2>1. \A x \in 1..Len(queue) : queue[x] \in Import
      BY <1>1, TypeElim
    <2>2. \A j \in executing : j \in Import
      BY <1>1, TypeElim
    <2> QED
      BY <1>0, <1>1, <1>2, <1>3, <1>4, <2>1, <2>2 DEF RefersInv, Kept
  <1>7. ClosingInv'
    BY <1>1, <1>2, <1>4 DEF ClosingInv
  <1>8. ItemsInv'
    BY <1>1, <1>2, <1>3 DEF Facts, ItemsInv, Kept, Cleared
  <1>9. PersonsInv'
    <2>1. \A j \in Import, n \in Item : \A p \in people[j][n] : p.run \in Run \ {k}
      BY <1>1, PersonRun DEF Facts, PersonsInv
    <2>2. \A j \in Run : job'[j].at \in {"contexts", "save"} => j # k /\ job'[j] = job[j]
      BY <1>2
    <2> QED
      BY <1>1, <1>2, <2>1, <2>2 DEF Facts, PersonsInv
  <1>10. ASSUME ~overlapped PROVE OnlyOne' /\ OnePerson' /\ Fresh' /\ Outlook'
    <2>1. \A j \in Run \ {k} : ~Active(j) /\ ~Active(j)' /\ ~InLoop(j)' /\ ~Entering(j)'
      BY <1>1, <1>3, <1>10, OnlyRun DEF Kept
    <2>2. OnlyOne'
      BY <1>0, <1>1, <1>2, <1>3, <1>10, <2>1 DEF Facts, AloneInv, OnlyOne
    <2>3. OnePerson'
      BY <1>1, <1>2, <1>4, <1>10 DEF Facts, AloneInv, OnePerson
    <2>4. \A n \in Item : people[i][n] = {}
      BY <1>0, <1>1, <1>10 DEF Facts, AloneInv, Fresh, Entering
    <2> QED
      BY <1>1, <1>2, <1>3, <2>1, <2>2, <2>3, <2>4 DEF Fresh, Outlook
  <1>11. FinishedIsDone' /\ CompletedIsCleared'
    BY <1>1, <1>2, <1>4 DEF Facts, FinishedIsDone, CompletedIsCleared
  <1> QED
    BY <1>1, <1>2, <1>5, <1>6, <1>7, <1>8, <1>9, <1>10, <1>11, Frame DEF Facts, AloneInv

LEMMA ReadItemsKeeps ==
    ASSUME IInv, NEW k \in Run, ReadItems(k)
    PROVE  Facts'
  <1>1. CASE End(k)
    BY <1>1, EndKeeps DEF ReadItems, Active, database
  <1>2. CASE ~End(k)
    <2>0. PICK i : i = job[k].import
      OBVIOUS
    <2>1. /\ Facts /\ TypeOK /\ UploadInv /\ RefersInv /\ Active(k) /\ i \in Import /\ Past(i)
          /\ job \in [Run -> JobSet] /\ ~job[k].succeeded /\ status[i] \in After /\ job[k].at = "items"
      BY <2>0, TypeFields
      DEF IInv, Facts, ReadItems, RefersInv, ItemsInv, Active, InLoop
    <2>2. /\ job'[k].at = "loop" /\ job'[k].import = i /\ ~job'[k].succeeded
          /\ job'[k].todo = {n \in Item : rows[i][n] # "none"}
          /\ \A j \in Run \ {k} : job'[j] = job[j]
          /\ UNCHANGED <<status, choice, rows, people, uploading, executing, closing, queue, selected, overlapped>>
      BY <1>2, <2>0, <2>1 DEF ReadItems, JobSet, database, requests, bus
    <2>3. /\ \A j \in Run \ {k} : Kept(j)
          /\ Active(k)' /\ InLoop(k)' /\ ~Entering(k)' /\ Open(k)' = {}
      BY <2>2, OtherRuns DEF Active, InLoop, Entering, Open
    <2>4. RefersInv'
      BY <2>0, <2>1, <2>2, <2>3 DEF RefersInv, Kept, Past
    <2>5. ItemsInv'
      <3>1. \A j : j \in Import => (Cleared(j)' <=> Cleared(j))
        BY <2>2 DEF Cleared
      <3>2. \A j \in Run \ {k} : InLoop(j) => job[j].import \in Import
        BY <2>1, LoopIsActive DEF RefersInv
      <3> QED
        BY <2>1, <2>2, <2>3, <3>1, <3>2 DEF Facts, ItemsInv, Kept
    <2>6. PersonsInv'
      <3>1. \A j \in Import, n \in Item : \A p \in people[j][n] : p.run \in Run \ {k}
        BY <2>1, PersonRun DEF Facts, PersonsInv
      <3>2. \A j \in Run : job'[j].at \in {"contexts", "save"} => j # k /\ job'[j] = job[j]
        BY <2>2
      <3> QED
        BY <2>1, <2>2, <3>1, <3>2 DEF Facts, PersonsInv
    <2>7. ASSUME ~overlapped PROVE OnlyOne' /\ Fresh' /\ Outlook'
      <3>1. \A j \in Run \ {k} : ~Active(j) /\ ~Active(j)' /\ ~InLoop(j)' /\ ~Entering(j)'
        BY <2>1, <2>3, <2>7, OnlyRun DEF Kept
      <3>2. OnlyOne'
        BY <2>0, <2>1, <2>2, <2>3, <2>7, <3>1 DEF Facts, AloneInv, OnlyOne
      <3>3. (\A n \in Item : people[i][n] = {}) /\ status[i] # "FINISHED"
        BY <2>0, <2>1, <2>7 DEF Facts, AloneInv, Fresh, Outlook, Entering
      <3> QED
        BY <2>1, <2>2, <2>3, <3>1, <3>2, <3>3 DEF Fresh, Outlook
    <2> QED
      BY <2>1, <2>2, <2>4, <2>5, <2>6, <2>7, Frame DEF Facts, AloneInv
  <1> QED
    BY <1>1, <1>2

LEMMA CreatePersonKeeps ==
    ASSUME IInv, NEW k \in Run, NEW n \in Item, CreatePerson(k, n)
    PROVE  Facts'
  <1>0. PICK i : i = job[k].import
    OBVIOUS
  <1>a. PICK p : p = [run |-> k, contexts |-> {}, schule |-> selected.schule, rolle |-> selected.rolle]
    OBVIOUS
  <1>1. /\ Facts /\ TypeOK /\ UploadInv /\ RefersInv /\ Active(k) /\ InLoop(k) /\ ~Entering(k) /\ Open(k) = {}
        /\ i \in Import /\ Past(i) /\ status[i] # "none" /\ status[i] \in After
        /\ job[k].at = "loop" /\ n \in job[k].todo /\ job \in [Run -> JobSet] /\ job[k].todo \in SUBSET Item
        /\ people \in [Import -> [Item -> SUBSET Person]]
    BY <1>0, TypeFields, TypeElim
    DEF IInv, Facts, CreatePerson, RefersInv, Active, InLoop, Entering, Open, Past, JobSet
  <1>2. /\ \/ job'[k].at = "contexts" /\ people'[i][n] = people[i][n] \cup {p}
           \/ job'[k].at = "save" /\ job'[k].result = "FAILED" /\ people'[i][n] = people[i][n]
        /\ job'[k].todo = job[k].todo \ {n} /\ job'[k].item = n /\ job'[k].import = i
        /\ job'[k].succeeded = job[k].succeeded
        /\ \A j \in Run \ {k} : job'[j] = job[j]
        /\ \A j \in Import, m \in Item : (j = i /\ m = n) \/ people'[j][m] = people[j][m]
        /\ UNCHANGED <<status, choice, rows, uploading, executing, closing, queue, selected, overlapped>>
    BY <1>0, <1>a, <1>1 DEF CreatePerson, JobSet, requests, bus
  <1>3. /\ \A j \in Run \ {k} : Kept(j)
        /\ Active(k)' /\ InLoop(k)' /\ ~Entering(k)' /\ Open(k)' = {n}
    BY <1>2, OtherRuns DEF Active, InLoop, Entering, Open
  <1>4. /\ p.run = k /\ p.contexts = {} /\ p.rolle = selected.rolle
        /\ job'[k].todo \cup Open(k)' = job[k].todo \cup Open(k) /\ job'[k].todo \subseteq job[k].todo
    BY <1>1, <1>2, <1>3, <1>a
  <1>5. UploadInv'
    BY <1>1, <1>2 DEF UploadInv
  <1>6. RefersInv'
    BY <1>0, <1>1, <1>2, <1>3 DEF RefersInv, Kept, Past
  <1>7. ItemsInv'
    <2>1. \A j : j \in Import => (Cleared(j)' <=> Cleared(j))
      BY <1>2 DEF Cleared
    <2>2. \A j \in Run \ {k} : InLoop(j) => job[j].import \in Import
      BY <1>1, LoopIsActive DEF RefersInv
    <2>3. job'[k].at = "save" => job'[k].result = "FAILED"
      BY <1>2
    <2> QED
      BY <1>0, <1>1, <1>2, <1>3, <1>4, <2>1, <2>2, <2>3 DEF Facts, ItemsInv, Kept
  <1>8. PersonsInv'
    <2>1. \A j \in Import, m \in Item : \A q \in people'[j][m] :
            q \in people[j][m] \/ (q = p /\ j = i /\ m = n /\ job'[k].at = "contexts")
      BY <1>2
    <2>2. \A j \in Import, m \in Item : people[j][m] \subseteq people'[j][m]
      BY <1>2
    <2>3. \A q \in people[i][n] : q.run \in Run \ {k}
      BY <1>0, <1>1, PersonRun DEF Facts, PersonsInv
    <2>4. (\A j \in Import, m \in Item : \A q \in people[j][m] :
            /\ job[q.run].at \notin {"unused", "find", "execute", "items"}
            /\ j = job[q.run].import => m \notin job[q.run].todo
            /\ job[q.run].at = "contexts" /\ j = job[q.run].import /\ m = job[q.run].item => q.contexts = {})'
      <3> SUFFICES ASSUME NEW j \in Import, NEW m \in Item, NEW q \in people'[j][m]
                   PROVE  /\ job'[q.run].at \notin {"unused", "find", "execute", "items"}
                          /\ j = job'[q.run].import => m \notin job'[q.run].todo
                          /\ job'[q.run].at = "contexts" /\ j = job'[q.run].import /\ m = job'[q.run].item
                                => q.contexts = {}
        OBVIOUS
      <3>1. CASE q = p /\ j = i /\ m = n
        BY <1>2, <1>4, <3>1
      <3>2. CASE q \in people[j][m] /\ q.run # k
        BY <1>1, <1>2, <3>2, PersonRun DEF Facts, PersonsInv
      <3>3. CASE q \in people[j][m] /\ q.run = k
        <4>1. j # i \/ m # n
          BY <2>3, <3>3
        <4> QED
          BY <1>0, <1>1, <1>2, <1>4, <3>3, <4>1 DEF Facts, PersonsInv
      <3> QED
        BY <2>1, <3>1, <3>2, <3>3
    <2>5. \A j \in Run : job'[j].at \in {"contexts", "save"} => job'[j].import \in Import /\ job'[j].item \in Item
      <3>1. \A j \in Run \ {k} : job[j].at \in {"contexts", "save"} => job[j].import \in Import /\ job[j].item \in Item
        BY <1>1 DEF Facts, ItemsInv, InLoop, Open, RefersInv, Active
      <3> QED
        BY <1>1, <1>2, <3>1
    <2>6. (\A j \in Run : job[j].at = "contexts" => \E q \in people[job[j].import][job[j].item] : q.run = j)'
      <3>1. ASSUME NEW j \in Run \ {k}, job'[j].at = "contexts"
            PROVE  \E q \in people'[job'[j].import][job'[j].item] : q.run = j
        BY <1>1, <1>2, <2>2, <2>5, <3>1 DEF Facts, PersonsInv
      <3>2. job'[k].at = "contexts" => p \in people'[i][n]
        BY <1>2
      <3> QED
        BY <1>2, <1>4, <3>1, <3>2
    <2>7. (\A j \in Run : job[j].at = "save" /\ job[j].result = "SUCCESS" =>
              \E q \in people[job[j].import][job[j].item] : q.contexts = Contexts)'
      <3>1. ASSUME NEW j \in Run \ {k}, job'[j].at = "save", job'[j].result = "SUCCESS"
            PROVE  \E q \in people'[job'[j].import][job'[j].item] : q.contexts = Contexts
        BY <1>1, <1>2, <2>2, <2>5, <3>1 DEF Facts, PersonsInv
      <3> QED
        BY <1>2, <3>1
    <2> QED
      BY <2>4, <2>6, <2>7 DEF PersonsInv
  <1>9. ASSUME ~overlapped PROVE OnlyOne' /\ OnePerson' /\ Fresh' /\ Outlook' /\ p.rolle = choice[i].rolle
    <2>1. \A j \in Run \ {k} : ~Active(j) /\ ~Active(j)' /\ ~InLoop(j)' /\ ~Entering(j)'
      BY <1>1, <1>3, <1>9, OnlyRun DEF Kept
    <2>2. OnlyOne' /\ selected = choice[i]
      BY <1>0, <1>1, <1>2, <1>3, <1>9, <2>1 DEF Facts, AloneInv, OnlyOne
    <2>3. people[i][n] = {}
      BY <1>0, <1>1, <1>9 DEF Facts, AloneInv, Fresh
    <2>4. OnePerson'
      <3>1. people'[i][n] \in {{}, {p}}
        BY <1>2, <2>3
      <3>2. OnePerson /\ \A j \in Import : (Past(j)' <=> Past(j))
        BY <1>1, <1>2, <1>9 DEF Facts, AloneInv, Past
      <3> QED
        BY <1>1, <1>2, <3>1, <3>2 DEF OnePerson
    <2>5. Fresh'
      <3>1. \A m \in job[k].todo : people[i][m] = {}
        BY <1>0, <1>1, <1>9 DEF Facts, AloneInv, Fresh
      <3>2. \A m \in job'[k].todo : m \in Item /\ people'[i][m] = {}
        BY <1>1, <1>2, <3>1
      <3> QED
        BY <1>2, <1>3, <2>1, <3>2 DEF Fresh
    <2>6. Outlook'
      <3>1. Outlook /\ (Cleared(i)' <=> Cleared(i))
        BY <1>1, <1>2, <1>9 DEF Facts, AloneInv, Cleared
      <3> QED
        BY <1>0, <1>1, <1>2, <1>3, <1>4, <2>1, <3>1 DEF Outlook
    <2> QED
      BY <1>4, <2>2, <2>4, <2>5, <2>6
  <1>10. ContextsAtChosenSchule' /\ ChosenRolle' /\ SuccessHasPerson'
    <2>1. \A j \in Import, m \in Item : \A q \in people'[j][m] : q \in people[j][m] \/ (q = p /\ j = i)
      BY <1>2
    <2>2. \A j \in Import, m \in Item : people[j][m] \subseteq people'[j][m]
      BY <1>2
    <2>3. ContextsAtChosenSchule'
      BY <1>1, <1>2, <1>4, <2>1 DEF Facts, ContextsAtChosenSchule
    <2>4. ChosenRolle'
      BY <1>1, <1>2, <1>9, <2>1 DEF Facts, ChosenRolle
    <2>5. SuccessHasPerson'
      BY <1>1, <1>2, <2>2 DEF Facts, SuccessHasPerson
    <2> QED
      BY <2>3, <2>4, <2>5
  <1> QED
    BY <1>1, <1>2, <1>5, <1>6, <1>7, <1>8, <1>9, <1>10, Frame DEF Facts, AloneInv

\* The result r of AddContexts: nothing is stored, or person p gets contexts.
Added(k, i, n, p, r) ==
    /\ job' = [job EXCEPT ![k].at = "save", ![k].result = r]
    /\ \/ r = "FAILED" /\ people' = people
       \/ \E added \in SUBSET Contexts :
             /\ r = "SUCCESS" => added = Contexts
             /\ p.schule = choice[i].schule
             /\ people' = [people EXCEPT ![i][n] = (@ \ {p}) \cup {[p EXCEPT !.contexts = added]}]

LEMMA AddContextsCases ==
    ASSUME NEW k \in Run, AddContexts(k), NEW i, NEW n, NEW p, i = job[k].import, n = job[k].item,
           p = CHOOSE q \in people[i][n] : q.run = k
    PROVE  \E r \in {"SUCCESS", "FAILED"} : Added(k, i, n, p, r)
  <1> DEFINE Result(ok) == job' = [job EXCEPT ![k].at = "save", ![k].result = IF ok THEN "SUCCESS" ELSE "FAILED"]
             Store(added) == people' = [people EXCEPT ![i][n] = (@ \ {p}) \cup {[p EXCEPT !.contexts = added]}]
  <1>1. \/ Result(FALSE) /\ people' = people
        \/ Matches(i, p) /\ Store(Contexts) /\ Result(TRUE)
        \/ \E added \in (SUBSET Contexts) \ {Contexts} : Matches(i, p) /\ Store(added) /\ Result(Accepted(added))
        \/ Matches(i, p) /\ Store(Contexts) /\ Result(FALSE)
    BY Zenon DEF AddContexts
  <1>2. Result(FALSE) => job' = [job EXCEPT ![k].at = "save", ![k].result = "FAILED"]
    OBVIOUS
  <1>3. Result(TRUE) => job' = [job EXCEPT ![k].at = "save", ![k].result = "SUCCESS"]
    OBVIOUS
  <1> HIDE DEF Result, Store
  <1>4. CASE Result(FALSE) /\ people' = people
    BY <1>2, <1>4 DEF Added
  <1>5. CASE Matches(i, p) /\ Store(Contexts) /\ (Result(TRUE) \/ Result(FALSE))
    BY <1>2, <1>3, <1>5 DEF Matches, Store, Added
  <1>6. CASE \E added \in (SUBSET Contexts) \ {Contexts} : Matches(i, p) /\ Store(added) /\ Result(Accepted(added))
    <2>1. PICK added \in (SUBSET Contexts) \ {Contexts} : Matches(i, p) /\ Store(added) /\ Result(Accepted(added))
      BY <1>6
    <2>2. ~Accepted(added)
      BY <2>1 DEF Accepted
    <2>3. job' = [job EXCEPT ![k].at = "save", ![k].result = "FAILED"]
      BY <2>1, <2>2 DEF Result
    <2> QED
      BY <2>1, <2>3 DEF Matches, Store, Added
  <1> QED
    BY <1>1, <1>4, <1>5, <1>6

LEMMA AddContextsKeeps ==
    ASSUME IInv, NEW k \in Run, AddContexts(k)
    PROVE  Facts'
  <1>0. PICK i : i = job[k].import
    OBVIOUS
  <1>a. PICK n : n = job[k].item
    OBVIOUS
  <1>b. PICK p : p = CHOOSE q \in people[i][n] : q.run = k
    OBVIOUS
  <1>1. /\ Facts /\ TypeOK /\ UploadInv /\ RefersInv /\ ItemsInv /\ PersonsInv
        /\ Active(k) /\ InLoop(k) /\ ~Entering(k) /\ Open(k) = {n}
        /\ i \in Import /\ Past(i) /\ status[i] # "none" /\ status[i] \in After
        /\ job[k].at = "contexts" /\ job \in [Run -> JobSet] /\ job[k].todo \in SUBSET Item
        /\ people \in [Import -> [Item -> SUBSET Person]]
    BY <1>0, <1>a, TypeFields, TypeElim
    DEF IInv, Facts, AddContexts, RefersInv, Active, InLoop, Entering, Open, Past, JobSet
  <1>2. n \in Item /\ p \in people[i][n] /\ p.run = k /\ p \in Person
    <2>1. n \in Item /\ p \in people[i][n] /\ p.run = k
      BY <1>0, <1>a, <1>b, <1>1, ContextsPerson
    <2> QED
      BY <1>1, <2>1
  <1>3. p.contexts = {} /\ n \notin job[k].todo
    BY <1>0, <1>a, <1>1, <1>2 DEF PersonsInv
  <1>4. PICK r \in {"SUCCESS", "FAILED"} : Added(k, i, n, p, r)
    BY <1>0, <1>a, <1>b, AddContextsCases, Zenon
  <1>5. /\ job'[k].at = "save" /\ job'[k].result = r
        /\ job'[k].todo = job[k].todo /\ job'[k].item = n /\ job'[k].import = i
        /\ job'[k].succeeded = job[k].succeeded
        /\ \A j \in Run \ {k} : job'[j] = job[j]
        /\ UNCHANGED <<status, choice, rows, uploading, executing, closing, queue, selected, overlapped>>
    <2>1. /\ job'[k].at = "save" /\ job'[k].result = r
          /\ job'[k].todo = job[k].todo /\ job'[k].item = n /\ job'[k].import = i
          /\ job'[k].succeeded = job[k].succeeded
          /\ \A j \in Run \ {k} : job'[j] = job[j]
      BY <1>0, <1>a, <1>1, <1>4 DEF JobSet, Added
    <2>2. UNCHANGED <<status, choice, rows, uploading, executing, closing, queue, selected, overlapped>>
      BY DEF AddContexts, requests, bus
    <2> QED
      BY <2>1, <2>2
  \* The person after the step.
  <1>6. PICK q \in Person :
          /\ q.run = k /\ q.rolle = p.rolle /\ q.schule = p.schule
          /\ people'[i][n] = (people[i][n] \ {p}) \cup {q}
          /\ q.contexts # {} => q.schule = choice[i].schule
          /\ r = "SUCCESS" => q.contexts = Contexts
          /\ \A j \in Import, m \in Item : (j = i /\ m = n) \/ people'[j][m] = people[j][m]
    <2>1. CASE r = "FAILED" /\ people' = people
      <3>1. people'[i][n] = (people[i][n] \ {p}) \cup {p}
        BY <1>2, <2>1
      <3> QED
        BY <1>2, <1>3, <2>1, <3>1
    <2>2. ASSUME NEW added \in SUBSET Contexts, r = "SUCCESS" => added = Contexts, p.schule = choice[i].schule,
                 people' = [people EXCEPT ![i][n] = (@ \ {p}) \cup {[p EXCEPT !.contexts = added]}]
          PROVE  \E q \in Person :
                   /\ q.run = k /\ q.rolle = p.rolle /\ q.schule = p.schule
                   /\ people'[i][n] = (people[i][n] \ {p}) \cup {q}
                   /\ q.contexts # {} => q.schule = choice[i].schule
                   /\ r = "SUCCESS" => q.contexts = Contexts
                   /\ \A j \in Import, m \in Item : (j = i /\ m = n) \/ people'[j][m] = people[j][m]
      <3>1. PICK q : q = [p EXCEPT !.contexts = added]
        OBVIOUS
      <3>2. q \in Person /\ q.run = k /\ q.rolle = p.rolle /\ q.schule = p.schule /\ q.contexts = added
        BY <1>2, <3>1 DEF Person
      <3>3. people'[i][n] = (people[i][n] \ {p}) \cup {q}
        BY <1>1, <1>2, <2>2, <3>1
      <3>4. \A j \in Import, m \in Item : (j = i /\ m = n) \/ people'[j][m] = people[j][m]
        BY <1>1, <2>2
      <3> QED
        BY <2>2, <3>2, <3>3, <3>4
    <2> QED
      BY <1>4, <2>1, <2>2 DEF Added
  <1>7. /\ \A j \in Run \ {k} : Kept(j)
        /\ Active(k)' /\ InLoop(k)' /\ ~Entering(k)' /\ Open(k)' = {n}
    BY <1>5, OtherRuns DEF Active, InLoop, Entering, Open
  <1>8. /\ \A j \in Import, m \in Item : \A x \in people'[j][m] : x \in people[j][m] \/ (x = q /\ j = i /\ m = n)
        /\ \A j \in Import, m \in Item : \A x \in people[j][m] : x \in people'[j][m] \/ x = p
        /\ q \in people'[i][n]
        /\ \A j \in Import : Cleared(j)' <=> Cleared(j)
    BY <1>5, <1>6 DEF Cleared
  <1>9. UploadInv'
    <2>1. status[i] # "none"
      BY <1>1
    <2> QED
      BY <1>1, <1>5, <1>6, <2>1 DEF UploadInv
  <1>10. RefersInv'
    BY <1>0, <1>1, <1>5, <1>7 DEF RefersInv, Kept, Past
  <1>11. ItemsInv'
    <2>1. \A j \in Run \ {k} : InLoop(j) => job[j].import \in Import
      BY <1>1, LoopIsActive DEF RefersInv
    <2> QED
      BY <1>0, <1>1, <1>5, <1>7, <1>8, <2>1 DEF ItemsInv, Kept
  <1>12. PersonsInv'
    <2>1. (\A j \in Import, m \in Item : \A x \in people[j][m] :
            /\ job[x.run].at \notin {"unused", "find", "execute", "items"}
            /\ j = job[x.run].import => m \notin job[x.run].todo
            /\ job[x.run].at = "contexts" /\ j = job[x.run].import /\ m = job[x.run].item => x.contexts = {})'
      <3> SUFFICES ASSUME NEW j \in Import, NEW m \in Item, NEW x \in people'[j][m]
                   PROVE  /\ job'[x.run].at \notin {"unused", "find", "execute", "items"}
                          /\ j = job'[x.run].import => m \notin job'[x.run].todo
                          /\ job'[x.run].at = "contexts" /\ j = job'[x.run].import /\ m = job'[x.run].item
                                => x.contexts = {}
        OBVIOUS
      <3>1. CASE x = q /\ j = i /\ m = n
        BY <1>3, <1>5, <1>6, <3>1
      <3>2. CASE x \in people[j][m] /\ x.run # k
        BY <1>1, <1>5, <3>2, PersonRun DEF PersonsInv
      <3>3. CASE x \in people[j][m] /\ x.run = k
        BY <1>0, <1>1, <1>5, <3>3 DEF PersonsInv
      <3> QED
        BY <1>8, <3>1, <3>2, <3>3
    <2>2. \A j \in Run \ {k} : job[j].at \in {"contexts", "save"} => job[j].import \in Import /\ job[j].item \in Item
      BY <1>1 DEF ItemsInv, InLoop, Open, RefersInv, Active
    <2>3. (\A j \in Run : job[j].at = "contexts" => \E x \in people[job[j].import][job[j].item] : x.run = j)'
      <3>1. ASSUME NEW j \in Run \ {k}, job'[j].at = "contexts"
            PROVE  \E x \in people'[job'[j].import][job'[j].item] : x.run = j
        BY <1>1, <1>2, <1>5, <1>8, <2>2, <3>1 DEF PersonsInv
      <3> QED
        BY <1>5, <3>1
    <2>4. (\A j \in Run : job[j].at = "save" /\ job[j].result = "SUCCESS" =>
              \E x \in people[job[j].import][job[j].item] : x.contexts = Contexts)'
      <3>1. p.contexts # Contexts
        BY <1>3 DEF Contexts
      <3>2. ASSUME NEW j \in Run \ {k}, job'[j].at = "save", job'[j].result = "SUCCESS"
            PROVE  \E x \in people'[job'[j].import][job'[j].item] : x.contexts = Contexts
        BY <1>1, <1>5, <1>8, <2>2, <3>1, <3>2 DEF PersonsInv
      <3> QED
        BY <1>5, <1>6, <1>8, <3>2
    <2> QED
      BY <2>1, <2>3, <2>4 DEF PersonsInv
  <1>13. ASSUME ~overlapped PROVE OnlyOne' /\ OnePerson' /\ Fresh' /\ Outlook'
    <2>1. \A j \in Run \ {k} : ~Active(j) /\ ~Active(j)' /\ ~InLoop(j)' /\ ~Entering(j)'
      BY <1>1, <1>7, <1>13, OnlyRun DEF Kept
    <2>2. OnlyOne'
      BY <1>0, <1>1, <1>5, <1>7, <1>13, <2>1 DEF Facts, AloneInv, OnlyOne
    <2>3. OnePerson'
      <3>1. OnePerson /\ \A j \in Import : (Past(j)' <=> Past(j))
        BY <1>1, <1>5, <1>13 DEF Facts, AloneInv, Past
      <3>2. \A x \in people'[i][n] : x = q
        BY <1>1, <1>2, <1>6, <3>1 DEF OnePerson
      <3> QED
        BY <1>1, <1>5, <1>6, <3>1, <3>2 DEF OnePerson
    <2>4. Fresh'
      <3>1. \A m \in job[k].todo : people[i][m] = {} /\ m \in Item /\ m # n
        BY <1>0, <1>1, <1>3, <1>13 DEF Facts, AloneInv, Fresh
      <3>2. \A m \in job'[k].todo : people'[i][m] = {}
        BY <1>1, <1>5, <1>6, <3>1
      <3> QED
        BY <1>5, <1>7, <2>1, <3>2 DEF Fresh
    <2>5. Outlook'
      <3>1. Outlook
        BY <1>1, <1>13 DEF Facts, AloneInv
      <3> QED
        BY <1>0, <1>1, <1>5, <1>7, <1>8, <2>1, <3>1 DEF Outlook
    <2> QED
      BY <2>2, <2>3, <2>4, <2>5
  <1>14. ContextsAtChosenSchule' /\ ChosenRolle' /\ SuccessHasPerson'
    <2>1. ContextsAtChosenSchule'
      BY <1>1, <1>5, <1>6, <1>8 DEF Facts, ContextsAtChosenSchule
    <2>2. ChosenRolle'
      BY <1>1, <1>2, <1>5, <1>6, <1>8 DEF Facts, ChosenRolle
    <2>3. SuccessHasPerson'
      <3>1. p.contexts # Contexts
        BY <1>3 DEF Contexts
      <3> QED
        BY <1>1, <1>5, <1>8, <3>1 DEF Facts, SuccessHasPerson
    <2> QED
      BY <2>1, <2>2, <2>3
  <1> QED
    BY <1>1, <1>5, <1>9, <1>10, <1>11, <1>12, <1>13, <1>14, Frame DEF Facts, AloneInv

\* The result goes into the row.
LEMMA StoreItemKeeps ==
    ASSUME IInv, NEW k \in Run, SaveItem(k), job'[k].at = "loop"
    PROVE  Facts'
  <1>0. PICK i : i = job[k].import
    OBVIOUS
  <1>a. PICK n : n = job[k].item
    OBVIOUS
  <1>b. PICK r : r = job[k].result
    OBVIOUS
  <1>1. /\ Facts /\ TypeOK /\ UploadInv /\ RefersInv /\ ItemsInv /\ PersonsInv
        /\ Active(k) /\ InLoop(k) /\ ~Entering(k) /\ Open(k) = {n}
        /\ i \in Import /\ Past(i) /\ status[i] \in After
        /\ job[k].at = "save" /\ job \in [Run -> JobSet] /\ job[k].todo \in SUBSET Item
        /\ rows \in [Import -> [Item -> RowSet]]
    BY <1>0, <1>a, TypeFields, TypeElim
    DEF IInv, Facts, SaveItem, RefersInv, Active, InLoop, Entering, Open, JobSet
  <1>2. n \in Item /\ n \notin job[k].todo /\ r \in {"SUCCESS", "FAILED"}
    BY <1>b, <1>1 DEF ItemsInv
  <1>3. /\ rows' = [rows EXCEPT ![i][n] = IF @ = "none" THEN "none" ELSE r]
        /\ job' = [job EXCEPT ![k].at = "loop", ![k].item = "none", ![k].result = "PENDING",
                              ![k].caught = FALSE, ![k].succeeded = @ \/ job[k].result = "SUCCESS"]
        /\ UNCHANGED <<status, choice, people, uploading, executing, closing, queue, selected, overlapped>>
    <2>1. End(k) => job'[k].at = "ended"
      BY <1>1 DEF End, Ended, Unused
    <2>2. job' = [job EXCEPT ![k].result = "FAILED", ![k].caught = TRUE] => job'[k].at = "save"
      BY <1>1 DEF JobSet
    <2> QED
      BY <1>0, <1>a, <1>b, <2>1, <2>2 DEF SaveItem, requests, bus
  <1>4. /\ job'[k].todo = job[k].todo /\ job'[k].import = i
        /\ job'[k].succeeded <=> (job[k].succeeded \/ r = "SUCCESS")
        /\ \A j \in Run \ {k} : job'[j] = job[j]
    BY <1>0, <1>b, <1>1, <1>3 DEF JobSet
  <1>5. /\ \A j \in Run \ {k} : Kept(j)
        /\ Active(k)' /\ InLoop(k)' /\ ~Entering(k)' /\ Open(k)' = {}
    BY <1>4, OtherRuns DEF Active, InLoop, Entering, Open
  <1>6. /\ \A j \in Import, m \in Item : (j = i /\ m = n) \/ rows'[j][m] = rows[j][m]
        /\ rows'[i][n] = "none" <=> rows[i][n] = "none"
        /\ rows'[i][n] \in {"none", r}
    BY <1>1, <1>2, <1>3
  <1>7. /\ \A j \in Import, m \in Item : rows'[j][m] = "none" <=> rows[j][m] = "none"
        /\ \A j \in Import, m \in Item : rows'[j][m] = "PENDING" => rows[j][m] = "PENDING" /\ ~(j = i /\ m = n)
        /\ \A j \in Import : Cleared(j)' <=> Cleared(j)
    BY <1>2, <1>6 DEF Cleared
  <1>8. RefersInv'
    BY <1>0, <1>1, <1>3, <1>4, <1>5 DEF RefersInv, Kept, Past
  <1>9. ClosingInv'
    BY <1>1, <1>3, <1>7 DEF Facts, ClosingInv, Past
  <1>10. ItemsInv'
    <2>1. \A j \in Run \ {k} : InLoop(j) => job[j].import \in Import /\ job[j].todo \cup Open(j) \subseteq Item
      <3>1. \A j \in Run : job[j].todo \subseteq Item
        BY <1>1 DEF JobSet
      <3> QED
        BY <1>1, <3>1, LoopIsActive DEF RefersInv, ItemsInv
    <2>2. ASSUME NEW j \in Run \ {k}, InLoop(j)
          PROVE  /\ Open(j) \subseteq Item \ job[j].todo
                 /\ job[j].at = "save" => job[j].result \in {"SUCCESS", "FAILED"}
                 /\ \A m \in Item : rows'[job[j].import][m] = "PENDING" => m \in job[j].todo \cup Open(j)
                 /\ Cleared(job[j].import) \/ \A m \in job[j].todo \cup Open(j) : rows'[job[j].import][m] # "none"
      BY <1>1, <1>7, <2>1, <2>2 DEF ItemsInv
    <2>3. /\ \A m \in Item : rows'[i][m] = "PENDING" => m \in job[k].todo
          /\ Cleared(i) \/ \A m \in job[k].todo : rows'[i][m] # "none"
      BY <1>0, <1>1, <1>7 DEF ItemsInv
    <2>4. \A j \in Run \ {k} : ~InLoop(j) => ~job[j].succeeded
      BY <1>1 DEF ItemsInv
    <2>5. ASSUME NEW j \in Run PROVE
            /\ ~InLoop(j)' => ~job'[j].succeeded
            /\ InLoop(j)' =>
                /\ Open(j)' \subseteq Item \ job'[j].todo
                /\ job'[j].at = "save" => job'[j].result \in {"SUCCESS", "FAILED"}
                /\ \A m \in Item : rows'[job'[j].import][m] = "PENDING" => m \in job'[j].todo \cup Open(j)'
                /\ Cleared(job[j].import)' \/ \A m \in job'[j].todo \cup Open(j)' : rows'[job'[j].import][m] # "none"
      <3>1. CASE j = k
        <4>1. Cleared(job[k].import)' <=> Cleared(i)
          BY <1>1, <1>4, <1>7 DEF Cleared
        <4> QED
          BY <1>1, <1>4, <1>5, <1>7, <2>3, <3>1, <4>1
      <3>2. CASE j # k
        <4>1. /\ job'[j] = job[j] /\ Open(j)' = Open(j)
              /\ InLoop(j)' <=> InLoop(j)
          BY <1>5, <3>2 DEF Kept
        <4>2. InLoop(j) => (Cleared(job[j].import)' <=> Cleared(job[j].import))
          BY <1>7, <2>1, <3>2, <4>1 DEF Cleared
        <4> QED
          BY <2>2, <2>4, <3>2, <4>1, <4>2
      <3> QED
        BY <3>1, <3>2
    <2> QED
      BY <2>5 DEF ItemsInv
  <1>11. PersonsInv'
    <2>1. \A j \in Run : job'[j].at \in {"contexts", "save"} => j # k /\ job'[j] = job[j]
      BY <1>4
    <2>2. job'[k].at = "loop" /\ job[k].at = "save"
      BY <1>1
    <2>3. \A j \in Import, m \in Item : \A p \in people[j][m] :
            /\ job'[p.run].at \notin {"unused", "find", "execute", "items"}
            /\ j = job'[p.run].import => m \notin job'[p.run].todo
      BY <1>0, <1>1, <1>4, <2>2, PersonRun DEF PersonsInv
    <2>4. \A j \in Import, m \in Item : \A p \in people[j][m] :
            job'[p.run].at = "contexts" /\ j = job'[p.run].import /\ m = job'[p.run].item => p.contexts = {}
      BY <1>1, <2>1, PersonRun DEF PersonsInv
    <2> QED
      BY <1>1, <1>3, <2>1, <2>3, <2>4 DEF PersonsInv
  <1>12. ASSUME ~overlapped PROVE OnlyOne' /\ Fresh' /\ Outlook' /\ status[i] # "FINISHED"
    <2>1. \A j \in Run \ {k} : ~Active(j) /\ ~Active(j)' /\ ~InLoop(j)' /\ ~Entering(j)'
      BY <1>1, <1>5, <1>12, OnlyRun DEF Kept
    <2>2. OnlyOne'
      BY <1>0, <1>1, <1>3, <1>4, <1>5, <1>12, <2>1 DEF Facts, AloneInv, OnlyOne
    <2>3. Fresh'
      <3>1. \A m \in job[k].todo : people[i][m] = {}
        BY <1>0, <1>1, <1>12 DEF Facts, AloneInv, Fresh
      <3> QED
        BY <1>3, <1>4, <1>5, <2>1, <3>1 DEF Fresh
    <2>4. Outlook /\ status[i] # "FINISHED"
      BY <1>0, <1>1, <1>12 DEF Facts, AloneInv, Outlook
    <2>5. ASSUME job'[k].succeeded, ~Cleared(i)
          PROVE  \E m \in Item \ job[k].todo : rows'[i][m] = "SUCCESS"
      <3>1. CASE r = "SUCCESS"
        <4>1. rows[i][n] # "none"
          BY <1>0, <1>1, <2>5 DEF ItemsInv
        <4> QED
          BY <1>2, <1>6, <3>1, <4>1
      <3>2. CASE job[k].succeeded
        <4>1. PICK m \in Item \ (job[k].todo \cup Open(k)) : rows[i][m] = "SUCCESS"
          BY <1>0, <1>1, <2>4, <2>5, <3>2 DEF Outlook
        <4> QED
          BY <1>1, <1>6, <4>1
      <3> QED
        BY <1>4, <2>5, <3>1, <3>2
    <2>6. Outlook'
      <3>1. /\ \A j \in Run : Entering(j)' \/ InLoop(j)' => j = k
            /\ status'[job'[k].import] # "FINISHED"
        BY <1>3, <1>4, <2>1, <2>4
      <3>2. job'[k].succeeded =>
              \/ Cleared(job[k].import)'
              \/ \E m \in Item \ (job'[k].todo \cup Open(k)') : rows'[job'[k].import][m] = "SUCCESS"
        <4>1. Cleared(job[k].import)' <=> Cleared(i)
          BY <1>1, <1>4, <1>7 DEF Cleared
        <4> QED
          BY <1>1, <1>4, <1>5, <1>7, <2>5, <4>1
      <3> QED
        BY <3>1, <3>2 DEF Outlook
    <2> QED
      BY <2>2, <2>3, <2>4, <2>6
  <1>13. SuccessHasPerson'
    <2>1. r = "SUCCESS" => \E p \in people[i][n] : p.contexts = Contexts
      BY <1>0, <1>a, <1>b, <1>1 DEF PersonsInv
    <2> QED
      BY <1>1, <1>3, <1>6, <2>1 DEF Facts, SuccessHasPerson
  <1>14. FinishedIsDone' /\ CompletedIsCleared'
    <2>1. CompletedIsCleared'
      BY <1>1, <1>3, <1>7 DEF Facts, CompletedIsCleared
    <2>2. \A j \in Import : status[j] = "FINISHED" => \A m \in Item : rows'[j][m] # "PENDING"
      BY <1>1, <1>7 DEF Facts, FinishedIsDone
    <2>3. \A j \in Import : status[j] = "FINISHED" /\ ~overlapped /\ ~Cleared(j)' => \E m \in Item : rows'[j][m] = "SUCCESS"
      BY <1>1, <1>6, <1>7, <1>12 DEF Facts, FinishedIsDone
    <2> QED
      BY <1>3, <2>1, <2>2, <2>3 DEF FinishedIsDone
  <1> QED
    BY <1>1, <1>3, <1>8, <1>9, <1>10, <1>11, <1>12, <1>13, <1>14, Frame DEF Facts, AloneInv

\* The catch block will store FAILED.
LEMMA CatchKeeps ==
    ASSUME IInv, NEW k \in Run, job[k].at = "save", job' = [job EXCEPT ![k].result = "FAILED", ![k].caught = TRUE],
           UNCHANGED <<database, requests, bus, selected, overlapped>>
    PROVE  Facts'
  <1>1. /\ Facts /\ TypeOK /\ RefersInv /\ Active(k) /\ job \in [Run -> JobSet]
        /\ UNCHANGED <<status, choice, people, rows, uploading, executing, closing, queue, selected, overlapped>>
    BY TypeFields DEF IInv, Facts, Active, database, requests, bus
  <1>2. /\ job'[k].at = "save" /\ job'[k].import = job[k].import /\ job'[k].todo = job[k].todo
        /\ job'[k].item = job[k].item /\ job'[k].succeeded = job[k].succeeded /\ job'[k].result = "FAILED"
        /\ \A j \in Run \ {k} : job'[j] = job[j]
    BY <1>1 DEF JobSet
  <1>3. \A j \in Run : /\ job'[j].at = job[j].at /\ job'[j].import = job[j].import /\ job'[j].todo = job[j].todo
                       /\ job'[j].item = job[j].item /\ job'[j].succeeded = job[j].succeeded
                       /\ job'[j].result \in {job[j].result, "FAILED"}
    BY <1>2
  <1>4. \A j \in Run : /\ Active(j)' <=> Active(j)
                       /\ InLoop(j)' <=> InLoop(j)
                       /\ Entering(j)' <=> Entering(j)
    BY <1>3 DEF Active, InLoop, Entering
  <1>5. \A j \in Run : Open(j)' = Open(j)
    BY <1>3 DEF Open
  <1>6. RefersInv'
    BY <1>1, <1>3, <1>4 DEF RefersInv, Past
  <1>7. ItemsInv'
    BY <1>1, <1>3, <1>4, <1>5 DEF Facts, ItemsInv, Cleared
  <1>8. PersonsInv'
    BY <1>1, <1>3, PersonRun DEF Facts, PersonsInv
  <1>9. ASSUME ~overlapped PROVE OnlyOne' /\ Fresh' /\ Outlook'
    <2>1. OnlyOne'
      BY <1>1, <1>3, <1>4, <1>9 DEF Facts, AloneInv, OnlyOne
    <2>2. Fresh'
      BY <1>1, <1>3, <1>4, <1>9 DEF Facts, AloneInv, Fresh
    <2>3. Outlook'
      BY <1>1, <1>3, <1>4, <1>5, <1>9 DEF Facts, AloneInv, Outlook, Cleared
    <2> QED
      BY <2>1, <2>2, <2>3
  <1> QED
    BY <1>1, <1>6, <1>7, <1>8, <1>9, Frame DEF Facts, AloneInv

LEMMA SaveItemKeeps ==
    ASSUME IInv, NEW k \in Run, SaveItem(k)
    PROVE  Facts'
  <1>1. job \in [Run -> JobSet] /\ job[k].at = "save" /\ Active(k)
    BY TypeFields DEF IInv, SaveItem, Active
  <1>2. CASE End(k) /\ UNCHANGED rows
    BY <1>1, <1>2, EndKeeps DEF SaveItem
  <1>3. CASE job' = [job EXCEPT ![k].result = "FAILED", ![k].caught = TRUE] /\ UNCHANGED <<rows, bus>>
    BY <1>1, <1>3, CatchKeeps DEF SaveItem, database
  <1>4. CASE job' = [job EXCEPT ![k].at = "loop", ![k].item = "none", ![k].result = "PENDING",
                                ![k].caught = FALSE, ![k].succeeded = @ \/ job[k].result = "SUCCESS"]
    BY <1>1, <1>4, StoreItemKeeps DEF JobSet
  <1> QED
    BY <1>2, <1>3, <1>4 DEF SaveItem

LEMMA FinishKeeps ==
    ASSUME IInv, NEW k \in Run, Finish(k)
    PROVE  Facts'
  <1>1. Active(k)
    BY DEF Finish, Active
  <1> QED
    BY <1>1, EndKeeps DEF Finish

----------------------------------------------------------------------------
(* The theorems                                                            *)

LEMMA InitInv == Init => IInv
  <1> SUFFICES ASSUME Init PROVE IInv
    OBVIOUS
  <1>1. /\ \A k \in Run : job[k] = Unused /\ job[k].at = "unused" /\ ~job[k].succeeded
        /\ \A i \in Import : status[i] = "none" /\ closing[i] = NoClose /\ ~uploading[i].active
        /\ \A i \in Import, n \in Item : people[i][n] = {} /\ rows[i][n] = "none"
    BY DEF Init, Unused, NoUpload
  <1>2. TypeOK
    <2>1. /\ job \in [Run -> JobSet] /\ closing \in [Import -> CloseSet] /\ uploading \in [Import -> UploadSet]
      BY UnusedIsJob, NoCloseIsClose, NoUploadIsUpload DEF Init
    <2>2. used \in UsedSet
      BY BoundsAssumption DEF Init, UsedSet
    <2>3. /\ status \in [Import -> Status] /\ rows \in [Import -> [Item -> {"none", "PENDING", "SUCCESS", "FAILED"}]]
          /\ people \in [Import -> [Item -> SUBSET Person]]
      BY DEF Init, Status
    <2>4. /\ choice \in [Import -> Choice \cup {NoChoice}] /\ selected \in Choice \cup {NoChoice}
          /\ executing \subseteq Import
      BY DEF Init
    <2>5. queue \in Seq(Import) /\ current \in Run \cup {0}
      BY DEF Init
    <2>6. kafka \in BOOLEAN /\ overlapped \in BOOLEAN
      BY DEF Init
    <2> QED
      BY <2>1, <2>2, <2>3, <2>4, <2>5, <2>6 DEF TypeOK, JobSet, At, Results, CloseSet, UploadSet, UsedSet
  <1>3. CountInv
    <2>1. Started = {}
      BY <1>1 DEF Started
    <2> QED
      BY <2>1, FS_EmptySet DEF Init, CountInv, Waiting
  <1>4. UploadInv /\ ClosingInv /\ PersonsInv
    BY <1>1 DEF UploadInv, ClosingInv, PersonsInv, NoClose
  <1>5. RefersInv
    BY <1>1 DEF Init, RefersInv, Active
  <1>6. ItemsInv /\ AloneInv
    <2>1. \A k \in Run : ~Active(k) /\ ~InLoop(k) /\ ~Entering(k)
      BY <1>1 DEF Active, InLoop, Entering
    <2> QED
      BY <1>1, <2>1 DEF ItemsInv, AloneInv, OnlyOne, OnePerson, Fresh, Outlook
  <1>7. /\ ContextsAtChosenSchule /\ ChosenRolle /\ SuccessHasPerson
        /\ FinishedIsDone /\ CompletedIsCleared
    BY <1>1 DEF ContextsAtChosenSchule, ChosenRolle, SuccessHasPerson, FinishedIsDone, CompletedIsCleared
  <1> QED
    BY <1>2, <1>3, <1>4, <1>5, <1>6, <1>7 DEF IInv, Facts

LEMMA FactsStep == IInv /\ [Next]_vars => Facts'
  <1> SUFFICES ASSUME IInv, [Next]_vars PROVE Facts'
    OBVIOUS
  <1>1. CASE UNCHANGED vars
    <2>1. Facts /\ UNCHANGED <<status, choice, rows, people, uploading, executing, closing, queue, job, selected, overlapped>>
      BY <1>1 DEF IInv, vars, database, requests, bus
    <2> QED
      BY <2>1, Frame DEF Facts, AloneInv
  <1>2. ASSUME NEW i \in Import, CancelOrComplete(i) PROVE Facts'
    <2>1. PICK r : r = [at |-> "delete", read |-> status[i],
                        to |-> IF status[i] = "FINISHED" THEN "COMPLETED" ELSE "CANCELLED"]
      OBVIOUS
    <2>2. r \in CloseSet
      BY <2>1, TypeElim DEF IInv, CloseSet, Status
    <2> QED
      BY <1>2, <2>1, <2>2, AskKeeps DEF CancelOrComplete
  <1>3. ASSUME NEW i \in Import, Download(i) PROVE Facts'
    <2>1. PICK r : r = [at |-> "items", read |-> "FINISHED", to |-> "COMPLETED"]
      OBVIOUS
    <2>2. r \in CloseSet
      BY <2>1 DEF CloseSet, Status
    <2> QED
      BY <1>3, <2>1, <2>2, AskKeeps DEF Download
  <1> QED
    BY <1>1, <1>2, <1>3, UploadKeeps, CreateItemsKeeps, ValidateKeeps, ExecuteReadKeeps, PublishKeeps,
       ClosingStepKeeps, DeleteItemsKeeps, SaveClosedKeeps, DeliverKeeps, TimeOutKeeps, CrashKeeps,
       FindVorgangKeeps, SaveInProgressKeeps, ReadItemsKeeps, CreatePersonKeeps, AddContextsKeeps,
       SaveItemKeeps, FinishKeeps, Zenon
    DEF Next, UploadStep, Execution, CloseStep

\* The inductive invariant holds in every state of the import.
THEOREM ImportInvariant == Spec => []IInv
  <1>1. IInv /\ [Next]_vars => IInv'
    BY TypeStep, CountStep, FactsStep DEF IInv
  <1> QED
    BY InitInv, <1>1, PTL DEF Spec

\* Every variable of the import keeps its type; above all there is a place for
\* each execution, whatever is requested, redelivered or restarted.
THEOREM ImportTypes == Spec => []TypeOK
  BY ImportInvariant, PTL DEF IInv

\* What an execution stores lies at the school of its import, whichever
\* executions overlapped (ContextsAtChosenSchule).
THEOREM ImportAtChosenSchule == Spec => []ContextsAtChosenSchule
  BY ImportInvariant, PTL DEF IInv, Facts

\* Without overlap, persons get the Rolle of their import (ChosenRolle).
THEOREM ImportGivesChosenRolle == Spec => []ChosenRolle
  BY ImportInvariant, PTL DEF IInv, Facts

\* Without overlap, an item leads to one person at most (OnePersonPerItem).
THEOREM ImportOnePersonPerItem == Spec => []OnePersonPerItem
  <1>1. IInv => OnePersonPerItem
    <2> SUFFICES ASSUME IInv, ~overlapped, NEW i \in Import, NEW n \in Item
                 PROVE  Cardinality(people[i][n]) <= 1
      BY DEF OnePersonPerItem
    <2>1. \A p, q \in people[i][n] : p = q
      BY DEF IInv, Facts, AloneInv, OnePerson
    <2>2. CASE people[i][n] = {}
      BY <2>2, FS_EmptySet
    <2>3. ASSUME NEW p \in people[i][n] PROVE Cardinality(people[i][n]) <= 1
      <3>1. people[i][n] = {p}
        BY <2>1, <2>3
      <3> QED
        BY <3>1, FS_Singleton
    <2> QED
      BY <2>2, <2>3
  <1> QED
    BY <1>1, ImportInvariant, PTL

\* An item reported as SUCCESS has a complete person (SuccessHasPerson).
THEOREM ImportSuccessHasPerson == Spec => []SuccessHasPerson
  BY ImportInvariant, PTL DEF IInv, Facts

\* A FINISHED import is done with its items (FinishedIsDone).
THEOREM ImportFinishedIsDone == Spec => []FinishedIsDone
  BY ImportInvariant, PTL DEF IInv, Facts

\* A COMPLETED import keeps no items (CompletedIsCleared).
THEOREM ImportCompletedIsCleared == Spec => []CompletedIsCleared
  BY ImportInvariant, PTL DEF IInv, Facts

\* An executed or removed import never becomes VALID again (NeverValidAgain):
\* only the upload request makes an import VALID, and while it is under way
\* the import is STARTED or CANCELLED.
THEOREM ImportNeverValidAgain == Spec => NeverValidAgain
  <1> DEFINE Old == {"INPROGRESS", "FINISHED", "FAILED", "COMPLETED"}
  <1>1. ASSUME IInv, [Next]_vars, NEW i \in Import, status[i] \in Old PROVE status'[i] # "VALID"
    <2>0. TypeOK /\ UploadInv /\ ClosingInv /\ RefersInv /\ status \in [Import -> Status]
      BY <1>1, TypeElim DEF IInv, Facts
    <2>1. CASE UNCHANGED status
      BY <1>1, <2>1
    <2>2. ASSUME NEW j \in Import, status' = [status EXCEPT ![j] = "STARTED"] \/ SaveClosed(j) PROVE status'[i] # "VALID"
      BY <1>1, <2>0, <2>2 DEF SaveClosed, ClosingInv
    <2>3. ASSUME NEW j \in Import, Validate(j) PROVE status'[i] # "VALID"
      BY <1>1, <2>0, <2>3 DEF Validate, UploadInv
    <2>4. ASSUME NEW k \in Run, SaveInProgress(k) \/ Finish(k) PROVE status'[i] # "VALID"
      BY <1>1, <2>0, <2>4 DEF SaveInProgress, Finish, Outcome
    <2>5. ASSUME NEW j \in Import, NEW c \in Choice, Upload(j, c) PROVE status'[i] # "VALID"
      BY <2>2, <2>5 DEF Upload
    <2>6. ASSUME NEW j \in Import,
                 \/ \E batch \in SUBSET Item, invalid \in BOOLEAN : CreateItems(j, batch, invalid)
                 \/ ExecuteRead(j) \/ Publish(j) \/ CancelOrComplete(j) \/ Download(j)
                 \/ MakeFile(j) \/ DeleteItems(j) \/ CloseFails(j)
          PROVE  UNCHANGED status
      BY <2>6 DEF CreateItems, ExecuteRead, Publish, SaveUnchanged, CancelOrComplete, Download, Ask,
                  MakeFile, DeleteItems, CloseFails, database
    <2>7. ASSUME NEW k \in Run, \/ FindVorgang(k) \/ ReadItems(k) \/ AddContexts(k) \/ SaveItem(k) \/ TimeOut(k)
                                \/ \E n \in Item : CreatePerson(k, n)
          PROVE  UNCHANGED status
      BY <2>7 DEF FindVorgang, ReadItems, AddContexts, SaveItem, TimeOut, CreatePerson, database
    <2>8. CASE Deliver \/ Crash \/ UNCHANGED vars
      BY <2>1, <2>8 DEF Deliver, Crash, vars, database
    <2> QED
      BY <1>1, <2>1, <2>2, <2>3, <2>4, <2>5, <2>6, <2>7, <2>8, Zenon DEF Next, UploadStep, Execution, CloseStep
  <1>2. IInv /\ [Next]_vars =>
          [\A i \in Import : status[i] \in Old => status'[i] # "VALID"]_vars
    BY <1>1
  <1> QED
    BY <1>2, ImportInvariant, PTL DEF Spec, NeverValidAgain

=============================================================================
