-------------------------- MODULE ImportExecution --------------------------
(***************************************************************************)
(* The CSV import of users (src/modules/import): an administrator uploads  *)
(* a file for a school and a Rolle, executes the import and finally        *)
(* downloads or removes it.  The execution runs in the background, started *)
(* by an event; ImportEventHandler is one object for all executions and    *)
(* keeps the school and the Rolle of the newest one in its fields.         *)
(*                                                                         *)
(* Each action is one access to the database, with the computation up to   *)
(* the next one.  The EntityManager of a request or of an execution writes *)
(* what differs from what it loaded, and an update of a deleted row has no *)
(* effect.                                                                 *)
(***************************************************************************)
EXTENDS Integers, Sequences, FiniteSets

CONSTANTS
    Import,       \* import transactions
    Item,         \* lines of a file
    Schule, Rolle,
    MaxExecutes,  \* bound: requests to execute
    MaxClosings,  \* bound: requests to download or remove
    MaxTroubles   \* bound: failing calls, timeouts and restarts

ASSUME BoundsAssumption ==
    /\ MaxExecutes \in Nat
    /\ MaxClosings \in Nat
    /\ MaxTroubles \in Nat

VARIABLES
    kafka,      \* KAFKA.ENABLED: the event goes to Kafka or to the legacy bus
    status,     \* of each ImportVorgang, "none" before its upload
    choice,     \* the school and the Rolle of an import
    rows,       \* the status of the ImportDataItems, "none": no row
    people,     \* the persons created for an item
    uploading,  \* the upload request of an import
    executing,  \* execute requests between the check and the event
    closing,    \* the download or removal request of an import
    queue,      \* events in the topic that are not committed yet
    current,    \* the execution that the Kafka consumer awaits, 0: none
    job,        \* the executions, each with its local variables
    selected,   \* selectedOrganisationId and selectedRolleId of the handler
    used,       \* how much of each bound is used up
    overlapped  \* history: two executions were running at once

database == <<status, choice, rows, people>>
requests == <<uploading, executing, closing>>
bus      == <<kafka, queue, current>>
vars     == <<database, requests, bus, job, selected, used, overlapped>>

----------------------------------------------------------------------------

Status == {"none", "STARTED", "VALID", "INVALID", "INPROGRESS", "FINISHED", "FAILED",
           "COMPLETED", "CANCELLED"}

\* Enough for one execution per event and one per redelivery.
Run == 1..(MaxExecutes + MaxTroubles)

Choice   == [schule : Schule, rolle : Rolle]
Contexts == {"schule", "klasse"}

\* A person with its Personenkontexte: at a school, at the Klasse of the item,
\* or both, always with the same Rolle.
Person == [run : Run, contexts : SUBSET Contexts, schule : Schule, rolle : Rolle]

NoChoice == [schule |-> "none", rolle |-> "none"]
NoUpload == [active |-> FALSE, rest |-> {}, invalid |-> FALSE]
NoClose  == [at |-> "idle", read |-> "none", to |-> "none"]
Unused   == [at |-> "unused", import |-> "none", todo |-> {}, item |-> "none",
             result |-> "PENDING", caught |-> FALSE, succeeded |-> FALSE]
Ended    == [Unused EXCEPT !.at = "ended"]

TypeOK ==
    /\ kafka \in BOOLEAN
    /\ status \in [Import -> Status]
    /\ choice \in [Import -> Choice \cup {NoChoice}]
    /\ rows \in [Import -> [Item -> {"none", "PENDING", "SUCCESS", "FAILED"}]]
    /\ people \in [Import -> [Item -> SUBSET Person]]
    /\ uploading \in [Import -> [active : BOOLEAN, rest : SUBSET Item, invalid : BOOLEAN]]
    /\ executing \subseteq Import
    /\ closing \in [Import -> [at : {"idle", "items", "delete", "save"}, read : Status, to : Status]]
    /\ queue \in Seq(Import)
    /\ current \in Run \cup {0}
    /\ job \in [Run -> [at : {"unused", "find", "execute", "items", "loop", "contexts", "save", "ended"},
                        import : Import \cup {"none"}, todo : SUBSET Item, item : Item \cup {"none"},
                        result : {"PENDING", "SUCCESS", "FAILED"}, caught : BOOLEAN, succeeded : BOOLEAN]]
    /\ selected \in Choice \cup {NoChoice}
    /\ used \in [executes : 0..MaxExecutes, closings : 0..MaxClosings, troubles : 0..MaxTroubles]
    /\ overlapped \in BOOLEAN

Init ==
    /\ kafka \in BOOLEAN
    /\ status = [i \in Import |-> "none"]
    /\ choice = [i \in Import |-> NoChoice]
    /\ rows = [i \in Import |-> [n \in Item |-> "none"]]
    /\ people = [i \in Import |-> [n \in Item |-> {}]]
    /\ uploading = [i \in Import |-> NoUpload]
    /\ executing = {}
    /\ closing = [i \in Import |-> NoClose]
    /\ queue = <<>>
    /\ current = 0
    /\ job = [k \in Run |-> Unused]
    /\ selected = NoChoice
    /\ used = [executes |-> 0, closings |-> 0, troubles |-> 0]
    /\ overlapped = FALSE

----------------------------------------------------------------------------
(* validateImport                                                          *)

\* After its checks the upload stores the ImportVorgang.
Upload(i, c) ==
    /\ status[i] = "none"
    /\ status' = [status EXCEPT ![i] = "STARTED"]
    /\ choice' = [choice EXCEPT ![i] = c]
    /\ uploading' = [uploading EXCEPT ![i] = [active |-> TRUE, rest |-> Item, invalid |-> FALSE]]
    /\ UNCHANGED <<rows, people, executing, closing, bus, job, selected, used, overlapped>>

\* createAll for the next 50 lines; some of them may be invalid.
CreateItems(i, batch, invalid) ==
    /\ uploading[i].active
    /\ batch # {} /\ batch \subseteq uploading[i].rest
    /\ rows' = [rows EXCEPT ![i] = [n \in Item |-> IF n \in batch THEN "PENDING" ELSE @[n]]]
    /\ uploading' = [uploading EXCEPT ![i].rest = @ \ batch, ![i].invalid = @ \/ invalid]
    /\ UNCHANGED <<status, choice, people, executing, closing, bus, job, selected, used, overlapped>>

Validate(i) ==
    /\ uploading[i].active /\ uploading[i].rest = {}
    /\ status' = [status EXCEPT ![i] = IF uploading[i].invalid THEN "INVALID" ELSE "VALID"]
    /\ uploading' = [uploading EXCEPT ![i] = NoUpload]
    /\ UNCHANGED <<choice, rows, people, executing, closing, bus, job, selected, used, overlapped>>

----------------------------------------------------------------------------
(* Executions: start and end                                               *)

Active(k) == job[k].at \notin {"unused", "ended"}

NextRun == CHOOSE k \in Run : job[k].at = "unused" /\ \A j \in Run : job[j].at = "unused" => k <= j

\* Mutant: the Rolle is not taken from the event.
Select_OnlySchule(i) == IF selected = NoChoice THEN choice[i] ELSE [selected EXCEPT !.schule = choice[i].schule]

\* What handleExecuteImport stores in its fields.
Select(i) == choice[i]

\* handleExecuteImport is called for import i: up to its first await it sets
\* the fields and asks for the Klassen of the school.
Start(i) ==
    /\ selected' = Select(i)
    /\ job' = [job EXCEPT ![NextRun] = [Unused EXCEPT !.at = "find", !.import = i]]
    /\ overlapped' = (overlapped \/ \E k \in Run : Active(k))

\* Execution k is over, normally or by an exception; the consumer commits.
End(k) ==
    /\ job' = [job EXCEPT ![k] = Ended]
    /\ current' = IF current = k THEN 0 ELSE current
    /\ queue' = IF current = k THEN Tail(queue) ELSE queue
    /\ UNCHANGED kafka

\* A call fails, the event bus gives up or the application restarts.
Trouble ==
    /\ used.troubles < MaxTroubles
    /\ used' = [used EXCEPT !.troubles = @ + 1]

----------------------------------------------------------------------------
(* executeImport                                                           *)

\* The check of the status.  The save of the unchanged ImportVorgang that
\* follows writes nothing.
ExecuteRead(i) ==
    /\ status[i] = "VALID"
    /\ i \notin executing
    /\ used.executes < MaxExecutes
    /\ used' = [used EXCEPT !.executes = @ + 1]
    /\ executing' = executing \cup {i}
    /\ UNCHANGED <<database, uploading, closing, bus, job, selected, overlapped>>

\* Mutant: the save writes back the status that was read.
SaveUnchanged_WritesBack(i) == status' = [status EXCEPT ![i] = "VALID"]

SaveUnchanged(i) == UNCHANGED status

\* EventRoutingLegacyKafkaService.publish: the send to Kafka is not awaited and
\* may fail; the legacy bus calls the handler at once.
Publish(i) ==
    /\ i \in executing
    /\ executing' = executing \ {i}
    /\ SaveUnchanged(i)
    /\ \/ /\ kafka
          /\ \/ queue' = Append(queue, i) /\ UNCHANGED used
             \/ Trouble /\ UNCHANGED queue
          /\ UNCHANGED <<job, selected, overlapped>>
       \/ /\ ~kafka
          /\ Start(i)
          /\ UNCHANGED <<queue, used>>
    /\ UNCHANGED <<choice, rows, people, uploading, closing, kafka, current>>

\* The consumer delivers the oldest event that is not committed.
Deliver ==
    /\ queue # <<>> /\ current = 0
    /\ current' = NextRun
    /\ Start(Head(queue))
    /\ UNCHANGED <<database, requests, kafka, queue, used>>

\* The event bus gives execution k up, which goes on nevertheless.
TimeOut(k) ==
    /\ current = k
    /\ Trouble
    /\ current' = 0
    /\ queue' = Tail(queue)
    /\ UNCHANGED <<database, requests, kafka, job, selected, overlapped>>

----------------------------------------------------------------------------
(* handleExecuteImport                                                     *)

\* Mutant: an interrupted import is taken up again.
MayExecute_Resumes(i) == status[i] \in {"VALID", "INPROGRESS"}

MayExecute(i) == status[i] = "VALID"

FindVorgang(k) ==
    /\ job[k].at = "find"
    /\ \/ /\ MayExecute(job[k].import)
          /\ job' = [job EXCEPT ![k].at = "execute"]
          /\ UNCHANGED bus
       \/ /\ ~MayExecute(job[k].import)
          /\ End(k)
    /\ UNCHANGED <<database, requests, selected, used, overlapped>>

SaveInProgress(k) ==
    /\ job[k].at = "execute"
    /\ status' = [status EXCEPT ![job[k].import] = "INPROGRESS"]
    /\ job' = [job EXCEPT ![k].at = "items"]
    /\ UNCHANGED <<choice, rows, people, requests, bus, selected, used, overlapped>>

\* Without items the import stays INPROGRESS.  Loading the permissions of the
\* importer comes next and may fail.
ReadItems(k) ==
    LET found == {n \in Item : rows[job[k].import][n] # "none"}
    IN  /\ job[k].at = "items"
        /\ \/ /\ found # {}
              /\ job' = [job EXCEPT ![k].at = "loop", ![k].todo = found]
              /\ UNCHANGED <<bus, used>>
           \/ /\ found = {}
              /\ End(k)
              /\ UNCHANGED used
           \/ /\ found # {}
              /\ Trouble
              /\ End(k)
        /\ UNCHANGED <<database, requests, selected, overlapped>>

\* The next item, with a keepAlive.  The school and the Rolle of the new person
\* come from the fields of the handler; without a Klasse, or if the person is
\* refused, no person is created.
CreatePerson(k, n) ==
    LET i == job[k].import
        p == [run |-> k, contexts |-> {}, schule |-> selected.schule, rolle |-> selected.rolle]
    IN  /\ job[k].at = "loop" /\ n \in job[k].todo
        /\ \/ /\ people' = [people EXCEPT ![i][n] = @ \cup {p}]
              /\ job' = [job EXCEPT ![k].at = "contexts", ![k].todo = @ \ {n}, ![k].item = n]
              /\ UNCHANGED used
           \/ /\ Trouble
              /\ job' = [job EXCEPT ![k].at = "save", ![k].todo = @ \ {n}, ![k].item = n,
                                    ![k].result = "FAILED"]
              /\ UNCHANGED people
        /\ UNCHANGED <<status, choice, rows, requests, bus, selected, overlapped>>

\* Mutant: the school and the Klasse of a LERN-Rolle need not match.
Matches_Anything(i, p) == TRUE

\* LernAnSchuleUndKlasse: the Klasse was looked up below the school of the import.
Matches(i, p) == p.schule = choice[i].schule

\* Mutant: the number of stored contexts is not compared.
Accepted_Partly(added) == TRUE

Accepted(added) == added = Contexts

\* PersonenkontexteUpdate for the new person.  Each context may fail to be
\* stored, and a complete person may lack its start password; the person stays.
AddContexts(k) ==
    LET i == job[k].import
        n == job[k].item
        p == CHOOSE q \in people[i][n] : q.run = k
        Store(added) == people' = [people EXCEPT ![i][n] = (@ \ {p}) \cup {[p EXCEPT !.contexts = added]}]
        Result(ok) == job' = [job EXCEPT ![k].at = "save", ![k].result = IF ok THEN "SUCCESS" ELSE "FAILED"]
    IN  /\ job[k].at = "contexts"
        /\ \/ ~Matches(i, p) /\ Result(FALSE) /\ UNCHANGED <<people, used>>
           \/ Matches(i, p) /\ Store(Contexts) /\ Result(TRUE) /\ UNCHANGED used
           \/ \E added \in (SUBSET Contexts) \ {Contexts} :
                 Matches(i, p) /\ Store(added) /\ Result(Accepted(added)) /\ Trouble
           \/ Matches(i, p) /\ Store(Contexts) /\ Result(FALSE) /\ Trouble
        /\ UNCHANGED <<status, choice, rows, requests, bus, selected, overlapped>>

\* The result goes into the row, if it still exists.  If this fails, the catch
\* block stores FAILED; if that fails too, the execution ends with the exception.
SaveItem(k) ==
    LET i == job[k].import
        n == job[k].item
    IN  /\ job[k].at = "save"
        /\ \/ /\ rows' = [rows EXCEPT ![i][n] = IF @ = "none" THEN "none" ELSE job[k].result]
              /\ job' = [job EXCEPT ![k].at = "loop", ![k].item = "none", ![k].result = "PENDING",
                                    ![k].caught = FALSE,
                                    ![k].succeeded = @ \/ job[k].result = "SUCCESS"]
              /\ UNCHANGED <<bus, used>>
           \/ /\ ~job[k].caught
              /\ Trouble
              /\ job' = [job EXCEPT ![k].result = "FAILED", ![k].caught = TRUE]
              /\ UNCHANGED <<rows, bus>>
           \/ /\ job[k].caught
              /\ Trouble
              /\ End(k)
              /\ UNCHANGED rows
        /\ UNCHANGED <<status, choice, people, requests, selected, overlapped>>

\* Mutant: the status of an item is stored for the import.
Outcome_ItemStatus(k) == IF job[k].succeeded THEN "SUCCESS" ELSE "FAILED"

\* Mutant: an import with failed items only counts as finished.
Outcome_AlwaysFinished(k) == "FINISHED"

Outcome(k) == IF job[k].succeeded THEN "FINISHED" ELSE "FAILED"

\* Mutant: finish() is called and the ImportVorgang is not saved.
Finish_NotSaved(k) ==
    /\ job[k].at = "loop" /\ job[k].todo = {}
    /\ End(k)
    /\ UNCHANGED <<database, requests, selected, used, overlapped>>

\* After the last item the import is finished or failed.
Finish(k) ==
    /\ job[k].at = "loop" /\ job[k].todo = {}
    /\ \/ status' = [status EXCEPT ![job[k].import] = Outcome(k)] /\ UNCHANGED used
       \/ Trouble /\ UNCHANGED status
    /\ End(k)
    /\ UNCHANGED <<choice, rows, people, requests, selected, overlapped>>

----------------------------------------------------------------------------
(* downloadFile and cancelOrCompleteImport                                 *)

Ask(i, request) ==
    /\ closing[i] = NoClose
    /\ used.closings < MaxClosings
    /\ used' = [used EXCEPT !.closings = @ + 1]
    /\ closing' = [closing EXCEPT ![i] = request]
    /\ UNCHANGED <<database, uploading, executing, bus, job, selected, overlapped>>

\* cancelOrCompleteImport reads the status that decides on its result.
CancelOrComplete(i) ==
    /\ status[i] # "none"
    /\ Ask(i, [at |-> "delete", read |-> status[i],
               to |-> IF status[i] = "FINISHED" THEN "COMPLETED" ELSE "CANCELLED"])

Download(i) ==
    /\ status[i] = "FINISHED"
    /\ Ask(i, [at |-> "items", read |-> "FINISHED", to |-> "COMPLETED"])

Cleared(i) == \A n \in Item : rows[i][n] = "none"

\* The file is made from the items; without items nothing happens, and if the
\* file cannot be made the import becomes FAILED.
MakeFile(i) ==
    /\ closing[i].at = "items"
    /\ \/ /\ Cleared(i)
          /\ closing' = [closing EXCEPT ![i] = NoClose]
          /\ UNCHANGED used
       \/ /\ ~Cleared(i)
          /\ \/ closing' = [closing EXCEPT ![i].at = "delete"] /\ UNCHANGED used
             \/ closing' = [closing EXCEPT ![i].at = "save", ![i].to = "FAILED"] /\ Trouble
    /\ UNCHANGED <<database, uploading, executing, bus, job, selected, overlapped>>

\* Mutant: only the items that failed are deleted.
DeleteAll_OnlyFailed(i) == [n \in Item |-> IF rows[i][n] = "SUCCESS" THEN "SUCCESS" ELSE "none"]

\* deleteByImportVorgangId
DeleteAll(i) == [n \in Item |-> "none"]

DeleteItems(i) ==
    /\ closing[i].at = "delete"
    /\ rows' = [rows EXCEPT ![i] = DeleteAll(i)]
    /\ closing' = [closing EXCEPT ![i].at = "save"]
    /\ UNCHANGED <<status, choice, people, uploading, executing, bus, job, selected, used, overlapped>>

\* The save of the new status writes it if it differs from the one that was read.
SaveClosed(i) ==
    /\ closing[i].at = "save"
    /\ status' = IF closing[i].to = closing[i].read THEN status ELSE [status EXCEPT ![i] = closing[i].to]
    /\ closing' = [closing EXCEPT ![i] = NoClose]
    /\ UNCHANGED <<choice, rows, people, uploading, executing, bus, job, selected, used, overlapped>>

\* A database error ends the request.
CloseFails(i) ==
    /\ closing[i].at \in {"delete", "save"}
    /\ Trouble
    /\ closing' = [closing EXCEPT ![i] = NoClose]
    /\ UNCHANGED <<database, uploading, executing, bus, job, selected, overlapped>>

----------------------------------------------------------------------------

\* A restart loses requests and executions; uncommitted events stay in the topic.
Crash ==
    /\ Trouble
    /\ uploading' = [i \in Import |-> NoUpload]
    /\ executing' = {}
    /\ closing' = [i \in Import |-> NoClose]
    /\ current' = 0
    /\ job' = [k \in Run |-> IF Active(k) THEN Ended ELSE job[k]]
    /\ selected' = NoChoice
    /\ UNCHANGED <<database, kafka, queue, overlapped>>

UploadStep(i) ==
    \/ \E batch \in SUBSET Item, invalid \in BOOLEAN : CreateItems(i, batch, invalid)
    \/ Validate(i)

Execution(k) ==
    \/ FindVorgang(k) \/ SaveInProgress(k) \/ ReadItems(k)
    \/ \E n \in Item : CreatePerson(k, n)
    \/ AddContexts(k) \/ SaveItem(k) \/ Finish(k)

CloseStep(i) == MakeFile(i) \/ DeleteItems(i) \/ SaveClosed(i)

Next ==
    \/ \E i \in Import, c \in Choice : Upload(i, c)
    \/ \E i \in Import : \/ UploadStep(i)
                         \/ ExecuteRead(i)
                         \/ Publish(i)
                         \/ CancelOrComplete(i)
                         \/ Download(i)
                         \/ CloseStep(i)
                         \/ CloseFails(i)
    \/ Deliver
    \/ \E k \in Run : Execution(k) \/ TimeOut(k)
    \/ Crash

Spec == Init /\ [][Next]_vars

\* Requests and executions are chains of awaits on the database, which answers
\* or fails, and the consumer goes on.  Users need not act.
Fairness ==
    /\ \A i \in Import : WF_vars(UploadStep(i)) /\ WF_vars(Publish(i)) /\ WF_vars(CloseStep(i))
    /\ \A k \in Run : WF_vars(Execution(k))
    /\ WF_vars(Deliver)

FairSpec == Spec /\ Fairness

----------------------------------------------------------------------------
(* Properties                                                              *)

\* Every Personenkontext that an execution stores lies at the school of its
\* import, although the school is read from a field that a later execution
\* may have changed (import-event-handler.ts:143): the check of school and
\* Klasse refuses the mixture.
ContextsAtChosenSchule ==
    \A i \in Import, n \in Item : \A p \in people[i][n] :
        p.contexts # {} => p.schule = choice[i].schule

\* As long as executions do not overlap, persons get the Rolle of their
\* import, whatever was executed, interrupted or redelivered before.
ChosenRolle ==
    ~overlapped =>
        \A i \in Import, n \in Item : \A p \in people[i][n] : p.rolle = choice[i].rolle

\* As long as executions do not overlap, no item leads to two persons, even
\* if the import is executed twice or its event redelivered after a restart.
OnePersonPerItem ==
    ~overlapped => \A i \in Import, n \in Item : Cardinality(people[i][n]) <= 1

\* An item reported as SUCCESS has a person with both contexts, written by
\* an execution that knows its password.
SuccessHasPerson ==
    \A i \in Import, n \in Item :
        rows[i][n] = "SUCCESS" => \E p \in people[i][n] : p.contexts = Contexts

\* A FINISHED import has no item left to process, and if its items were not
\* removed, one of them succeeded (unless executions overlapped).
FinishedIsDone ==
    \A i \in Import : status[i] = "FINISHED" =>
        /\ \A n \in Item : rows[i][n] # "PENDING"
        /\ ~overlapped /\ ~Cleared(i)
              => \E n \in Item : rows[i][n] = "SUCCESS"

\* COMPLETED imports keep no items, and with them no passwords.
CompletedIsCleared == \A i \in Import : status[i] = "COMPLETED" => Cleared(i)

\* Once executed, an import never becomes VALID again: nothing that runs
\* beside the execution brings the old status back.
NeverValidAgain ==
    [][\A i \in Import : status[i] \in {"INPROGRESS", "FINISHED", "FAILED", "COMPLETED"}
                            => status'[i] # "VALID"]_vars

Undisturbed == used.troubles = 0 /\ ~overlapped

\* An execution that nothing disturbs comes to an end unless its items are
\* removed.  (If they are removed between the check of the status and the save
\* of INPROGRESS, the import stays INPROGRESS without items.)
ExecutionEnds ==
    [](Undisturbed) => \A i \in Import :
        status[i] = "INPROGRESS" ~> (status[i] # "INPROGRESS" \/ Cleared(i))

============================================================================
