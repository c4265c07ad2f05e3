# Verification of the dBildungs IAM server

TLA+ models of the dBildungs IAM server (identity and access management for the schools of
Schleswig-Holstein), checked with TLC and, where a statement matters for every instance, proved with
TLAPS. All definitions are translated from the code under `src/`; `PROJECT.json` maps each of
them to the lines it models (paths there start with `src/`, the root of the repository).

## 1. The system

A NestJS backend (`src/modules`, `src/core`), a separate e-mail microservice (`src/email`) and
console tools. State lives in PostgreSQL (MikroORM), in Keycloak, in the LDAP directories, in OX
(groupware), in itslearning, and for a short time in Kafka topics. HTTP requests and cron jobs change
the database; the changes are announced as events, and event handlers bring the other systems in
line. There are almost no transactions across two rows and none across two systems. What keeps the
parts consistent is the order of steps, retries, statuses and dates that cron jobs pick up.

```
 HTTP / cron ──> services ──> PostgreSQL
                    │
                    └─ publish ──> legacy bus (in process)  or  Kafka ──> event handlers
                                                                             │
        Keycloak, LDAP, OX, itslearning, privacyIDEA <───────────────────────┤
                                                                             │ HTTP
                 e-mail microservice <───────────────────────────────────────┘
                    ├── its database, OX, LDAP, UNDI
                    └── webhook ──> backend
```

### Inventory

| Component | State | Operations | Interacts with | Hard part | Correct when |
|---|---|---|---|---|---|
| Kafka event bus (`core/eventbus`) | topic, offset, handler map, timers | start, publish, deliver, keepAlive, time out, dead letter, commit | every publisher and handler | a timeout does not stop a handler; swallowed errors; sends without a timeout; redelivery; start order | no event is lost without a trace; heartbeats in time while handlers run |
| Legacy bus, routing | subscriptions | publish, subscribe | the same | handlers are not awaited | handlers of one person do not undo each other |
| E-mail addresses (`email/modules/core`) | rows with priority, status, date | set, suspend, delete, cron | OX, LDAP, UNDI, webhook | four systems, retries, thrown errors that are swallowed, restarts, jobs side by side | ACTIVE means that all systems agree; nothing is orphaned |
| OX/LDAP/UNDI adapters | none | create, change, delete, exists | external systems | lost answers, inner retries | calls are repeatable |
| Webhook | none | notify | backend | retries overtake | the last one wins |
| E-mail event handler | none | one per event | event bus, e-mail service | snapshots in events combined with fresh reads | the last event determines the address |
| Import | import and its items | upload, execute, cancel, complete | event bus, persons, contexts | background execution, redelivery, shared fields of the handler | every import ends; items go to the chosen organisation |
| Personenkontexte | contexts of a person, `orgUnassignmentDate` | create, update, remove, expire | events, cron | optimistic check without a transaction | an update starts from what its client saw; no mixed Rollenarten; the date says whether there are contexts |
| Persons | person | create, rename, delete, delete after a deadline | Keycloak, events | partial failure, stale lists | the deadline hits persons without contexts; the other systems forget the deleted |
| User locks | lock rows, `enabled` in Keycloak | lock, unlock, expire | cron, events | read-then-write in two systems | enabled iff no lock |
| Cron endpoints | none | one per deadline | all of the above | stale lists, other users at the same time | only overdue things change |
| VIDIS sync | Angebote, Rollenerweiterungen | nightly, in pages of schools, or one school | service providers | creations, removals and renamings of a page of schools run side by side and share a flush | a school ends up with the offers that VIDIS reports |
| Rollenerweiterung | rows | apply changes | Rollen, service providers | what is checked and what is written are different queries | each is admitted by its Angebot |
| LDAP/OX/itslearning of the backend | none | one per event | event bus | order and loss of events | mirror of the database |
| Organisations | tree, version of a row | create, replace, rename, move, enable, delete | specifications, Rollen, contexts | checks without transactions and foreign keys | a tree; every parent exists; unique names; no lost update |
| Service providers, Rollen | rows, Merkmal, whitelist | CRUD | VIDIS, Rollenerweiterungen | a narrower Angebot must fit the Rollen and Rollenerweiterungen that have it | a whitelist never forbids what a Rolle has |
| Authentication, permissions, Schulconnex, Meldung, status, health, console | — | reads, trivial CRUD | — | — | not planned |

## 2. Modules

| Module | Content |
|---|---|
| `KafkaEventBus` | start-up, publishing, delivery, timers, dead letters, commit, restart |
| `KafkaEventBusProofs` | its inductive invariant and seven theorems |
| `EmailPriorities` | what `shiftPriorities` does to the priorities, as one step (operators only) |
| `ShiftPriorities` | the loop of `shiftPriorities`, step by step |
| `ShiftPrioritiesProofs` | its inductive invariant and five theorems |
| `EmailAddresses` | the e-mail microservice for one person; uses `EmailPriorities` for its shifts |
| `EmailAddressesProofs` | its inductive invariant in six layers and nine theorems |
| `ImportExecution` | the CSV import of users from the upload to its removal, on either event bus |
| `ImportExecutionProofs` | its inductive invariant and nine theorems |
| `Personenkontexte` | the contexts of one person and `orgUnassignmentDate`: updates, cron jobs, removals and deletions side by side |
| `PersonenkontexteProofs` | its inductive invariant and four theorems; the inductive invariant of `PersonMirrors` and three theorems |
| `PersonMirrors` | extends `Personenkontexte`: the events of those requests, Kafka, and what LDAP, itslearning and the e-mail microservice make of them |
| `LockedAccount` | abstract: an account is open exactly while there is no occasion to lock it |
| `UserLocks` | the rows of `user_lock` and the account in Keycloak, step by step; implements `LockedAccount` |
| `UserLocksProofs` | its inductive invariants and four theorems, the refinement among them |
| `Organisationen` | the tree of organisations under requests that run side by side |
| `OrganisationenProofs` | its two inductive invariants and five theorems |
| `Angebote` | service providers, Rollen and Rollenerweiterungen: the synchronisation with VIDIS beside changes by hand |
| `AngeboteProofs` | its inductive invariant and three theorems |
| `MC*` | instances for TLC (symmetry sets), each with one or more `.cfg` |

`ShiftPriorities` is to `EmailPriorities` what an implementation is to its specification: the run
`shift_priorities` checks, and `ShiftComputes` proves for every instance, that the loop ends in one of the results that
`Shifts` allows (`ComputesShift`), and `EmailAddresses` then uses `Shifts` as an atomic step, which is justified
because the code runs the loop in a database transaction.

### KafkaEventBus

One consumer, one partition, one event class with the handlers `Handler`.

- `boot`, `consuming`, `producing`: how far `onModuleInit` has come. `StartConsumer` is
  `consumer.run`, `ConnectProducer` the `producer.connect` after it, `RegisterHandlers` the
  registration in `onApplicationBootstrap` (`event.module.ts`), which Nest runs after every
  `onModuleInit`. Errors are logged, so each step may leave its part unconnected.
- `log`, `committed`, `dlq`: the broker. They survive `Crash`.
- `cur`, `stage`, `outcome`, `left`, `keepAlives`, `sinceBeat`: the delivery that `eachMessage` works
  on. `outcome[h]` is the promise of `runWithTimoutAndKeepAlive`, `left[h]` its timer.
- `running`: the invocations whose code executes. A timer settles the promise (`TimerFires`) and leaves
  the invocation in `running`; it may return at any later time (`HandlerReturns`), also during the
  next message, and then changes nothing (`completed`, operator `Settle`).
- `crashes`, `refusals`: how often a restart or a refused commit led to another delivery.
- `deliveries`, `done`, `dlqLost`, `unhandled`: history variables that no action reads.

Time is counted in ticks; `left` of a pending invocation bounds it from above, as the
timers do (`Tick` waits for a due timer). Nothing bounds the send of a dead letter (line 205 has no timeout): any number of
ticks may pass in it. The 2500 ms that line 264 keeps back are for the heartbeat and the commit, as its comment says. `sinceBeat` stops at
`SessionTimeout`, when the broker may have removed the consumer from its group; the heartbeat or the commit that follows is then
refused and the message is delivered again (`CommitRefused`), or it is accepted all the same (`Commit`).

`FirstFailure` counts every error. The code counts a failed result only if its `error` is an `Error`
(line 185); the handlers reject and return `Error`s only (`DomainError` extends `Error`).

### EmailAddresses

The rows of one person, their OX user, LDAP entry and UNDI entry. The controller answers a
request at once and runs the service in the background; `job[j]` holds the position and the local
variables of such a background job. Each step of a job is one access to the database (a transaction,
a query or a save) or one external call, with the computation up to the next one:

| Kind | Steps |
|---|---|
| set | `CheckPending`, then per attempt `Choose`, `Insert`, `Reread`, `ShiftBack`, `Pend`/`KeepPrimary`, `ShiftToFront`, `Ensure`, `ChangeOxUser`/`CreateOxUser`, `SaveOx`, `UpsertLdap`, `UpsertUndi`, `Activate`, `ActivateAlternative`; on a failure `SaveFailure` and the next attempt (`Retry`) |
| suspend | `SuspendRead`, `SuspendSave`, `SuspendOx`, `SuspendUndi` |
| delete | `DeleteRead`, `DeleteMark`, `DeleteOxUser`, `DeleteLdapPerson`, `DeleteUndiPerson`, `DeleteRows` |
| cron | `Purge`, `CronRead`, then the steps of delete, or `CronMark`, `CronOx`, `CronLdap`, `CronDelete` |

An external call (`Outcome`, `Calls`) succeeds, fails without effect, or takes effect and is
reported as failed. The latter also stands for an UNDI entry that was changed before its groups could not be,
and for inner retries of the adapters that fail after a success. For OX there is in addition a
taken address (`EXISTS_ONLY_IN_OX`) and a failing group update, which the code ignores.

An address is a name and the number that makes it unique; `Matching` ignores the number as
`isEqualIgnoreCount` does. A row keeps its newest status. `save` of an existing aggregate assigns all
fields and fails if the row is gone (`Saved`).

Any access to the database may throw, in any step of any job (`Throw`). The loop of `createOrUpdateEmailWithRetries` catches the error (lines
156-161), saves no `FAILED` and begins the next attempt (`AttemptSteps`, `Retry`), which reads the rows as the interrupted one has left them; after
the last attempt, or in any other job, the job ends. `Crash` is the same for all jobs at once, without a next attempt. Of a step that saves or deletes several rows beside each
other (`Promise.all`) any part may have been done, and of one save all or nothing (`Interrupted`); a shift and the ensure step are transactions.

`last`, `recorded`, `partial` and `leftovers` are history variables that no action reads: the last request and its outcome, the OX counters that
were saved, whether one was saved while another row had none, and what interrupted steps may have left unfinished (`Unfinished`):
`front`, no row at priority 0 or 1; `pending`, an address that stays PENDING; `active`, an ACTIVE one behind priority 1.

### ImportExecution

`status`, `choice`, `rows` and `people` are the database: the import, its school and Rolle, the status of
its items, and the persons that were created for an item with the contexts they have. `uploading[i]`,
`executing` and `closing[i]` are the HTTP requests in work; `job[k]` is one call of
`ImportEventHandler.handleExecuteImport` with its local variables. There is one handler object for all calls:
its fields `selectedOrganisationId` and `selectedRolleId` are the variable `selected`, which every call sets
(`Start`) and every new person reads (`CreatePerson`).

| Operation | Actions |
|---|---|
| `validateImport` | `Upload`, `CreateItems` per batch, `Validate` |
| `executeImport` | `ExecuteRead`, `Publish` |
| bus | `Publish` (legacy: the handler runs at once), `Deliver`, `TimeOut`, `Crash` |
| `handleExecuteImport` | `Start`, `FindVorgang`, `SaveInProgress`, `ReadItems`, per item `CreatePerson`, `AddContexts`, `SaveItem`, then `Finish` |
| `downloadFile`, `cancelOrCompleteImport` | `CancelOrComplete`/`Download`, `MakeFile`, `DeleteItems`, `SaveClosed`, `CloseFails` |

`kafka` is chosen in `Init`. With Kafka, the event stays in `queue` until the call returns or the bus gives
up (`TimeOut`), and a restart delivers it again; `KafkaEventBus` models this in detail, and here a lost
event is a failing `Publish`. Without Kafka nobody waits for the handler.

Each request and each call works on an EntityManager of its own, which writes what differs from what it loaded.
So `executeImport`, which saves an import it did not change, writes nothing; the update of a
deleted row has no effect; and a status is written only if it differs from the one read
(`SaveClosed`). This is how MikroORM behaves and not code of the repository.

The Klasse is looked up below the school of the event, the school of a new person in the field. If another execution
has changed the field, `LernAnSchuleUndKlasse` refuses the pair, and the person stays without contexts (`Matches`).

### Personenkontexte

`person`, `rows` and `unassigned` (`orgUnassignmentDate`: not set, recent, or 90 days old) are the database, `job[j]`
a request or cron job with its local variables, `event` what the last step published.

| Operation | Actions |
|---|---|
| `commit` of a client, of `createPersonWithPersonenkontexte`, of `kontext-expired` | `View`, `Create` or `ListExpired`, then `FindSent`, `ReadExisting`, `CheckRollenart`, `Validate`, `RemoveRow`/`RemoveFails` and `AddRow`/`AddFails` per context, `Reread`, `SyncDate`, `Publish` |
| `deletePersonenkontextById` | `RemoveById`, `SyncDate`; it publishes nothing |
| deletion by hand and `person-without-org` | `RequestDeletion` or `ListUnassigned`, then `ReadKontexte`, `TellRemoval`, `TellDeletion`, `Drop` |
| permissions, other specifications, errors | `GiveUp` before the first change, `Abort` after it |

The optimistic check compares the number of contexts and asks whether one is newer than the `lastModified` that the
client sends. `newer` of a request holds the contexts that were written since its client looked (`Aged`), so that
time needs no clock. `FindSent` is `getSentPersonenkontexte`; its one `find` per sent context is one step. An update of a
context that exists already changes nothing that the model distinguishes.
`undated` and `gap` are history variables that the properties use as exceptions.

### PersonMirrors

`topic` holds the events of the person that are not committed, in the order of their publication; `KafkaEventBus` models the
bus in detail, and here the handlers of one event run side by side (`Read`, `Handle`, `HandleFails`), the next
event is taken when all have settled (`Commit`), and a restart delivers the first one again (`Restart`). A
publication that fails is only logged (`Lose`). The timeout of a handler and the legacy bus are left out.

`name`, `locked` are the other facts in the database that handlers look at; `Rename`, `ChangeLocks` and
`RequestSync` change them or ask for a synchronisation. `ldap`, `itslearning` and `email` are the systems; `Unjustified`,
`LdapRenamed`, `EmailUpdated` and their neighbours say what a handler does to them, from the event alone or from what it has read.
`watched` selects the systems that are followed; an instance may follow them one by one, because no handler reads or
writes the system of another one. `stray` names the systems that were not told of a change: an event that
was lost or never published, a handler that failed. `Repairs` says when a synchronisation makes up for it.

### UserLocks and LockedAccount

`locks` are the rows, `enabled` is the account in Keycloak. `updateKeycloakUserStatus` is `Find`, `Create` or
`Update`, `Disable` when it locks, and `Delete`, `Count`, `Enable` when it unlocks. Its callers are `LockPerson`,
`UnlockPerson`, `KopersLock`, `UnlockExpired` and `EnterNummer`/`SaveNummer`, which lifts the KoPers lock before
the personalnummer is stored.

`LockedAccount` knows the occasions and whether the account is open, and each of its steps does both at once. The
refinement mapping takes `reasons` from the rows, and `open` from Keycloak, or from the rows while a request stands between
the two; `promised` is `~disturbed`. `UserLocks` therefore implements it up to the first half-done call or the first
pair of requests that get between each other's two writes.

### Organisationen

`tree` is the table, `job[j]` a request, `born` the ids given out. The parents (`admin` for `administriertVon`, `zug` for
`zugehoerigZu`) have no foreign key. A request reads and validates with one query after another and then writes
one row.

| Operation | Actions |
|---|---|
| `createOrganisation` | `Create`, `CheckReferences`, `CheckName`, `Insert` |
| `updateOrganisation` | `Put`, then `ClimbUp`, `ClimbCircle`, `ClimbZug`, `Climbed` (the search for circles along both columns), `CheckName`, `Save` |
| `updateOrganisationName` | `View`, `Rename`, `CheckName`, `Save` |
| `setZugehoerigZu` | `Move`, `CheckSide`, the search for circles, `Save` |
| `setEnabledForitslearning` | `Enable`, `Save` |
| `deleteOrganisation` | `Delete`, `CheckChildren`, `CheckZugehoerige`, `Remove` |

MikroORM answers `findById` from the identity map of the request once a row was read: `seen[o]` is what the request
knows, and the search for circles climbs through it. `version` is MikroORM's optimistic lock; `Save` is the
`UPDATE ... WHERE version`. Queries in `CheckName` and `CheckSide` are recursive with `UNION ALL`: a request whose
query meets a circle waits for ever, which is a disabled action.
`overlap[o]` is a history variable: the organisations that other requests wrote while `o` was being written.

### Angebote

`sp`, `rolle` and `erw` are the tables (an Angebot with its Merkmal for Rollenerweiterungen and its whitelist, a Rolle with its
Angebote and its version), `vidis` is what VIDIS answers, `job[j]` a request with its local variables.

| Operation | Actions |
|---|---|
| `sync`, `syncAngeboteForSchool` | `Sync`; per page of schools `LoadPage`, then for all of them beside each other `CheckOffer`, `StripWithdrawn`, `StartRenames` (once the creations and removals of a school are settled), `CheckRename` and `Flush`, and `EndPage` |
| `applyRollenerweiterungChanges...` | `ForRolle` and `ReadForRolle`, or `ForAngebot` and `ReadForAngebot`, then `Add` and `Remove` per id |
| `updateServiceProvider` | `Patch`, `CheckName`, `CheckRollen` if the whitelist gets narrower, `Strip`, `WritePatch` |
| `createServiceProvider` | `Create`, `CheckName`, `WriteCreate` |
| `deleteServiceProvider` | `Delete`, `CheckAttached`, `CheckExtended`, `Drop` |
| `updateRolle`, `deleteRolle` | `Assign`, `Save`; `DropRolle`, `RemoveRolle` |

`syncSchoolsPage` reads the Angebote of a page of schools once (`seen`) and then runs its schools side by side in one EntityManager: a flush
writes whatever is pending at that time, for whichever school, in one transaction, and a violated index or foreign key spoils it as a
whole, so that the Angebot of one school that cannot go takes the new one of another with it (`Flush` takes any part of what is
`ready` and `drop`). A failure is logged and the synchronisation goes on. (A renaming whose flush was spoilt is still pending in the EntityManager and is
written by a later flush; that is the behaviour in which it is first flushed then.) An update writes the differences between
what it read and what it wants (`Written`); inserting a row that is there by now violates its key (`Insertable`).
The existing Rollenerweiterungen and the Angebote or Rollen of a request are read in one step.

`beside` and `raced` are history variables: what was written while a request was under way, and the Angebote that were
written by a request beside which another one had written them. The properties use them as exceptions.

## 3. What is checked

| Run | Bounds | Shows |
|---|---|---|
| `event_bus` | 2 handlers, 2 messages, 1 restart or refused commit, 1 keepAlive per invocation | `NoSilentLoss`, `OverlapOnlyAfterReport`, `HeartbeatInTime`, `OneDeadLetterPerDelivery`, `RedeliveredOnlyAfterReport`; fair: `EventuallyCommitted` |
| `shift_priorities` | 4 addresses on 5 priorities, all assignments | `ComputesShift` (that priorities stay distinct and in order follows from it, and is proved) |
| `email_serial` | 3 names, 3 rows, 4 requests, 2 attempts, 3 failing calls, 1 restart or thrown error, 1 day | `ActiveIsInSync`, `NoForgottenAddress`, `AtMostOneAtFront`, `OnlyFrontActive`, `SuccessFits`, `NothingOrphaned`, `NoPendingLeft` |
| `email_concurrent` | 2 jobs, 1 name, 2 requests, 1 failing call, 1 restart or thrown error, fair | `NothingResurrected`, `JobsEnd` |
| `email_undi` | 2 names, 3 requests, 2 days, no failure | violated: `UndiForgetsAlternative` |
| `import` | 2 imports with 1 item, 2 schools, 2 Rollen, 2 executions, 1 removal or download, 2 failures, timeouts or restarts | `ContextsAtChosenSchule`, `ChosenRolle`, `CompletedIsCleared`, `NeverValidAgain` |
| `import_one` | 1 import with 2 items, 2 executions, 2 removals or downloads, 2 failures, timeouts or restarts, fair | `OnePersonPerItem`, `SuccessHasPerson`, `FinishedIsDone`, `ExecutionEnds` |
| `person_contexts` | 2 jobs, a context for a teacher (befristbar) and one for a pupil, 4 requests, 1 failing call | `DateMatchesContexts`, `OneRollenart`, `ReadsWhatWasSeen` |
| `person_mirrors` | 1 job beside the handlers, 2 contexts at a school, 3 requests, renamings, lock changes or synchronisations in all, 1 loss, failure or restart, each system on its own | `MirrorsAgree`, `DeletedIsForgotten` |
| `user_locks` | 3 jobs, 5 requests, 2 failing calls | `NumberLiftsLock`, `ImplementsAccount` (refinement) |
| `organisations` | 2 jobs, 2 requests of any kind; 2 LAND, 2 Traeger, 2 schools, 2 Klassen, 2 Behoerden, 2 names | `NoCircle`, `ParentsExist`, `NamesUnique`, `NoLostUpdate` |
| `angebote` | 2 jobs, 2 requests of any kind with 1 id each, 1 change in VIDIS, 1 restart; a page of 2 schools; the Land with 2 Angebote, a school with 1 of VIDIS to be renamed, a school with none and 1 offer to be created, 2 free ids, 1 Rolle, 2 Rollenarten, 1 name, 2 titles | `ErweiterungenAdmitted`, `RollenStayAllowed`, `SyncedWithVidis` |

The type invariants of all modules are proved (section 4);
those of `EmailAddresses` and `ImportExecution` are checked by these runs as well.

Why these bounds are enough for the interesting cases. Event bus: two handlers give mixed results; two
messages a zombie of the first beside the second; one restart, or one commit that a slow dead letter costs, a redelivery after every possible
step. `SessionTimeout = 4`, of which the heartbeat interval and the reserve take one each, leaves timers of two ticks that `keepAlive` of either handler
can move against each other. E-mail: three rows are needed for a row to fall behind priority 1, four
requests for set, rename, rename back and delete or cron, three failing calls for both attempts of one request to fail
and a later call beside them (a lost creation of the OX user, say, and a deletion that fails halfway); one interruption, at any step of any request, a restart or an error that is
thrown; a deadline of one day and one day
that passes let a date fall due between requests. `RetryAttempts` is 2 instead of 5: a second attempt meets everything the first one
left behind, and a third one meets nothing new. `MaxEmailPriority = 9` lies behind every other priority, as
99999 does. Import: two imports are needed to mix their schools and Rollen, two items for an execution that is partly
done; two executions of the one import for a second request or a redelivery; two troubles for a call that fails
together with the catch block that reports it, or a restart after a timeout. Three executions at once
meet nothing that two do not: there is one pair of fields, and only its last writer matters. Contexts: two of
different Rollenarten are what `OneRollenart` is about; a request reads at five points, and two further requests can change the
contexts and change them back between two of them, as four requests allow. Mirrors: three changes of which one is a synchronisation or
a renaming meet in the topic in every order; `Job` has one element, because with two requests side by side the two properties
do not hold (see *Limits* below).
Locks: three jobs put a second lock and an unlock between the two writes of a first one. Organisations: a circle, an
orphan and a doubled name each need two requests side by side; of every type one organisation exists and another one can be created or chosen. Angebote: a stale check needs one other
request beside it; one school of the page has an Angebot to rename, the other an offer to create, and after the change in VIDIS one has an Angebot to remove, which a Rolle or the
other school may hold back while the other creates its own, or a title is taken; an offer of the Land is never created there; a synchronisation after an interrupted one is two requests and a restart. With `PageSize = 1`, pages one after another, the run
passes as well.
All properties but the liveness ones and `SyncedWithVidis` are proved without these bounds (section 4).
Every property of a passing run is accompanied by a mutant, a plausible bug of the code
(operators named `..._...` with the comment *Mutant*), under which TLC finds it violated.

Deadlock is not checked: the bounds stop all of these models, and the systems they stand for may be idle.

### Fairness

- `KafkaEventBus!FairSpec`: the consumer takes the next message, timers fire, and the steps of
  `eachMessage` are taken (Node's event loop and timers; the producer ends a send at some time, however late, as its requests and
  retries are bounded). Handlers are *not* fair: `EventuallyCommitted` rests on the timer alone.
- `EmailAddresses!FairSpec`: each job proceeds. The HTTP and LDAP clients answer or fail, and a job is a chain
  of awaits. No fairness is assumed for requests, days or restarts.
- `Personenkontexte`, `PersonMirrors`, `UserLocks`, `Organisationen` and `Angebote` state safety only and assume no fairness.
- `ImportExecution!FairSpec`: uploads, downloads, removals and executions proceed (chains of awaits on the
  database, which answers or fails), and the consumer takes the next event. Users need not act.

### Disagreements found

*UNDI keeps deleted alternative addresses* (`email_undi`). The nightly job removes an alternative
address from OX and LDAP and then deletes its row. UNDI, where the set job stored the address too,
is not updated.

### Limits of the code that the properties exclude

- Two jobs for one person. The PENDING check is not atomic with the write (and an address that is the
  primary one already is never PENDING), so that two set jobs can interleave their shifts and calls. TLC finds
  violations of most of the serial properties within a few steps; `email_concurrent` states what is left.
- A restart in the middle of a set job, or a database that cannot be reached in the last
  attempt, leaves the address PENDING, and every later set request of the person is refused as "already in progress". The catch block
  of lines 156-161 only logs what was thrown (`NoPendingLeft`, `leftovers` with `pending`).
- An interruption of the ensure step (line 272) leaves the former primary address ACTIVE behind priority 1. The next attempt finds the new
  address in front, takes the other branch (line 282) and never ensures again (`OnlyFrontActive`, `active`).
- A lost answer to the creation of an OX user. The counter is never stored, each retry fails because the name
  exists. `NothingOrphaned` therefore speaks of users whose counter was `recorded`.
- Rows with and without a counter (`partial`). An address whose OX call failed keeps no counter although a later address of the person
  gets one. If the cron job purges the row that knows the counter, a deletion finds none in the other row, skips OX and removes it:
  the OX user is left (`NothingOrphaned`). If a deletion removes the OX user and then fails, and a set request takes up
  the address without counter, OX gets a user with the primary address only, beside an ACTIVE alternative one (`AlternativeInSync`). Both take
  more requests or failures than the run `email_serial` allows; the attempt to prove the properties without this exception showed them.
- An interruption between `ShiftBack` and `ShiftToFront` leaves no row at priority 0 or 1. If the person is
  then deleted and that fails halfway, `Purge` removes all rows, due and behind priority 1, without looking at
  the other systems. So it is with a deletion of the rows of which only a part was
  done. `NothingOrphaned` excludes histories with such an interruption (`front`). Interruptions at any other step, and any number of failing calls, do
  not excuse these three properties.
- Imports whose executions overlap, after a timeout or on the legacy bus. Persons of one import may get the Rolle of the
  other one if both have the same school, and two executions of one import that both pass the status check
  create every person twice. `ChosenRolle` and `OnePersonPerItem` speak of histories without an
  overlap; `ContextsAtChosenSchule`, `SuccessHasPerson` and `NeverValidAgain` of all.
- An import that is cancelled while it runs goes on, and its `FINISHED` or `FAILED` overwrites `CANCELLED`. If the items are
  removed between the status check and the save of `INPROGRESS`, it stays `INPROGRESS` without items.
- An execution that a restart or a failing database interrupts leaves `INPROGRESS`; the redelivered event is
  refused because the import is not `VALID` any more. That is also why no item is imported twice.
  `ExecutionEnds` is stated for undisturbed histories.
- A refused dead letter is only logged (`dlqLost`). Messages that wait in the topic at a start are consumed before `registerEventHandlers`
  has run; they find an empty handler map, and their offsets are committed (`unhandled`), although `docs/event-bus.md` promises that
  a decorated handler is called for every event. `NoSilentLoss` names both as exceptions.
- A dead letter that takes longer than what is left of the session (the producer has no timeout of its own, line 205) costs the commit: the message is
  delivered again, beside what its timed-out handlers still do, and gets another dead letter; if that is as slow each time, it is delivered
  for ever. `HeartbeatInTime` speaks of the time until the handlers have settled and of messages without a failure, and
  `RedeliveredOnlyAfterReport` says that no other message is delivered again without a restart.
- `OneRollenart`: `checkRollenart` compares with the contexts in the database, and with the first sent one if there are none. Two
  requests that check in such a gap add two Rollenarten.
- A refused creation leaves the person without contexts and without `orgUnassignmentDate`, so that no deadline will delete it
  (`undated`). `person-without-org` does not look again whether a person that it listed has contexts by now.
- `kontext-expired` sends the present time as `lastModified`, so only the number of contexts protects its commit.
- `deletePersonenkontextById` publishes no event: the mirrors keep the context until a synchronisation. The same holds for
  a lost event and a handler that fails in all attempts. A synchronisation that is consumed before a change of the name reads the
  new name, creates its entry, and the renaming is then refused by the directory; a synchronisation or a change of locks
  during a deletion may bring back what was deleted.
- Requests of one person that overlap. `MirrorsAgree` and `DeletedIsForgotten` speak of one request at a time: with `Job = {j1, j2}` and
  neither failures nor questions TLC violates both. An update reads the contexts again when it has written, and publishes after one more transaction;
  another request may write and publish in between. The event that arrives last tells the older contexts, and itslearning, which takes
  the current contexts from the event, keeps them; after a deletion it enrols the person again. No later event corrects this.
- After the deadline the LDAP entry stays if the person has no `oxUserId` (no event is sent then), and the e-mail
  addresses are suspended, not deleted.
- A lock by hand and a lock by `kopers-lock` share the search for an existing row: the KoPers lock may
  overwrite a manual one (`Supplant`), and lifting it then opens the account. Two requests may get between each other's
  two writes (`disturbed`); `UnlockExpired` deletes by occasion, hence also a lock that was renewed since it was listed. The cron
  job beside the request that enters the personalnummer leaves its lock behind (`raced`).
- Two organisations that become each other's parents side by side form a circle: the version guards one row. Recursive queries
  that meet it never end. A child that is written while its parent is deleted keeps the dead parent, and two equal names that are
  checked side by side are both written. The properties of `Organisationen` state these exceptions by `overlap`.
- `updateOrganisation` checks neither the place of a Traeger below a root child nor its name; a Klasse that keeps its name and
  school is refused, because it is among the Klassen it is compared with; a new school is not checked to be below its
  Traeger; only `updateOrganisationName` compares the version of the client.
- A Rolle may receive an Angebot whose whitelist forbids its Rollenart, or which a Rollenerweiterung already opens to it:
  `Rolle.validate` looks at neither. Two requests that narrow a whitelist side by side delete disjoint entries,
  and an empty whitelist admits everything.
- Rollenerweiterungen that are added while their Angebot is closed or narrowed stay, although the Angebot forbids them (`raced`).
- An Angebot cannot receive a title from VIDIS that another Angebot of the school has. If two offers swap their titles, both are refused
  in every synchronisation; an offer whose title belongs to an Angebot that is about to be removed waits for the next one.
  A withdrawn Angebot stays while a Rolle has it or another organisation extends it. Such an Angebot also holds up the other
  schools of its page: a flush that is to remove it is spoilt with all the creations and renamings in it, every night, if they come together.
  `SyncedWithVidis` excludes these: `TitleTaken` of the school itself, `Retained` of any school of its page.

## 4. What is proved

`KafkaEventBusProofs` (for all handlers, bounds and timings that satisfy `BoundsAssumption` and
`TimingAssumption`): `TypeCorrect`, `NothingLostSilently`, `HeartbeatsInTime`, `OverlapsAreReported`,
`DeadLettersMatchDeliveries`, `RedeliveriesAreReported`. `TimingAssumption` only says that the session is long enough for the heartbeat interval and
the reserve; nothing is assumed about sends. None of the properties is inductive alone. `IInv` adds

- `StageInv`: while a message is in work it is the one after the committed offset, an outcome `ok` is in
  `done`, and at the end a failure has been reported. It carries `NoSilentLoss` over `Commit`.
- `TimingInv`: silence plus what is left on any pending timer is at most the timeout. Each `keepAlive` resets
  one timer *and* the silence, so the others keep the inequality; after handling, a message without a failure still has the reserve.
- `RunningInv`: a running invocation belongs to the message in work (pending or timed out) or to one
  that was committed and reported.
- `DeadLetterInv`: until the message in work is reported, its dead letters are fewer than its deliveries.
- `DeliveriesInv`: every delivery of a message that is not reported was ended by a restart, but for the one in work.

Each conjunct has a lemma with one step per action; `Invariance` puts them together.

`ShiftPrioritiesProofs` (for every set of addresses and every priorities): `ShiftTypeCorrect`, `ShiftComputes`,
`ShiftKeepsDistinct`, `ShiftKeepsOrder`. `LoopInv` says what the loop has achieved when it looks for `toMove`, also when
addresses share a priority: what it has not visited is untouched (`UntouchedInv`) and not before what it has visited (`SortedInv`),
of each priority at `target .. toMove - 1` it has pushed back one address by one (`PushedInv`, `FilledInv`), and none of the
others has priority `toMove`. That is what `Shifts` asks for once nothing is left to visit.

`EmailAddressesProofs` (for any number of names, rows, requests, attempts, failing calls, thrown errors, restarts and days): `EmailTypes` and
`EmailNothingResurrected` for any number of jobs side by side; `EmailAtMostOneAtFront`, `EmailOnlyFrontActive`, `EmailNoPendingLeft`,
`EmailActiveIsInSync`, `EmailNoForgottenAddress`, `EmailSuccessFits` and `EmailNothingOrphaned` under the assumption `Serial = TRUE`, one request
at a time, as in the run `email_serial`; without it they are false (section 3). The invariant says step by step what holds while the one job
under way stands before that step (`Current`), in layers that build on each other:

- `Typed`: the types, and which aggregates a job holds at which step.
- `Placed`: who stands at priorities 0 and 1, which row the job finds there, and where ACTIVE and PENDING rows may be. The two
  shifts and the saves of rows that were read before them make this the longest part.
- `Counted`: an alternative address and an ACTIVE primary one have a counter, a new row gets that of the others, and rows with and without
  one come together only when a counter is saved beside a row without (`partial`).
- `Synced`: what OX, LDAP and UNDI know while an address is ACTIVE, and what each successful call adds to it.
- `Closed`: the outcome of the last set request. `Traceable`: the rows that lead to what is left in OX, LDAP and UNDI.

The attempt to prove an earlier form of `ActiveIsInSync` and `NothingOrphaned` failed in `Counted`; larger bounds then showed TLC the
counterexamples that the exception `partial` describes (section 3).

`ImportExecutionProofs` (from `BoundsAssumption`: any imports, items, schools and Rollen, any number of requests, failures and restarts):
`ImportTypes`, `ImportAtChosenSchule`, `ImportGivesChosenRolle`, `ImportOnePersonPerItem`, `ImportSuccessHasPerson`,
`ImportFinishedIsDone`, `ImportCompletedIsCleared`, `ImportNeverValidAgain`. `IInv` is the type invariant and

- `CountInv`: executions, requests and waiting events together are no more than the requests and restarts there were, so that a call that
  starts finds room. The type of `job` needs it.
- `UploadInv`, `RefersInv`, `ClosingInv`: what events, executions and removals refer to was uploaded, and what they know of it.
- `ItemsInv`: what is PENDING is still to come in each execution that is in its loop. `PersonsInv`: which persons an execution has created.
- `AloneInv`: without an overlap, the fields of the handler belong to the only execution, and the items to come have no person.

`PersonenkontexteProofs` (from `KontextAssumption` and `BoundsAssumption`: any finite set of contexts, any number of requests):
`TypeCorrect`, `DateFollowsContexts`, `OptimisticCheckSuffices`, `RollenartStaysOne`. `IInv` is the type invariant and

- `PlannedInv`: a planned person has no contexts, and only its creation is under way; `KindInv`: which steps a kind of request takes.
- `SeenInv`: until a request has read the contexts, these are what its client saw, less what is gone, plus `newer`. If the
  number is the same and nothing is newer, they are equal, which is why a number and a time are enough.
- `DateMatchesContexts` itself, which says for every request that the date waits for it.
- `ArtInv`: what is there together with what any checked request may still add (`Concerned`) has one Rollenart. `OneRollenart` alone says
  nothing of a request that was checked and has not written.

The same module has the proofs about `PersonMirrors` (from `MirrorsAssumption` too: any schools and services, any number of changes of the name
and the locks, synchronisations, messages under way and failures, all systems at once): `MirrorsTypeCorrect` for any number of
requests side by side; `MirrorsComeToAgree` and `DeletionIsForgotten` under the assumption `Serially`, that `Job` has at most one element, as in the run
`person_mirrors` (section 3 says why). What a system knows is behind the database by the messages ahead of its handler, so the invariant
`MirrorsInv` says of each fact that it is right *unless a message that corrects it is still to come* (`Later`), and of each message that it tells
the truth unless a later one does:

- `RequestInv`, from which every step of a request is `Calm` or publishes an update, one of the two events of a deletion, or a change of which nobody
  is told (`Moves`). `Due` are the contexts that the events so far amount to: none once a deletion has announced itself.
- `TopicInv`: the last update has `Due` as current contexts, the last message with a name the present one, the last message that touches a school
  in LDAP the right membership; a synchronisation during a deletion is followed by what removes the contexts; nothing follows a deletion.
- `ReadInv`: what a handler has read is right, or a later message will correct it. It carries the reads over a message that is published
  between a read and its use.
- `ItslearningInv`, `EmailInv`: the same for the two systems. E-mail needs more, because an update without a school with e-mail
  suspends only if it has removed one: whatever sets the addresses is followed by such an update (`NoEmailInv`).
- `LdapInv`: there are a name `c` with which the messages to come begin (`ChainInv`: each of them is about the name that the one before leaves) and
  a name `v` of the newest entry, which is `c` or was made by a synchronisation ahead of a renaming (`EntryInv`). The memberships of
  `v` are right but for what is to come (`MemberInv`), also those that a synchronisation has read and not yet made (`SyncInv`).
  `OnlyInv` says that there are no other entries unless `ldapOld` is stray, `DroppedInv` that a deletion removes the entry.

Each has one lemma per form of step (`Steps`: a request, a question, a read, a handler that succeeds or fails, a commit, a restart). When a
synchronisation repairs a system, its invariant is established anew (`EmailRepaired`, `LdapRepaired`). TLC checked `MirrorsInv`,
with `c` and `v` below `name`, on the instance of `person_mirrors` before the proof.

`UserLocksProofs` (any number of jobs, requests and failures): `TypeCorrect`, `AccountFollowsLocks`, `LocksImplementAccount`,
`NumberLiftsKopersLock`. `AccountInv` says that nothing is disturbed means that a job before `Enable` has no lock against
it, a job before `Disable` has one, and the account follows the rows when no job stands between. The step of
each action then maps to a step of `LockedAccount` or leaves it alone. `NumberLiftsKopersLock` has an invariant of its own: whoever
is about to save a number has found no KoPers lock, and no cron job is about to write one.

`OrganisationenProofs` (from `TreeAssumption` and `CircleAssumption`: every finite set of organisations, every initial tree that satisfies the
properties, any number of requests): `OrganisationTypeCorrect`, `ParentsStayPresent`, `NamesStayUnique`, `VersionGuardsSaves`, `NoCircleAppears`. The
invariant says for every request what its validation is still worth: the row that it read is the present one as long as the
version is (`BaseInv`), the parents it saw exist unless they were written since (`RefersInv`), nobody refers to what it is
about to remove, except those written since (`EmptyInv`), and the name that it found free is free, except for those
(`NamesInv`).

`NoCircleAppears` has a second invariant, because the search reads the rows of one way up at different times. A circle is a closed set, one that
contains the parent of each of its members; `CirclesExcused` says that two members of each closed set were written side by side. What a
search has met stays closed under parents, up to a top and up to what others have written since (`ClimbInv`, `Cleared`), so that a
circle that its save closes contains one of those. That an organisation above itself yields a closed set is shown by
following the recursive `Up` along a path (`UpIsPath`, `CycleIsClosed`, by a least counterexample instead of induction).

`AngeboteProofs` (from `AngebotAssumption`: all sets, every start whose Rollenerweiterungen are admitted, any number of requests, changes
and restarts): `TypeCorrect`, `ErweiterungenStayAdmitted`, `RollenKeepAngebote`. What a request has read is worth
something only for what was not written beside it, and each conjunct of the invariant says this for one kind of knowledge:
the Angebot that a change is based on is the present one (`BaseInv`), the row of a Rolle is (`RowInv`), what is about to be added
is still admitted (`AddInv`), the Rollen with the Angebot fit the new whitelist once they were looked at (`RollenInv`), and
after `Strip` no Rollenerweiterung is left that the change would forbid (`StripInv`). `PlanInv` says which variables the kinds of requests use.

Only model-checked: `SyncedWithVidis` (a proof is planned, section 6), and
`EventuallyCommitted`, `JobsEnd` and `ExecutionEnds` (liveness is out of the prover's reach).

## 5. Not modelled

- MikroORM's identity map in `EmailAddresses`: within one request `findOne` by id may be answered from memory, and a flush writes
  only differences. That model takes `update()` at its word: the row is looked up and all fields are
  assigned. For a single job the two agree, but for a flush that throws: the entity keeps what it was assigned, and a later flush of
  the same request may write it. The model has the save done before the error or not at all, but not that delay. `Organisationen` and `ImportExecution` do model it.
- Domains, several persons (address collisions with other persons are a larger number to begin with),
  external ids (constant per person), groups of a person in OX beyond *set or not*, groups in UNDI, `gesperrt`.
- The bound on attempts in the address generation; reading endpoints; LDAP organisations.
- Import: parsing of the file, permissions, the Klasse by name, the encryption of passwords, the ids and pages of
  the history. Two requests to execute the same import are in `executing` one after the other, which costs no
  behaviour: the check reads only, and the effects of two of them are two events.
- Import on the legacy bus: the handler shares the EntityManager of the request (`EnsureRequestContext`), so that the status check of line 58 may be
  answered from what `executeImport` has read. In between there is one query, for the Klassen. What this adds are executions that overlap, and an
  execution of an import that was closed a moment before; both are in the model by other orders of the same steps.
- Rebalancing of Kafka consumers: one partition, one consumer, which a refused commit gives the message again.
- Persons: accounts, passwords and groups in Keycloak, permissions, `landesbediensteter` requests, queries.
- Personenkontexte: specifications other than the Rollenart check; they may refuse at any time (`GiveUp`). A personalnummer sent along
  with an update changes the locks as `EnterNummer` does.
- Mirrors: attributes of an entry other than its name and groups, entryUUID, e-mail addresses in LDAP and itslearning, the
  events of organisations, Rollen and Klassen, the legacy bus. A synchronisation searches the groups of a person by a DN that *contains* the
  kennung of the school; the model compares the kennungen, which is the same unless one is part of another.
- Organisations: the root, `Organisationsbeziehungen` (guarded by foreign keys), the Rollen, contexts, service providers and
  Rollenerweiterungen that a deletion also looks for, events (a deletion is announced before the row is removed; replacing a Klasse
  announces nothing), kennungen and names by their wording, and the comparison of a Traeger with the names of the root and its children
  (`isDuplicateOfRootNodes`). The reads of both parents at a creation, and the queries for the types of parents, are one step; the
  properties take whatever was written beside a request as their exception, so that no finer order of these reads could violate them.
- Webhook: its calls are not awaited, not acknowledged and not ordered; there is no promise to check.
- OX of the backend and the legacy e-mail module: superseded by the e-mail microservice, whose calls are modelled.
- Angebote: logos, links and the Keycloak client (a change of these is a renaming for the model), Merkmale other
  than the one for Rollenerweiterungen, permissions (those for `MPT_ROLLE` among them), groups, the event of a changed Rolle. Rollen are
  not created, and contexts that forbid the deletion of a Rolle are left to the database.
- Authentication, permissions, two-factor tokens, Schulconnex, Landesbedienstete, Meldung, status, health, metrics: stateless, or
  one call per request. Console tools: run once by an operator.

## 6. Plan

1. *Done*: event bus with proofs, `shiftPriorities` with proofs, e-mail addresses, import of users; contexts with proofs, the
   mirrors composed with them, user locks with an abstract specification, refinement and proofs; organisations with proofs;
   Angebote, Rollen and Rollenerweiterungen with proofs.
2. *Done*: theorems for all safety properties of the event bus, `shiftPriorities`, the e-mail addresses, the import, the contexts, the locks, the
   organisations and, for one request at a time, the mirrors.
3. Proof of `SyncedWithVidis`.

Bounds stay at two actors, one failure or restart, and two or three rows, unless a property needs more.
