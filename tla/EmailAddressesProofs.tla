------------------------ MODULE EmailAddressesProofs ------------------------
(***************************************************************************)
(* Proofs about EmailAddresses, for every number of names, rows, requests, *)
(* attempts, failing calls, interruptions and days.  That no row comes     *)
(* back holds for any number of jobs side by side; the other safety        *)
(* properties assume Serial, one request at a time, without which they     *)
(* are false.                                                              *)
(*                                                                         *)
(* The inductive invariant comes in layers, each proved from those before: *)
(*   Typed      types, and what a job holds at each of its steps;          *)
(*   Placed     the priorities: who stands at the front, and which row a   *)
(*              job finds there when it comes back to the table;           *)
(*   Counted    the numbers that make addresses unique, and OX counters;   *)
(*   Synced     what OX and LDAP know of the rows at the front;            *)
(*   Closed     how a set request ended;                                   *)
(*   Traceable  from which rows what is left in OX, LDAP and UNDI can      *)
(*              still be found.                                            *)
(* Each of them is stated step by step: what holds of the table while the  *)
(* one job under way stands before that step.                              *)
(***************************************************************************)
EXTENDS EmailAddresses, FiniteSetTheorems, WellFoundedInduction, TLAPS

\* The steps of a set request from the address on that it has chosen, and
\* those of the cron job that work on two addresses.
SettingSteps ==
    {"reread", "shiftBack", "pend", "shift", "ensure", "ox", "saveOx", "ldap", "undi", "activate", "fail"}

CronSteps == {"cronMark", "cronOx", "cronLdap", "cronDelete"}

\* A job has read the aggregates that its step works with.
Holds(q) ==
    /\ q.at \in SettingSteps \cup CronSteps \cup {"insert"} => q.primary \in Row
    /\ q.at \in SettingSteps \cup {"choose", "check", "insert", "activateAlternative"} => q.kind = "set" /\ q.name \in Name
    /\ q.at = "shiftBack" => q.displaced \in Row
    /\ q.at \in CronSteps \cup {"activateAlternative"} => q.alternative \in Row

DbOK ==
    /\ db \in [Ids -> Row \cup {NoRow}] /\ rows \in 0..MaxRows
    /\ \A i \in Persisted : db[i].id = i /\ i <= rows

ExternalOK ==
    /\ ox \in OxUser \cup {NoUser} /\ oxUsers \in Nat
    /\ ldap \in LdapEntry \cup {NoUser} /\ undi \in UndiEntry \cup {NoUser}

JobOK == job \in [Job -> JobSet] /\ \A j \in Job : Holds(job[j])

HistoryOK ==
    /\ today \in Nat /\ interruptions \in Nat
    /\ recorded \in SUBSET Nat /\ partial \in BOOLEAN /\ leftovers \subseteq DOMAIN Unfinished

\* The types, with what a job holds at each step.
Typed == DbOK /\ ExternalOK /\ JobOK /\ HistoryOK

LEMMA TypedIsTypeOK == Typed => TypeOK
  BY DEF Typed, DbOK, ExternalOK, JobOK, HistoryOK, TypeOK

LEMMA Bounds ==
    /\ RetryAttempts \in Nat /\ MaxEmailPriority \in Nat /\ Deadline \in Nat /\ MaxRows \in Nat
    /\ MaxDays \in Nat /\ MaxInterruptions \in Nat
    /\ RetryAttempts > 0 /\ MaxEmailPriority > 1
  BY EmailBoundsAssumption

----------------------------------------------------------------------------
(* Rows                                                                    *)

LEMMA RowFields ==
    ASSUME NEW r \in Row
    PROVE  /\ r # NoRow
           /\ r.id \in 0..MaxRows /\ r.address \in Address /\ r.priority \in Nat /\ r.status \in Status
           /\ r.oxUserCounter \in Nat /\ r.markedForCron \in Nat \cup {NoDate}
  BY DEF Row, NoRow

\* One field of a row is changed.
LEMMA RowEdited ==
    ASSUME NEW r \in Row
    PROVE  /\ \A i \in 0..MaxRows : [r EXCEPT !.id = i] \in Row
           /\ \A p \in Nat : [r EXCEPT !.priority = p] \in Row
           /\ \A s \in Status : [r EXCEPT !.status = s] \in Row
           /\ \A c \in Nat : [r EXCEPT !.oxUserCounter = c] \in Row
           /\ \A d \in Nat \cup {NoDate} : [r EXCEPT !.markedForCron = d] \in Row
  BY DEF Row

LEMMA Persistent ==
    ASSUME DbOK, NEW i \in Persisted
    PROVE  i \in Ids /\ i \in Nat /\ db[i] \in Row /\ db[i].id = i
  BY Bounds DEF DbOK, Persisted, Ids

LEMMA RowsTyped == ASSUME DbOK PROVE Rows \subseteq Row
  BY Persistent DEF Rows

LEMMA RowsById ==
    ASSUME DbOK, NEW r \in Rows
    PROVE  r \in Row /\ r.id \in Persisted /\ db[r.id] = r
  BY Persistent DEF Rows

LEMMA InRows == ASSUME DbOK, NEW i \in Persisted PROVE db[i] \in Rows
  BY DEF Rows

\* What a save of rows leaves: a row that is gone stays gone.
LEMMA SavedRows ==
    ASSUME DbOK, NEW rs \in SUBSET Row
    PROVE  /\ Saved(rs) \in [Ids -> Row \cup {NoRow}]
           /\ \A i \in Ids : Saved(rs)[i] # NoRow <=> db[i] # NoRow
           /\ \A i \in Persisted :
                 \/ Saved(rs)[i] \in rs /\ Saved(rs)[i].id = i
                 \/ Saved(rs)[i] = db[i] /\ \A r \in rs : r.id # i
  <1>1. ASSUME NEW i \in Ids PROVE Saved(rs)[i] = IF i \in Persisted /\ \E r \in rs : r.id = i THEN CHOOSE r \in rs : r.id = i ELSE db[i]
    BY DEF Saved
  <1>2. ASSUME NEW i \in Persisted, \E r \in rs : r.id = i
        PROVE  Saved(rs)[i] \in rs /\ Saved(rs)[i].id = i
    BY <1>1, <1>2 DEF Persisted
  <1>3. ASSUME NEW i \in Ids, ~(i \in Persisted /\ \E r \in rs : r.id = i) PROVE Saved(rs)[i] = db[i]
    BY <1>1, <1>3
  <1>4. \A r \in rs : r \in Row /\ r # NoRow
    BY RowFields
  <1>5. \A i \in Ids : db[i] \in Row \cup {NoRow}
    BY DEF DbOK
  <1>6. Saved(rs) \in [Ids -> Row \cup {NoRow}]
    <2>1. \A i \in Ids : Saved(rs)[i] \in Row \cup {NoRow}
      BY <1>2, <1>3, <1>4, <1>5
    <2>2. Saved(rs) = [i \in Ids |-> Saved(rs)[i]]
      BY DEF Saved
    <2> QED
      BY <2>1, <2>2
  <1> QED
    BY <1>2, <1>3, <1>4, <1>6 DEF Persisted

\* A save of one row.
LEMMA SavedRow ==
    ASSUME DbOK, NEW r \in Row
    PROVE  Saved({r}) = [i \in Ids |-> IF i = r.id /\ i \in Persisted THEN r ELSE db[i]]
  BY DEF Saved

LEMMA WithoutRows ==
    ASSUME DbOK, NEW rs
    PROVE  /\ Without(rs) \in [Ids -> Row \cup {NoRow}]
           /\ \A i \in Ids : Without(rs)[i] = IF \E r \in rs : r.id = i THEN NoRow ELSE db[i]
  BY DEF Without, DbOK

LEMMA EnsuredRows ==
    ASSUME DbOK, NEW d \in Nat
    PROVE  /\ Ensured(d) \in [Ids -> Row \cup {NoRow}]
           /\ \A i \in Ids : Ensured(d)[i] # NoRow <=> db[i] # NoRow
           /\ \A i \in Persisted :
                 /\ Ensured(d)[i].id = i
                 /\ Ensured(d)[i].address = db[i].address
                 /\ Ensured(d)[i].priority = db[i].priority
                 /\ Ensured(d)[i].oxUserCounter = db[i].oxUserCounter
                 /\ Ensured(d)[i].status = IF db[i].priority >= 2 /\ db[i].status \in {"NONE", "ACTIVE", "SUSPENDED"}
                                           THEN "DEACTIVE" ELSE db[i].status
  <1>1. ASSUME NEW i \in Persisted
        PROVE  /\ EnsuredRow(db[i], d) \in Row
               /\ EnsuredRow(db[i], d).id = i
               /\ EnsuredRow(db[i], d).address = db[i].address
               /\ EnsuredRow(db[i], d).priority = db[i].priority
               /\ EnsuredRow(db[i], d).oxUserCounter = db[i].oxUserCounter
               /\ EnsuredRow(db[i], d).status = IF db[i].priority >= 2 /\ db[i].status \in {"NONE", "ACTIVE", "SUSPENDED"}
                                                THEN "DEACTIVE" ELSE db[i].status
    <2>1. db[i] \in Row /\ db[i].id = i
      BY Persistent
    <2> QED
      BY <2>1 DEF EnsuredRow, Row, Status
  <1>2. \A i \in Ids : Ensured(d)[i] = IF i \in Persisted THEN EnsuredRow(db[i], d) ELSE NoRow
    BY DEF Ensured
  <1>3. \A i \in Persisted : i \in Ids /\ EnsuredRow(db[i], d) # NoRow
    BY <1>1, RowFields DEF Persisted
  <1>4. Ensured(d) \in [Ids -> Row \cup {NoRow}]
    BY <1>1 DEF Ensured
  <1> QED
    BY <1>1, <1>2, <1>3, <1>4 DEF Persisted

\* A shift changes priorities only.
LEMMA ShiftedRows ==
    ASSUME DbOK, NEW id \in Persisted, NEW target \in Nat, NEW d \in Shifted(id, target)
    PROVE  /\ d \in [Ids -> Row \cup {NoRow}]
           /\ \A i \in Ids : d[i] # NoRow <=> db[i] # NoRow
           /\ \A i \in Persisted :
                 /\ d[i].id = i
                 /\ d[i].address = db[i].address
                 /\ d[i].status = db[i].status
                 /\ d[i].oxUserCounter = db[i].oxUserCounter
                 /\ d[i].markedForCron = db[i].markedForCron
           /\ [i \in Persisted |-> d[i].priority] \in Shifts(Priorities, id, target)
  <1>1. PICK prio \in Shifts(Priorities, id, target) : d = WithPriorities(prio)
    BY DEF Shifted
  <1>2. PICK M \in Movers(Priorities, id, target) : prio = Moved(Priorities, id, target, M)
    BY <1>1 DEF Shifts
  <1>3. \A i \in Persisted : db[i] \in Row /\ db[i].id = i /\ db[i].priority \in Nat
    BY Persistent, RowFields
  <1>4. prio \in [Persisted -> Nat]
    BY <1>2, <1>3 DEF Moved, Priorities
  <1>5. \A i \in Ids : d[i] = IF i \in Persisted THEN [db[i] EXCEPT !.priority = prio[i]] ELSE NoRow
    BY <1>1 DEF WithPriorities
  <1>6. ASSUME NEW i \in Persisted
        PROVE  /\ i \in Ids /\ d[i] \in Row /\ d[i].id = i /\ d[i].address = db[i].address /\ d[i].status = db[i].status
               /\ d[i].oxUserCounter = db[i].oxUserCounter /\ d[i].markedForCron = db[i].markedForCron
               /\ d[i].priority = prio[i]
    <2>1. i \in Ids /\ d[i] = [db[i] EXCEPT !.priority = prio[i]] /\ prio[i] \in Nat /\ db[i] \in Row /\ db[i].id = i
      BY <1>3, <1>4, <1>5 DEF Persisted
    <2> QED
      BY <2>1 DEF Row
  <1>7. \A i \in Ids : d[i] \in Row \cup {NoRow}
    BY <1>5, <1>6
  <1>8. d \in [Ids -> Row \cup {NoRow}]
    BY <1>1, <1>7 DEF WithPriorities
  <1>9. [i \in Persisted |-> d[i].priority] = prio
    BY <1>4, <1>6
  <1>10. \A i \in Ids : d[i] # NoRow <=> db[i] # NoRow
    BY <1>5, <1>6, RowFields DEF Persisted
  <1> QED
    BY <1>1, <1>6, <1>8, <1>9, <1>10

----------------------------------------------------------------------------
(* The address that is generated                                           *)

LEMMA NoneIsNone == \A r \in Row : r # NoRow
  BY RowFields

\* More numbers than rows.
LEMMA Collide ==
    ASSUME NEW n \in Nat, NEW f \in [0..n -> 1..n]
    PROVE  \E x, y \in 0..n : x # y /\ f[x] = f[y]
  <1>1. IsFiniteSet(0..n) /\ Cardinality(0..n) = n + 1
    <2>1. 0 \in Int /\ n \in Int /\ ~(0 > n) /\ n - 0 + 1 = n + 1
      OBVIOUS
    <2> QED
      BY <2>1, FS_Interval
  <1>2. IsFiniteSet(1..n) /\ Cardinality(1..n) = n
    <2>1. 1 \in Int /\ n \in Int /\ n - 1 + 1 = n
      OBVIOUS
    <2>2. IsFiniteSet(1..n) /\ Cardinality(1..n) = IF 1 > n THEN 0 ELSE n - 1 + 1
      BY <2>1, FS_Interval
    <2> QED
      BY <2>1, <2>2
  <1>3. Cardinality(1..n) < Cardinality(0..n)
    BY <1>1, <1>2
  <1>4. \A S, T : IsFiniteSet(S) /\ IsFiniteSet(T) /\ Cardinality(T) < Cardinality(S) =>
           \A g \in [S -> T] : \E x, y \in S : x # y /\ g[x] = g[y]
    BY FS_PigeonHole, Zenon
  <1> QED
    BY <1>1, <1>2, <1>3, <1>4

\* Of the numbers 0 to MaxRows one is free, and of those the smallest is taken.
LEMMA AvailableIsFree ==
    ASSUME DbOK, NEW name \in Name
    PROVE  /\ Available(name) \in Address
           /\ Available(name)[1] = name
           /\ \A r \in Rows : r.address # Available(name)
  <1> DEFINE taken == {r.address : r \in Rows}
             free == {n \in 0..MaxRows : <<name, n>> \notin taken}
  <1>1. free # {}
    <2> SUFFICES ASSUME free = {} PROVE FALSE
      OBVIOUS
    <2>1. \A n \in 0..MaxRows : \E i \in Ids : i \in Persisted /\ db[i].address = <<name, n>>
      BY RowsById DEF Persisted
    <2> DEFINE f == [n \in 0..MaxRows |-> CHOOSE i \in Ids : i \in Persisted /\ db[i].address = <<name, n>>]
    <2>2. f \in [0..MaxRows -> Ids]
      BY <2>1
    <2>3. \A n \in 0..MaxRows : db[f[n]].address = <<name, n>>
      BY <2>1
    <2> HIDE DEF f
    <2>7. \E m, n \in 0..MaxRows : m # n /\ f[m] = f[n]
      BY <2>2, Bounds, Collide DEF Ids
    <2>8. PICK m, n \in 0..MaxRows : m # n /\ f[m] = f[n]
      BY <2>7
    <2>9. <<name, m>> = <<name, n>>
      BY <2>3, <2>8
    <2> QED
      BY <2>8, <2>9
  <1>2. \E n \in free : \A m \in free : ~(m < n)
    <2>1. free \subseteq Nat
      BY Bounds
    <2> HIDE DEF free
    <2>2. \E n \in free : \A m \in free : ~(<<m, n>> \in OpToRel(<, Nat))
      BY <1>1, <2>1, NatLessThanWellFounded, WFMin, Zenon
    <2> QED
      BY <2>1, <2>2 DEF OpToRel
  <1>3. \E n \in 0..MaxRows : <<name, n>> \notin taken /\ \A k \in 0..(n - 1) : <<name, k>> \in taken
    <2>1. PICK n \in free : \A m \in free : ~(m < n)
      BY <1>2
    <2>2. n \in 0..MaxRows /\ <<name, n>> \notin taken
      OBVIOUS
    <2>3. ASSUME NEW k \in 0..(n - 1) PROVE <<name, k>> \in taken
      <3>1. k \in 0..MaxRows /\ k < n
        BY <2>2, Bounds
      <3> QED
        BY <2>1, <3>1
    <2> QED
      BY <2>2, <2>3
  <1>4. \E n \in 0..MaxRows : Available(name) = <<name, n>> /\ <<name, n>> \notin taken
    BY <1>3 DEF Available
  <1> QED
    BY <1>4 DEF Address

----------------------------------------------------------------------------
(* Types                                                                   *)

LEMMA JobTyped ==
    ASSUME JobOK, NEW j \in Job
    PROVE  job[j] \in JobSet /\ Holds(job[j])
  BY DEF JobOK

LEMMA JobStep ==
    ASSUME JobOK, NEW j \in Job, NEW q \in JobSet, Holds(q), job' = [job EXCEPT ![j] = q]
    PROVE  JobOK'
  <1>1. job' \in [Job -> JobSet]
    BY DEF JobOK
  <1>2. ASSUME NEW k \in Job PROVE Holds(job[k])'
    <2>1. job'[k] = IF k = j THEN q ELSE job[k]
      BY DEF JobOK
    <2>2. Holds(job'[k])
      BY <2>1 DEF JobOK
    <2> QED
      BY <2>2 DEF Holds
  <1> QED
    BY <1>1, <1>2 DEF JobOK

\* What may change in a job is of its type.
LEMMA JobEdited ==
    ASSUME NEW q \in JobSet
    PROVE  /\ \A s \in Steps : [q EXCEPT !.at = s] \in JobSet
           /\ \A r \in Row \cup {NoRow} :
                 /\ [q EXCEPT !.primary = r] \in JobSet
                 /\ [q EXCEPT !.alternative = r] \in JobSet
                 /\ [q EXCEPT !.displaced = r] \in JobSet
           /\ \A rs \in SUBSET Row : [q EXCEPT !.held = rs] \in JobSet
           /\ \A b \in BOOLEAN : [q EXCEPT !.ok = b] \in JobSet
           /\ \A n \in 0..RetryAttempts : [q EXCEPT !.attempt = n] \in JobSet
  BY DEF JobSet

LEMMA IdleTyped ==
    /\ Idle \in JobSet /\ Holds(Idle)
    /\ \A s \in Steps, kind \in Kind, name \in Name \cup {<<>>}, n \in 0..RetryAttempts :
          [Idle EXCEPT !.at = s, !.kind = kind, !.name = name, !.attempt = n] \in JobSet
  <1>1. Idle \in JobSet
    BY Bounds DEF Idle, JobSet, Steps
  <1>2. Holds(Idle)
    BY DEF Idle, Holds, SettingSteps, CronSteps
  <1>3. ASSUME NEW s \in Steps, NEW kind \in Kind, NEW name \in Name \cup {<<>>}, NEW n \in 0..RetryAttempts
        PROVE  [Idle EXCEPT !.at = s, !.kind = kind, !.name = name, !.attempt = n] \in JobSet
    BY <1>1 DEF JobSet
  <1> QED
    BY <1>1, <1>2, <1>3

LEMMA FinishTyped ==
    ASSUME JobOK, NEW j \in Job, NEW outcome, Finish(j, outcome)
    PROVE  JobOK'
  BY IdleTyped, JobStep DEF Finish

\* The same job at another step.
LEMMA GotoTyped ==
    ASSUME JobOK, NEW j \in Job, NEW s \in Steps, Goto(j, s),
           \/ job[j].at \in SettingSteps /\ s \in SettingSteps /\ s # "shiftBack"
           \/ job[j].at \in CronSteps /\ s \in CronSteps
           \/ s \notin SettingSteps \cup CronSteps \cup {"check", "choose", "insert", "activateAlternative"}
    PROVE  JobOK'
  <1> DEFINE q == [job[j] EXCEPT !.at = s]
  <1>1. job[j] \in JobSet /\ Holds(job[j])
    BY JobTyped
  <1>2. q \in JobSet
    BY <1>1, JobEdited
  <1>3. q.at = s /\ q.primary = job[j].primary /\ q.kind = job[j].kind /\ q.name = job[j].name
        /\ q.displaced = job[j].displaced /\ q.alternative = job[j].alternative
    BY <1>1 DEF JobSet
  <1>4. Holds(q)
    <2> HIDE DEF q
    <2> QED
      BY <1>1, <1>3 DEF Holds, SettingSteps, CronSteps
  <1>5. job' = [job EXCEPT ![j] = q]
    BY DEF Goto
  <1> QED
    BY <1>2, <1>4, <1>5, JobStep

LEMMA ContinueTyped ==
    ASSUME JobOK, NEW j \in Job, NEW s \in Steps, NEW b \in BOOLEAN, Continue(j, s, b),
           s \in CronSteps => job[j].at \in CronSteps,
           s \notin SettingSteps \cup {"activateAlternative", "check", "choose", "insert"}
    PROVE  JobOK'
  <1> DEFINE q == [job[j] EXCEPT !.at = s, !.ok = @ /\ b]
  <1>1. job[j] \in JobSet /\ Holds(job[j])
    BY JobTyped
  <1>2. q \in JobSet
    BY <1>1 DEF JobSet
  <1>3. q.at = s /\ q.primary = job[j].primary /\ q.kind = job[j].kind /\ q.name = job[j].name
        /\ q.displaced = job[j].displaced /\ q.alternative = job[j].alternative
    BY <1>1 DEF JobSet
  <1>4. Holds(q)
    <2> HIDE DEF q
    <2> QED
      BY <1>1, <1>3 DEF Holds, SettingSteps, CronSteps
  <1>5. job' = [job EXCEPT ![j] = q]
    BY DEF Continue
  <1> QED
    BY <1>2, <1>4, <1>5, JobStep

\* The attempt of a set request that has chosen an address fails.
LEMMA FailTyped ==
    ASSUME JobOK, NEW j \in Job, NEW s \in Status, Fail(j, s), job[j].at \in SettingSteps
    PROVE  JobOK'
  <1> DEFINE q == [job[j] EXCEPT !.at = "fail", !.primary.status = s]
  <1>1. job[j] \in JobSet /\ Holds(job[j]) /\ job[j].primary \in Row
    BY JobTyped DEF Holds
  <1>2. PICK r : r = [job[j].primary EXCEPT !.status = s]
    OBVIOUS
  <1>3. r \in Row
    BY <1>1, <1>2, RowEdited
  <1>4. q = [job[j] EXCEPT !.at = "fail", !.primary = r]
    BY <1>1, <1>2 DEF JobSet
  <1>5. q \in JobSet
    BY <1>1, <1>3, <1>4 DEF JobSet, Steps
  <1>6. q.at = "fail" /\ q.primary = r /\ q.kind = job[j].kind /\ q.name = job[j].name
    BY <1>1, <1>4 DEF JobSet
  <1>7. Holds(q)
    <2> HIDE DEF q
    <2> QED
      BY <1>1, <1>3, <1>6 DEF Holds, SettingSteps, CronSteps
  <1>8. job' = [job EXCEPT ![j] = q]
    BY DEF Fail
  <1> QED
    BY <1>5, <1>7, <1>8, JobStep

LEMMA RetryTyped ==
    ASSUME JobOK, NEW j \in Job, Retry(j), job[j].at \in SettingSteps \cup {"choose", "insert", "activateAlternative"}
    PROVE  JobOK'
  <1>1. job[j] \in JobSet /\ job[j].name \in Name /\ job[j].attempt \in 0..RetryAttempts
    BY JobTyped DEF Holds, JobSet
  <1>2. CASE job[j].attempt < RetryAttempts
    <2> DEFINE q == [Idle EXCEPT !.at = "choose", !.kind = "set", !.name = job[j].name, !.attempt = job[j].attempt + 1]
    <2>1. q \in JobSet
      <3>1. job[j].attempt + 1 \in 0..RetryAttempts
        BY <1>1, <1>2, Bounds
      <3> QED
        BY <1>1, <3>1, IdleTyped DEF Steps, Kind
    <2>2. Holds(q)
      BY <1>1 DEF Holds, Idle, SettingSteps, CronSteps
    <2>3. job' = [job EXCEPT ![j] = q]
      BY <1>2 DEF Retry
    <2> QED
      BY <2>1, <2>2, <2>3, JobStep
  <1>3. CASE ~(job[j].attempt < RetryAttempts)
    BY <1>3, FinishTyped DEF Retry
  <1> QED
    BY <1>2, <1>3

LEMMA AtPriorityRows ==
    ASSUME NEW rs, NEW p, NEW r \in AtPriority(rs, p)
    PROVE  \/ r = NoRow /\ \A s \in rs : s.priority # p
           \/ r \in rs /\ r.priority = p
  BY DEF AtPriority

LEMMA RowsOfTyped ==
    ASSUME NEW d \in [Ids -> Row \cup {NoRow}]
    PROVE  RowsOf(d) \subseteq Row
  BY DEF RowsOf

----------------------------------------------------------------------------
(* Each step keeps the types                                               *)

\* The rows of d are rows there were.
Kept(d) ==
    /\ d \in [Ids -> Row \cup {NoRow}]
    /\ \A i \in Ids : d[i] # NoRow => i \in Persisted /\ d[i].id = i

LEMMA SavedKept == ASSUME DbOK, NEW rs \in SUBSET Row PROVE Kept(Saved(rs))
  <1>1. \A i \in Persisted : Saved(rs)[i].id = i
    BY SavedRows, Persistent
  <1> QED
    BY <1>1, SavedRows DEF Kept, Persisted

LEMMA WithoutKept == ASSUME DbOK, NEW rs PROVE Kept(Without(rs))
  <1>1. \A i \in Ids : Without(rs)[i] # NoRow => Without(rs)[i] = db[i]
    BY WithoutRows
  <1> QED
    BY <1>1, WithoutRows, Persistent DEF Kept, Persisted

LEMMA EnsuredKept == ASSUME DbOK, NEW d \in Nat PROVE Kept(Ensured(d))
  BY EnsuredRows DEF Kept, Persisted

LEMMA ShiftedKept ==
    ASSUME DbOK, NEW id \in Persisted, NEW target \in Nat, NEW d \in Shifted(id, target)
    PROVE  Kept(d)
  <1>1. d \in [Ids -> Row \cup {NoRow}] /\ \A i \in Ids : d[i] # NoRow <=> db[i] # NoRow
    BY ShiftedRows
  <1>2. \A i \in Persisted : d[i].id = i
    BY ShiftedRows
  <1> QED
    BY <1>1, <1>2 DEF Kept, Persisted

LEMMA KeptTyped ==
    ASSUME DbOK, NEW d, Kept(d), db' = d, rows' = rows
    PROVE  DbOK'
  BY DEF DbOK, Kept, Persisted

LEMMA StoreTyped == ASSUME DbOK, UNCHANGED store PROVE DbOK'
  BY DEF DbOK, Persisted, store

LEMMA ExternalTyped == ASSUME ExternalOK, UNCHANGED external PROVE ExternalOK'
  BY DEF ExternalOK, external

LEMMA HistoryTyped == ASSUME HistoryOK, UNCHANGED <<today, interruptions, recorded, partial, leftovers>> PROVE HistoryOK'
  BY DEF HistoryOK

LEMMA JobUnchanged == ASSUME JobOK, UNCHANGED job PROVE JobOK'
  BY DEF JobOK, Holds

LEMMA RequestTyped ==
    ASSUME Typed, NEW j \in Job, NEW kind \in Kind, NEW name \in Name \cup {<<>>},
           kind = "set" => name \in Name, Request(j, kind, name)
    PROVE  Typed'
  <1> DEFINE q == [Idle EXCEPT !.at = FirstStep[kind], !.kind = kind, !.name = name]
  <1>1. FirstStep[kind] \in {"check", "suspendRead", "deleteRead", "purge"} /\ (FirstStep[kind] = "check" => kind = "set")
    BY DEF FirstStep, Kind
  <1>2. q \in JobSet
    <2>1. FirstStep[kind] \in Steps /\ kind \in Kind
      BY <1>1 DEF Steps
    <2> QED
      BY <2>1, IdleTyped DEF JobSet
  <1>3. Holds(q)
    BY <1>1 DEF Holds, Idle, SettingSteps, CronSteps
  <1>4. JobOK'
    BY <1>2, <1>3, JobStep DEF Request, Typed
  <1> QED
    BY <1>4, StoreTyped, ExternalTyped, HistoryTyped DEF Typed, Request

LEMMA CheckPendingTyped == ASSUME Typed, NEW j \in Job, CheckPending(j) PROVE Typed'
  <1>1. JobOK'
    <2>1. CASE \E r \in Rows : r.status = "PENDING"
      BY <2>1, FinishTyped DEF CheckPending, Typed
    <2>2. CASE ~\E r \in Rows : r.status = "PENDING"
      <3> DEFINE q == [job[j] EXCEPT !.at = "choose", !.attempt = 1]
      <3>1. job[j] \in JobSet /\ Holds(job[j]) /\ job[j].at = "check"
        BY JobTyped DEF Typed, CheckPending, At
      <3>2. q \in JobSet
        <4>1. 1 \in 0..RetryAttempts /\ "choose" \in Steps
          BY Bounds DEF Steps
        <4> QED
          BY <3>1, <4>1 DEF JobSet
      <3>3. Holds(q)
        BY <3>1 DEF Holds, JobSet, SettingSteps, CronSteps
      <3>4. job' = [job EXCEPT ![j] = q]
        BY <2>2 DEF CheckPending
      <3> QED
        BY <3>2, <3>3, <3>4, JobStep DEF Typed
    <2> QED
      BY <2>1, <2>2
  <1> QED
    BY <1>1, StoreTyped, ExternalTyped, HistoryTyped DEF Typed, CheckPending, budgets

LEMMA ChooseTyped == ASSUME Typed, NEW j \in Job, Choose(j) PROVE Typed'
  <1>1. job[j] \in JobSet /\ job[j].kind = "set" /\ job[j].name \in Name
    BY JobTyped DEF Typed, Choose, At, Holds
  <1>2. Rows \subseteq Row
    BY RowsTyped DEF Typed
  <1>3. ASSUME NEW r \in Row, NEW s \in {"reread", "insert"}, job' = [job EXCEPT ![j].at = s, ![j].primary = r]
        PROVE  JobOK'
    <2> DEFINE q == [job[j] EXCEPT !.at = s, !.primary = r]
    <2>1. q \in JobSet
      BY <1>1 DEF JobSet, Steps
    <2>2. Holds(q)
      BY <1>1 DEF Holds, JobSet, SettingSteps, CronSteps
    <2>3. job' = [job EXCEPT ![j] = q]
      BY <1>3
    <2> QED
      BY <2>1, <2>2, <2>3, JobStep DEF Typed
  <1>4. ASSUME Matching(job[j].name) # {} PROVE JobOK'
    <2>1. PICK r \in First(Matching(job[j].name)) : job' = [job EXCEPT ![j].at = "reread", ![j].primary = r]
      BY <1>4 DEF Choose
    <2>2. r \in Row
      BY <1>2 DEF First, Matching
    <2> QED
      BY <1>3, <2>1, <2>2, Zenon
  <1>5. ASSUME ~(Matching(job[j].name) # {}) PROVE JobOK'
    <2> DEFINE counters == {r \in Rows : r.oxUserCounter # NoCounter}
    <2>1. PICK counter \in IF counters = {} THEN {NoCounter} ELSE {r.oxUserCounter : r \in First(counters)} :
             job' = [job EXCEPT ![j].at = "insert",
                                ![j].primary = [id |-> 0, address |-> Available(job[j].name),
                                                priority |-> MaxEmailPriority, status |-> "NONE",
                                                oxUserCounter |-> counter, markedForCron |-> NoDate]]
      BY <1>5, Zenon DEF Choose
    <2>2. counter \in Nat
      BY <1>2, <2>1, RowFields DEF First, NoCounter
    <2>3. Available(job[j].name) \in Address
      BY <1>1, AvailableIsFree DEF Typed
    <2>4. [id |-> 0, address |-> Available(job[j].name), priority |-> MaxEmailPriority, status |-> "NONE",
           oxUserCounter |-> counter, markedForCron |-> NoDate] \in Row
      BY <2>2, <2>3, Bounds DEF Row, Status
    <2> QED
      BY <1>3, <2>1, <2>4, Zenon
  <1>6. JobOK'
    BY <1>4, <1>5
  <1> QED
    BY <1>6, StoreTyped, ExternalTyped, HistoryTyped DEF Typed, Choose, budgets, history

LEMMA InsertTyped == ASSUME Typed, NEW j \in Job, Insert(j) PROVE Typed'
  <1>1. job[j] \in JobSet /\ Holds(job[j]) /\ job[j].at = "insert"
    BY JobTyped DEF Typed, Insert, At
  <1>2. CASE \E r \in Rows : r.address = job[j].primary.address
    <2>1. JobOK'
      BY <1>1, <1>2, RetryTyped DEF Insert, Typed
    <2> QED
      BY <1>2, <2>1, StoreTyped, ExternalTyped, HistoryTyped DEF Typed, Insert, budgets
  <1>3. CASE ~\E r \in Rows : r.address = job[j].primary.address
    <2>1. PICK r : r = [job[j].primary EXCEPT !.id = rows + 1]
      OBVIOUS
    <2>2. /\ rows < MaxRows /\ rows' = rows + 1
          /\ db' = [db EXCEPT ![rows + 1] = r]
          /\ job' = [job EXCEPT ![j].at = "reread", ![j].primary = r]
      BY <1>3, <2>1 DEF Insert
    <2>3. rows + 1 \in Ids /\ rows + 1 \in 0..MaxRows
      BY <2>2, Bounds DEF Typed, DbOK, Ids
    <2>4. r \in Row /\ r.id = rows + 1
      BY <1>1, <2>1, <2>3, RowEdited DEF Holds, Row
    <2>5. DbOK'
      BY <2>2, <2>3, <2>4, Bounds DEF Typed, DbOK, Persisted, Ids
    <2>6. JobOK'
      <3> DEFINE q == [job[j] EXCEPT !.at = "reread", !.primary = r]
      <3>1. q \in JobSet
        BY <1>1, <2>4 DEF JobSet, Steps
      <3>2. Holds(q)
        BY <1>1, <2>4 DEF Holds, JobSet, SettingSteps, CronSteps
      <3>3. job' = [job EXCEPT ![j] = q]
        BY <2>2
      <3> QED
        BY <3>1, <3>2, <3>3, JobStep DEF Typed
    <2> QED
      BY <2>5, <2>6, ExternalTyped, HistoryTyped DEF Typed, Insert, budgets
  <1> QED
    BY <1>2, <1>3

LEMMA RereadTyped == ASSUME Typed, NEW j \in Job, Reread(j) PROVE Typed'
  <1>1. job[j] \in JobSet /\ Holds(job[j]) /\ job[j].at = "reread"
    BY JobTyped DEF Typed, Reread, At
  <1>2. JobOK'
    <2>1. PICK zero \in AtPriority(Rows, 0) :
            IF zero # NoRow /\ zero.id # job[j].primary.id /\ zero.status # "ACTIVE"
               THEN job' = [job EXCEPT ![j].at = "shiftBack", ![j].displaced = zero] ELSE Goto(j, "pend")
      BY DEF Reread
    <2>2. CASE Goto(j, "pend")
      <3>1. "pend" \in Steps /\ "pend" \in SettingSteps /\ job[j].at \in SettingSteps /\ JobOK
        BY <1>1 DEF Steps, SettingSteps, Typed
      <3> QED
        BY <2>2, <3>1, GotoTyped
    <2>3. CASE zero # NoRow /\ job' = [job EXCEPT ![j].at = "shiftBack", ![j].displaced = zero]
      <3> DEFINE q == [job[j] EXCEPT !.at = "shiftBack", !.displaced = zero]
      <3>1. zero \in Row
        BY <2>3, RowsTyped, AtPriorityRows DEF Typed
      <3>2. q \in JobSet
        BY <1>1, <3>1 DEF JobSet, Steps
      <3>3. Holds(q)
        BY <1>1, <3>1 DEF Holds, JobSet, SettingSteps, CronSteps
      <3>4. job' = [job EXCEPT ![j] = q]
        BY <2>3
      <3> QED
        BY <3>2, <3>3, <3>4, JobStep DEF Typed
    <2> QED
      BY <2>1, <2>2, <2>3
  <1> QED
    BY <1>2, StoreTyped, ExternalTyped, HistoryTyped DEF Typed, Reread, budgets, history

\* The status of the address that is being set changes.
LEMMA PrimaryTyped ==
    ASSUME JobOK, NEW j \in Job, NEW s \in SettingSteps \ {"shiftBack"}, NEW r \in Row, job[j].at \in SettingSteps,
           job' = [job EXCEPT ![j].at = s, ![j].primary = r]
    PROVE  JobOK'
  <1> DEFINE q == [job[j] EXCEPT !.at = s, !.primary = r]
  <1>1. job[j] \in JobSet /\ Holds(job[j])
    BY JobTyped
  <1>2. q \in JobSet
    BY <1>1 DEF JobSet, Steps, SettingSteps
  <1>3. Holds(q)
    BY <1>1 DEF Holds, JobSet, SettingSteps, CronSteps
  <1>4. job' = [job EXCEPT ![j] = q]
    OBVIOUS
  <1> QED
    BY <1>2, <1>3, <1>4, JobStep

LEMMA ShiftBackTyped == ASSUME Typed, NEW j \in Job, ShiftBack(j) PROVE Typed'
  <1>1. job[j] \in JobSet /\ job[j].displaced \in Row /\ job[j].at = "shiftBack" /\ JobOK /\ DbOK
    BY JobTyped DEF Typed, ShiftBack, At, Holds
  <1>2. "pend" \in Steps /\ "pend" \in SettingSteps /\ job[j].at \in SettingSteps /\ "FAILED" \in Status
    BY <1>1 DEF Steps, SettingSteps, Status
  <1>3. JobOK'
    <2>1. Goto(j, "pend") \/ Fail(j, "FAILED")
      BY DEF ShiftBack
    <2>2. ASSUME Goto(j, "pend") PROVE JobOK'
      BY <1>1, <1>2, <2>2, GotoTyped
    <2>3. ASSUME Fail(j, "FAILED") PROVE JobOK'
      BY <1>1, <1>2, <2>3, FailTyped
    <2> QED
      BY <2>1, <2>2, <2>3
  <1>4. DbOK'
    <2>1. CASE Exists(job[j].displaced)
      <3>1. PICK d \in Shifted(job[j].displaced.id, 2) : db' = d
        BY <2>1 DEF ShiftBack
      <3>2. job[j].displaced.id \in Persisted /\ 2 \in Nat /\ rows' = rows
        BY <2>1 DEF Exists, ShiftBack
      <3> QED
        BY <1>1, <3>1, <3>2, ShiftedKept, KeptTyped
    <2>2. CASE ~Exists(job[j].displaced)
      BY <1>1, <2>2, StoreTyped DEF ShiftBack, store
    <2> QED
      BY <2>1, <2>2
  <1> QED
    BY <1>3, <1>4, ExternalTyped, HistoryTyped DEF Typed, ShiftBack, budgets, history

LEMMA PendTyped == ASSUME Typed, NEW j \in Job, Pend(j) PROVE Typed'
  <1>1. job[j] \in JobSet /\ job[j].primary \in Row /\ job[j].at \in SettingSteps /\ JobOK /\ DbOK
    BY JobTyped DEF Typed, Pend, At, Holds, SettingSteps
  <1>2. PICK r : r = [job[j].primary EXCEPT !.status = "PENDING"]
    OBVIOUS
  <1>3. r \in Row
    BY <1>1, <1>2, RowEdited DEF Status
  <1>4. db' = Saved({r}) /\ job' = [job EXCEPT ![j].at = "shift", ![j].primary = r] /\ rows' = rows
    BY <1>2 DEF Pend
  <1>5. DbOK'
    BY <1>1, <1>3, <1>4, SavedKept, KeptTyped
  <1>6. JobOK'
    BY <1>1, <1>3, <1>4, PrimaryTyped DEF SettingSteps
  <1> QED
    BY <1>5, <1>6, ExternalTyped, HistoryTyped DEF Typed, Pend, budgets, history

LEMMA KeepPrimaryTyped == ASSUME Typed, NEW j \in Job, KeepPrimary(j) PROVE Typed'
  <1>1. job[j] \in JobSet /\ Holds(job[j]) /\ job[j].at = "pend" /\ JobOK /\ DbOK
    BY JobTyped DEF Typed, KeepPrimary, At
  <1>2. PICK r \in AtPriority(Rows, 1) : job' = [job EXCEPT ![j].at = "ox", ![j].alternative = r]
    BY DEF KeepPrimary
  <1>3. r \in Row \cup {NoRow}
    BY <1>1, AtPriorityRows, RowsTyped
  <1>4. JobOK'
    <2> DEFINE q == [job[j] EXCEPT !.at = "ox", !.alternative = r]
    <2>1. q \in JobSet
      BY <1>1, <1>3 DEF JobSet, Steps
    <2>2. Holds(q)
      BY <1>1 DEF Holds, JobSet, SettingSteps, CronSteps
    <2>3. job' = [job EXCEPT ![j] = q]
      BY <1>2
    <2> QED
      BY <1>1, <2>1, <2>2, <2>3, JobStep
  <1> QED
    BY <1>4, StoreTyped, ExternalTyped, HistoryTyped DEF Typed, KeepPrimary, budgets, history

LEMMA ShiftToFrontTyped == ASSUME Typed, NEW j \in Job, ShiftToFront(j) PROVE Typed'
  <1>1. job[j] \in JobSet /\ job[j].primary \in Row /\ job[j].at = "shift" /\ JobOK /\ DbOK
    BY JobTyped DEF Typed, ShiftToFront, At, Holds, SettingSteps
  <1>2. "ensure" \in Steps /\ "ensure" \in SettingSteps /\ job[j].at \in SettingSteps /\ "FAILED" \in Status
    BY <1>1 DEF Steps, SettingSteps, Status
  <1>3. JobOK'
    <2>1. Goto(j, "ensure") \/ Fail(j, "FAILED")
      BY DEF ShiftToFront
    <2>2. ASSUME Goto(j, "ensure") PROVE JobOK'
      BY <1>1, <1>2, <2>2, GotoTyped
    <2>3. ASSUME Fail(j, "FAILED") PROVE JobOK'
      BY <1>1, <1>2, <2>3, FailTyped
    <2> QED
      BY <2>1, <2>2, <2>3
  <1>4. DbOK'
    <2>1. CASE Exists(job[j].primary)
      <3>1. PICK d \in Shifted(job[j].primary.id, 0) : db' = d
        BY <2>1 DEF ShiftToFront
      <3>2. job[j].primary.id \in Persisted /\ 0 \in Nat /\ rows' = rows
        BY <2>1 DEF Exists, ShiftToFront
      <3> QED
        BY <1>1, <3>1, <3>2, ShiftedKept, KeptTyped
    <2>2. CASE ~Exists(job[j].primary)
      BY <1>1, <2>2, StoreTyped DEF ShiftToFront, store
    <2> QED
      BY <2>1, <2>2
  <1> QED
    BY <1>3, <1>4, ExternalTyped, HistoryTyped DEF Typed, ShiftToFront, budgets, history

LEMMA EnsureTyped == ASSUME Typed, NEW j \in Job, Ensure(j) PROVE Typed'
  <1>1. job[j] \in JobSet /\ Holds(job[j]) /\ job[j].at = "ensure" /\ JobOK /\ DbOK
    BY JobTyped DEF Typed, Ensure, At
  <1>2. today + Deadline \in Nat
    BY Bounds DEF Typed, HistoryOK
  <1>3. PICK d : d = Ensured(today + Deadline)
    OBVIOUS
  <1>4. Kept(d) /\ db' = d /\ rows' = rows
    BY <1>1, <1>2, <1>3, EnsuredKept DEF Ensure
  <1>5. DbOK'
    BY <1>1, <1>4, KeptTyped
  <1>6. JobOK'
    <2>1. PICK zero \in AtPriority(RowsOf(d), 0), one \in AtPriority(RowsOf(d), 1) :
             IF zero = NoRow THEN Retry(j)
             ELSE job' = [job EXCEPT ![j].at = "ox", ![j].primary = zero, ![j].alternative = one]
      BY <1>3 DEF Ensure
    <2>2. zero \in Row \cup {NoRow} /\ one \in Row \cup {NoRow}
      BY <1>4, RowsOfTyped, AtPriorityRows DEF Kept
    <2>3. CASE Retry(j)
      BY <1>1, <2>3, RetryTyped DEF SettingSteps
    <2>4. CASE zero # NoRow /\ job' = [job EXCEPT ![j].at = "ox", ![j].primary = zero, ![j].alternative = one]
      <3> DEFINE q == [job[j] EXCEPT !.at = "ox", !.primary = zero, !.alternative = one]
      <3>1. q \in JobSet
        BY <1>1, <2>2 DEF JobSet, Steps
      <3>2. Holds(q)
        BY <1>1, <2>2, <2>4 DEF Holds, JobSet, SettingSteps, CronSteps
      <3>3. job' = [job EXCEPT ![j] = q]
        BY <2>4
      <3> QED
        BY <1>1, <3>1, <3>2, <3>3, JobStep
    <2> QED
      BY <2>1, <2>3, <2>4
  <1> QED
    BY <1>5, <1>6, ExternalTyped, HistoryTyped DEF Typed, Ensure, budgets

LEMMA AddressOfTyped == ASSUME NEW r \in Row \cup {NoRow} PROVE AddressOf(r) \in OptionalAddress
  BY DEF AddressOf, OptionalAddress, Row

LEMMA SettingFields ==
    ASSUME Typed, NEW j \in Job, job[j].at \in SettingSteps
    PROVE  /\ job[j] \in JobSet /\ JobOK /\ DbOK
           /\ job[j].primary \in Row /\ job[j].primary.address \in Address /\ job[j].primary.oxUserCounter \in Nat
           /\ job[j].alternative \in Row \cup {NoRow}
           /\ AddressOf(job[j].alternative) \in OptionalAddress
  <1>1. job[j] \in JobSet /\ Holds(job[j]) /\ JobOK /\ DbOK
    BY JobTyped DEF Typed
  <1>2. job[j].primary \in Row /\ job[j].alternative \in Row \cup {NoRow}
    BY <1>1 DEF Holds, JobSet
  <1> QED
    BY <1>1, <1>2, RowFields, AddressOfTyped

LEMMA ChangeOxUserTyped == ASSUME Typed, NEW j \in Job, NEW o \in OxCalls, ChangeOxUser(j, o) PROVE Typed'
  <1>1. job[j].at = "ox" /\ job[j].at \in SettingSteps
    BY DEF ChangeOxUser, At, SettingSteps
  <1>2. JobOK'
    <2>1. Goto(j, "saveOx") \/ Fail(j, "EXISTS_ONLY_IN_OX") \/ Fail(j, "FAILED")
      BY DEF ChangeOxUser
    <2>2. ASSUME Goto(j, "saveOx") PROVE JobOK'
      BY <1>1, <2>2, SettingFields, GotoTyped DEF SettingSteps, Steps
    <2>3. ASSUME Fail(j, "EXISTS_ONLY_IN_OX") PROVE JobOK'
      BY <1>1, <2>3, SettingFields, FailTyped DEF Status
    <2>4. ASSUME Fail(j, "FAILED") PROVE JobOK'
      BY <1>1, <2>4, SettingFields, FailTyped DEF Status
    <2> QED
      BY <2>1, <2>2, <2>3, <2>4
  <1>3. ExternalOK'
    <2>1. ox \in OxUser \cup {NoUser} /\ oxUsers \in Nat /\ ldap \in LdapEntry \cup {NoUser} /\ undi \in UndiEntry \cup {NoUser}
      BY DEF Typed, ExternalOK
    <2>2. /\ oxUsers' = oxUsers /\ ldap' = ldap /\ undi' = undi
          /\ \/ ox' = ox
             \/ /\ ox # NoUser
                /\ ox' = [ox EXCEPT !.primary = job[j].primary.address,
                                    !.aliases = {job[j].primary.address, AddressOf(job[j].alternative)} \ {NoAddress},
                                    !.groups = @ \/ o = "ok"]
      BY DEF ChangeOxUser
    <2>3. {job[j].primary.address, AddressOf(job[j].alternative)} \ {NoAddress} \in SUBSET Address
      BY <1>1, SettingFields DEF OptionalAddress
    <2>4. ox' \in OxUser \cup {NoUser}
      BY <1>1, <2>1, <2>2, <2>3, SettingFields DEF OxUser
    <2> QED
      BY <2>1, <2>2, <2>4 DEF ExternalOK
  <1> QED
    BY <1>2, <1>3, StoreTyped, HistoryTyped DEF Typed, ChangeOxUser, history

LEMMA CreateOxUserTyped == ASSUME Typed, NEW j \in Job, NEW o \in OxCalls, CreateOxUser(j, o) PROVE Typed'
  <1>1. job[j].at = "ox" /\ job[j].at \in SettingSteps
    BY DEF CreateOxUser, At, SettingSteps
  <1>2. JobOK'
    <2>1. \/ job' = [job EXCEPT ![j].at = "saveOx", ![j].primary.oxUserCounter = oxUsers + 1]
          \/ Fail(j, "EXISTS_ONLY_IN_OX") \/ Fail(j, "FAILED")
      BY DEF CreateOxUser
    <2>2. ASSUME job' = [job EXCEPT ![j].at = "saveOx", ![j].primary.oxUserCounter = oxUsers + 1] PROVE JobOK'
      <3>1. PICK r : r = [job[j].primary EXCEPT !.oxUserCounter = oxUsers + 1]
        OBVIOUS
      <3>2. r \in Row
        BY <1>1, <3>1, SettingFields, RowEdited DEF Typed, ExternalOK
      <3>3. job' = [job EXCEPT ![j].at = "saveOx", ![j].primary = r]
        BY <1>1, <2>2, <3>1, SettingFields DEF JobSet
      <3> QED
        BY <1>1, <3>2, <3>3, SettingFields, PrimaryTyped DEF SettingSteps
    <2>3. ASSUME Fail(j, "EXISTS_ONLY_IN_OX") PROVE JobOK'
      BY <1>1, <2>3, SettingFields, FailTyped DEF Status
    <2>4. ASSUME Fail(j, "FAILED") PROVE JobOK'
      BY <1>1, <2>4, SettingFields, FailTyped DEF Status
    <2> QED
      BY <2>1, <2>2, <2>3, <2>4
  <1>3. ExternalOK'
    <2>1. ox \in OxUser \cup {NoUser} /\ oxUsers \in Nat /\ ldap \in LdapEntry \cup {NoUser} /\ undi \in UndiEntry \cup {NoUser}
      BY DEF Typed, ExternalOK
    <2>2. /\ oxUsers' \in {oxUsers, oxUsers + 1} /\ ldap' = ldap /\ undi' = undi
          /\ \/ ox' = ox
             \/ ox' = [id |-> oxUsers + 1, primary |-> job[j].primary.address,
                       aliases |-> {job[j].primary.address}, groups |-> o = "ok"]
      BY DEF CreateOxUser
    <2>3. ox' \in OxUser \cup {NoUser}
      <3>1. \A n \in Nat, p \in Address, b \in BOOLEAN :
               [id |-> n, primary |-> p, aliases |-> {p}, groups |-> b] \in OxUser
        BY DEF OxUser
      <3>2. job[j].primary.address \in Address /\ (o = "ok") \in BOOLEAN /\ oxUsers + 1 \in Nat
        BY <1>1, <2>1, SettingFields
      <3>3. [id |-> oxUsers + 1, primary |-> job[j].primary.address, aliases |-> {job[j].primary.address}, groups |-> o = "ok"] \in OxUser
        BY <3>1, <3>2, Zenon
      <3> QED
        BY <2>1, <2>2, <3>3
    <2> QED
      BY <2>1, <2>2, <2>3 DEF ExternalOK
  <1> QED
    BY <1>2, <1>3, StoreTyped, HistoryTyped DEF Typed, CreateOxUser, history

LEMMA SaveOxTyped == ASSUME Typed, NEW j \in Job, SaveOx(j) PROVE Typed'
  <1>1. job[j].at = "saveOx" /\ job[j].at \in SettingSteps
    BY DEF SaveOx, At, SettingSteps
  <1>2. PICK r : r = [job[j].primary EXCEPT !.markedForCron = NoDate]
    OBVIOUS
  <1>3. r \in Row
    BY <1>1, <1>2, SettingFields, RowEdited
  <1>4. CASE Exists(r)
    <2>1. /\ db' = Saved({r}) /\ rows' = rows
          /\ recorded' = recorded \cup {r.oxUserCounter}
          /\ partial' = (partial \/ \E q \in Rows : q.id # r.id /\ q.oxUserCounter = NoCounter)
          /\ job' = [job EXCEPT ![j].at = "ldap", ![j].primary = r]
      BY <1>2, <1>4, Zenon DEF SaveOx
    <2>2. DbOK'
      BY <1>1, <1>3, <2>1, SettingFields, SavedKept, KeptTyped
    <2>3. JobOK'
      BY <1>1, <1>3, <2>1, SettingFields, PrimaryTyped DEF SettingSteps
    <2>4. HistoryOK'
      <3>1. r.oxUserCounter \in Nat /\ UNCHANGED <<today, interruptions, leftovers>>
        BY <1>3, RowFields DEF SaveOx, budgets
      <3> QED
        BY <2>1, <3>1 DEF Typed, HistoryOK
    <2> QED
      BY <2>2, <2>3, <2>4, ExternalTyped DEF Typed, SaveOx
  <1>5. CASE ~Exists(r)
    <2>1. Fail(j, "FAILED") /\ UNCHANGED <<db, rows, recorded, partial>>
      BY <1>2, <1>5 DEF SaveOx
    <2>2. JobOK'
      BY <1>1, <2>1, SettingFields, FailTyped DEF Status
    <2> QED
      BY <2>1, <2>2, StoreTyped, ExternalTyped, HistoryTyped DEF Typed, SaveOx, budgets, store
  <1> QED
    BY <1>4, <1>5

LEMMA UpsertLdapTyped == ASSUME Typed, NEW j \in Job, NEW o \in Calls, UpsertLdap(j, o) PROVE Typed'
  <1>1. job[j].at = "ldap" /\ job[j].at \in SettingSteps
    BY DEF UpsertLdap, At, SettingSteps
  <1>2. JobOK'
    <2>1. Goto(j, "undi") \/ Fail(j, "FAILED")
      BY DEF UpsertLdap
    <2>2. ASSUME Goto(j, "undi") PROVE JobOK'
      BY <1>1, <2>2, SettingFields, GotoTyped DEF SettingSteps, Steps
    <2>3. ASSUME Fail(j, "FAILED") PROVE JobOK'
      BY <1>1, <2>3, SettingFields, FailTyped DEF Status
    <2> QED
      BY <2>1, <2>2, <2>3
  <1>3. ExternalOK'
    <2>1. \/ ldap' = ldap
          \/ ldap' = [primary |-> job[j].primary.address, alternative |-> AddressOf(job[j].alternative)]
      BY DEF UpsertLdap
    <2>2. ldap' \in LdapEntry \cup {NoUser}
      BY <1>1, <2>1, SettingFields DEF LdapEntry, Typed, ExternalOK
    <2> QED
      BY <2>2 DEF Typed, ExternalOK, UpsertLdap
  <1> QED
    BY <1>2, <1>3, StoreTyped, HistoryTyped DEF Typed, UpsertLdap, history

LEMMA UpsertUndiTyped == ASSUME Typed, NEW j \in Job, NEW o \in Calls, UpsertUndi(j, o) PROVE Typed'
  <1>1. job[j].at = "undi" /\ job[j].at \in SettingSteps
    BY DEF UpsertUndi, At, SettingSteps
  <1>2. JobOK'
    <2>1. \/ job' = [job EXCEPT ![j].at = "activate", ![j].primary.status = "ACTIVE"]
          \/ Fail(j, "FAILED")
      BY DEF UpsertUndi
    <2>2. ASSUME job' = [job EXCEPT ![j].at = "activate", ![j].primary.status = "ACTIVE"] PROVE JobOK'
      <3>1. PICK r : r = [job[j].primary EXCEPT !.status = "ACTIVE"]
        OBVIOUS
      <3>2. r \in Row
        BY <1>1, <3>1, SettingFields, RowEdited DEF Status
      <3>3. job' = [job EXCEPT ![j].at = "activate", ![j].primary = r]
        BY <1>1, <2>2, <3>1, SettingFields DEF JobSet
      <3> QED
        BY <1>1, <3>2, <3>3, SettingFields, PrimaryTyped DEF SettingSteps
    <2>3. ASSUME Fail(j, "FAILED") PROVE JobOK'
      BY <1>1, <2>3, SettingFields, FailTyped DEF Status
    <2> QED
      BY <2>1, <2>2, <2>3
  <1>3. ExternalOK'
    <2>1. \/ undi' = undi
          \/ undi' = [primary |-> job[j].primary.address, alternative |-> AddressOf(job[j].alternative), deaktiviert |-> FALSE]
      BY DEF UpsertUndi
    <2>2. undi' \in UndiEntry \cup {NoUser}
      <3>1. \A p \in Address, a \in OptionalAddress, b \in BOOLEAN :
               [primary |-> p, alternative |-> a, deaktiviert |-> b] \in UndiEntry
        BY DEF UndiEntry
      <3>2. [primary |-> job[j].primary.address, alternative |-> AddressOf(job[j].alternative), deaktiviert |-> FALSE] \in UndiEntry
        BY <1>1, <3>1, SettingFields, Zenon
      <3> QED
        BY <2>1, <3>2 DEF Typed, ExternalOK
    <2> QED
      BY <2>2 DEF Typed, ExternalOK, UpsertUndi
  <1> QED
    BY <1>2, <1>3, StoreTyped, HistoryTyped DEF Typed, UpsertUndi, history

LEMMA ActivateTyped == ASSUME Typed, NEW j \in Job, Activate(j) PROVE Typed'
  <1>1. job[j].at = "activate" /\ job[j].at \in SettingSteps
    BY DEF Activate, At, SettingSteps
  <1>2. db' = Saved({job[j].primary}) /\ rows' = rows
    BY DEF Activate
  <1>3. DbOK'
    BY <1>1, <1>2, SettingFields, SavedKept, KeptTyped
  <1>4. JobOK'
    <2>1. CASE job[j].alternative = NoRow
      BY <1>1, <2>1, SettingFields, FinishTyped DEF Activate
    <2>2. CASE job[j].alternative # NoRow
      <3>1. job' = [job EXCEPT ![j].at = "activateAlternative", ![j].alternative.status = "ACTIVE"]
        BY <2>2 DEF Activate
      <3>2. PICK r : r = [job[j].alternative EXCEPT !.status = "ACTIVE"]
        OBVIOUS
      <3>3. r \in Row
        BY <1>1, <2>2, <3>2, SettingFields, RowEdited DEF Status
      <3> DEFINE q == [job[j] EXCEPT !.at = "activateAlternative", !.alternative = r]
      <3>4. job' = [job EXCEPT ![j] = q]
        BY <1>1, <3>1, <3>2, SettingFields DEF JobSet
      <3>5. q \in JobSet
        <4>1. job[j] \in JobSet /\ "activateAlternative" \in Steps
          BY <1>1, SettingFields DEF Steps
        <4> QED
          BY <3>3, <4>1 DEF JobSet
      <3>6. Holds(q)
        <4>1. Holds(job[j]) /\ job[j] \in JobSet
          BY <1>1, SettingFields, JobTyped
        <4> QED
          BY <1>1, <3>3, <4>1 DEF Holds, JobSet, SettingSteps, CronSteps
      <3> QED
        BY <1>1, <3>4, <3>5, <3>6, SettingFields, JobStep
    <2> QED
      BY <2>1, <2>2
  <1> QED
    BY <1>3, <1>4, ExternalTyped, HistoryTyped DEF Typed, Activate, budgets

LEMMA ActivateAlternativeTyped == ASSUME Typed, NEW j \in Job, ActivateAlternative(j) PROVE Typed'
  <1>1. JobOK /\ DbOK /\ job[j].alternative \in Row
    BY JobTyped DEF Typed, ActivateAlternative, At, Holds
  <1>2. DbOK'
    BY <1>1, SavedKept, KeptTyped DEF ActivateAlternative
  <1>3. JobOK'
    BY <1>1, FinishTyped DEF ActivateAlternative
  <1> QED
    BY <1>2, <1>3, ExternalTyped, HistoryTyped DEF Typed, ActivateAlternative, budgets

LEMMA SaveFailureTyped == ASSUME Typed, NEW j \in Job, SaveFailure(j) PROVE Typed'
  <1>1. job[j].at = "fail" /\ job[j].at \in SettingSteps
    BY DEF SaveFailure, At, SettingSteps
  <1>2. DbOK'
    BY <1>1, SettingFields, SavedKept, KeptTyped DEF SaveFailure
  <1>3. JobOK'
    BY <1>1, SettingFields, RetryTyped DEF SaveFailure
  <1> QED
    BY <1>2, <1>3, ExternalTyped, HistoryTyped DEF Typed, SaveFailure, budgets

\* What a job holds has the type of rows.
LEMMA HeldFields ==
    ASSUME Typed, NEW j \in Job
    PROVE  /\ job[j] \in JobSet /\ Holds(job[j]) /\ JobOK /\ DbOK
           /\ job[j].held \in SUBSET Row
           /\ \A s \in Steps, h \in SUBSET Row, b \in BOOLEAN : [job[j] EXCEPT !.at = s, !.held = h, !.ok = b] \in JobSet
           /\ job[j].at \in CronSteps => job[j].primary \in Row /\ job[j].alternative \in Row
  <1>1. job[j] \in JobSet /\ Holds(job[j]) /\ JobOK /\ DbOK
    BY JobTyped DEF Typed
  <1> QED
    BY <1>1 DEF JobSet, Holds

\* A job goes on with the rows that it has read.
LEMMA HoldTyped ==
    ASSUME Typed, NEW j \in Job, NEW s \in {"suspendSave", "deleteMark"}, NEW h \in SUBSET Row,
           job' = [job EXCEPT ![j].at = s, ![j].held = h]
    PROVE  JobOK'
  <1> DEFINE q == [job[j] EXCEPT !.at = s, !.held = h]
  <1>1. job[j] \in JobSet /\ Holds(job[j]) /\ JobOK /\ s \in Steps
    BY JobTyped DEF Typed, Steps
  <1>2. q \in JobSet
    BY <1>1 DEF JobSet
  <1>3. Holds(q)
    BY <1>1 DEF Holds, JobSet, SettingSteps, CronSteps
  <1>4. job' = [job EXCEPT ![j] = q]
    OBVIOUS
  <1> QED
    BY <1>1, <1>2, <1>3, <1>4, JobStep

\* A step that no address is held for.
FreeSteps ==
    {"suspendOx", "suspendUndi", "deleteRead", "deleteOx", "deleteLdap", "deleteUndi", "deleteRows", "cronRead"}

LEMMA FreeGotoTyped ==
    ASSUME Typed, NEW j \in Job, NEW s \in FreeSteps, Goto(j, s)
    PROVE  JobOK'
  <1>1. s \in Steps /\ s \notin SettingSteps \cup CronSteps \cup {"check", "choose", "insert", "activateAlternative"} /\ JobOK
    BY DEF FreeSteps, Steps, SettingSteps, CronSteps, Typed
  <1> QED
    BY <1>1, GotoTyped

LEMMA FreeContinueTyped ==
    ASSUME Typed, NEW j \in Job, NEW s \in FreeSteps, NEW b \in BOOLEAN, Continue(j, s, b)
    PROVE  JobOK'
  <1>1. s \in Steps /\ s \notin SettingSteps \cup CronSteps \cup {"check", "choose", "insert", "activateAlternative"} /\ JobOK
    BY DEF FreeSteps, Steps, SettingSteps, CronSteps, Typed
  <1> QED
    BY <1>1, ContinueTyped

LEMMA SuspendTyped == ASSUME Typed, NEW j \in Job, Suspend(j) PROVE Typed'
  <1>1. CASE SuspendRead(j)
    <2>1. JobOK'
      <3>1. CASE Rows = {}
        BY <1>1, <3>1, FinishTyped DEF SuspendRead, Typed
      <3>2. CASE Rows # {}
        <4>1. PICK h : h = {Suspended(r) : r \in {s \in Rows : s.priority <= 1}}
          OBVIOUS
        <4>2. h \in SUBSET Row
          <5>1. ASSUME NEW r \in Row PROVE Suspended(r) \in Row
            <6>1. today + Deadline \in Nat
              BY Bounds DEF Typed, HistoryOK
            <6> QED
              BY <6>1 DEF Suspended, Row, Status
          <5> QED
            BY <4>1, <5>1, RowsTyped DEF Typed
        <4>3. job' = [job EXCEPT ![j].at = "suspendSave", ![j].held = h]
          BY <1>1, <3>2, <4>1 DEF SuspendRead
        <4> QED
          BY <4>2, <4>3, HoldTyped
      <3> QED
        BY <3>1, <3>2
    <2> QED
      BY <1>1, <2>1, StoreTyped, ExternalTyped, HistoryTyped DEF Typed, SuspendRead, budgets
  <1>2. CASE SuspendSave(j)
    <2>1. JobOK'
      BY <1>2, FreeGotoTyped DEF SuspendSave, FreeSteps
    <2>2. DbOK'
      BY <1>2, HeldFields, SavedKept, KeptTyped DEF SuspendSave
    <2> QED
      BY <1>2, <2>1, <2>2, ExternalTyped, HistoryTyped DEF Typed, SuspendSave, budgets, history
  <1>3. ASSUME NEW o \in Calls, SuspendOx(j, o) PROVE Typed'
    <2>1. JobOK'
      BY <1>3, FreeGotoTyped DEF SuspendOx, FreeSteps
    <2>2. ExternalOK'
      <3>1. ox' = ox \/ (ox # NoUser /\ ox' = [ox EXCEPT !.groups = FALSE])
        BY <1>3, Zenon DEF SuspendOx
      <3>2. \A u \in OxUser : [u EXCEPT !.groups = FALSE] \in OxUser
        BY DEF OxUser
      <3>3. ox' \in OxUser \cup {NoUser}
        BY <3>1, <3>2 DEF Typed, ExternalOK
      <3> QED
        BY <1>3, <3>3 DEF Typed, ExternalOK, SuspendOx
    <2> QED
      BY <1>3, <2>1, <2>2, StoreTyped, HistoryTyped DEF Typed, SuspendOx, history
  <1>4. ASSUME NEW o \in Calls, SuspendUndi(j, o) PROVE Typed'
    <2>1. JobOK'
      BY <1>4, FinishTyped DEF SuspendUndi, Typed
    <2>2. ExternalOK'
      <3>1. undi' = undi \/ (undi # NoUser /\ undi' = [undi EXCEPT !.deaktiviert = TRUE])
        BY <1>4, Zenon DEF SuspendUndi
      <3>2. \A u \in UndiEntry : [u EXCEPT !.deaktiviert = TRUE] \in UndiEntry
        BY DEF UndiEntry
      <3>3. undi' \in UndiEntry \cup {NoUser}
        BY <3>1, <3>2 DEF Typed, ExternalOK
      <3> QED
        BY <1>4, <3>3 DEF Typed, ExternalOK, SuspendUndi
    <2> QED
      BY <1>4, <2>1, <2>2, StoreTyped, HistoryTyped DEF Typed, SuspendUndi
  <1> QED
    BY <1>1, <1>2, <1>3, <1>4 DEF Suspend

LEMMA DeleteTyped == ASSUME Typed, NEW j \in Job, Delete(j) PROVE Typed'
  <1>1. CASE DeleteRead(j)
    <2>1. JobOK'
      <3>1. CASE Rows = {}
        BY <1>1, <3>1, FinishTyped DEF DeleteRead, Typed
      <3>2. CASE Rows # {}
        <4>1. PICK h : h = {[r EXCEPT !.status = "TO_BE_DELETED", !.markedForCron = today] : r \in Rows}
          OBVIOUS
        <4>2. h \in SUBSET Row
          <5>1. ASSUME NEW r \in Row PROVE [r EXCEPT !.status = "TO_BE_DELETED", !.markedForCron = today] \in Row
            BY DEF Typed, HistoryOK, Row, Status
          <5> QED
            BY <4>1, <5>1, RowsTyped DEF Typed
        <4>3. job' = [job EXCEPT ![j].at = "deleteMark", ![j].held = h]
          BY <1>1, <3>2, <4>1 DEF DeleteRead
        <4> QED
          BY <4>2, <4>3, HoldTyped
      <3> QED
        BY <3>1, <3>2
    <2> QED
      BY <1>1, <2>1, StoreTyped, ExternalTyped, HistoryTyped DEF Typed, DeleteRead, budgets
  <1>2. CASE DeleteMark(j)
    <2>1. JobOK'
      BY <1>2, FreeGotoTyped DEF DeleteMark, FreeSteps
    <2>2. DbOK'
      BY <1>2, HeldFields, SavedKept, KeptTyped DEF DeleteMark
    <2> QED
      BY <1>2, <2>1, <2>2, ExternalTyped, HistoryTyped DEF Typed, DeleteMark, budgets, history
  <1>3. ASSUME NEW o \in Calls, DeleteOxUser(j, o) PROVE Typed'
    <2>1. JobOK'
      <3>1. Continue(j, "deleteLdap", TRUE) \/ Continue(j, "deleteLdap", o = "ok")
        BY <1>3 DEF DeleteOxUser
      <3>2. "deleteLdap" \in FreeSteps /\ (o = "ok") \in BOOLEAN
        BY DEF FreeSteps
      <3> QED
        BY <3>1, <3>2, FreeContinueTyped, Zenon
    <2>2. ExternalOK'
      <3>1. ox' \in {ox, NoUser}
        BY <1>3 DEF DeleteOxUser
      <3> QED
        BY <1>3, <3>1 DEF Typed, ExternalOK, DeleteOxUser
    <2> QED
      BY <1>3, <2>1, <2>2, StoreTyped, HistoryTyped DEF Typed, DeleteOxUser, history
  <1>4. ASSUME NEW o \in Calls, DeleteLdapPerson(j, o) PROVE Typed'
    <2>1. JobOK'
      <3>1. Continue(j, "deleteUndi", o = "ok")
        BY <1>4 DEF DeleteLdapPerson
      <3>2. "deleteUndi" \in FreeSteps /\ (o = "ok") \in BOOLEAN
        BY DEF FreeSteps
      <3> QED
        BY <3>1, <3>2, FreeContinueTyped, Zenon
    <2>2. ExternalOK'
      <3>1. ldap' \in {ldap, NoUser}
        BY <1>4 DEF DeleteLdapPerson
      <3> QED
        BY <1>4, <3>1 DEF Typed, ExternalOK, DeleteLdapPerson
    <2> QED
      BY <1>4, <2>1, <2>2, StoreTyped, HistoryTyped DEF Typed, DeleteLdapPerson, history
  <1>5. ASSUME NEW o \in Calls, DeleteUndiPerson(j, o) PROVE Typed'
    <2>1. JobOK'
      <3>1. Goto(j, "deleteRows") \/ Finish(j, "kept")
        BY <1>5 DEF DeleteUndiPerson
      <3>2. ASSUME Goto(j, "deleteRows") PROVE JobOK'
        BY <3>2, FreeGotoTyped DEF FreeSteps
      <3>3. ASSUME Finish(j, "kept") PROVE JobOK'
        BY <3>3, FinishTyped DEF Typed
      <3> QED
        BY <3>1, <3>2, <3>3
    <2>2. ExternalOK'
      <3>1. undi' \in {undi, NoUser}
        BY <1>5 DEF DeleteUndiPerson
      <3> QED
        BY <1>5, <3>1 DEF Typed, ExternalOK, DeleteUndiPerson
    <2> QED
      BY <1>5, <2>1, <2>2, StoreTyped, HistoryTyped DEF Typed, DeleteUndiPerson
  <1>6. CASE DeleteRows(j)
    <2>1. JobOK'
      BY <1>6, FinishTyped DEF DeleteRows, Typed
    <2>2. DbOK'
      BY <1>6, HeldFields, WithoutKept, KeptTyped DEF DeleteRows
    <2> QED
      BY <1>6, <2>1, <2>2, ExternalTyped, HistoryTyped DEF Typed, DeleteRows, budgets
  <1> QED
    BY <1>1, <1>2, <1>3, <1>4, <1>5, <1>6 DEF Delete

LEMMA CronReadTyped == ASSUME Typed, NEW j \in Job, CronRead(j) PROVE JobOK'
  <1> DEFINE due == {r \in Rows : Due(r)}
             alternative == {r \in due : due = {r} /\ r.priority = 1}
             primaries == {r \in Rows : r.priority = 0}
  <1>1. \/ Finish(j, "ok") \/ Finish(j, "error") \/ Goto(j, "deleteRead")
        \/ \E one \in alternative, zero \in primaries :
              job' = [job EXCEPT ![j].at = "cronMark", ![j].primary = zero,
                                 ![j].alternative = [one EXCEPT !.status = "TO_BE_DELETED"]]
    BY Zenon DEF CronRead
  <1>2. CASE Finish(j, "ok")
    BY <1>2, FinishTyped DEF Typed
  <1>3. CASE Finish(j, "error")
    BY <1>3, FinishTyped DEF Typed
  <1>4. CASE Goto(j, "deleteRead")
    BY <1>4, FreeGotoTyped DEF FreeSteps
  <1>5. CASE \E one \in alternative, zero \in primaries :
              job' = [job EXCEPT ![j].at = "cronMark", ![j].primary = zero,
                                 ![j].alternative = [one EXCEPT !.status = "TO_BE_DELETED"]]
    <2>1. PICK one \in alternative, zero \in primaries :
              job' = [job EXCEPT ![j].at = "cronMark", ![j].primary = zero,
                                 ![j].alternative = [one EXCEPT !.status = "TO_BE_DELETED"]]
      BY <1>5
    <2>2. PICK r : r = [one EXCEPT !.status = "TO_BE_DELETED"]
      OBVIOUS
    <2>3. zero \in Row /\ r \in Row
      BY <2>2, RowsTyped, RowEdited DEF Typed, Status
    <2> DEFINE q == [job[j] EXCEPT !.at = "cronMark", !.primary = zero, !.alternative = r]
    <2>4. job[j] \in JobSet /\ Holds(job[j]) /\ JobOK
      BY JobTyped DEF Typed
    <2>5. q \in JobSet
      BY <2>3, <2>4 DEF JobSet, Steps
    <2>6. Holds(q)
      BY <2>3, <2>4 DEF Holds, JobSet, SettingSteps, CronSteps
    <2>7. job' = [job EXCEPT ![j] = q]
      BY <2>1, <2>2
    <2> QED
      BY <2>4, <2>5, <2>6, <2>7, JobStep
  <1> QED
    BY <1>1, <1>2, <1>3, <1>4, <1>5

LEMMA CronTyped == ASSUME Typed, NEW j \in Job, Cron(j) PROVE Typed'
  <1>1. CASE Purge(j)
    <2>1. JobOK'
      BY <1>1, FreeGotoTyped DEF Purge, FreeSteps
    <2>2. DbOK'
      BY <1>1, WithoutKept, KeptTyped DEF Purge, Typed
    <2> QED
      BY <1>1, <2>1, <2>2, ExternalTyped, HistoryTyped DEF Typed, Purge, budgets, history
  <1>2. CASE CronRead(j)
    BY <1>2, CronReadTyped, StoreTyped, ExternalTyped, HistoryTyped DEF Typed, CronRead, budgets
  <1>3. CASE CronMark(j)
    <2>1. job[j].at = "cronMark" /\ job[j].at \in CronSteps /\ "cronOx" \in CronSteps /\ "cronOx" \in Steps
      BY <1>3 DEF CronMark, At, CronSteps, Steps
    <2>2. JobOK'
      BY <1>3, <2>1, HeldFields, GotoTyped DEF CronMark
    <2>3. DbOK'
      BY <1>3, <2>1, HeldFields, SavedKept, KeptTyped DEF CronMark
    <2> QED
      BY <1>3, <2>2, <2>3, ExternalTyped, HistoryTyped DEF Typed, CronMark, budgets, history
  <1>4. ASSUME NEW o \in Calls, CronOx(j, o) PROVE Typed'
    <2>1. job[j].at = "cronOx" /\ job[j].at \in CronSteps /\ "cronLdap" \in CronSteps /\ "cronLdap" \in Steps
          /\ "cronLdap" \notin SettingSteps \cup {"activateAlternative", "check", "choose", "insert"}
      BY <1>4 DEF CronOx, At, CronSteps, Steps, SettingSteps
    <2>2. JobOK'
      <3>1. \E b \in BOOLEAN : Continue(j, "cronLdap", b)
        BY <1>4 DEF CronOx
      <3> QED
        BY <2>1, <3>1, HeldFields, ContinueTyped
    <2>3. ExternalOK'
      <3>1. \/ ox' = ox
            \/ ox # NoUser /\ ox' = [ox EXCEPT !.primary = job[j].primary.address, !.aliases = {job[j].primary.address}]
        BY <1>4 DEF CronOx
      <3>2. \A u \in OxUser, a \in Address : [u EXCEPT !.primary = a, !.aliases = {a}] \in OxUser
        BY DEF OxUser
      <3>3. job[j].primary.address \in Address
        BY <2>1, HeldFields, RowFields
      <3>4. ox' \in OxUser \cup {NoUser}
        BY <3>1, <3>2, <3>3 DEF Typed, ExternalOK
      <3> QED
        BY <1>4, <3>4 DEF Typed, ExternalOK, CronOx
    <2> QED
      BY <1>4, <2>2, <2>3, StoreTyped, HistoryTyped DEF Typed, CronOx, history
  <1>5. ASSUME NEW o \in Calls, CronLdap(j, o) PROVE Typed'
    <2>1. job[j].at = "cronLdap" /\ job[j].at \in CronSteps /\ "cronDelete" \in CronSteps /\ "cronDelete" \in Steps
          /\ "cronDelete" \notin SettingSteps \cup {"activateAlternative", "check", "choose", "insert"}
      BY <1>5 DEF CronLdap, At, CronSteps, Steps, SettingSteps
    <2>2. JobOK'
      <3>1. \E b \in BOOLEAN : Continue(j, "cronDelete", b)
        BY <1>5 DEF CronLdap
      <3> QED
        BY <2>1, <3>1, HeldFields, ContinueTyped
    <2>3. ExternalOK'
      <3>1. \/ ldap' = ldap
            \/ ldap' = [primary |-> job[j].primary.address, alternative |-> NoAddress]
        BY <1>5 DEF CronLdap
      <3>2. \A a \in Address : [primary |-> a, alternative |-> NoAddress] \in LdapEntry
        BY DEF LdapEntry, OptionalAddress
      <3>3. job[j].primary.address \in Address
        BY <2>1, HeldFields, RowFields
      <3>4. ldap' \in LdapEntry \cup {NoUser}
        BY <3>1, <3>2, <3>3 DEF Typed, ExternalOK
      <3> QED
        BY <1>5, <3>4 DEF Typed, ExternalOK, CronLdap
    <2> QED
      BY <1>5, <2>2, <2>3, StoreTyped, HistoryTyped DEF Typed, CronLdap, history
  <1>6. CASE CronDelete(j)
    <2>1. JobOK'
      BY <1>6, FinishTyped DEF CronDelete, Typed
    <2>2. DbOK'
      <3>1. PICK d : d = IF job[j].ok THEN Without({job[j].alternative}) ELSE db
        OBVIOUS
      <3>2. db' = d /\ rows' = rows
        BY <1>6, <3>1 DEF CronDelete
      <3>3. DbOK
        BY DEF Typed
      <3>4. CASE job[j].ok
        BY <3>1, <3>2, <3>3, <3>4, WithoutKept, KeptTyped
      <3>5. CASE ~job[j].ok
        BY <3>1, <3>2, <3>3, <3>5, StoreTyped DEF store
      <3> QED
        BY <3>4, <3>5
    <2> QED
      BY <1>6, <2>1, <2>2, ExternalTyped, HistoryTyped DEF Typed, CronDelete, budgets
  <1> QED
    BY <1>1, <1>2, <1>3, <1>4, <1>5, <1>6 DEF Cron

LEMMA SetTyped == ASSUME Typed, NEW j \in Job, Set(j) PROVE Typed'
  BY CheckPendingTyped, ChooseTyped, InsertTyped, RereadTyped, ShiftBackTyped, PendTyped, KeepPrimaryTyped,
     ShiftToFrontTyped, EnsureTyped, ChangeOxUserTyped, CreateOxUserTyped, SaveOxTyped, UpsertLdapTyped,
     UpsertUndiTyped, ActivateTyped, ActivateAlternativeTyped, SaveFailureTyped, Zenon
  DEF Set

LEMMA NextDayTyped == ASSUME Typed, NextDay PROVE Typed'
  <1>1. HistoryOK'
    BY DEF Typed, NextDay, HistoryOK, history
  <1> QED
    BY <1>1, StoreTyped, ExternalTyped, JobUnchanged DEF Typed, NextDay

\* What an interrupted step leaves are rows there were.
LEMMA InterruptedKept ==
    ASSUME Typed, NEW j \in Job, db' \in Interrupted(j)
    PROVE  db' = db \/ Kept(db')
  <1>1. DbOK /\ job[j].held \in SUBSET Row
    BY HeldFields DEF Typed
  <1>2. CASE db' = db
    BY <1>2
  <1>3. CASE job[j].at \in {"suspendSave", "deleteMark"} /\ \E part \in SUBSET job[j].held : db' = Saved(part)
    BY <1>1, <1>3, SavedKept
  <1>4. CASE job[j].at = "deleteRows" /\ \E part \in SUBSET job[j].held : db' = Without(part)
    BY <1>1, <1>4, WithoutKept
  <1>5. CASE job[j].at = "activate" /\ db' = Saved({job[j].primary})
    BY <1>1, <1>5, SettingFields, SavedKept DEF SettingSteps
  <1>6. CASE job[j].at = "activateAlternative" /\ db' = Saved({job[j].alternative})
    <2>1. job[j].alternative \in Row
      BY <1>6, JobTyped DEF Typed, Holds
    <2> QED
      BY <1>1, <1>6, <2>1, SavedKept
  <1> QED
    BY <1>2, <1>3, <1>4, <1>5, <1>6 DEF Interrupted

LEMMA LeftBehindTyped == ASSUME NEW j \in Job PROVE LeftBehind(j) \subseteq DOMAIN Unfinished
  BY DEF LeftBehind

LEMMA ThrowTyped == ASSUME Typed, NEW j \in Job, Throw(j) PROVE Typed'
  <1>1. JobOK'
    <2>1. CASE job[j].at \in AttemptSteps
      BY <2>1, RetryTyped DEF Throw, Typed, AttemptSteps, SettingSteps
    <2>2. CASE job[j].at \notin AttemptSteps
      BY <2>2, FinishTyped DEF Throw, Typed
    <2> QED
      BY <2>1, <2>2
  <1>2. HistoryOK'
    BY LeftBehindTyped DEF Typed, Throw, HistoryOK
  <1>3. DbOK'
    <2>1. db' = db \/ Kept(db')
      BY InterruptedKept DEF Throw
    <2> QED
      BY <2>1, KeptTyped, StoreTyped DEF Typed, Throw, store
  <1> QED
    BY <1>1, <1>2, <1>3, ExternalTyped DEF Typed, Throw

LEMMA CrashTyped == ASSUME Typed, Crash PROVE Typed'
  <1>1. JobOK'
    <2>1. job' = [k \in Job |-> Idle]
      BY DEF Crash
    <2>2. ASSUME NEW k \in Job PROVE Holds(job[k])'
      <3>1. Holds(job'[k])
        BY <2>1, IdleTyped
      <3> QED
        BY <3>1 DEF Holds
    <2> QED
      BY <2>1, <2>2, IdleTyped DEF JobOK
  <1>2. HistoryOK'
    <2>1. leftovers' \subseteq DOMAIN Unfinished
      BY LeftBehindTyped DEF Typed, Crash, HistoryOK
    <2> QED
      BY <2>1 DEF Typed, Crash, HistoryOK
  <1>3. DbOK'
    <2>1. db' = db \/ Kept(db')
      BY InterruptedKept DEF Crash
    <2> QED
      BY <2>1, KeptTyped, StoreTyped DEF Typed, Crash, store
  <1> QED
    BY <1>1, <1>2, <1>3, ExternalTyped DEF Typed, Crash

LEMMA TypedInit == Init => Typed
  <1> SUFFICES ASSUME Init PROVE Typed
    OBVIOUS
  <1>1. DbOK
    BY Bounds DEF Init, DbOK, Persisted
  <1>2. ExternalOK
    BY DEF Init, ExternalOK
  <1>3. JobOK
    BY IdleTyped DEF Init, JobOK
  <1>4. HistoryOK
    BY DEF Init, HistoryOK
  <1> QED
    BY <1>1, <1>2, <1>3, <1>4 DEF Typed

LEMMA TypedStutter == ASSUME Typed, UNCHANGED vars PROVE Typed'
  BY StoreTyped, ExternalTyped, JobUnchanged, HistoryTyped DEF Typed, vars, budgets, history

LEMMA TypedNext == ASSUME Typed, [Next]_vars PROVE Typed'
  <1>1. ASSUME NEW j \in Job, NEW name \in Name, Request(j, "set", name) PROVE Typed'
    BY <1>1, RequestTyped DEF Kind
  <1>2. ASSUME NEW j \in Job, NEW kind \in Kind \ {"set"}, Request(j, kind, <<>>) PROVE Typed'
    BY <1>2, RequestTyped
  <1> QED
    BY <1>1, <1>2, SetTyped, SuspendTyped, DeleteTyped, CronTyped, ThrowTyped, NextDayTyped, CrashTyped, TypedStutter, Zenon
    DEF Next

\* The database, what OX, LDAP and UNDI know and what the jobs have read keep
\* their types, whatever jobs run at the same time and whatever fails.
THEOREM EmailTypes == Spec => []TypeOK
  <1>1. Typed /\ [Next]_vars => Typed'
    BY TypedNext
  <1> QED
    BY <1>1, TypedInit, TypedIsTypeOK, PTL DEF Spec

----------------------------------------------------------------------------
(* No row comes back                                                       *)

LEMMA SetKeepsRows ==
    ASSUME Typed, NEW j \in Job, Set(j)
    PROVE  db' = db \/ Kept(db') \/ Insert(j)
  <1>1. DbOK
    BY DEF Typed
  <1>2. ASSUME ShiftBack(j) PROVE db' = db \/ Kept(db')
    BY <1>1, <1>2, ShiftedKept DEF ShiftBack, Exists
  <1>3. ASSUME Pend(j) PROVE Kept(db')
    <2>1. job[j].primary \in Row
      BY <1>3, SettingFields DEF Pend, At, SettingSteps
    <2>2. [job[j].primary EXCEPT !.status = "PENDING"] \in Row
      BY <2>1, RowEdited DEF Status
    <2> QED
      BY <1>1, <1>3, <2>2, SavedKept DEF Pend
  <1>4. ASSUME ShiftToFront(j) PROVE db' = db \/ Kept(db')
    BY <1>1, <1>4, ShiftedKept DEF ShiftToFront, Exists
  <1>5. ASSUME Ensure(j) PROVE Kept(db')
    <2>1. today + Deadline \in Nat
      BY Bounds DEF Typed, HistoryOK
    <2> QED
      BY <1>1, <1>5, <2>1, EnsuredKept DEF Ensure
  <1>6. ASSUME SaveOx(j) PROVE db' = db \/ Kept(db')
    <2>1. job[j].primary \in Row
      BY <1>6, SettingFields DEF SaveOx, At, SettingSteps
    <2>2. [job[j].primary EXCEPT !.markedForCron = NoDate] \in Row
      BY <2>1, RowEdited
    <2> QED
      BY <1>1, <1>6, <2>2, SavedKept DEF SaveOx
  <1>7. ASSUME Activate(j) PROVE Kept(db')
    BY <1>1, <1>7, SettingFields, SavedKept DEF Activate, At, SettingSteps
  <1>8. ASSUME ActivateAlternative(j) PROVE Kept(db')
    <2>1. job[j].alternative \in Row
      BY <1>8, JobTyped DEF Typed, ActivateAlternative, At, Holds
    <2> QED
      BY <1>1, <1>8, <2>1, SavedKept DEF ActivateAlternative
  <1>9. ASSUME SaveFailure(j) PROVE Kept(db')
    BY <1>1, <1>9, SettingFields, SavedKept DEF SaveFailure, At, SettingSteps
  <1>10. ASSUME NEW o \in OxCalls, ChangeOxUser(j, o) \/ CreateOxUser(j, o) PROVE db' = db
    BY <1>10 DEF ChangeOxUser, CreateOxUser, store
  <1>11. ASSUME NEW o \in Calls, UpsertLdap(j, o) \/ UpsertUndi(j, o) PROVE db' = db
    BY <1>11 DEF UpsertLdap, UpsertUndi, store
  <1>12. ASSUME CheckPending(j) \/ Choose(j) \/ Reread(j) \/ KeepPrimary(j) PROVE db' = db
    BY <1>12 DEF CheckPending, Choose, Reread, KeepPrimary, store
  <1> QED
    BY <1>2, <1>3, <1>4, <1>5, <1>6, <1>7, <1>8, <1>9, <1>10, <1>11, <1>12, Zenon DEF Set

LEMMA OthersKeepRows ==
    ASSUME Typed, NEW j \in Job, Suspend(j) \/ Delete(j) \/ Cron(j)
    PROVE  db' = db \/ Kept(db')
  <1>1. DbOK /\ job[j].held \in SUBSET Row
    BY HeldFields DEF Typed
  <1>2. ASSUME SuspendSave(j) \/ DeleteMark(j) PROVE Kept(db')
    BY <1>1, <1>2, SavedKept DEF SuspendSave, DeleteMark
  <1>3. ASSUME DeleteRows(j) \/ Purge(j) PROVE Kept(db')
    BY <1>1, <1>3, WithoutKept DEF DeleteRows, Purge
  <1>4. ASSUME CronMark(j) PROVE Kept(db')
    <2>1. job[j].alternative \in Row
      BY <1>4, HeldFields DEF CronMark, At, CronSteps
    <2> QED
      BY <1>1, <1>4, <2>1, SavedKept DEF CronMark
  <1>5. ASSUME CronDelete(j) PROVE db' = db \/ Kept(db')
    BY <1>1, <1>5, WithoutKept DEF CronDelete
  <1>6. ASSUME NEW o \in Calls, SuspendOx(j, o) \/ SuspendUndi(j, o) PROVE db' = db
    BY <1>6 DEF SuspendOx, SuspendUndi, store
  <1>7. ASSUME NEW o \in Calls, DeleteOxUser(j, o) \/ DeleteLdapPerson(j, o) \/ DeleteUndiPerson(j, o) PROVE db' = db
    BY <1>7 DEF DeleteOxUser, DeleteLdapPerson, DeleteUndiPerson, store
  <1>8. ASSUME NEW o \in Calls, CronOx(j, o) \/ CronLdap(j, o) PROVE db' = db
    BY <1>8 DEF CronOx, CronLdap, store
  <1>9. ASSUME SuspendRead(j) \/ DeleteRead(j) \/ CronRead(j) PROVE db' = db
    BY <1>9 DEF SuspendRead, DeleteRead, CronRead, store
  <1> QED
    BY <1>2, <1>3, <1>4, <1>5, <1>6, <1>7, <1>8, <1>9, Zenon DEF Suspend, Delete, Cron

\* A save of what was read before a deletion does not bring the row back,
\* however many jobs work on the person's addresses.
THEOREM EmailNothingResurrected == Spec => NothingResurrected
  <1>1. ASSUME Typed, [Next]_vars PROVE [\A i \in 1..rows : db[i] = NoRow => db'[i] = NoRow]_vars
    <2>1. rows \in 0..MaxRows /\ \A i \in 1..rows : i \in Ids
      BY <1>1, Bounds DEF Typed, DbOK, Ids
    <2>2. CASE db' = db
      BY <2>2
    <2>3. CASE Kept(db')
      BY <2>1, <2>3 DEF Kept, Persisted
    <2>4. ASSUME NEW j \in Job, Insert(j) PROVE \A i \in 1..rows : db[i] = NoRow => db'[i] = NoRow
      <3>1. db' = db \/ \E r : db' = [db EXCEPT ![rows + 1] = r]
        BY <2>4 DEF Insert, store
      <3>2. \A i \in 1..rows : i \in DOMAIN db /\ i # rows + 1
        BY <1>1, <2>1 DEF Typed, DbOK
      <3> QED
        BY <3>1, <3>2
    <2>5. CASE UNCHANGED vars
      BY <2>5 DEF vars, store
    <2>6. CASE Next
      <3>1. ASSUME NEW j \in Job, NEW kind, NEW name, Request(j, kind, name) PROVE db' = db
        BY <3>1 DEF Request, store
      <3>2. NextDay => db' = db
        BY DEF NextDay, store
      <3>3. ASSUME Crash \/ \E j \in Job : Throw(j) PROVE db' = db \/ Kept(db')
        BY <1>1, <3>3, InterruptedKept DEF Crash, Throw
      <3> QED
        BY <1>1, <2>2, <2>3, <2>4, <2>6, <3>1, <3>2, <3>3, SetKeepsRows, OthersKeepRows, Zenon DEF Next
    <2> QED
      BY <1>1, <2>5, <2>6
  <1>2. Typed /\ [Next]_vars => Typed'
    BY TypedNext
  <1> QED
    BY <1>1, <1>2, TypedInit, PTL DEF Spec, NothingResurrected

----------------------------------------------------------------------------
(* One request after the other: what a shift does to the front             *)

Has(d) == {i \in Ids : d[i] # NoRow}

\* The priorities 0 and 1 are given once.
FrontOne(d) == \A i, k \in Has(d) : d[i].priority = d[k].priority /\ d[i].priority <= 1 => i = k

LEMMA PersistedHas == Persisted = Has(db)
  BY DEF Persisted, Has

\* An address moves by one or stays, and it moves only from the target on.
LEMMA ShiftMoves ==
    ASSUME DbOK, NEW id \in Persisted, NEW target \in Nat, NEW d \in Shifted(id, target)
    PROVE  /\ Has(d) = Persisted /\ d[id].priority = target
           /\ \A i \in Persisted :
                 /\ d[i].id = i /\ d[i].address = db[i].address /\ d[i].status = db[i].status
                 /\ d[i].oxUserCounter = db[i].oxUserCounter /\ d[i].markedForCron = db[i].markedForCron
           /\ \A i \in Persisted \ {id} :
                 /\ d[i].priority \in {db[i].priority, db[i].priority + 1}
                 /\ d[i].priority # db[i].priority => db[i].priority >= target
  <1>1. PICK M \in Movers(Priorities, id, target) :
           [i \in Persisted |-> d[i].priority] = Moved(Priorities, id, target, M)
    BY ShiftedRows DEF Shifts
  <1>2. \A i \in Persisted : d[i].priority = IF i = id THEN target ELSE IF i \in M THEN db[i].priority + 1 ELSE db[i].priority
    BY <1>1 DEF Moved, Priorities
  <1>3. \A m \in M : m \in Persisted /\ db[m].priority >= target
    BY <1>1 DEF Movers, Cascade, Others, Priorities
  <1>4. /\ \A i \in Ids : d[i] # NoRow <=> db[i] # NoRow
        /\ \A i \in Persisted :
                 /\ d[i].id = i
                 /\ d[i].address = db[i].address
                 /\ d[i].status = db[i].status
                 /\ d[i].oxUserCounter = db[i].oxUserCounter
                 /\ d[i].markedForCron = db[i].markedForCron
    BY ShiftedRows, Zenon
  <1>5. Has(d) = Persisted
    BY <1>4 DEF Has, Persisted
  <1> QED
    BY <1>2, <1>3, <1>4, <1>5, Zenon

\* A shift to the front makes room: the address with priority 0 moves to 1, and
\* if there is one, the address with priority 1 moves to 2.
LEMMA ShiftToZero ==
    ASSUME DbOK, NEW id \in Persisted, NEW d \in Shifted(id, 0), FrontOne(db)
    PROVE  \A i \in Persisted \ {id} :
              /\ db[i].priority = 0 => d[i].priority = 1
              /\ db[i].priority = 1 => d[i].priority = IF \E k \in Persisted \ {id} : db[k].priority = 0 THEN 2 ELSE 1
  <1>1. PICK M \in Movers(Priorities, id, 0) :
           [i \in Persisted |-> d[i].priority] = Moved(Priorities, id, 0, M)
    BY ShiftedRows DEF Shifts
  <1>2. \A i \in Persisted \ {id} : d[i].priority = IF i \in M THEN db[i].priority + 1 ELSE db[i].priority
    BY <1>1 DEF Moved, Priorities
  <1>3. \A i \in Persisted : Priorities[i] = db[i].priority /\ db[i].priority \in Nat
    BY Persistent, RowFields DEF Priorities
  <1>4. Others(Priorities, id) = Persisted \ {id}
    BY DEF Others, Priorities
  <1>5. M \subseteq Persisted \ {id} /\ {Priorities[m] : m \in M} = Cascade(Priorities, id, 0)
    BY <1>1, <1>4 DEF Movers
  <1>6. ASSUME NEW i \in Persisted \ {id}, db[i].priority = 0 PROVE i \in M
    <2>1. 0 \in Cascade(Priorities, id, 0)
      BY <1>3, <1>4, <1>6 DEF Cascade
    <2>2. PICK m \in M : Priorities[m] = 0
      BY <1>5, <2>1
    <2> QED
      BY <1>3, <1>5, <1>6, <2>2, PersistedHas DEF FrontOne
  <1>7. ASSUME NEW i \in Persisted \ {id}, db[i].priority = 1, NEW k \in Persisted \ {id}, db[k].priority = 0 PROVE i \in M
    <2>1. \A q \in 0..1 : q = 0 \/ q = 1
      OBVIOUS
    <2>2. 1 \in Cascade(Priorities, id, 0)
      BY <1>3, <1>4, <1>7, <2>1 DEF Cascade
    <2>3. PICK m \in M : Priorities[m] = 1
      BY <1>5, <2>2
    <2> QED
      BY <1>3, <1>5, <1>7, <2>3, PersistedHas DEF FrontOne
  <1>8. ASSUME NEW i \in M, db[i].priority = 1 PROVE \E k \in Persisted \ {id} : db[k].priority = 0
    <2>1. 1 \in Cascade(Priorities, id, 0)
      BY <1>3, <1>5, <1>8
    <2>2. 0 \in 0..1
      OBVIOUS
    <2> QED
      BY <1>3, <1>4, <2>1, <2>2 DEF Cascade
  <1> QED
    BY <1>2, <1>6, <1>7, <1>8

\* What the shifts of a set request leave: the rows, with these priorities.
LEMMA ShiftBackward ==
    ASSUME DbOK, NEW id \in Persisted, NEW d \in Shifted(id, 2)
    PROVE  /\ Has(d) = Persisted /\ d[id].priority = 2
           /\ \A i \in Persisted :
                 /\ d[i].id = i /\ d[i].address = db[i].address /\ d[i].status = db[i].status
                 /\ d[i].oxUserCounter = db[i].oxUserCounter /\ d[i].markedForCron = db[i].markedForCron
                 /\ d[i].priority \in Nat /\ db[i].priority \in Nat
                 /\ i # id => \/ d[i].priority = db[i].priority
                              \/ db[i].priority >= 2 /\ d[i].priority >= 2
  <1>1. \A i \in Persisted : db[i] \in Row /\ db[i].priority \in Nat
    BY Persistent, RowFields
  <1>2. Has(d) = Persisted /\ d[id].priority = 2
    BY ShiftMoves
  <1>3. \A i \in Persisted \ {id} :
                 /\ d[i].priority \in {db[i].priority, db[i].priority + 1}
                 /\ d[i].priority # db[i].priority => db[i].priority >= 2
    BY ShiftMoves
  <1>4. \A i \in Persisted : d[i].id = i /\ d[i].address = db[i].address /\ d[i].status = db[i].status
                 /\ d[i].oxUserCounter = db[i].oxUserCounter /\ d[i].markedForCron = db[i].markedForCron
    BY ShiftMoves
  <1> QED
    BY <1>1, <1>2, <1>3, <1>4

LEMMA ShiftForward ==
    ASSUME DbOK, NEW id \in Persisted, NEW d \in Shifted(id, 0), FrontOne(db)
    PROVE  /\ Has(d) = Persisted /\ d[id].priority = 0 /\ FrontOne(d)
           /\ \A i \in Persisted :
                 /\ d[i].id = i /\ d[i].address = db[i].address /\ d[i].status = db[i].status
                 /\ d[i].oxUserCounter = db[i].oxUserCounter /\ d[i].markedForCron = db[i].markedForCron
                 /\ d[i].priority \in Nat /\ db[i].priority \in Nat
                 /\ i # id => d[i].priority > 0
                 /\ i # id /\ d[i].priority = 1 => db[i].priority <= 1
  <1>1. \A i \in Persisted : db[i] \in Row /\ db[i].priority \in Nat
    BY Persistent, RowFields
  <1>2. Has(d) = Persisted /\ d[id].priority = 0
    BY ShiftMoves
  <1>3. \A i \in Persisted \ {id} : d[i].priority \in {db[i].priority, db[i].priority + 1}
    BY ShiftMoves
  <1>4. \A i \in Persisted : d[i].id = i /\ d[i].address = db[i].address /\ d[i].status = db[i].status
                 /\ d[i].oxUserCounter = db[i].oxUserCounter /\ d[i].markedForCron = db[i].markedForCron
    BY ShiftMoves
  <1>5. \A i \in Persisted \ {id} :
              /\ db[i].priority = 0 => d[i].priority = 1
              /\ db[i].priority = 1 => d[i].priority = IF \E k \in Persisted \ {id} : db[k].priority = 0 THEN 2 ELSE 1
    BY ShiftToZero
  <1>6. \A i \in Persisted \ {id} : d[i].priority > 0 /\ d[i].priority \in Nat /\ (d[i].priority = 1 => db[i].priority <= 1)
    BY <1>1, <1>3, <1>5
  <1>7. ASSUME NEW i \in Persisted, NEW k \in Persisted, d[i].priority = d[k].priority, d[i].priority <= 1, i # k
        PROVE  FALSE
    <2>1. i # id /\ k # id
      BY <1>2, <1>6, <1>7
    <2>2. d[i].priority = 1 /\ d[k].priority = 1
      BY <1>6, <1>7, <2>1
    <2>3. db[i].priority \in {0, 1} /\ db[k].priority \in {0, 1}
      BY <1>1, <1>6, <2>1, <2>2
    <2>4. db[i].priority # db[k].priority
      BY <1>7, <2>3, PersistedHas DEF FrontOne
    <2> QED
      BY <1>5, <2>1, <2>2, <2>3, <2>4
  <1>8. FrontOne(d)
    BY <1>2, <1>7 DEF FrontOne
  <1> QED
    BY <1>1, <1>2, <1>4, <1>6, <1>8

----------------------------------------------------------------------------
(* One request after the other: where the addresses are                    *)
(*                                                                         *)
(* d is the database, q the job that is under way (or an idle one) and c   *)
(* what interrupted jobs may have left behind.                             *)

PlacingSteps == {"reread", "shiftBack", "pend", "shift"}

FrontSteps == {"ensure", "ox", "saveOx", "ldap", "undi", "activate", "fail"}

BesideSteps == {"ox", "saveOx", "ldap", "undi", "activate"}

DeleteSteps == {"deleteMark", "deleteOx", "deleteLdap", "deleteUndi", "deleteRows"}

\* The row that was read is there, with the address and the counter it had,
Same(d, r) ==
    /\ r.id \in Has(d)
    /\ d[r.id].address = r.address
    /\ d[r.id].oxUserCounter = r.oxUserCounter

\* at its priority,
InPlace(d, r) == Same(d, r) /\ d[r.id].priority = r.priority

\* or pushed further back, but not to or from the front.
NearPlace(d, r) ==
    /\ Same(d, r)
    /\ r.priority <= 1 \/ d[r.id].priority <= 1 => d[r.id].priority = r.priority

\* Behind the front an address is ACTIVE only until it is deactivated.
ActiveFront(d, q, c) ==
    "active" \notin c /\ q.at # "ensure" => \A i \in Has(d) : d[i].status = "ACTIVE" => d[i].priority <= 1

\* From the first shift on there is an address with priority 0.
FrontKept(d, q, c) ==
    "front" \notin c /\ Has(d) # {} /\ q.at \notin PlacingSteps => \E i \in Has(d) : d[i].priority = 0

\* Only the address that is being set is PENDING.
PendingKnown(d, q, c) ==
    "pending" \notin c => \A i \in Has(d) : d[i].status = "PENDING" => q.at \in FrontSteps \cup {"shift"} /\ q.primary.id = i

Inserting(q) ==
    q.at = "insert" =>
        /\ q.primary.priority = MaxEmailPriority /\ q.primary.status = "NONE"
        /\ q.primary.address[1] = q.name

\* The address that is being set fits the name, and its row is there.
Setting(d, q) ==
    q.at \in SettingSteps =>
        /\ q.primary.address[1] = q.name
        /\ q.primary.id \in Has(d) /\ d[q.primary.id].address = q.primary.address
        /\ q.at # "saveOx" => d[q.primary.id].oxUserCounter = q.primary.oxUserCounter
        /\ q.at \notin {"shift", "ensure", "activate", "fail"} => d[q.primary.id].status = q.primary.status

\* Until it is put in front, the one that is there gives way or is active.
Placing(d, q) ==
    /\ q.at \in PlacingSteps => NearPlace(d, q.primary)
    /\ q.at = "shiftBack" =>
          /\ q.displaced.id \in Has(d) /\ q.displaced.id # q.primary.id
          /\ d[q.displaced.id].priority = 0 /\ d[q.displaced.id].status # "ACTIVE"
    /\ q.at \in {"pend", "shift"} =>
          \A i \in Has(d) : d[i].priority = 0 /\ i # q.primary.id => d[i].status = "ACTIVE"
    /\ q.at = "shift" => q.primary.priority > 0 /\ d[q.primary.id].status = "PENDING"

\* Then it is in front,
Fronting(d, q) ==
    /\ q.at \in FrontSteps => d[q.primary.id].priority = 0
    /\ q.at \in FrontSteps \ {"ensure"} => q.primary.priority = 0
    /\ q.at \in {"ldap", "undi", "activate"} => q.primary.markedForCron = NoDate
    /\ q.at = "activate" => q.primary.status = "ACTIVE"
    /\ q.at = "fail" => q.primary.status \in {"FAILED", "EXISTS_ONLY_IN_OX"}

\* and the alternative one is the only one at its place.
Beside(d, q) ==
    /\ q.at \in BesideSteps =>
          IF q.alternative = NoRow THEN \A i \in Has(d) : d[i].priority # 1
          ELSE InPlace(d, q.alternative) /\ q.alternative.priority = 1
    /\ q.at = "activateAlternative" =>
          /\ InPlace(d, q.alternative) /\ q.alternative.priority = 1 /\ q.alternative.status = "ACTIVE"
          /\ \E i \in Has(d) : /\ d[i].priority = 0 /\ d[i].status = "ACTIVE"
                               /\ d[i].address[1] = q.name /\ d[i].markedForCron = NoDate

\* No address with priority 0 is ACTIVE.
FrontPassive(d) == \A i \in Has(d) : d[i].priority = 0 => d[i].status # "ACTIVE"

\* The rows that are to be suspended or deleted are those that are there.
Holding(d, q) ==
    /\ q.at \in {"suspendSave", "deleteMark"} => \A r \in q.held : InPlace(d, r)
    /\ q.at = "suspendSave" =>
          /\ \A r \in q.held : r.status = "SUSPENDED"
          /\ \A i \in Has(d) : d[i].priority = 0 => \E r \in q.held : r.id = i
    /\ q.at = "deleteMark" => \A r \in q.held : r.status = "TO_BE_DELETED"
    /\ q.at \in {"suspendOx", "suspendUndi"} \cup (DeleteSteps \ {"deleteMark"}) => FrontPassive(d)
    /\ q.at \in DeleteSteps =>
          /\ \A i \in Has(d) : \E r \in q.held : r.id = i
          /\ \A r \in q.held : r.id \in Has(d) /\ r.oxUserCounter = d[r.id].oxUserCounter

\* The cron job works on the address with priority 0 and the one beside it.
Crons(d, q) ==
    /\ q.at \in CronSteps =>
          /\ InPlace(d, q.primary) /\ q.primary.priority = 0 /\ q.primary.status = d[q.primary.id].status
          /\ InPlace(d, q.alternative) /\ q.alternative.priority = 1 /\ q.alternative.status = "TO_BE_DELETED"
    /\ q.at \in CronSteps \ {"cronMark"} => d[q.alternative.id].status = "TO_BE_DELETED"

Places(d, q, c) ==
    /\ FrontOne(d) /\ ActiveFront(d, q, c) /\ FrontKept(d, q, c) /\ PendingKnown(d, q, c)
    /\ Inserting(q) /\ Setting(d, q) /\ Placing(d, q) /\ Fronting(d, q) /\ Beside(d, q)
    /\ Holding(d, q) /\ Crons(d, q)

\* What a save of one row leaves.
LEMMA SavedOne ==
    ASSUME DbOK, NEW r \in Row, r.id \in Persisted
    PROVE  /\ Has(Saved({r})) = Has(db) /\ Saved({r})[r.id] = r
           /\ \A i \in Has(db) \ {r.id} : Saved({r})[i] = db[i]
  <1>1. \A i \in Ids : Saved({r})[i] = IF i = r.id /\ i \in Persisted THEN r ELSE db[i]
    BY SavedRow
  <1>2. r.id \in Ids /\ r # NoRow
    BY RowFields DEF Persisted
  <1> QED
    BY <1>1, <1>2 DEF Has, Persisted

LEMMA FrontRows ==
    ASSUME DbOK
    PROVE  \A i \in Has(db) : /\ i \in Ids /\ db[i] \in Row /\ db[i].id = i /\ db[i] \in Rows
                              /\ db[i].priority \in Nat /\ db[i] # NoRow
  BY Persistent, RowFields, PersistedHas, InRows

----------------------------------------------------------------------------
(* Each step keeps the places                                              *)

\* Between the requests and when a request begins.
LEMMA BeginPlaces ==
    ASSUME Typed, Places(db, Idle, leftovers), NEW j \in Job, NEW kind \in Kind, NEW name, Request(j, kind, name)
    PROVE  \E q : job' = [job EXCEPT ![j] = q] /\ Places(db', q, leftovers)
  <1> DEFINE q == [Idle EXCEPT !.at = FirstStep[kind], !.kind = kind, !.name = name]
  <1>1. q.at \in {"check", "suspendRead", "deleteRead", "purge"}
    BY DEF FirstStep, Kind, Idle
  <1>2. job' = [job EXCEPT ![j] = q] /\ db' = db
    BY DEF Request, store
  <1>3. Idle.at = "idle"
    BY DEF Idle
  <1> HIDE DEF q
  <1>4. Places(db, q, leftovers)
    BY <1>1, <1>3 DEF Places, ActiveFront, FrontKept, PendingKnown, Inserting, Setting, Placing, Fronting, Beside,
       Holding, Crons, SettingSteps, PlacingSteps, FrontSteps, BesideSteps, DeleteSteps, CronSteps
  <1> QED
    BY <1>2, <1>4

LEMMA CheckPendingPlaces ==
    ASSUME Typed, NEW j \in Job, Places(db, job[j], leftovers), CheckPending(j)
    PROVE  \E q : job' = [job EXCEPT ![j] = q] /\ Places(db', q, leftovers)
  <1>1. job[j] \in JobSet /\ job[j].at = "check"
    BY JobTyped DEF Typed, CheckPending, At
  <1>2. PICK q : job' = [job EXCEPT ![j] = q] /\ q.at \in {"idle", "choose"} /\ db' = db
    <2>1. CASE \E r \in Rows : r.status = "PENDING"
      BY <2>1 DEF CheckPending, Finish, Idle, store
    <2>2. CASE ~\E r \in Rows : r.status = "PENDING"
      <3> DEFINE q == [job[j] EXCEPT !.at = "choose", !.attempt = 1]
      <3>1. job' = [job EXCEPT ![j] = q] /\ q.at = "choose" /\ db' = db
        BY <1>1, <2>2 DEF CheckPending, JobSet, store
      <3> QED
        BY <3>1
    <2> QED
      BY <2>1, <2>2
  <1>3. Places(db, q, leftovers)
    BY <1>1, <1>2 DEF Places, ActiveFront, FrontKept, PendingKnown, Inserting, Setting, Placing, Fronting, Beside,
       Holding, Crons, SettingSteps, PlacingSteps, FrontSteps, BesideSteps, DeleteSteps, CronSteps
  <1> QED
    BY <1>2, <1>3

\* Steps at which a job holds no row.
NeutralSteps == {"idle", "check", "choose", "suspendRead", "deleteRead", "purge", "cronRead"}

\* What holds of the rows then.
Rest(d, c) ==
    /\ FrontOne(d)
    /\ "active" \notin c => \A i \in Has(d) : d[i].status = "ACTIVE" => d[i].priority <= 1
    /\ "pending" \notin c => \A i \in Has(d) : d[i].status # "PENDING"
    /\ "front" \notin c /\ Has(d) # {} => \E i \in Has(d) : d[i].priority = 0

LEMMA NeutralPlaces ==
    ASSUME NEW d, NEW q, NEW c, q.at \in NeutralSteps
    PROVE  Places(d, q, c) <=> Rest(d, c)
  BY DEF Places, Rest, ActiveFront, FrontKept, PendingKnown, Inserting, Setting, Placing, Fronting, Beside,
     Holding, Crons, SettingSteps, PlacingSteps, FrontSteps, BesideSteps, DeleteSteps, CronSteps, NeutralSteps

\* A job that ends.
LEMMA EndPlaces ==
    ASSUME NEW j \in Job, NEW outcome, Finish(j, outcome), Rest(db', leftovers)
    PROVE  \E q : job' = [job EXCEPT ![j] = q] /\ Places(db', q, leftovers)
  <1>1. Idle.at \in NeutralSteps
    BY DEF Idle, NeutralSteps
  <1> QED
    BY <1>1, NeutralPlaces DEF Finish

\* A job that begins its next attempt.
LEMMA RetryPlaces ==
    ASSUME NEW j \in Job, Retry(j), Rest(db', leftovers)
    PROVE  \E q : job' = [job EXCEPT ![j] = q] /\ Places(db', q, leftovers)
  <1>1. CASE job[j].attempt < RetryAttempts
    <2> DEFINE q == [Idle EXCEPT !.at = "choose", !.kind = "set", !.name = job[j].name, !.attempt = job[j].attempt + 1]
    <2>1. q.at \in NeutralSteps
      BY DEF Idle, NeutralSteps
    <2>2. job' = [job EXCEPT ![j] = q]
      BY <1>1 DEF Retry
    <2> HIDE DEF q
    <2> QED
      BY <2>1, <2>2, NeutralPlaces
  <1>2. CASE ~(job[j].attempt < RetryAttempts)
    BY <1>2, EndPlaces DEF Retry
  <1> QED
    BY <1>1, <1>2

LEMMA ChoosePlaces ==
    ASSUME Typed, NEW j \in Job, Places(db, job[j], leftovers), Choose(j)
    PROVE  \E q : job' = [job EXCEPT ![j] = q] /\ Places(db', q, leftovers)
  <1>1. job[j] \in JobSet /\ job[j].at = "choose" /\ job[j].name \in Name /\ DbOK
    BY JobTyped DEF Typed, Choose, At, Holds
  <1>2. Rest(db, leftovers) /\ db' = db
    BY <1>1, NeutralPlaces DEF NeutralSteps, Choose, store
  <1>3. CASE Matching(job[j].name) # {}
    <2>1. PICK r \in First(Matching(job[j].name)) : job' = [job EXCEPT ![j].at = "reread", ![j].primary = r]
      BY <1>3 DEF Choose
    <2>2. r \in Rows /\ r.address[1] = job[j].name
      BY <2>1 DEF First, Matching
    <2>3. r.id \in Has(db) /\ db[r.id] = r
      BY <1>1, <2>2, RowsById, PersistedHas
    <2> DEFINE q == [job[j] EXCEPT !.at = "reread", !.primary = r]
    <2>4. q.at = "reread" /\ q.primary = r /\ q.name = job[j].name /\ job' = [job EXCEPT ![j] = q]
      BY <1>1, <2>1 DEF JobSet
    <2> HIDE DEF q
    <2>5. Places(db, q, leftovers)
      BY <1>2, <2>2, <2>3, <2>4 DEF Rest, Places, ActiveFront, FrontKept, PendingKnown, Inserting, Setting, Placing,
         Fronting, Beside, Holding, Crons, Same, NearPlace, SettingSteps, PlacingSteps, FrontSteps, BesideSteps,
         DeleteSteps, CronSteps
    <2> QED
      BY <1>2, <2>4, <2>5
  <1>4. CASE ~(Matching(job[j].name) # {})
    <2>1. PICK r : /\ job' = [job EXCEPT ![j].at = "insert", ![j].primary = r]
                   /\ r.priority = MaxEmailPriority /\ r.status = "NONE" /\ r.address = Available(job[j].name)
      <3> DEFINE counters == {r \in Rows : r.oxUserCounter # NoCounter}
      <3>1. PICK counter \in IF counters = {} THEN {NoCounter} ELSE {r.oxUserCounter : r \in First(counters)} :
             job' = [job EXCEPT ![j].at = "insert",
                                ![j].primary = [id |-> 0, address |-> Available(job[j].name),
                                                priority |-> MaxEmailPriority, status |-> "NONE",
                                                oxUserCounter |-> counter, markedForCron |-> NoDate]]
        BY <1>4, Zenon DEF Choose
      <3>2. PICK r : r = [id |-> 0, address |-> Available(job[j].name), priority |-> MaxEmailPriority, status |-> "NONE",
                          oxUserCounter |-> counter, markedForCron |-> NoDate]
        OBVIOUS
      <3>3. job' = [job EXCEPT ![j].at = "insert", ![j].primary = r]
        BY <3>1, <3>2
      <3>4. r.priority = MaxEmailPriority /\ r.status = "NONE" /\ r.address = Available(job[j].name)
        BY <3>2
      <3> QED
        BY <3>3, <3>4
    <2>2. r.address[1] = job[j].name
      BY <1>1, <2>1, AvailableIsFree
    <2> DEFINE q == [job[j] EXCEPT !.at = "insert", !.primary = r]
    <2>3. q.at = "insert" /\ q.primary = r /\ q.name = job[j].name /\ job' = [job EXCEPT ![j] = q]
      BY <1>1, <2>1 DEF JobSet
    <2> HIDE DEF q
    <2>4. Places(db, q, leftovers)
      BY <1>2, <2>1, <2>2, <2>3 DEF Rest, Places, ActiveFront, FrontKept, PendingKnown, Inserting, Setting, Placing,
         Fronting, Beside, Holding, Crons, SettingSteps, PlacingSteps, FrontSteps, BesideSteps, DeleteSteps, CronSteps
    <2> QED
      BY <1>2, <2>3, <2>4
  <1> QED
    BY <1>3, <1>4

LEMMA InsertPlaces ==
    ASSUME Typed, NEW j \in Job, Places(db, job[j], leftovers), Insert(j)
    PROVE  \E q : job' = [job EXCEPT ![j] = q] /\ Places(db', q, leftovers)
  <1>1. job[j] \in JobSet /\ job[j].at = "insert" /\ job[j].primary \in Row /\ DbOK
    BY JobTyped DEF Typed, Insert, At, Holds
  <1>2. /\ job[j].primary.priority = MaxEmailPriority /\ job[j].primary.status = "NONE"
        /\ job[j].primary.address[1] = job[j].name
    BY <1>1 DEF Places, Inserting
  <1>3. Rest(db, leftovers)
    BY <1>1 DEF Rest, Places, ActiveFront, FrontKept, PendingKnown, PlacingSteps, FrontSteps
  <1>4. CASE \E r \in Rows : r.address = job[j].primary.address
    BY <1>3, <1>4, RetryPlaces DEF Insert, store
  <1>5. CASE ~\E r \in Rows : r.address = job[j].primary.address
    <2>1. PICK r : r = [job[j].primary EXCEPT !.id = rows + 1]
      OBVIOUS
    <2>2. /\ rows < MaxRows /\ db' = [db EXCEPT ![rows + 1] = r]
          /\ job' = [job EXCEPT ![j].at = "reread", ![j].primary = r]
      BY <1>5, <2>1 DEF Insert
    <2>3. rows + 1 \in Ids /\ rows + 1 \in 0..MaxRows /\ rows + 1 \notin Has(db)
      <3>1. \A i \in Has(db) : i <= rows
        BY <1>1, PersistedHas DEF DbOK
      <3>2. rows \in Nat
        BY <1>1 DEF DbOK
      <3> QED
        BY <2>2, <3>1, <3>2, Bounds DEF Ids, Typed, DbOK
    <2>4. /\ r \in Row /\ r # NoRow /\ r.id = rows + 1 /\ r.priority = MaxEmailPriority /\ r.status = "NONE"
          /\ r.address[1] = job[j].name
      <3>1. r \in Row
        BY <1>1, <2>1, <2>3, RowEdited
      <3> QED
        BY <1>1, <1>2, <2>1, <3>1, RowFields DEF Row
    <2>5. PICK d : d = db'
      OBVIOUS
    <2>6. /\ Has(d) = Has(db) \cup {rows + 1} /\ d[rows + 1] = r /\ \A i \in Has(db) : d[i] = db[i]
      BY <1>1, <2>2, <2>3, <2>4, <2>5 DEF Has, DbOK
    <2> DEFINE q == [job[j] EXCEPT !.at = "reread", !.primary = r]
    <2>7. q.at = "reread" /\ q.primary = r /\ q.name = job[j].name /\ job' = [job EXCEPT ![j] = q]
      BY <1>1, <2>2 DEF JobSet
    <2> HIDE DEF q
    <2>8. MaxEmailPriority \in Nat /\ MaxEmailPriority > 1 /\ \A i \in Has(db) : db[i].priority \in Nat
      BY <1>1, Bounds, FrontRows
    <2>9. FrontOne(d)
      BY <1>3, <2>4, <2>6, <2>8 DEF Rest, FrontOne
    <2>10. Setting(d, q) /\ Placing(d, q)
      BY <2>4, <2>6, <2>7 DEF Setting, Placing, Same, NearPlace, SettingSteps, PlacingSteps
    <2>11. Places(d, q, leftovers)
      BY <1>3, <2>4, <2>6, <2>7, <2>9, <2>10 DEF Rest, Places, ActiveFront, FrontKept, PendingKnown, Inserting,
         Fronting, Beside, Holding, Crons, PlacingSteps, FrontSteps, BesideSteps,
         DeleteSteps, CronSteps
    <2> QED
      BY <2>5, <2>7, <2>11
  <1> QED
    BY <1>4, <1>5

LEMMA RereadPlaces ==
    ASSUME Typed, NEW j \in Job, Places(db, job[j], leftovers), Reread(j)
    PROVE  \E q : job' = [job EXCEPT ![j] = q] /\ Places(db', q, leftovers)
  <1>1. job[j] \in JobSet /\ job[j].at = "reread" /\ db' = db /\ DbOK
    BY JobTyped DEF Typed, Reread, At, store
  <1>2. PICK zero \in AtPriority(Rows, 0) :
            IF zero # NoRow /\ zero.id # job[j].primary.id /\ zero.status # "ACTIVE"
               THEN job' = [job EXCEPT ![j].at = "shiftBack", ![j].displaced = zero] ELSE Goto(j, "pend")
    BY DEF Reread
  <1>3. \/ zero = NoRow /\ \A i \in Has(db) : db[i].priority # 0
        \/ zero \in Row /\ zero.id \in Has(db) /\ db[zero.id] = zero /\ zero.priority = 0 /\ zero # NoRow
    BY <1>1, AtPriorityRows, RowsById, PersistedHas, FrontRows, NoneIsNone
  <1>4. CASE zero # NoRow /\ zero.id # job[j].primary.id /\ zero.status # "ACTIVE"
    <2> DEFINE q == [job[j] EXCEPT !.at = "shiftBack", !.displaced = zero]
    <2>1. /\ q.at = "shiftBack" /\ q.primary = job[j].primary /\ q.displaced = zero /\ q.name = job[j].name
          /\ job' = [job EXCEPT ![j] = q]
      BY <1>1, <1>2, <1>4 DEF JobSet
    <2> HIDE DEF q
    <2>2. Places(db, q, leftovers)
      BY <1>1, <1>3, <1>4, <2>1 DEF Places, ActiveFront, FrontKept, PendingKnown, Inserting, Setting, Placing,
         Fronting, Beside, Holding, Crons, SettingSteps, PlacingSteps, FrontSteps, BesideSteps, DeleteSteps, CronSteps
    <2> QED
      BY <1>1, <2>1, <2>2
  <1>5. CASE ~(zero # NoRow /\ zero.id # job[j].primary.id /\ zero.status # "ACTIVE")
    <2> DEFINE q == [job[j] EXCEPT !.at = "pend"]
    <2>1. q.at = "pend" /\ q.primary = job[j].primary /\ q.name = job[j].name /\ job' = [job EXCEPT ![j] = q]
      BY <1>1, <1>2, <1>5 DEF JobSet, Goto
    <2> HIDE DEF q
    <2>2. \A i \in Has(db) : db[i].priority = 0 /\ i # job[j].primary.id => db[i].status = "ACTIVE"
      BY <1>3, <1>5 DEF Places, FrontOne
    <2>3. Places(db, q, leftovers)
      BY <1>1, <2>1, <2>2 DEF Places, ActiveFront, FrontKept, PendingKnown, Inserting, Setting, Placing,
         Fronting, Beside, Holding, Crons, SettingSteps, PlacingSteps, FrontSteps, BesideSteps, DeleteSteps, CronSteps
    <2> QED
      BY <1>1, <2>1, <2>3
  <1> QED
    BY <1>4, <1>5

LEMMA ShiftBackPlaces ==
    ASSUME Typed, NEW j \in Job, Places(db, job[j], leftovers), ShiftBack(j)
    PROVE  \E q : job' = [job EXCEPT ![j] = q] /\ Places(db', q, leftovers)
  <1>1. job[j] \in JobSet /\ job[j].at = "shiftBack" /\ DbOK
    BY JobTyped DEF Typed, ShiftBack, At
  <1>2. PICK r, id : r = job[j].primary /\ id = job[j].displaced.id
    OBVIOUS
  <1>3. /\ id \in Has(db) /\ id # r.id /\ db[id].priority = 0 /\ db[id].status # "ACTIVE"
        /\ NearPlace(db, r)
    BY <1>1, <1>2 DEF Places, Placing, PlacingSteps
  <1>4. PICK d \in Shifted(id, 2) : db' = d /\ Goto(j, "pend")
    BY <1>2, <1>3, PersistedHas DEF ShiftBack, Exists
  <1>5. /\ Has(d) = Has(db) /\ d[id].priority = 2
        /\ \A i \in Has(db) :
                 /\ d[i].id = i /\ d[i].address = db[i].address /\ d[i].status = db[i].status
                 /\ d[i].oxUserCounter = db[i].oxUserCounter /\ d[i].markedForCron = db[i].markedForCron
                 /\ d[i].priority \in Nat /\ db[i].priority \in Nat
                 /\ i # id => \/ d[i].priority = db[i].priority
                              \/ db[i].priority >= 2 /\ d[i].priority >= 2
    BY <1>1, <1>3, <1>4, ShiftBackward, PersistedHas
  <1> DEFINE q == [job[j] EXCEPT !.at = "pend"]
  <1>6. q.at = "pend" /\ q.primary = r /\ q.name = job[j].name /\ job' = [job EXCEPT ![j] = q]
    BY <1>1, <1>2, <1>4 DEF JobSet, Goto
  <1> HIDE DEF q
  <1>7. FrontOne(d)
    BY <1>3, <1>5 DEF Places, FrontOne
  <1>8. NearPlace(d, r) /\ \A i \in Has(d) : d[i].priority # 0
    <2>1. \A i \in Has(d) : d[i].priority # 0
      BY <1>3, <1>5 DEF Places, FrontOne
    <2>2. r.id \in Has(db)
      BY <1>3 DEF NearPlace, Same
    <2>3. r.priority \in Nat
      BY <1>1, <1>2, JobTyped, RowFields DEF Typed, Holds, SettingSteps
    <2> QED
      BY <1>3, <1>5, <2>1, <2>2, <2>3 DEF NearPlace, Same
  <1>9. Setting(d, q)
    BY <1>1, <1>2, <1>5, <1>6 DEF Places, Setting, SettingSteps
  <1>10. ActiveFront(d, q, leftovers) /\ PendingKnown(d, q, leftovers)
    BY <1>1, <1>3, <1>5, <1>6 DEF Places, ActiveFront, PendingKnown, FrontSteps
  <1>11. Places(d, q, leftovers)
    BY <1>6, <1>7, <1>8, <1>9, <1>10 DEF Places, FrontKept, Inserting, Placing,
         Fronting, Beside, Holding, Crons, PlacingSteps, FrontSteps, BesideSteps, DeleteSteps, CronSteps
  <1> QED
    BY <1>4, <1>6, <1>11

LEMMA PendPlaces ==
    ASSUME Typed, NEW j \in Job, Places(db, job[j], leftovers), Pend(j)
    PROVE  \E q : job' = [job EXCEPT ![j] = q] /\ Places(db', q, leftovers)
  <1>1. job[j] \in JobSet /\ job[j].at = "pend" /\ job[j].primary \in Row /\ DbOK
    BY JobTyped DEF Typed, Pend, At, Holds, SettingSteps
  <1>2. PICK p, r : p = job[j].primary /\ r = [p EXCEPT !.status = "PENDING"]
    OBVIOUS
  <1>3. /\ r \in Row /\ r.id = p.id /\ r.address = p.address /\ r.priority = p.priority /\ r.status = "PENDING"
        /\ r.oxUserCounter = p.oxUserCounter /\ p.priority \in Nat
    <2>1. r \in Row
      BY <1>1, <1>2, RowEdited DEF Status
    <2> QED
      BY <1>1, <1>2, <2>1 DEF Row
  <1>4. p.priority > 0 /\ db' = Saved({r}) /\ job' = [job EXCEPT ![j].at = "shift", ![j].primary = r]
    BY <1>2 DEF Pend
  <1>5. NearPlace(db, p) /\ \A i \in Has(db) : db[i].priority = 0 /\ i # p.id => db[i].status = "ACTIVE"
    BY <1>1, <1>2 DEF Places, Placing, PlacingSteps
  <1>6. PICK d : d = db'
    OBVIOUS
  <1>7. Has(d) = Has(db) /\ r.id \in Has(db) /\ d[r.id] = r /\ \A i \in Has(db) \ {r.id} : d[i] = db[i]
    BY <1>1, <1>3, <1>4, <1>5, <1>6, SavedOne, PersistedHas DEF NearPlace, Same
  <1> DEFINE q == [job[j] EXCEPT !.at = "shift", !.primary = r]
  <1>8. q.at = "shift" /\ q.primary = r /\ q.name = job[j].name /\ job' = [job EXCEPT ![j] = q]
    BY <1>1, <1>4 DEF JobSet
  <1> HIDE DEF q
  <1>9. FrontOne(d)
    BY <1>1, <1>3, <1>5, <1>7, FrontRows DEF Places, FrontOne, NearPlace
  <1>10. Setting(d, q) /\ Placing(d, q)
    <2>1. p.address[1] = job[j].name /\ db[p.id].address = p.address /\ db[p.id].oxUserCounter = p.oxUserCounter
      BY <1>1, <1>2 DEF Places, Setting, SettingSteps
    <2>2. Setting(d, q)
      BY <1>3, <1>7, <1>8, <2>1 DEF Setting, SettingSteps
    <2>3. NearPlace(d, r)
      BY <1>7 DEF NearPlace, Same
    <2>4. \A i \in Has(d) : d[i].priority = 0 /\ i # r.id => d[i].status = "ACTIVE"
      BY <1>3, <1>5, <1>7
    <2>5. Placing(d, q)
      BY <1>3, <1>4, <1>7, <1>8, <2>3, <2>4 DEF Placing, PlacingSteps
    <2> QED
      BY <2>2, <2>5
  <1>11. ActiveFront(d, q, leftovers) /\ PendingKnown(d, q, leftovers)
    BY <1>1, <1>3, <1>7, <1>8 DEF Places, ActiveFront, PendingKnown, FrontSteps
  <1>12. Places(d, q, leftovers)
    BY <1>8, <1>9, <1>10, <1>11 DEF Places, FrontKept, Inserting, Fronting, Beside, Holding, Crons, PlacingSteps,
       FrontSteps, BesideSteps, DeleteSteps, CronSteps
  <1> QED
    BY <1>6, <1>8, <1>12

LEMMA KeepPrimaryPlaces ==
    ASSUME Typed, NEW j \in Job, Places(db, job[j], leftovers), KeepPrimary(j)
    PROVE  \E q : job' = [job EXCEPT ![j] = q] /\ Places(db', q, leftovers)
  <1>1. job[j] \in JobSet /\ job[j].at = "pend" /\ job[j].primary.priority = 0 /\ DbOK /\ db' = db
    BY JobTyped DEF Typed, KeepPrimary, At, store
  <1>2. PICK one \in AtPriority(Rows, 1) : job' = [job EXCEPT ![j].at = "ox", ![j].alternative = one]
    BY DEF KeepPrimary
  <1>3. \/ one = NoRow /\ \A i \in Has(db) : db[i].priority # 1
        \/ one \in Row /\ one.id \in Has(db) /\ db[one.id] = one /\ one.priority = 1 /\ one # NoRow
    BY <1>1, AtPriorityRows, RowsById, PersistedHas, FrontRows, NoneIsNone
  <1>4. NearPlace(db, job[j].primary)
    BY <1>1 DEF Places, Placing, PlacingSteps
  <1> DEFINE q == [job[j] EXCEPT !.at = "ox", !.alternative = one]
  <1>5. /\ q.at = "ox" /\ q.primary = job[j].primary /\ q.alternative = one /\ q.name = job[j].name
        /\ job' = [job EXCEPT ![j] = q]
    BY <1>1, <1>2 DEF JobSet
  <1> HIDE DEF q
  <1>6. db[job[j].primary.id].priority = 0 /\ job[j].primary.id \in Has(db)
    BY <1>1, <1>4 DEF NearPlace, Same
  <1>7. Places(db, q, leftovers)
    BY <1>1, <1>3, <1>5, <1>6 DEF Places, ActiveFront, FrontKept, PendingKnown, Inserting, Setting, Placing, InPlace,
       Same, Fronting, Beside, Holding, Crons, SettingSteps, PlacingSteps, FrontSteps, BesideSteps, DeleteSteps, CronSteps
  <1> QED
    BY <1>1, <1>5, <1>7

LEMMA ShiftToFrontPlaces ==
    ASSUME Typed, NEW j \in Job, Places(db, job[j], leftovers), ShiftToFront(j)
    PROVE  \E q : job' = [job EXCEPT ![j] = q] /\ Places(db', q, leftovers)
  <1>1. job[j] \in JobSet /\ job[j].at = "shift" /\ DbOK
    BY JobTyped DEF Typed, ShiftToFront, At
  <1>2. PICK r : r = job[j].primary
    OBVIOUS
  <1>3. NearPlace(db, r) /\ r.id \in Has(db) /\ FrontOne(db)
    BY <1>1, <1>2 DEF Places, Placing, PlacingSteps, NearPlace, Same
  <1>4. PICK d \in Shifted(r.id, 0) : db' = d /\ Goto(j, "ensure")
    BY <1>2, <1>3, PersistedHas DEF ShiftToFront, Exists
  <1>5. /\ Has(d) = Has(db) /\ d[r.id].priority = 0 /\ FrontOne(d)
        /\ \A i \in Has(db) :
                 /\ d[i].id = i /\ d[i].address = db[i].address /\ d[i].status = db[i].status
                 /\ d[i].oxUserCounter = db[i].oxUserCounter /\ d[i].markedForCron = db[i].markedForCron
    BY <1>1, <1>3, <1>4, ShiftForward, PersistedHas
  <1> DEFINE q == [job[j] EXCEPT !.at = "ensure"]
  <1>6. q.at = "ensure" /\ q.primary = r /\ q.name = job[j].name /\ job' = [job EXCEPT ![j] = q]
    BY <1>1, <1>2, <1>4 DEF JobSet, Goto
  <1> HIDE DEF q
  <1>7. Setting(d, q) /\ Fronting(d, q)
    BY <1>1, <1>2, <1>5, <1>6 DEF Places, Setting, Fronting, SettingSteps, FrontSteps
  <1>8. ActiveFront(d, q, leftovers) /\ PendingKnown(d, q, leftovers) /\ FrontKept(d, q, leftovers)
    BY <1>1, <1>2, <1>3, <1>5, <1>6 DEF Places, ActiveFront, PendingKnown, FrontKept, FrontSteps
  <1>9. Places(d, q, leftovers)
    BY <1>5, <1>6, <1>7, <1>8 DEF Places, Inserting, Placing, Beside, Holding, Crons, PlacingSteps, BesideSteps,
       DeleteSteps, CronSteps
  <1> QED
    BY <1>4, <1>6, <1>9

LEMMA EnsurePlaces ==
    ASSUME Typed, NEW j \in Job, Places(db, job[j], leftovers), Ensure(j)
    PROVE  \E q : job' = [job EXCEPT ![j] = q] /\ Places(db', q, leftovers)
  <1>1. job[j] \in JobSet /\ job[j].at = "ensure" /\ DbOK
    BY JobTyped DEF Typed, Ensure, At
  <1>2. today + Deadline \in Nat
    BY Bounds DEF Typed, HistoryOK
  <1>3. PICK d : d = Ensured(today + Deadline)
    OBVIOUS
  <1>4. PICK zero \in AtPriority(RowsOf(d), 0), one \in AtPriority(RowsOf(d), 1) :
             IF zero = NoRow THEN Retry(j)
             ELSE job' = [job EXCEPT ![j].at = "ox", ![j].primary = zero, ![j].alternative = one]
    BY <1>3 DEF Ensure
  <1>5. db' = d
    BY <1>3 DEF Ensure
  <1>6. /\ Has(d) = Has(db) /\ d \in [Ids -> Row \cup {NoRow}]
        /\ \A i \in Has(db) :
                 /\ d[i].id = i /\ d[i].address = db[i].address
                 /\ d[i].priority = db[i].priority
                 /\ d[i].oxUserCounter = db[i].oxUserCounter
                 /\ d[i].status = IF db[i].priority >= 2 /\ db[i].status \in {"NONE", "ACTIVE", "SUSPENDED"}
                                           THEN "DEACTIVE" ELSE db[i].status
    <2>1. Has(d) = Has(db) /\ d \in [Ids -> Row \cup {NoRow}]
      BY <1>1, <1>2, <1>3, EnsuredRows DEF Has
    <2> QED
      BY <1>1, <1>2, <1>3, <2>1, EnsuredRows, PersistedHas
  <1>7. PICK p : p = job[j].primary /\ p.id \in Has(db) /\ db[p.id].priority = 0 /\ p.address[1] = job[j].name
                 /\ db[p.id].address = p.address
    BY <1>1 DEF Places, Setting, Fronting, SettingSteps, FrontSteps
  <1>8. FrontOne(d)
    BY <1>6 DEF Places, FrontOne
  <1>9. \A i \in Has(d) : d[i] \in RowsOf(d) /\ d[i] # NoRow
    BY <1>6 DEF RowsOf, Has
  <1>10. \A r \in RowsOf(d) : r.id \in Has(d) /\ d[r.id] = r /\ r # NoRow
    BY <1>6 DEF RowsOf, Has
  <1>11. zero # NoRow /\ zero.id = p.id /\ zero = d[p.id] /\ zero.priority = 0
    BY <1>6, <1>7, <1>8, <1>9, <1>10, AtPriorityRows DEF FrontOne
  <1>12. \/ one = NoRow /\ \A i \in Has(d) : d[i].priority # 1
         \/ one.id \in Has(d) /\ d[one.id] = one /\ one.priority = 1 /\ one # NoRow
    BY <1>9, <1>10, AtPriorityRows
  <1> DEFINE q == [job[j] EXCEPT !.at = "ox", !.primary = zero, !.alternative = one]
  <1>13. /\ q.at = "ox" /\ q.primary = zero /\ q.alternative = one /\ q.name = job[j].name
         /\ job' = [job EXCEPT ![j] = q]
    BY <1>1, <1>4, <1>11 DEF JobSet
  <1> HIDE DEF q
  <1>14. ActiveFront(d, q, leftovers)
    BY <1>1, <1>6, FrontRows DEF ActiveFront
  <1>15. PendingKnown(d, q, leftovers) /\ FrontKept(d, q, leftovers)
    BY <1>1, <1>6, <1>7, <1>11, <1>13 DEF Places, PendingKnown, FrontKept, FrontSteps
  <1>16. Setting(d, q) /\ Fronting(d, q) /\ Beside(d, q)
    BY <1>6, <1>7, <1>11, <1>12, <1>13 DEF Setting, Fronting, Beside, InPlace, Same, SettingSteps, FrontSteps, BesideSteps
  <1>17. Places(d, q, leftovers)
    BY <1>8, <1>13, <1>14, <1>15, <1>16 DEF Places, Inserting, Placing, Holding, Crons, PlacingSteps,
       DeleteSteps, CronSteps
  <1> QED
    BY <1>5, <1>13, <1>17

\* The database stays, and the address that is in front.
LEMMA StayPlaces ==
    ASSUME NEW d, NEW p, NEW q, NEW c, Places(d, p, c), p.at \in {"ox", "ldap", "undi"},
           q.name = p.name /\ q.primary.id = p.primary.id /\ q.primary.address = p.primary.address,
           q.primary.priority = p.primary.priority,
           q.alternative = p.alternative,
           \/ q.at = "saveOx" /\ q.primary.status = p.primary.status
           \/ /\ q.at \in {"undi", "activate"} /\ p.at # "ox"
              /\ q.primary.oxUserCounter = p.primary.oxUserCounter
              /\ q.primary.markedForCron = p.primary.markedForCron
              /\ IF q.at = "activate" THEN q.primary.status = "ACTIVE" ELSE q.primary.status = p.primary.status
           \/ /\ q.at = "fail" /\ q.primary.oxUserCounter = p.primary.oxUserCounter
              /\ q.primary.status \in {"FAILED", "EXISTS_ONLY_IN_OX"}
    PROVE  Places(d, q, c)
  <1>1. FrontOne(d) /\ ActiveFront(d, q, c) /\ FrontKept(d, q, c) /\ PendingKnown(d, q, c)
    BY DEF Places, ActiveFront, FrontKept, PendingKnown, PlacingSteps, FrontSteps
  <1>2. Setting(d, q)
    BY DEF Places, Setting, SettingSteps
  <1>3. Fronting(d, q) /\ Beside(d, q)
    BY DEF Places, Fronting, Beside, FrontSteps, BesideSteps
  <1> QED
    BY <1>1, <1>2, <1>3 DEF Places, Inserting, Placing, Holding, Crons, PlacingSteps, DeleteSteps, CronSteps

LEMMA FailPlaces ==
    ASSUME Typed, NEW j \in Job, Places(db, job[j], leftovers), job[j].at \in {"ox", "ldap", "undi"},
           NEW s \in {"FAILED", "EXISTS_ONLY_IN_OX"}, Fail(j, s)
    PROVE  \E q : job' = [job EXCEPT ![j] = q] /\ Places(db, q, leftovers)
  <1>1. job[j] \in JobSet /\ job[j].primary \in Row
    BY SettingFields DEF SettingSteps
  <1>2. PICK r : r = [job[j].primary EXCEPT !.status = s]
    OBVIOUS
  <1>3. r.status = s /\ r.id = job[j].primary.id /\ r.address = job[j].primary.address
        /\ r.priority = job[j].primary.priority /\ r.oxUserCounter = job[j].primary.oxUserCounter
    BY <1>1, <1>2 DEF Row
  <1> DEFINE q == [job[j] EXCEPT !.at = "fail", !.primary = r]
  <1>4. /\ q.at = "fail" /\ q.primary = r /\ q.alternative = job[j].alternative /\ q.name = job[j].name
        /\ job' = [job EXCEPT ![j] = q]
    BY <1>1, <1>2 DEF JobSet, Fail
  <1> HIDE DEF q
  <1>5. Places(db, q, leftovers)
    BY <1>3, <1>4, StayPlaces
  <1> QED
    BY <1>4, <1>5

LEMMA ChangeOxUserPlaces ==
    ASSUME Typed, NEW j \in Job, Places(db, job[j], leftovers), NEW o, ChangeOxUser(j, o)
    PROVE  \E q : job' = [job EXCEPT ![j] = q] /\ Places(db', q, leftovers)
  <1>1. job[j] \in JobSet /\ job[j].at = "ox" /\ db' = db
    BY JobTyped DEF Typed, ChangeOxUser, At, store
  <1>2. Goto(j, "saveOx") \/ Fail(j, "EXISTS_ONLY_IN_OX") \/ Fail(j, "FAILED")
    BY DEF ChangeOxUser
  <1>3. CASE Goto(j, "saveOx")
    <2> DEFINE q == [job[j] EXCEPT !.at = "saveOx"]
    <2>1. /\ q.at = "saveOx" /\ q.primary = job[j].primary /\ q.alternative = job[j].alternative /\ q.name = job[j].name
          /\ job' = [job EXCEPT ![j] = q]
      BY <1>1, <1>3 DEF JobSet, Goto
    <2> HIDE DEF q
    <2>2. Places(db, q, leftovers)
      BY <1>1, <2>1, StayPlaces
    <2> QED
      BY <1>1, <2>1, <2>2
  <1>4. CASE Fail(j, "EXISTS_ONLY_IN_OX")
    BY <1>1, <1>4, FailPlaces
  <1>5. CASE Fail(j, "FAILED")
    BY <1>1, <1>5, FailPlaces
  <1> QED
    BY <1>2, <1>3, <1>4, <1>5

LEMMA CreateOxUserPlaces ==
    ASSUME Typed, NEW j \in Job, Places(db, job[j], leftovers), NEW o, CreateOxUser(j, o)
    PROVE  \E q : job' = [job EXCEPT ![j] = q] /\ Places(db', q, leftovers)
  <1>1. job[j] \in JobSet /\ job[j].at = "ox" /\ db' = db /\ job[j].primary \in Row
    BY SettingFields DEF Typed, CreateOxUser, At, store, SettingSteps
  <1>2. \/ job' = [job EXCEPT ![j].at = "saveOx", ![j].primary.oxUserCounter = oxUsers + 1]
        \/ Fail(j, "EXISTS_ONLY_IN_OX") \/ Fail(j, "FAILED")
    BY DEF CreateOxUser
  <1>3. CASE job' = [job EXCEPT ![j].at = "saveOx", ![j].primary.oxUserCounter = oxUsers + 1]
    <2>1. PICK r : r = [job[j].primary EXCEPT !.oxUserCounter = oxUsers + 1]
      OBVIOUS
    <2>2. r.status = job[j].primary.status /\ r.id = job[j].primary.id /\ r.address = job[j].primary.address
          /\ r.priority = job[j].primary.priority
      BY <1>1, <2>1 DEF Row
    <2> DEFINE q == [job[j] EXCEPT !.at = "saveOx", !.primary = r]
    <2>3. /\ q.at = "saveOx" /\ q.primary = r /\ q.alternative = job[j].alternative /\ q.name = job[j].name
          /\ job' = [job EXCEPT ![j] = q]
      BY <1>1, <1>3, <2>1 DEF JobSet
    <2> HIDE DEF q
    <2>4. Places(db, q, leftovers)
      BY <1>1, <2>2, <2>3, StayPlaces
    <2> QED
      BY <1>1, <2>3, <2>4
  <1>4. CASE Fail(j, "EXISTS_ONLY_IN_OX")
    BY <1>1, <1>4, FailPlaces
  <1>5. CASE Fail(j, "FAILED")
    BY <1>1, <1>5, FailPlaces
  <1> QED
    BY <1>2, <1>3, <1>4, <1>5

LEMMA UpsertLdapPlaces ==
    ASSUME Typed, NEW j \in Job, Places(db, job[j], leftovers), NEW o, UpsertLdap(j, o)
    PROVE  \E q : job' = [job EXCEPT ![j] = q] /\ Places(db', q, leftovers)
  <1>1. job[j] \in JobSet /\ job[j].at = "ldap" /\ db' = db
    BY JobTyped DEF Typed, UpsertLdap, At, store
  <1>2. Goto(j, "undi") \/ Fail(j, "FAILED")
    BY DEF UpsertLdap
  <1>3. CASE Goto(j, "undi")
    <2> DEFINE q == [job[j] EXCEPT !.at = "undi"]
    <2>1. /\ q.at = "undi" /\ q.primary = job[j].primary /\ q.alternative = job[j].alternative /\ q.name = job[j].name
          /\ job' = [job EXCEPT ![j] = q]
      BY <1>1, <1>3 DEF JobSet, Goto
    <2> HIDE DEF q
    <2>2. Places(db, q, leftovers)
      BY <1>1, <2>1, StayPlaces
    <2> QED
      BY <1>1, <2>1, <2>2
  <1>4. CASE Fail(j, "FAILED")
    BY <1>1, <1>4, FailPlaces
  <1> QED
    BY <1>2, <1>3, <1>4

LEMMA UpsertUndiPlaces ==
    ASSUME Typed, NEW j \in Job, Places(db, job[j], leftovers), NEW o, UpsertUndi(j, o)
    PROVE  \E q : job' = [job EXCEPT ![j] = q] /\ Places(db', q, leftovers)
  <1>1. job[j] \in JobSet /\ job[j].at = "undi" /\ db' = db /\ job[j].primary \in Row
    BY SettingFields DEF Typed, UpsertUndi, At, store, SettingSteps
  <1>2. \/ job' = [job EXCEPT ![j].at = "activate", ![j].primary.status = "ACTIVE"]
        \/ Fail(j, "FAILED")
    BY DEF UpsertUndi
  <1>3. CASE job' = [job EXCEPT ![j].at = "activate", ![j].primary.status = "ACTIVE"]
    <2>1. PICK r : r = [job[j].primary EXCEPT !.status = "ACTIVE"]
      OBVIOUS
    <2>2. r.status = "ACTIVE" /\ r.id = job[j].primary.id /\ r.address = job[j].primary.address
          /\ r.priority = job[j].primary.priority /\ r.oxUserCounter = job[j].primary.oxUserCounter
          /\ r.markedForCron = job[j].primary.markedForCron
      BY <1>1, <2>1 DEF Row
    <2> DEFINE q == [job[j] EXCEPT !.at = "activate", !.primary = r]
    <2>3. /\ q.at = "activate" /\ q.primary = r /\ q.alternative = job[j].alternative /\ q.name = job[j].name
          /\ job' = [job EXCEPT ![j] = q]
      BY <1>1, <1>3, <2>1 DEF JobSet
    <2> HIDE DEF q
    <2>4. Places(db, q, leftovers)
      BY <1>1, <2>2, <2>3, StayPlaces
    <2> QED
      BY <1>1, <2>3, <2>4
  <1>4. CASE Fail(j, "FAILED")
    BY <1>1, <1>4, FailPlaces
  <1> QED
    BY <1>2, <1>3, <1>4

LEMMA SaveOxPlaces ==
    ASSUME Typed, NEW j \in Job, Places(db, job[j], leftovers), SaveOx(j)
    PROVE  \E q : job' = [job EXCEPT ![j] = q] /\ Places(db', q, leftovers)
  <1>1. job[j] \in JobSet /\ job[j].at = "saveOx" /\ job[j].primary \in Row /\ DbOK
    BY SettingFields DEF SaveOx, At, SettingSteps
  <1>2. PICK p, r : p = job[j].primary /\ r = [p EXCEPT !.markedForCron = NoDate]
    OBVIOUS
  <1>3. /\ r \in Row /\ r.id = p.id /\ r.address = p.address /\ r.priority = p.priority /\ r.status = p.status
        /\ r.oxUserCounter = p.oxUserCounter /\ r.markedForCron = NoDate
    <2>1. r \in Row
      BY <1>1, <1>2, RowEdited
    <2> QED
      BY <1>1, <1>2, <2>1 DEF Row
  <1>4. /\ p.id \in Has(db) /\ db[p.id].address = p.address /\ db[p.id].status = p.status /\ p.address[1] = job[j].name
        /\ db[p.id].priority = 0 /\ p.priority = 0
    BY <1>1, <1>2 DEF Places, Setting, Fronting, SettingSteps, FrontSteps
  <1>5. db' = Saved({r}) /\ job' = [job EXCEPT ![j].at = "ldap", ![j].primary = r]
    BY <1>2, <1>3, <1>4, PersistedHas DEF SaveOx, Exists
  <1>6. PICK d : d = db'
    OBVIOUS
  <1>7. Has(d) = Has(db) /\ r.id \in Has(db) /\ d[r.id] = r /\ \A i \in Has(db) \ {r.id} : d[i] = db[i]
    BY <1>1, <1>3, <1>4, <1>5, <1>6, SavedOne, PersistedHas
  <1> DEFINE q == [job[j] EXCEPT !.at = "ldap", !.primary = r]
  <1>8. /\ q.at = "ldap" /\ q.primary = r /\ q.name = job[j].name /\ q.alternative = job[j].alternative
        /\ job' = [job EXCEPT ![j] = q]
    BY <1>1, <1>5 DEF JobSet
  <1> HIDE DEF q
  <1>9. FrontOne(d)
    BY <1>3, <1>4, <1>7 DEF Places, FrontOne
  <1>10. Setting(d, q) /\ Fronting(d, q)
    BY <1>3, <1>4, <1>7, <1>8 DEF Setting, Fronting, SettingSteps, FrontSteps
  <1>11. Beside(d, q)
    BY <1>1, <1>3, <1>4, <1>7, <1>8 DEF Places, Beside, InPlace, Same, BesideSteps
  <1>12. ActiveFront(d, q, leftovers) /\ PendingKnown(d, q, leftovers) /\ FrontKept(d, q, leftovers)
    <2>1. ActiveFront(d, q, leftovers)
      BY <1>1, <1>3, <1>4, <1>7 DEF Places, ActiveFront
    <2>2. PendingKnown(d, q, leftovers)
      BY <1>1, <1>2, <1>3, <1>4, <1>7, <1>8 DEF Places, PendingKnown, FrontSteps
    <2>3. FrontKept(d, q, leftovers)
      BY <1>3, <1>4, <1>7 DEF FrontKept
    <2> QED
      BY <2>1, <2>2, <2>3
  <1>13. Places(d, q, leftovers)
    BY <1>8, <1>9, <1>10, <1>11, <1>12 DEF Places, Inserting, Placing, Holding, Crons, PlacingSteps, DeleteSteps, CronSteps
  <1> QED
    BY <1>6, <1>8, <1>13

LEMMA ActivatePlaces ==
    ASSUME Typed, NEW j \in Job, Places(db, job[j], leftovers), Activate(j)
    PROVE  \E q : job' = [job EXCEPT ![j] = q] /\ Places(db', q, leftovers)
  <1>1. job[j] \in JobSet /\ job[j].at = "activate" /\ job[j].primary \in Row /\ DbOK
        /\ job[j].alternative \in Row \cup {NoRow}
    BY SettingFields DEF Activate, At, SettingSteps
  <1>2. PICK r : r = job[j].primary
    OBVIOUS
  <1>3. /\ r.id \in Has(db) /\ r.priority = 0 /\ r.status = "ACTIVE" /\ r.address[1] = job[j].name /\ r.markedForCron = NoDate
        /\ db[r.id].priority = 0
    BY <1>1, <1>2 DEF Places, Setting, Fronting, SettingSteps, FrontSteps
  <1>4. PICK d : d = db'
    OBVIOUS
  <1>5. Has(d) = Has(db) /\ d[r.id] = r /\ \A i \in Has(db) \ {r.id} : d[i] = db[i]
    BY <1>1, <1>2, <1>3, <1>4, SavedOne, PersistedHas DEF Activate
  <1>6. Rest(d, leftovers)
    <2>1. FrontOne(d)
      BY <1>3, <1>5 DEF Places, FrontOne
    <2>2. /\ "active" \notin leftovers => \A i \in Has(d) : d[i].status = "ACTIVE" => d[i].priority <= 1
          /\ "pending" \notin leftovers => \A i \in Has(d) : d[i].status # "PENDING"
      BY <1>1, <1>2, <1>3, <1>5 DEF Places, ActiveFront, PendingKnown, FrontSteps
    <2> QED
      BY <1>3, <1>5, <2>1, <2>2 DEF Rest
  <1>7. CASE job[j].alternative = NoRow
    BY <1>4, <1>6, <1>7, EndPlaces DEF Activate
  <1>8. CASE job[j].alternative # NoRow
    <2>1. PICK a, b : a = job[j].alternative /\ b = [a EXCEPT !.status = "ACTIVE"]
      OBVIOUS
    <2>2. b.status = "ACTIVE" /\ b.id = a.id /\ b.address = a.address /\ b.priority = a.priority /\ b.oxUserCounter = a.oxUserCounter
      BY <1>1, <1>8, <2>1 DEF Row
    <2>3. InPlace(db, a) /\ a.priority = 1
      BY <1>1, <1>8, <2>1 DEF Places, Beside, BesideSteps
    <2> DEFINE q == [job[j] EXCEPT !.at = "activateAlternative", !.alternative = b]
    <2>4. q.at = "activateAlternative" /\ q.alternative = b /\ q.name = job[j].name /\ job' = [job EXCEPT ![j] = q]
      BY <1>1, <1>8, <2>1 DEF JobSet, Activate
    <2> HIDE DEF q
    <2>5. Beside(d, q)
      <3>1. InPlace(d, b) /\ b.priority = 1
        BY <1>3, <1>5, <2>2, <2>3 DEF InPlace, Same
      <3> QED
        BY <1>3, <1>5, <2>2, <2>4, <3>1 DEF Beside, BesideSteps
    <2>6. Places(d, q, leftovers)
      BY <1>6, <2>4, <2>5 DEF Rest, Places, ActiveFront, FrontKept, PendingKnown, Inserting, Setting, Placing, Fronting,
         Holding, Crons, SettingSteps, PlacingSteps, FrontSteps, DeleteSteps, CronSteps
    <2> QED
      BY <1>4, <2>4, <2>6
  <1> QED
    BY <1>7, <1>8

LEMMA ActivateAlternativePlaces ==
    ASSUME Typed, NEW j \in Job, Places(db, job[j], leftovers), ActivateAlternative(j)
    PROVE  \E q : job' = [job EXCEPT ![j] = q] /\ Places(db', q, leftovers)
  <1>1. job[j] \in JobSet /\ job[j].at = "activateAlternative" /\ job[j].alternative \in Row /\ DbOK
    BY JobTyped DEF Typed, ActivateAlternative, At, Holds
  <1>2. PICK r : r = job[j].alternative
    OBVIOUS
  <1>3. InPlace(db, r) /\ r.priority = 1 /\ r.status = "ACTIVE"
    BY <1>1, <1>2 DEF Places, Beside
  <1>4. PICK d : d = db'
    OBVIOUS
  <1>5. r.id \in Has(db) /\ Has(d) = Has(db) /\ d[r.id] = r /\ \A i \in Has(db) \ {r.id} : d[i] = db[i]
    BY <1>1, <1>2, <1>3, <1>4, SavedOne, PersistedHas DEF ActivateAlternative, InPlace, Same
  <1>6. Rest(d, leftovers)
    <2>1. FrontOne(d)
      BY <1>3, <1>5 DEF Places, FrontOne, InPlace
    <2>2. /\ "active" \notin leftovers => \A i \in Has(d) : d[i].status = "ACTIVE" => d[i].priority <= 1
          /\ "pending" \notin leftovers => \A i \in Has(d) : d[i].status # "PENDING"
      BY <1>1, <1>3, <1>5 DEF Places, ActiveFront, PendingKnown, FrontSteps
    <2>3. "front" \notin leftovers /\ Has(d) # {} => \E i \in Has(d) : d[i].priority = 0
      BY <1>1, <1>3, <1>5 DEF Places, FrontKept, InPlace, PlacingSteps
    <2> QED
      BY <2>1, <2>2, <2>3 DEF Rest
  <1> QED
    BY <1>4, <1>6, EndPlaces DEF ActivateAlternative

LEMMA SaveFailurePlaces ==
    ASSUME Typed, NEW j \in Job, Places(db, job[j], leftovers), SaveFailure(j)
    PROVE  \E q : job' = [job EXCEPT ![j] = q] /\ Places(db', q, leftovers)
  <1>1. job[j] \in JobSet /\ job[j].at = "fail" /\ job[j].primary \in Row /\ DbOK
    BY SettingFields DEF SaveFailure, At, SettingSteps
  <1>2. PICK r : r = job[j].primary
    OBVIOUS
  <1>3. r.id \in Has(db) /\ r.priority = 0 /\ r.status \in {"FAILED", "EXISTS_ONLY_IN_OX"} /\ db[r.id].priority = 0
    BY <1>1, <1>2 DEF Places, Setting, Fronting, SettingSteps, FrontSteps
  <1>4. PICK d : d = db'
    OBVIOUS
  <1>5. Has(d) = Has(db) /\ d[r.id] = r /\ \A i \in Has(db) \ {r.id} : d[i] = db[i]
    BY <1>1, <1>2, <1>3, <1>4, SavedOne, PersistedHas DEF SaveFailure
  <1>6. Rest(d, leftovers)
    <2>1. FrontOne(d)
      BY <1>3, <1>5 DEF Places, FrontOne
    <2>2. /\ "active" \notin leftovers => \A i \in Has(d) : d[i].status = "ACTIVE" => d[i].priority <= 1
          /\ "pending" \notin leftovers => \A i \in Has(d) : d[i].status # "PENDING"
      BY <1>1, <1>2, <1>3, <1>5 DEF Places, ActiveFront, PendingKnown, FrontSteps
    <2> QED
      BY <1>3, <1>5, <2>1, <2>2 DEF Rest
  <1> QED
    BY <1>4, <1>6, RetryPlaces DEF SaveFailure

\* Rows that stay in place.
LEMMA HeldPlaces ==
    ASSUME DbOK, NEW held \in SUBSET Row, \A r \in held : InPlace(db, r), FrontOne(db), NEW d, d = Saved(held)
    PROVE  /\ Has(d) = Has(db) /\ FrontOne(d)
           /\ \A i \in Has(db) :
                 /\ d[i].priority = db[i].priority /\ d[i].address = db[i].address
                 /\ d[i].oxUserCounter = db[i].oxUserCounter
                 /\ \/ d[i] \in held /\ d[i].id = i
                    \/ d[i] = db[i] /\ \A r \in held : r.id # i
  <1>1. Has(d) = Has(db)
    BY SavedRows DEF Has
  <1>2. \A i \in Has(db) : \/ d[i] \in held /\ d[i].id = i
                           \/ d[i] = db[i] /\ \A r \in held : r.id # i
    BY SavedRows, PersistedHas
  <1>3. \A i \in Has(db) : /\ d[i].priority = db[i].priority /\ d[i].address = db[i].address
                           /\ d[i].oxUserCounter = db[i].oxUserCounter
    BY <1>2 DEF InPlace, Same
  <1> QED
    BY <1>1, <1>2, <1>3 DEF FrontOne

LEMMA SuspendPlaces ==
    ASSUME Typed, NEW j \in Job, Places(db, job[j], leftovers), Suspend(j)
    PROVE  \E q : job' = [job EXCEPT ![j] = q] /\ Places(db', q, leftovers)
  <1>0. job[j] \in JobSet /\ DbOK /\ job[j].held \in SUBSET Row
    BY HeldFields
  <1>1. CASE SuspendRead(j)
    <2>1. Rest(db, leftovers) /\ db' = db
      BY <1>1, NeutralPlaces DEF SuspendRead, At, NeutralSteps, store
    <2>2. CASE Rows = {}
      BY <1>1, <2>1, <2>2, EndPlaces DEF SuspendRead
    <2>3. CASE Rows # {}
      <3>1. PICK h : h = {Suspended(r) : r \in {s \in Rows : s.priority <= 1}}
        OBVIOUS
      <3> DEFINE q == [job[j] EXCEPT !.at = "suspendSave", !.held = h]
      <3>2. q.at = "suspendSave" /\ q.held = h /\ job' = [job EXCEPT ![j] = q]
        BY <1>0, <1>1, <2>3, <3>1 DEF SuspendRead, JobSet
      <3> HIDE DEF q
      <3>3. \A r \in Row : /\ Suspended(r).id = r.id /\ Suspended(r).status = "SUSPENDED" /\ Suspended(r).address = r.address
                           /\ Suspended(r).oxUserCounter = r.oxUserCounter /\ Suspended(r).priority = r.priority
        BY DEF Suspended, Row
      <3>4. \A r \in h : InPlace(db, r) /\ r.status = "SUSPENDED"
        BY <1>0, <3>1, <3>3, RowsById, PersistedHas DEF InPlace, Same
      <3>5. \A i \in Has(db) : db[i].priority = 0 => \E r \in h : r.id = i
        <4>1. ASSUME NEW i \in Has(db), db[i].priority = 0 PROVE \E r \in h : r.id = i
          <5>1. db[i] \in Rows /\ db[i] \in Row /\ db[i].id = i
            BY <1>0, FrontRows
          <5>2. Suspended(db[i]) \in h
            BY <3>1, <4>1, <5>1
          <5> QED
            BY <3>3, <5>1, <5>2
        <4> QED
          BY <4>1
      <3>6. Places(db, q, leftovers)
        BY <2>1, <3>2, <3>4, <3>5 DEF Rest, Places, ActiveFront, FrontKept, PendingKnown, Inserting, Setting, Placing,
           Fronting, Beside, Holding, Crons, SettingSteps, PlacingSteps, FrontSteps, BesideSteps, DeleteSteps, CronSteps
      <3> QED
        BY <2>1, <3>2, <3>6
    <2> QED
      BY <2>2, <2>3
  <1>2. CASE SuspendSave(j)
    <2>1. job[j].at = "suspendSave"
      BY <1>2 DEF SuspendSave, At
    <2>2. PICK d, h : d = db' /\ h = job[j].held
      OBVIOUS
    <2>3. /\ \A r \in h : InPlace(db, r) /\ r.status = "SUSPENDED"
          /\ \A i \in Has(db) : db[i].priority = 0 => \E r \in h : r.id = i
      BY <2>1, <2>2 DEF Places, Holding
    <2>4. d = Saved(h) /\ FrontOne(db)
      BY <1>2, <2>2 DEF SuspendSave, Places
    <2>5. /\ Has(d) = Has(db) /\ FrontOne(d)
          /\ \A i \in Has(db) :
                 /\ d[i].priority = db[i].priority
                 /\ \/ d[i] \in h /\ d[i].id = i
                    \/ d[i] = db[i] /\ \A r \in h : r.id # i
      BY <1>0, <2>2, <2>3, <2>4, HeldPlaces
    <2> DEFINE q == [job[j] EXCEPT !.at = "suspendOx"]
    <2>6. q.at = "suspendOx" /\ job' = [job EXCEPT ![j] = q]
      BY <1>0, <1>2 DEF JobSet, SuspendSave, Goto
    <2> HIDE DEF q
    <2>7. FrontPassive(d)
      BY <2>3, <2>5 DEF FrontPassive
    <2>8. ActiveFront(d, q, leftovers) /\ PendingKnown(d, q, leftovers) /\ FrontKept(d, q, leftovers)
      BY <2>1, <2>3, <2>5 DEF Places, ActiveFront, PendingKnown, FrontKept, PlacingSteps, FrontSteps
    <2>9. Places(d, q, leftovers)
      BY <2>5, <2>6, <2>7, <2>8 DEF Places, Inserting, Setting, Placing, Fronting, Beside, Holding, Crons,
         SettingSteps, PlacingSteps, FrontSteps, BesideSteps, DeleteSteps, CronSteps
    <2> QED
      BY <2>2, <2>6, <2>9
  <1>3. ASSUME NEW o \in Calls, SuspendOx(j, o) PROVE \E q : job' = [job EXCEPT ![j] = q] /\ Places(db', q, leftovers)
    <2>1. job[j].at = "suspendOx" /\ db' = db
      BY <1>3 DEF SuspendOx, At, store
    <2> DEFINE q == [job[j] EXCEPT !.at = "suspendUndi"]
    <2>2. q.at = "suspendUndi" /\ job' = [job EXCEPT ![j] = q]
      BY <1>0, <1>3 DEF JobSet, SuspendOx, Goto
    <2> HIDE DEF q
    <2>3. Places(db, q, leftovers)
      BY <2>1, <2>2 DEF Places, ActiveFront, FrontKept, PendingKnown, Inserting, Setting, Placing, Fronting, Beside,
         Holding, Crons, SettingSteps, PlacingSteps, FrontSteps, BesideSteps, DeleteSteps, CronSteps
    <2> QED
      BY <2>1, <2>2, <2>3
  <1>4. ASSUME NEW o \in Calls, SuspendUndi(j, o) PROVE \E q : job' = [job EXCEPT ![j] = q] /\ Places(db', q, leftovers)
    <2>1. job[j].at = "suspendUndi" /\ db' = db
      BY <1>4 DEF SuspendUndi, At, store
    <2>2. Rest(db, leftovers)
      BY <2>1 DEF Rest, Places, ActiveFront, FrontKept, PendingKnown, PlacingSteps, FrontSteps
    <2> QED
      BY <1>4, <2>1, <2>2, EndPlaces DEF SuspendUndi
  <1> QED
    BY <1>1, <1>2, <1>3, <1>4 DEF Suspend

LEMMA DeletePlaces ==
    ASSUME Typed, NEW j \in Job, Places(db, job[j], leftovers), Delete(j)
    PROVE  \E q : job' = [job EXCEPT ![j] = q] /\ Places(db', q, leftovers)
  <1>0. job[j] \in JobSet /\ DbOK /\ job[j].held \in SUBSET Row
    BY HeldFields
  <1>1. CASE DeleteRead(j)
    <2>1. Rest(db, leftovers) /\ db' = db
      <3>1. job[j].at \in NeutralSteps /\ db' = db
        BY <1>1 DEF DeleteRead, At, NeutralSteps, store
      <3> QED
        BY <3>1, NeutralPlaces
    <2>2. CASE Rows = {}
      BY <1>1, <2>1, <2>2, EndPlaces DEF DeleteRead
    <2>3. CASE Rows # {}
      <3>1. PICK h : h = {[r EXCEPT !.status = "TO_BE_DELETED", !.markedForCron = today] : r \in Rows}
        OBVIOUS
      <3> DEFINE q == [job[j] EXCEPT !.at = "deleteMark", !.held = h]
      <3>2. q.at = "deleteMark" /\ q.held = h /\ job' = [job EXCEPT ![j] = q]
        BY <1>0, <1>1, <2>3, <3>1 DEF DeleteRead, JobSet
      <3> HIDE DEF q
      <3> DEFINE Marked(r) == [r EXCEPT !.status = "TO_BE_DELETED", !.markedForCron = today]
      <3>3. \A r \in Row : /\ Marked(r).id = r.id /\ Marked(r).status = "TO_BE_DELETED" /\ Marked(r).address = r.address
                           /\ Marked(r).oxUserCounter = r.oxUserCounter /\ Marked(r).priority = r.priority
        BY DEF Row
      <3>4. h = {Marked(r) : r \in Rows}
        BY <3>1
      <3> HIDE DEF Marked
      <3>5. \A r \in h : InPlace(db, r) /\ r.status = "TO_BE_DELETED"
        BY <1>0, <3>3, <3>4, RowsById, PersistedHas DEF InPlace, Same
      <3>6. \A i \in Has(db) : \E r \in h : r.id = i
        <4>1. ASSUME NEW i \in Has(db) PROVE \E r \in h : r.id = i
          <5>1. db[i] \in Rows /\ db[i] \in Row /\ db[i].id = i
            BY <1>0, FrontRows
          <5>2. Marked(db[i]) \in h
            BY <3>4, <5>1
          <5> QED
            BY <3>3, <5>1, <5>2
        <4> QED
          BY <4>1
      <3>7. \A r \in h : r.id \in Has(db) /\ r.oxUserCounter = db[r.id].oxUserCounter
        BY <3>5 DEF InPlace, Same
      <3>8. Places(db, q, leftovers)
        BY <2>1, <3>2, <3>5, <3>6, <3>7 DEF Rest, Places, ActiveFront, FrontKept, PendingKnown, Inserting, Setting, Placing,
           Fronting, Beside, Holding, Crons, SettingSteps, PlacingSteps, FrontSteps, BesideSteps, DeleteSteps, CronSteps
      <3> QED
        BY <2>1, <3>2, <3>8
    <2> QED
      BY <2>2, <2>3
  <1>2. CASE DeleteMark(j)
    <2>1. job[j].at = "deleteMark"
      BY <1>2 DEF DeleteMark, At
    <2>2. PICK d, h : d = db' /\ h = job[j].held
      OBVIOUS
    <2>3. /\ \A r \in h : InPlace(db, r) /\ r.status = "TO_BE_DELETED"
          /\ \A i \in Has(db) : \E r \in h : r.id = i
          /\ \A r \in h : r.id \in Has(db) /\ r.oxUserCounter = db[r.id].oxUserCounter
      BY <2>1, <2>2 DEF Places, Holding, DeleteSteps
    <2>4. d = Saved(h) /\ FrontOne(db)
      BY <1>2, <2>2 DEF DeleteMark, Places
    <2>5. /\ Has(d) = Has(db) /\ FrontOne(d)
          /\ \A i \in Has(db) :
                 /\ d[i].priority = db[i].priority /\ d[i].oxUserCounter = db[i].oxUserCounter
                 /\ \/ d[i] \in h /\ d[i].id = i
                    \/ d[i] = db[i] /\ \A r \in h : r.id # i
      BY <1>0, <2>2, <2>3, <2>4, HeldPlaces
    <2> DEFINE q == [job[j] EXCEPT !.at = "deleteOx"]
    <2>6. q.at = "deleteOx" /\ q.held = h /\ job' = [job EXCEPT ![j] = q]
      BY <1>0, <1>2, <2>2 DEF JobSet, DeleteMark, Goto
    <2> HIDE DEF q
    <2>7. FrontPassive(d)
      BY <2>3, <2>5 DEF FrontPassive
    <2>8. ActiveFront(d, q, leftovers) /\ PendingKnown(d, q, leftovers) /\ FrontKept(d, q, leftovers)
      BY <2>1, <2>3, <2>5 DEF Places, ActiveFront, PendingKnown, FrontKept, PlacingSteps, FrontSteps
    <2>9. Places(d, q, leftovers)
      BY <2>3, <2>5, <2>6, <2>7, <2>8 DEF Places, Inserting, Setting, Placing, Fronting, Beside, Holding, Crons,
         SettingSteps, PlacingSteps, FrontSteps, BesideSteps, DeleteSteps, CronSteps
    <2> QED
      BY <2>2, <2>6, <2>9
  <1>3. ASSUME NEW s \in {"deleteLdap", "deleteUndi"}, NEW b, Continue(j, s, b), job[j].at \in DeleteSteps \ {"deleteMark"}, db' = db
        PROVE  \E q : job' = [job EXCEPT ![j] = q] /\ Places(db', q, leftovers)
    <2> DEFINE q == [job[j] EXCEPT !.at = s, !.ok = @ /\ b]
    <2>1. q.at = s /\ q.held = job[j].held /\ job' = [job EXCEPT ![j] = q]
      BY <1>0, <1>3 DEF JobSet, Continue
    <2> HIDE DEF q
    <2>2. Places(db, q, leftovers)
      BY <1>3, <2>1 DEF Places, ActiveFront, FrontKept, PendingKnown, Inserting, Setting, Placing, Fronting, Beside,
         Holding, Crons, SettingSteps, PlacingSteps, FrontSteps, BesideSteps, DeleteSteps, CronSteps
    <2> QED
      BY <1>3, <2>1, <2>2
  <1>4. ASSUME NEW o \in Calls, DeleteOxUser(j, o) PROVE \E q : job' = [job EXCEPT ![j] = q] /\ Places(db', q, leftovers)
    <2>1. \E b : Continue(j, "deleteLdap", b)
      BY <1>4 DEF DeleteOxUser
    <2> QED
      BY <1>3, <1>4, <2>1 DEF DeleteOxUser, At, store, DeleteSteps
  <1>5. ASSUME NEW o \in Calls, DeleteLdapPerson(j, o) PROVE \E q : job' = [job EXCEPT ![j] = q] /\ Places(db', q, leftovers)
    <2>1. \E b : Continue(j, "deleteUndi", b)
      BY <1>5 DEF DeleteLdapPerson
    <2> QED
      BY <1>3, <1>5, <2>1 DEF DeleteLdapPerson, At, store, DeleteSteps
  <1>6. ASSUME NEW o \in Calls, DeleteUndiPerson(j, o) PROVE \E q : job' = [job EXCEPT ![j] = q] /\ Places(db', q, leftovers)
    <2>1. job[j].at = "deleteUndi" /\ db' = db
      BY <1>6 DEF DeleteUndiPerson, At, store
    <2>2. Goto(j, "deleteRows") \/ Finish(j, "kept")
      BY <1>6 DEF DeleteUndiPerson
    <2>3. CASE Goto(j, "deleteRows")
      <3> DEFINE q == [job[j] EXCEPT !.at = "deleteRows"]
      <3>1. q.at = "deleteRows" /\ q.held = job[j].held /\ job' = [job EXCEPT ![j] = q]
        BY <1>0, <2>3 DEF JobSet, Goto
      <3> HIDE DEF q
      <3>2. Places(db, q, leftovers)
        BY <2>1, <3>1 DEF Places, ActiveFront, FrontKept, PendingKnown, Inserting, Setting, Placing, Fronting, Beside,
           Holding, Crons, SettingSteps, PlacingSteps, FrontSteps, BesideSteps, DeleteSteps, CronSteps
      <3> QED
        BY <2>1, <3>1, <3>2
    <2>4. CASE Finish(j, "kept")
      <3>1. Rest(db, leftovers)
        BY <2>1 DEF Rest, Places, ActiveFront, FrontKept, PendingKnown, PlacingSteps, FrontSteps
      <3> QED
        BY <2>1, <2>4, <3>1, EndPlaces
    <2> QED
      BY <2>2, <2>3, <2>4
  <1>7. CASE DeleteRows(j)
    <2>1. job[j].at = "deleteRows" /\ db' = Without(job[j].held)
      BY <1>7 DEF DeleteRows, At
    <2>2. \A i \in Has(db) : \E r \in job[j].held : r.id = i
      BY <2>1 DEF Places, Holding, DeleteSteps
    <2>3. Has(db') = {}
      BY <1>0, <2>1, <2>2, WithoutRows DEF Has
    <2>4. Rest(db', leftovers)
      BY <2>3 DEF Rest, FrontOne
    <2> QED
      BY <1>7, <2>4, EndPlaces DEF DeleteRows
  <1> QED
    BY <1>1, <1>2, <1>4, <1>5, <1>6, <1>7 DEF Delete

\* A row is removed from behind the front or beside it.
LEMMA RemovedPlaces ==
    ASSUME DbOK, NEW rs, \A r \in rs : r.id \in Has(db) => db[r.id].priority > 0, NEW d, d = Without(rs), NEW c
    PROVE  /\ Has(d) \subseteq Has(db) /\ \A i \in Has(d) : d[i] = db[i]
           /\ Rest(db, c) => Rest(d, c)
  <1>1. \A i \in Ids : d[i] = IF \E r \in rs : r.id = i THEN NoRow ELSE db[i]
    BY WithoutRows
  <1>2. Has(d) \subseteq Has(db) /\ \A i \in Has(d) : d[i] = db[i]
    BY <1>1 DEF Has
  <1>3. ASSUME Rest(db, c) PROVE Rest(d, c)
    <2>1. FrontOne(d)
      BY <1>2, <1>3 DEF Rest, FrontOne
    <2>2. \A i \in Has(db) : db[i].priority = 0 => i \in Has(d) /\ d[i] = db[i]
      BY <1>1 DEF Has
    <2>3. "front" \notin c /\ Has(d) # {} => \E i \in Has(d) : d[i].priority = 0
      BY <1>2, <1>3, <2>2 DEF Rest
    <2>4. /\ "active" \notin c => \A i \in Has(d) : d[i].status = "ACTIVE" => d[i].priority <= 1
          /\ "pending" \notin c => \A i \in Has(d) : d[i].status # "PENDING"
      BY <1>2, <1>3 DEF Rest
    <2> QED
      BY <2>1, <2>3, <2>4 DEF Rest
  <1> QED
    BY <1>2, <1>3

LEMMA PurgePlaces ==
    ASSUME Typed, NEW j \in Job, Places(db, job[j], leftovers), Purge(j)
    PROVE  \E q : job' = [job EXCEPT ![j] = q] /\ Places(db', q, leftovers)
  <1>1. job[j] \in JobSet /\ DbOK /\ job[j].at \in NeutralSteps
    BY HeldFields DEF Purge, At, NeutralSteps
  <1>2. PICK d : d = db'
    OBVIOUS
  <1>3. \A r \in {r \in Rows : Due(r) /\ r.priority >= 2} : r.id \in Has(db) => db[r.id].priority > 0
    BY <1>1, RowsById, RowFields
  <1>4. Rest(d, leftovers)
    BY <1>1, <1>2, <1>3, NeutralPlaces, RemovedPlaces DEF Purge
  <1> DEFINE q == [job[j] EXCEPT !.at = "cronRead"]
  <1>5. q.at \in NeutralSteps /\ job' = [job EXCEPT ![j] = q]
    BY <1>1 DEF JobSet, Purge, Goto, NeutralSteps
  <1> HIDE DEF q
  <1> QED
    BY <1>2, <1>4, <1>5, NeutralPlaces

\* What the cron job reads.
LEMMA CronReads ==
    ASSUME Typed, NEW j \in Job, CronRead(j)
    PROVE  \/ Finish(j, "ok") \/ Finish(j, "error") \/ Goto(j, "deleteRead")
           \/ \E zero, one, r :
                 /\ zero \in Row /\ zero.id \in Has(db) /\ db[zero.id] = zero /\ zero.priority = 0
                 /\ one \in Row /\ one.id \in Has(db) /\ db[one.id] = one /\ one.priority = 1
                 /\ r \in Row /\ r.id = one.id /\ r.address = one.address /\ r.priority = 1
                 /\ r.oxUserCounter = one.oxUserCounter /\ r.status = "TO_BE_DELETED"
                 /\ job' = [job EXCEPT ![j].at = "cronMark", ![j].primary = zero, ![j].alternative = r]
  <1> DEFINE due == {r \in Rows : Due(r)}
             alternative == {r \in due : due = {r} /\ r.priority = 1}
             primaries == {r \in Rows : r.priority = 0}
  <1>1. \/ Finish(j, "ok") \/ Finish(j, "error") \/ Goto(j, "deleteRead")
        \/ \E one \in alternative, zero \in primaries :
              job' = [job EXCEPT ![j].at = "cronMark", ![j].primary = zero,
                                 ![j].alternative = [one EXCEPT !.status = "TO_BE_DELETED"]]
    BY Zenon DEF CronRead
  <1>2. ASSUME NEW one \in alternative, NEW zero \in primaries,
               job' = [job EXCEPT ![j].at = "cronMark", ![j].primary = zero,
                                  ![j].alternative = [one EXCEPT !.status = "TO_BE_DELETED"]]
        PROVE  \E y, x, r :
                 /\ y \in Row /\ y.id \in Has(db) /\ db[y.id] = y /\ y.priority = 0
                 /\ x \in Row /\ x.id \in Has(db) /\ db[x.id] = x /\ x.priority = 1
                 /\ r \in Row /\ r.id = x.id /\ r.address = x.address /\ r.priority = 1
                 /\ r.oxUserCounter = x.oxUserCounter /\ r.status = "TO_BE_DELETED"
                 /\ job' = [job EXCEPT ![j].at = "cronMark", ![j].primary = y, ![j].alternative = r]
    <2>1. DbOK
      BY DEF Typed
    <2>2. zero \in Row /\ zero.id \in Has(db) /\ db[zero.id] = zero /\ zero.priority = 0
      BY <2>1, RowsById, PersistedHas
    <2>3. one \in Row /\ one.id \in Has(db) /\ db[one.id] = one /\ one.priority = 1
      BY <2>1, RowsById, PersistedHas
    <2>4. PICK r : r = [one EXCEPT !.status = "TO_BE_DELETED"]
      OBVIOUS
    <2>5. /\ r \in Row /\ r.id = one.id /\ r.address = one.address /\ r.priority = 1
          /\ r.oxUserCounter = one.oxUserCounter /\ r.status = "TO_BE_DELETED"
      BY <2>3, <2>4 DEF Row, Status
    <2>6. job' = [job EXCEPT ![j].at = "cronMark", ![j].primary = zero, ![j].alternative = r]
      BY <1>2, <2>4
    <2> HIDE DEF alternative, primaries
    <2> QED
      BY <2>2, <2>3, <2>5, <2>6
  <1> HIDE DEF alternative, primaries
  <1> QED
    BY <1>1, <1>2, Zenon

LEMMA CronReadPlaces ==
    ASSUME Typed, NEW j \in Job, Places(db, job[j], leftovers), CronRead(j)
    PROVE  \E q : job' = [job EXCEPT ![j] = q] /\ Places(db', q, leftovers)
  <1>1. job[j] \in JobSet /\ DbOK /\ job[j].at \in NeutralSteps /\ db' = db
    BY HeldFields DEF CronRead, At, NeutralSteps, store
  <1>2. Rest(db, leftovers)
    BY <1>1, NeutralPlaces
  <1>3. CASE Finish(j, "ok")
    BY <1>1, <1>2, <1>3, EndPlaces
  <1>4. CASE Finish(j, "error")
    BY <1>1, <1>2, <1>4, EndPlaces
  <1>5. CASE Goto(j, "deleteRead")
    <2> DEFINE q == [job[j] EXCEPT !.at = "deleteRead"]
    <2>1. q.at \in NeutralSteps /\ job' = [job EXCEPT ![j] = q]
      BY <1>1, <1>5 DEF JobSet, Goto, NeutralSteps
    <2> HIDE DEF q
    <2> QED
      BY <1>1, <1>2, <2>1, NeutralPlaces
  <1>6. CASE \E zero, one, r :
                 /\ zero \in Row /\ zero.id \in Has(db) /\ db[zero.id] = zero /\ zero.priority = 0
                 /\ one \in Row /\ one.id \in Has(db) /\ db[one.id] = one /\ one.priority = 1
                 /\ r \in Row /\ r.id = one.id /\ r.address = one.address /\ r.priority = 1
                 /\ r.oxUserCounter = one.oxUserCounter /\ r.status = "TO_BE_DELETED"
                 /\ job' = [job EXCEPT ![j].at = "cronMark", ![j].primary = zero, ![j].alternative = r]
    <2>0. PICK zero, one, r :
                 /\ zero \in Row /\ zero.id \in Has(db) /\ db[zero.id] = zero /\ zero.priority = 0
                 /\ one \in Row /\ one.id \in Has(db) /\ db[one.id] = one /\ one.priority = 1
                 /\ r \in Row /\ r.id = one.id /\ r.address = one.address /\ r.priority = 1
                 /\ r.oxUserCounter = one.oxUserCounter /\ r.status = "TO_BE_DELETED"
                 /\ job' = [job EXCEPT ![j].at = "cronMark", ![j].primary = zero, ![j].alternative = r]
      BY <1>6
    <2> DEFINE q == [job[j] EXCEPT !.at = "cronMark", !.primary = zero, !.alternative = r]
    <2>1. q.at = "cronMark" /\ q.primary = zero /\ q.alternative = r /\ job' = [job EXCEPT ![j] = q]
      BY <1>1, <2>0 DEF JobSet
    <2> HIDE DEF q
    <2>2. Places(db, q, leftovers)
      BY <1>2, <2>0, <2>1 DEF Rest, Places, ActiveFront, FrontKept, PendingKnown, Inserting, Setting, Placing, Fronting,
         Beside, Holding, Crons, InPlace, Same, SettingSteps, PlacingSteps, FrontSteps, BesideSteps, DeleteSteps, CronSteps
    <2> QED
      BY <1>1, <2>1, <2>2
  <1> QED
    BY <1>3, <1>4, <1>5, <1>6, CronReads

LEMMA CronMarkPlaces ==
    ASSUME Typed, NEW j \in Job, Places(db, job[j], leftovers), CronMark(j)
    PROVE  \E q : job' = [job EXCEPT ![j] = q] /\ Places(db', q, leftovers)
  <1>1. job[j] \in JobSet /\ DbOK /\ job[j].at = "cronMark" /\ job[j].alternative \in Row /\ job[j].primary \in Row
    BY HeldFields DEF CronMark, At, CronSteps
  <1>2. PICK z, r, d : z = job[j].primary /\ r = job[j].alternative /\ d = db'
    OBVIOUS
  <1>3. /\ InPlace(db, z) /\ z.priority = 0 /\ z.status = db[z.id].status
        /\ InPlace(db, r) /\ r.priority = 1 /\ r.status = "TO_BE_DELETED"
    BY <1>1, <1>2 DEF Places, Crons, CronSteps
  <1>4. r.id \in Has(db) /\ Has(d) = Has(db) /\ d[r.id] = r /\ \A i \in Has(db) \ {r.id} : d[i] = db[i]
    BY <1>1, <1>2, <1>3, SavedOne, PersistedHas DEF CronMark, InPlace, Same
  <1> DEFINE q == [job[j] EXCEPT !.at = "cronOx"]
  <1>5. q.at = "cronOx" /\ q.primary = z /\ q.alternative = r /\ job' = [job EXCEPT ![j] = q]
    BY <1>1, <1>2 DEF JobSet, CronMark, Goto
  <1> HIDE DEF q
  <1>6. FrontOne(d)
    BY <1>3, <1>4 DEF Places, FrontOne, InPlace
  <1>7. Crons(d, q)
    BY <1>3, <1>4, <1>5 DEF Crons, InPlace, Same, CronSteps
  <1>8. ActiveFront(d, q, leftovers) /\ PendingKnown(d, q, leftovers)
    BY <1>1, <1>3, <1>4 DEF Places, ActiveFront, PendingKnown, FrontSteps
  <1>9. FrontKept(d, q, leftovers)
    BY <1>3, <1>4 DEF FrontKept, InPlace, Same
  <1>10. Places(d, q, leftovers)
    BY <1>5, <1>6, <1>7, <1>8, <1>9 DEF Places, Inserting, Setting, Placing, Fronting, Beside, Holding,
         SettingSteps, PlacingSteps, FrontSteps, BesideSteps, DeleteSteps
  <1> QED
    BY <1>2, <1>5, <1>10

LEMMA CronCallPlaces ==
    ASSUME Typed, NEW j \in Job, Places(db, job[j], leftovers), job[j].at \in {"cronOx", "cronLdap"}, db' = db,
           NEW s \in {"cronLdap", "cronDelete"}, NEW b, Continue(j, s, b)
    PROVE  \E q : job' = [job EXCEPT ![j] = q] /\ Places(db', q, leftovers)
  <1>1. job[j] \in JobSet
    BY HeldFields
  <1> DEFINE q == [job[j] EXCEPT !.at = s, !.ok = @ /\ b]
  <1>2. q.at = s /\ q.primary = job[j].primary /\ q.alternative = job[j].alternative /\ job' = [job EXCEPT ![j] = q]
    BY <1>1 DEF JobSet, Continue
  <1> HIDE DEF q
  <1>3. Crons(db, q)
    BY <1>2 DEF Places, Crons, CronSteps
  <1>4. Places(db, q, leftovers)
    BY <1>2, <1>3 DEF Places, ActiveFront, FrontKept, PendingKnown, Inserting, Setting, Placing, Fronting,
       Beside, Holding, SettingSteps, PlacingSteps, FrontSteps, BesideSteps, DeleteSteps
  <1> QED
    BY <1>2, <1>4

LEMMA CronPlaces ==
    ASSUME Typed, NEW j \in Job, Places(db, job[j], leftovers), Cron(j)
    PROVE  \E q : job' = [job EXCEPT ![j] = q] /\ Places(db', q, leftovers)
  <1>1. ASSUME NEW o \in Calls, CronOx(j, o) PROVE \E q : job' = [job EXCEPT ![j] = q] /\ Places(db', q, leftovers)
    <2>1. \E b : Continue(j, "cronLdap", b)
      BY <1>1 DEF CronOx
    <2> QED
      BY <1>1, <2>1, CronCallPlaces DEF CronOx, At, store
  <1>2. ASSUME NEW o \in Calls, CronLdap(j, o) PROVE \E q : job' = [job EXCEPT ![j] = q] /\ Places(db', q, leftovers)
    <2>1. \E b : Continue(j, "cronDelete", b)
      BY <1>2 DEF CronLdap
    <2> QED
      BY <1>2, <2>1, CronCallPlaces DEF CronLdap, At, store
  <1>3. CASE CronDelete(j)
    <2>1. job[j].at = "cronDelete" /\ DbOK
      BY <1>3, HeldFields DEF CronDelete, At
    <2>2. PICK d : d = db' /\ d = IF job[j].ok THEN Without({job[j].alternative}) ELSE db
      BY <1>3 DEF CronDelete
    <2>3. Rest(db, leftovers)
      BY <2>1 DEF Rest, Places, ActiveFront, FrontKept, PendingKnown, PlacingSteps, FrontSteps
    <2>4. db[job[j].alternative.id].priority > 0
      BY <2>1 DEF Places, Crons, InPlace, CronSteps
    <2>5. Rest(Without({job[j].alternative}), leftovers)
      <3>1. \A r \in {job[j].alternative} : r.id \in Has(db) => db[r.id].priority > 0
        BY <2>4
      <3> QED
        BY <2>1, <2>3, <3>1, RemovedPlaces
    <2> QED
      BY <1>3, <2>2, <2>3, <2>5, EndPlaces DEF CronDelete
  <1> QED
    BY <1>1, <1>2, <1>3, PurgePlaces, CronReadPlaces, CronMarkPlaces DEF Cron

LEMMA SetPlaces ==
    ASSUME Typed, NEW j \in Job, Places(db, job[j], leftovers), Set(j)
    PROVE  \E q : job' = [job EXCEPT ![j] = q] /\ Places(db', q, leftovers)
  BY CheckPendingPlaces, ChoosePlaces, InsertPlaces, RereadPlaces, ShiftBackPlaces, PendPlaces, KeepPrimaryPlaces,
     ShiftToFrontPlaces, EnsurePlaces, ChangeOxUserPlaces, CreateOxUserPlaces, SaveOxPlaces, UpsertLdapPlaces,
     UpsertUndiPlaces, ActivatePlaces, ActivateAlternativePlaces, SaveFailurePlaces, Zenon
  DEF Set

----------------------------------------------------------------------------
(* Steps that leave the front as it is, or empty a place of it             *)

\* No row gets to the front, becomes active there or changes its address or counter.
Calm(d) ==
    /\ Has(d) \subseteq Has(db)
    /\ \A i \in Has(d) :
          /\ d[i].address = db[i].address /\ d[i].oxUserCounter = db[i].oxUserCounter
          /\ d[i].priority <= 1 => d[i].priority = db[i].priority
          /\ d[i].priority <= 1 /\ d[i].status = "ACTIVE" => db[i].status = "ACTIVE"

\* The rows at the front stay there.
Stays(d) == \A i \in Has(db) : db[i].priority <= 1 => i \in Has(d) /\ d[i].priority = db[i].priority

LEMMA CalmUnchanged == Calm(db) /\ Stays(db)
  BY DEF Calm, Stays

LEMMA CalmShiftBack ==
    ASSUME Typed, NEW j \in Job, Places(db, job[j], leftovers), ShiftBack(j)
    PROVE  Calm(db') /\ \A i \in Has(db') : db'[i].priority # 0
  <1>1. job[j].at = "shiftBack" /\ DbOK
    BY DEF Typed, ShiftBack, At
  <1>2. PICK id : id = job[j].displaced.id /\ id \in Has(db) /\ db[id].priority = 0 /\ FrontOne(db)
    BY <1>1 DEF Places, Placing
  <1>3. PICK d \in Shifted(id, 2) : db' = d
    BY <1>2, PersistedHas DEF ShiftBack, Exists
  <1>4. /\ Has(d) = Has(db) /\ d[id].priority = 2
        /\ \A i \in Has(db) :
                 /\ d[i].address = db[i].address /\ d[i].status = db[i].status
                 /\ d[i].oxUserCounter = db[i].oxUserCounter
                 /\ i # id => \/ d[i].priority = db[i].priority
                              \/ db[i].priority >= 2 /\ d[i].priority >= 2
                 /\ d[i].priority \in Nat /\ db[i].priority \in Nat
    BY <1>1, <1>2, <1>3, ShiftBackward, PersistedHas
  <1>5. Calm(d)
    BY <1>4 DEF Calm
  <1>6. \A i \in Has(d) : d[i].priority # 0
    BY <1>2, <1>4 DEF FrontOne
  <1> QED
    BY <1>3, <1>5, <1>6

\* A row is saved that was in place; if it is at the front, it is not active.
LEMMA CalmSave ==
    ASSUME DbOK, NEW r \in Row, NearPlace(db, r), r.status # "ACTIVE"
    PROVE  Calm(Saved({r})) /\ Stays(Saved({r}))
  <1>1. PICK d : d = Saved({r})
    OBVIOUS
  <1>2. r.id \in Has(db) /\ Has(d) = Has(db) /\ d[r.id] = r /\ \A i \in Has(db) \ {r.id} : d[i] = db[i]
    BY <1>1, SavedOne, PersistedHas DEF NearPlace, Same
  <1>3. Calm(d) /\ Stays(d)
    BY <1>2 DEF Calm, Stays, NearPlace, Same
  <1> QED
    BY <1>1, <1>3

LEMMA CalmPend ==
    ASSUME Typed, NEW j \in Job, Places(db, job[j], leftovers), Pend(j)
    PROVE  Calm(db') /\ Stays(db')
  <1>1. job[j].at = "pend" /\ job[j].primary \in Row /\ DbOK
    BY SettingFields DEF Pend, At, SettingSteps
  <1>2. PICK p, r : p = job[j].primary /\ r = [p EXCEPT !.status = "PENDING"]
    OBVIOUS
  <1>3. /\ r \in Row /\ r.id = p.id /\ r.address = p.address /\ r.priority = p.priority /\ r.status = "PENDING"
        /\ r.oxUserCounter = p.oxUserCounter
    <2>1. r \in Row
      BY <1>1, <1>2, RowEdited DEF Status
    <2> QED
      BY <1>1, <1>2, <2>1 DEF Row
  <1>4. NearPlace(db, p)
    BY <1>1, <1>2 DEF Places, Placing, PlacingSteps
  <1>5. NearPlace(db, r)
    BY <1>3, <1>4 DEF NearPlace, Same
  <1>6. db' = Saved({r})
    BY <1>2 DEF Pend
  <1> QED
    BY <1>1, <1>3, <1>5, <1>6, CalmSave

LEMMA CalmEnsure ==
    ASSUME Typed, NEW j \in Job, Ensure(j)
    PROVE  Calm(db') /\ Stays(db')
  <1>1. DbOK /\ today + Deadline \in Nat
    BY Bounds DEF Typed, HistoryOK
  <1>2. PICK d : d = Ensured(today + Deadline) /\ d = db'
    BY DEF Ensure
  <1>3. Has(d) = Has(db)
    BY <1>1, <1>2, EnsuredRows DEF Has
  <1>4. \A i \in Has(db) :
                 /\ d[i].address = db[i].address
                 /\ d[i].priority = db[i].priority
                 /\ d[i].oxUserCounter = db[i].oxUserCounter
                 /\ d[i].status = IF db[i].priority >= 2 /\ db[i].status \in {"NONE", "ACTIVE", "SUSPENDED"}
                                           THEN "DEACTIVE" ELSE db[i].status
    BY <1>1, <1>2, EnsuredRows, PersistedHas
  <1>5. Calm(d) /\ Stays(d)
    BY <1>3, <1>4 DEF Calm, Stays
  <1> QED
    BY <1>2, <1>5

LEMMA CalmFailure ==
    ASSUME Typed, NEW j \in Job, Places(db, job[j], leftovers), SaveFailure(j)
    PROVE  Calm(db') /\ Stays(db') /\ FrontPassive(db')
  <1>1. job[j].at = "fail" /\ job[j].primary \in Row /\ DbOK
    BY SettingFields DEF SaveFailure, At, SettingSteps
  <1>2. PICK r : r = job[j].primary
    OBVIOUS
  <1>3. /\ r.id \in Has(db) /\ r.priority = 0 /\ r.status \in {"FAILED", "EXISTS_ONLY_IN_OX"} /\ db[r.id].priority = 0
        /\ db[r.id].address = r.address /\ db[r.id].oxUserCounter = r.oxUserCounter /\ FrontOne(db)
    BY <1>1, <1>2 DEF Places, Setting, Fronting, SettingSteps, FrontSteps
  <1>4. NearPlace(db, r)
    BY <1>3 DEF NearPlace, Same
  <1>5. Calm(Saved({r})) /\ Stays(Saved({r}))
    BY <1>1, <1>2, <1>3, <1>4, CalmSave
  <1>6. FrontPassive(Saved({r}))
    <2>1. PICK d : d = Saved({r})
      OBVIOUS
    <2>2. Has(d) = Has(db) /\ d[r.id] = r /\ \A i \in Has(db) \ {r.id} : d[i] = db[i]
      BY <1>1, <1>2, <1>3, <2>1, SavedOne, PersistedHas
    <2>3. FrontPassive(d)
      BY <1>3, <2>2 DEF FrontPassive, FrontOne
    <2> QED
      BY <2>1, <2>3
  <1> QED
    BY <1>2, <1>5, <1>6 DEF SaveFailure

LEMMA CalmHeld ==
    ASSUME Typed, NEW j \in Job, Places(db, job[j], leftovers), SuspendSave(j) \/ DeleteMark(j)
    PROVE  Calm(db') /\ Stays(db') /\ FrontPassive(db') /\ Has(db') = Has(db)
  <1>1. DbOK /\ job[j].held \in SUBSET Row /\ job[j].at \in {"suspendSave", "deleteMark"} /\ FrontOne(db)
    BY HeldFields DEF SuspendSave, DeleteMark, At, Places
  <1>2. PICK d, h : d = db' /\ h = job[j].held
    OBVIOUS
  <1>3. /\ \A r \in h : InPlace(db, r) /\ r.status # "ACTIVE"
        /\ \A i \in Has(db) : db[i].priority = 0 => \E r \in h : r.id = i
    BY <1>1, <1>2 DEF Places, Holding, DeleteSteps
  <1>4. d = Saved(h)
    BY <1>2 DEF SuspendSave, DeleteMark
  <1>5. /\ Has(d) = Has(db)
        /\ \A i \in Has(db) :
                 /\ d[i].priority = db[i].priority /\ d[i].address = db[i].address
                 /\ d[i].oxUserCounter = db[i].oxUserCounter
                 /\ \/ d[i] \in h /\ d[i].id = i
                    \/ d[i] = db[i] /\ \A r \in h : r.id # i
    BY <1>1, <1>2, <1>3, <1>4, HeldPlaces
  <1>6. Calm(d) /\ Stays(d)
    BY <1>3, <1>5 DEF Calm, Stays
  <1>7. FrontPassive(d)
    BY <1>3, <1>5 DEF FrontPassive
  <1> QED
    BY <1>2, <1>5, <1>6, <1>7

LEMMA CalmWithout ==
    ASSUME DbOK, NEW rs
    PROVE  Calm(Without(rs)) /\ \A i \in Has(Without(rs)) : \A r \in rs : r.id # i
  BY WithoutRows DEF Calm, Has

LEMMA CalmPurge ==
    ASSUME Typed, NEW j \in Job, Purge(j)
    PROVE  Calm(db') /\ Stays(db')
  <1>1. DbOK
    BY DEF Typed
  <1>2. PICK rs : rs = {r \in Rows : Due(r) /\ r.priority >= 2}
    OBVIOUS
  <1>3. \A r \in rs : r.id \in Has(db) /\ db[r.id].priority >= 2 /\ db[r.id].priority \in Nat
    BY <1>1, <1>2, RowsById, RowFields, PersistedHas
  <1>4. Stays(Without(rs))
    <2>1. \A i \in Has(db) : db[i].priority <= 1 => ~\E r \in rs : r.id = i
      BY <1>3
    <2>2. \A i \in Ids : Without(rs)[i] = IF \E r \in rs : r.id = i THEN NoRow ELSE db[i]
      BY <1>1, WithoutRows
    <2> QED
      BY <2>1, <2>2 DEF Stays, Has
  <1> QED
    BY <1>1, <1>2, <1>4, CalmWithout DEF Purge

LEMMA CalmCronMark ==
    ASSUME Typed, NEW j \in Job, Places(db, job[j], leftovers), CronMark(j)
    PROVE  Calm(db') /\ Stays(db')
  <1>1. job[j].alternative \in Row /\ DbOK /\ job[j].at = "cronMark"
    BY HeldFields DEF CronMark, At, CronSteps
  <1>2. NearPlace(db, job[j].alternative) /\ job[j].alternative.status # "ACTIVE"
    BY <1>1 DEF Places, Crons, InPlace, NearPlace, CronSteps
  <1> QED
    BY <1>1, <1>2, CalmSave DEF CronMark

LEMMA CalmCronDelete ==
    ASSUME Typed, NEW j \in Job, CronDelete(j)
    PROVE  Calm(db')
  <1>1. DbOK
    BY DEF Typed
  <1> QED
    BY <1>1, CalmWithout, CalmUnchanged DEF CronDelete

LEMMA CalmDeleteRows ==
    ASSUME Typed, NEW j \in Job, Places(db, job[j], leftovers), DeleteRows(j)
    PROVE  Calm(db') /\ Has(db') = {}
  <1>1. DbOK /\ job[j].at = "deleteRows" /\ db' = Without(job[j].held)
    BY DEF Typed, DeleteRows, At
  <1>2. \A i \in Has(db) : \E r \in job[j].held : r.id = i
    BY <1>1 DEF Places, Holding, DeleteSteps
  <1>3. Calm(Without(job[j].held)) /\ \A i \in Has(Without(job[j].held)) : \A r \in job[j].held : r.id # i
    BY <1>1, CalmWithout
  <1> QED
    BY <1>1, <1>2, <1>3 DEF Calm

----------------------------------------------------------------------------
(* Where a job goes                                                        *)

\* Steps of a set request at which OX, LDAP and UNDI are not compared yet.
PlainSteps == {"idle", "choose", "reread", "shiftBack", "pend", "shift", "ensure", "ox", "fail"}

LEMMA JobIsFunction ==
    ASSUME Typed, NEW j \in Job, NEW q, job' = [job EXCEPT ![j] = q]
    PROVE  job'[j] = q
  BY DEF Typed, JobOK

LEMMA EndTarget == ASSUME Typed, NEW j \in Job, NEW outcome, Finish(j, outcome) PROVE job'[j] = Idle /\ job'[j].at = "idle"
  BY DEF Typed, JobOK, Finish, Idle

LEMMA RetryTarget == ASSUME Typed, NEW j \in Job, Retry(j) PROVE job'[j].at \in {"idle", "choose"}
  BY EndTarget DEF Typed, JobOK, Retry, Idle

LEMMA GotoTarget ==
    ASSUME Typed, NEW j \in Job, NEW s, Goto(j, s)
    PROVE  job'[j] = [job[j] EXCEPT !.at = s] /\ job'[j].at = s
  BY HeldFields DEF Typed, JobOK, Goto, JobSet

LEMMA FailTarget == ASSUME Typed, NEW j \in Job, NEW s, Fail(j, s) PROVE job'[j].at = "fail"
  <1>1. job[j] \in JobSet /\ job \in [Job -> JobSet]
    BY HeldFields DEF Typed, JobOK
  <1> QED
    BY <1>1 DEF Fail, JobSet

LEMMA ContinueTarget ==
    ASSUME Typed, NEW j \in Job, NEW s, NEW b, Continue(j, s, b)
    PROVE  /\ job'[j].at = s /\ job'[j].held = job[j].held /\ job'[j].primary = job[j].primary
           /\ job'[j].alternative = job[j].alternative /\ job'[j].ok = (job[j].ok /\ b)
  <1>1. job[j] \in JobSet /\ job \in [Job -> JobSet]
    BY HeldFields DEF Typed, JobOK
  <1> QED
    BY <1>1 DEF Continue, JobSet

LEMMA PlainTargets ==
    ASSUME Typed, NEW j \in Job,
           \/ CheckPending(j) \/ Insert(j) \/ Reread(j) \/ ShiftBack(j) \/ Pend(j) \/ KeepPrimary(j) \/ ShiftToFront(j)
           \/ Ensure(j) \/ ActivateAlternative(j) \/ SaveFailure(j)
    PROVE  job'[j].at \in PlainSteps
  <1>1. job[j] \in JobSet /\ job \in [Job -> JobSet]
    BY HeldFields DEF Typed, JobOK
  <1>2. CASE CheckPending(j)
    BY <1>1, <1>2, EndTarget DEF CheckPending, PlainSteps, JobSet
  <1>3. CASE Insert(j)
    BY <1>1, <1>3, RetryTarget DEF Insert, PlainSteps, JobSet
  <1>4. CASE Reread(j)
    <2>1. PICK zero : IF zero # NoRow /\ zero.id # job[j].primary.id /\ zero.status # "ACTIVE"
             THEN job' = [job EXCEPT ![j].at = "shiftBack", ![j].displaced = zero]
             ELSE Goto(j, "pend")
      BY <1>4 DEF Reread
    <2>2. CASE job' = [job EXCEPT ![j].at = "shiftBack", ![j].displaced = zero]
      BY <1>1, <2>2 DEF PlainSteps, JobSet
    <2>3. CASE Goto(j, "pend")
      BY <2>3, GotoTarget DEF PlainSteps
    <2> QED
      BY <2>1, <2>2, <2>3
  <1>5. CASE ShiftBack(j)
    BY <1>1, <1>5, GotoTarget, FailTarget DEF ShiftBack, PlainSteps
  <1>6. CASE Pend(j)
    BY <1>1, <1>6 DEF Pend, PlainSteps, JobSet
  <1>7. CASE KeepPrimary(j)
    BY <1>1, <1>7 DEF KeepPrimary, PlainSteps, JobSet
  <1>8. CASE ShiftToFront(j)
    BY <1>1, <1>8, GotoTarget, FailTarget DEF ShiftToFront, PlainSteps
  <1>9. CASE Ensure(j)
    <2>1. PICK zero, one : IF zero = NoRow THEN Retry(j)
             ELSE job' = [job EXCEPT ![j].at = "ox", ![j].primary = zero, ![j].alternative = one]
      BY <1>9 DEF Ensure
    <2> QED
      BY <1>1, <2>1, RetryTarget DEF PlainSteps, JobSet
  <1>10. CASE ActivateAlternative(j)
    BY <1>10, EndTarget DEF ActivateAlternative, PlainSteps
  <1>11. CASE SaveFailure(j)
    BY <1>11, RetryTarget DEF SaveFailure, PlainSteps
  <1> QED
    BY <1>2, <1>3, <1>4, <1>5, <1>6, <1>7, <1>8, <1>9, <1>10, <1>11

SuspendSteps == {"idle", "suspendRead", "suspendSave", "suspendOx", "suspendUndi"}

LEMMA SuspendTargets == ASSUME Typed, NEW j \in Job, Suspend(j) PROVE job'[j].at \in SuspendSteps
  <1>1. job[j] \in JobSet /\ job \in [Job -> JobSet]
    BY HeldFields DEF Typed, JobOK
  <1>2. CASE SuspendRead(j)
    BY <1>1, <1>2, EndTarget DEF SuspendRead, SuspendSteps, JobSet
  <1>3. CASE SuspendSave(j)
    BY <1>3, GotoTarget DEF SuspendSave, SuspendSteps
  <1>4. ASSUME NEW o \in Calls, SuspendOx(j, o) \/ SuspendUndi(j, o) PROVE job'[j].at \in SuspendSteps
    BY <1>4, GotoTarget, EndTarget DEF SuspendOx, SuspendUndi, SuspendSteps
  <1> QED
    BY <1>2, <1>3, <1>4 DEF Suspend

LEMMA DeleteTargets == ASSUME Typed, NEW j \in Job, Delete(j) PROVE job'[j].at \in DeleteSteps \cup {"idle"}
  <1>1. job[j] \in JobSet /\ job \in [Job -> JobSet]
    BY HeldFields DEF Typed, JobOK
  <1>2. CASE DeleteRead(j)
    <2>1. CASE Finish(j, "ok")
      BY <2>1, EndTarget
    <2>2. CASE \E h : job' = [job EXCEPT ![j].at = "deleteMark", ![j].held = h]
      BY <1>1, <2>2 DEF DeleteSteps, JobSet
    <2> QED
      BY <1>2, <2>1, <2>2 DEF DeleteRead
  <1>3. CASE DeleteMark(j)
    BY <1>3, GotoTarget DEF DeleteMark, DeleteSteps
  <1>4. ASSUME NEW o \in Calls, DeleteOxUser(j, o) \/ DeleteLdapPerson(j, o) \/ DeleteUndiPerson(j, o)
        PROVE  job'[j].at \in DeleteSteps \cup {"idle"}
    BY <1>4, GotoTarget, EndTarget, ContinueTarget DEF DeleteOxUser, DeleteLdapPerson, DeleteUndiPerson, DeleteSteps
  <1>5. CASE DeleteRows(j)
    BY <1>5, EndTarget DEF DeleteRows
  <1> QED
    BY <1>2, <1>3, <1>4, <1>5 DEF Delete

LEMMA CronTargets == ASSUME Typed, NEW j \in Job, Cron(j) PROVE job'[j].at \in CronSteps \cup {"idle", "cronRead", "deleteRead"}
  <1>1. job[j] \in JobSet /\ job \in [Job -> JobSet]
    BY HeldFields DEF Typed, JobOK
  <1>2. CASE Purge(j) \/ CronMark(j)
    BY <1>2, GotoTarget DEF Purge, CronMark, CronSteps
  <1>3. CASE CronRead(j)
    <2>1. CASE Finish(j, "ok") \/ Finish(j, "error") \/ Goto(j, "deleteRead")
      BY <2>1, EndTarget, GotoTarget
    <2>2. CASE ~(Finish(j, "ok") \/ Finish(j, "error") \/ Goto(j, "deleteRead"))
      <3>1. PICK zero, one, r :
                 /\ zero \in Row /\ zero.id \in Has(db) /\ db[zero.id] = zero /\ zero.priority = 0
                 /\ one \in Row /\ one.id \in Has(db) /\ db[one.id] = one /\ one.priority = 1
                 /\ r \in Row /\ r.id = one.id /\ r.address = one.address /\ r.priority = 1
                 /\ r.oxUserCounter = one.oxUserCounter /\ r.status = "TO_BE_DELETED"
                 /\ job' = [job EXCEPT ![j].at = "cronMark", ![j].primary = zero, ![j].alternative = r]
        BY <1>3, <2>2, CronReads
      <3> QED
        BY <1>1, <3>1 DEF JobSet, CronSteps
    <2> QED
      BY <2>1, <2>2
  <1>4. ASSUME NEW o \in Calls, CronOx(j, o) PROVE job'[j].at = "cronLdap"
    <2>1. \E b : Continue(j, "cronLdap", b)
      BY <1>4 DEF CronOx
    <2> QED
      BY <2>1, ContinueTarget
  <1>5. ASSUME NEW o \in Calls, CronLdap(j, o) PROVE job'[j].at = "cronDelete"
    BY <1>5, ContinueTarget DEF CronLdap
  <1>6. CASE CronDelete(j)
    BY <1>6, EndTarget DEF CronDelete
  <1> QED
    BY <1>2, <1>3, <1>4, <1>5, <1>6 DEF Cron, CronSteps

----------------------------------------------------------------------------
(* The job that is under way                                               *)

\* Requests come one after the other: one job is under way at most.
Alone == \A j, k \in Job : ~At(j, "idle") /\ ~At(k, "idle") => j = k

\* That job, or an idle one.
Current == IF Quiet THEN Idle ELSE job[CHOOSE j \in Job : ~At(j, "idle")]

Step(j) == Set(j) \/ Suspend(j) \/ Delete(j) \/ Cron(j)

LEMMA StepWorks == ASSUME NEW j \in Job, Step(j) PROVE ~At(j, "idle")
  <1>1. CASE Set(j)
    BY <1>1 DEF Set, CheckPending, Choose, Insert, Reread, ShiftBack, Pend, KeepPrimary, ShiftToFront, Ensure,
       ChangeOxUser, CreateOxUser, SaveOx, UpsertLdap, UpsertUndi, Activate, ActivateAlternative, SaveFailure, At
  <1>2. CASE Suspend(j)
    BY <1>2 DEF Suspend, SuspendRead, SuspendSave, SuspendOx, SuspendUndi, At
  <1>3. CASE Delete(j)
    BY <1>3 DEF Delete, DeleteRead, DeleteMark, DeleteOxUser, DeleteLdapPerson, DeleteUndiPerson, DeleteRows, At
  <1>4. CASE Cron(j)
    BY <1>4 DEF Cron, Purge, CronRead, CronMark, CronOx, CronLdap, CronDelete, At
  <1> QED
    BY <1>1, <1>2, <1>3, <1>4 DEF Step

LEMMA CurrentJob == ASSUME Alone, NEW j \in Job, ~At(j, "idle") PROVE Current = job[j]
  BY DEF Alone, Current, Quiet

LEMMA CurrentStep ==
    ASSUME Typed, Alone, NEW j \in Job, ~At(j, "idle"), NEW q, job' = [job EXCEPT ![j] = q]
    PROVE  Alone' /\ Current' = IF q.at = "idle" THEN Idle ELSE q
  <1>1. job'[j] = q /\ \A k \in Job \ {j} : job'[k] = job[k]
    BY DEF Typed, JobOK
  <1>2. \A k \in Job \ {j} : job[k].at = "idle"
    BY DEF Alone, At
  <1>3. \A k \in Job \ {j} : job'[k].at = "idle"
    BY <1>1, <1>2
  <1>4. Alone'
    BY <1>3 DEF Alone, At
  <1>5. CASE q.at = "idle"
    BY <1>1, <1>3, <1>4, <1>5 DEF Current, Quiet, At
  <1>6. CASE q.at # "idle"
    <2>1. \A k \in Job : job'[k].at # "idle" <=> k = j
      BY <1>1, <1>3, <1>6
    <2>2. (CHOOSE k \in Job : job'[k].at # "idle") = j
      BY <2>1
    <2> QED
      BY <1>1, <1>4, <1>6, <2>1, <2>2 DEF Current, Quiet, At
  <1> QED
    BY <1>4, <1>5, <1>6

LEMMA CurrentBegin ==
    ASSUME Serial = TRUE, Typed, NEW j \in Job, NEW kind \in Kind, NEW name, Request(j, kind, name)
    PROVE  /\ Alone' /\ Current = Idle /\ Current' = [Idle EXCEPT !.at = FirstStep[kind], !.kind = kind, !.name = name]
           /\ Current'.at \in {"check", "suspendRead", "deleteRead", "purge"}
  <1> DEFINE q == [Idle EXCEPT !.at = FirstStep[kind], !.kind = kind, !.name = name]
  <1>1. Quiet /\ job' = [job EXCEPT ![j] = q]
    BY DEF Request, Quiet
  <1>2. q.at \in {"check", "suspendRead", "deleteRead", "purge"}
    BY DEF FirstStep, Kind, Idle
  <1> HIDE DEF q
  <1>3. job'[j] = q /\ \A k \in Job \ {j} : job'[k] = job[k]
    BY <1>1 DEF Typed, JobOK
  <1>4. \A k \in Job : job'[k].at # "idle" <=> k = j
    BY <1>1, <1>2, <1>3 DEF Quiet, At
  <1>5. (CHOOSE k \in Job : job'[k].at # "idle") = j
    BY <1>4
  <1>6. Alone' /\ Current = Idle /\ Current' = q
    BY <1>1, <1>3, <1>4, <1>5 DEF Alone, Current, Quiet, At
  <1> QED
    BY <1>2, <1>6 DEF q

LEMMA CurrentCrash == ASSUME Crash PROVE Alone' /\ Current' = Idle /\ Quiet'
  BY DEF Crash, Alone, Current, Quiet, At, Idle

LEMMA CurrentUnchanged == ASSUME UNCHANGED job PROVE Current' = Current /\ (Alone => Alone') /\ (Quiet' <=> Quiet)
  BY DEF Current, Alone, Quiet, At

LEMMA CurrentInit == ASSUME Init PROVE Alone /\ Current = Idle
  BY DEF Init, Alone, Current, Quiet, At, Idle

LEMMA CurrentQuiet == ASSUME Quiet PROVE Current = Idle
  BY DEF Current

\* The steps a job can be at when it is under way.
LEMMA Nexts ==
    ASSUME [Next]_vars
    PROVE  \/ \E j \in Job, kind \in Kind, name \in Name \cup {<<>>} : Request(j, kind, name)
           \/ \E j \in Job : Step(j)
           \/ Crash \/ \E j \in Job : Throw(j)
           \/ NextDay \/ UNCHANGED vars
  <1>1. "set" \in Kind
    BY DEF Kind
  <1> QED
    BY <1>1 DEF Next, Step

----------------------------------------------------------------------------
(* A job that is interrupted                                               *)

LEMMA FinishLast ==
    ASSUME NEW j \in Job, NEW outcome, Finish(j, outcome)
    PROVE  last'.kind = job[j].kind /\ last'.name = job[j].name /\ last'.outcome = outcome
  BY DEF Finish

\* What the activation does to the rows.
LEMMA ActivateRows ==
    ASSUME Typed, NEW j \in Job, Places(db, job[j], leftovers), job[j].at = "activate", db' = Saved({job[j].primary})
    PROVE  \E r : /\ r = job[j].primary /\ r \in Row /\ r.id \in Has(db) /\ r.priority = 0 /\ r.status = "ACTIVE"
                  /\ r.markedForCron = NoDate
                  /\ db[r.id].priority = 0 /\ db[r.id].oxUserCounter = r.oxUserCounter /\ db[r.id].address = r.address
                  /\ Has(db') = Has(db) /\ db'[r.id] = r /\ \A i \in Has(db) \ {r.id} : db'[i] = db[i]
  <1>1. job[j].primary \in Row /\ DbOK
    BY SettingFields DEF SettingSteps
  <1>2. PICK r : r = job[j].primary
    OBVIOUS
  <1>3. /\ r.id \in Has(db) /\ r.priority = 0 /\ db[r.id].priority = 0 /\ r.status = "ACTIVE" /\ r.markedForCron = NoDate
        /\ db[r.id].oxUserCounter = r.oxUserCounter /\ db[r.id].address = r.address
    BY <1>2 DEF Places, Setting, Fronting, SettingSteps, FrontSteps
  <1>4. Has(db') = Has(db) /\ db'[r.id] = r /\ \A i \in Has(db) \ {r.id} : db'[i] = db[i]
    BY <1>1, <1>2, <1>3, SavedOne, PersistedHas
  <1> QED
    BY <1>1, <1>2, <1>3, <1>4

LEMMA AlternativeRows ==
    ASSUME Typed, NEW j \in Job, Places(db, job[j], leftovers), job[j].at = "activateAlternative",
           db' = Saved({job[j].alternative})
    PROVE  \E r : /\ r = job[j].alternative /\ r \in Row /\ r.id \in Has(db) /\ r.priority = 1 /\ db[r.id].priority = 1
                  /\ r.status = "ACTIVE"
                  /\ db[r.id].oxUserCounter = r.oxUserCounter /\ db[r.id].address = r.address
                  /\ Has(db') = Has(db) /\ db'[r.id] = r /\ \A i \in Has(db) \ {r.id} : db'[i] = db[i]
  <1>1. DbOK /\ job[j].alternative \in Row
    BY JobTyped DEF Typed, Holds
  <1>2. PICK r : r = job[j].alternative
    OBVIOUS
  <1>3. /\ r.id \in Has(db) /\ r.priority = 1 /\ db[r.id].priority = 1 /\ r.status = "ACTIVE"
        /\ db[r.id].oxUserCounter = r.oxUserCounter /\ db[r.id].address = r.address
    BY <1>2 DEF Places, Beside, InPlace, Same
  <1>4. Has(db') = Has(db) /\ db'[r.id] = r /\ \A i \in Has(db) \ {r.id} : db'[i] = db[i]
    BY <1>1, <1>2, <1>3, SavedOne, PersistedHas
  <1> QED
    BY <1>1, <1>2, <1>3, <1>4

\* A save of some of the rows that a job holds to suspend or to delete them.
LEMMA HeldPart ==
    ASSUME Typed, NEW j \in Job, Places(db, job[j], leftovers), job[j].at \in {"suspendSave", "deleteMark"},
           NEW part \in SUBSET job[j].held, db' = Saved(part)
    PROVE  /\ Has(db') = Has(db)
           /\ \A i \in Has(db) :
                 /\ db'[i].priority = db[i].priority /\ db'[i].address = db[i].address
                 /\ db'[i].oxUserCounter = db[i].oxUserCounter
                 /\ db'[i] = db[i] \/ db'[i].status \in {"SUSPENDED", "TO_BE_DELETED"}
  <1>1. DbOK /\ part \in SUBSET Row /\ FrontOne(db)
    BY HeldFields DEF Places
  <1>2. \A r \in part : InPlace(db, r) /\ r.status \in {"SUSPENDED", "TO_BE_DELETED"}
    BY DEF Places, Holding
  <1>3. PICK d : d = db'
    OBVIOUS
  <1>4. /\ Has(d) = Has(db)
        /\ \A i \in Has(db) :
              /\ d[i].priority = db[i].priority /\ d[i].address = db[i].address
              /\ d[i].oxUserCounter = db[i].oxUserCounter
              /\ d[i] \in part \/ d[i] = db[i]
    BY <1>1, <1>2, <1>3, HeldPlaces
  <1> QED
    BY <1>2, <1>3, <1>4

\* A deletion of some of them.
LEMMA DeletedPart ==
    ASSUME Typed, NEW rs, db' = Without(rs)
    PROVE  Has(db') \subseteq Has(db) /\ \A i \in Has(db') : db'[i] = db[i]
  BY WithoutRows DEF Typed, Has

\* The databases that an interruption leaves.
LEMMA InterruptedCases ==
    ASSUME Typed, NEW j \in Job, db' \in Interrupted(j)
    PROVE  \/ db' = db
           \/ job[j].at \in {"suspendSave", "deleteMark"} /\ \E part \in SUBSET job[j].held : db' = Saved(part)
           \/ job[j].at = "deleteRows" /\ \E part \in SUBSET job[j].held : db' = Without(part)
           \/ job[j].at = "activate" /\ db' = Saved({job[j].primary})
           \/ job[j].at = "activateAlternative" /\ db' = Saved({job[j].alternative})
  BY DEF Interrupted

\* The rows are at rest again, except for what is left behind.
LEMMA InterruptedRest ==
    ASSUME Typed, NEW j \in Job, Places(db, job[j], leftovers), db' \in Interrupted(j),
           leftovers \cup LeftBehind(j) \subseteq leftovers'
    PROVE  Rest(db', leftovers')
  <1>1. PICK d, c : d = db' /\ c = leftovers'
    OBVIOUS
  <1>2. /\ "active" \notin c => "active" \notin leftovers /\ job[j].at # "ensure"
        /\ "pending" \notin c => "pending" \notin leftovers /\ job[j].at \notin FrontSteps \cup {"shift"}
        /\ "front" \notin c => "front" \notin leftovers /\ job[j].at \notin PlacingSteps \cup {"deleteRows"}
    BY <1>1 DEF LeftBehind, Unfinished, FrontSteps, PlacingSteps
  <1>3. /\ FrontOne(db)
        /\ "active" \notin c => \A i \in Has(db) : db[i].status = "ACTIVE" => db[i].priority <= 1
        /\ "pending" \notin c => \A i \in Has(db) : db[i].status # "PENDING"
        /\ "front" \notin c /\ Has(db) # {} => \E i \in Has(db) : db[i].priority = 0
    BY <1>2 DEF Places, ActiveFront, PendingKnown, FrontKept
  <1>4. CASE d = db
    BY <1>1, <1>3, <1>4 DEF Rest
  <1>5. CASE job[j].at \in {"suspendSave", "deleteMark"} /\ \E part \in SUBSET job[j].held : d = Saved(part)
    <2>1. /\ Has(d) = Has(db)
          /\ \A i \in Has(db) : /\ d[i].priority = db[i].priority
                                /\ d[i] = db[i] \/ d[i].status \in {"SUSPENDED", "TO_BE_DELETED"}
      BY <1>1, <1>5, HeldPart
    <2> QED
      BY <1>1, <1>3, <2>1 DEF Rest, FrontOne
  <1>6. CASE job[j].at = "deleteRows" /\ \E part \in SUBSET job[j].held : d = Without(part)
    <2>1. Has(d) \subseteq Has(db) /\ \A i \in Has(d) : d[i] = db[i]
      BY <1>1, <1>6, DeletedPart
    <2> QED
      BY <1>1, <1>2, <1>3, <1>6, <2>1 DEF Rest, FrontOne
  <1>7. CASE job[j].at = "activate" /\ d = Saved({job[j].primary})
    <2>1. PICK r : /\ r.id \in Has(db) /\ r.priority = 0 /\ r.status = "ACTIVE" /\ db[r.id].priority = 0
                   /\ Has(d) = Has(db) /\ d[r.id] = r /\ \A i \in Has(db) \ {r.id} : d[i] = db[i]
      BY <1>1, <1>7, ActivateRows
    <2> QED
      BY <1>1, <1>3, <2>1 DEF Rest, FrontOne
  <1>8. CASE job[j].at = "activateAlternative" /\ d = Saved({job[j].alternative})
    <2>1. PICK r : /\ r.id \in Has(db) /\ r.priority = 1 /\ r.status = "ACTIVE" /\ db[r.id].priority = 1
                   /\ Has(d) = Has(db) /\ d[r.id] = r /\ \A i \in Has(db) \ {r.id} : d[i] = db[i]
      BY <1>1, <1>8, AlternativeRows
    <2> QED
      BY <1>1, <1>3, <2>1 DEF Rest, FrontOne
  <1> QED
    BY <1>1, <1>4, <1>5, <1>6, <1>7, <1>8, InterruptedCases

\* The job that was under way, and where it goes: to its end or its next attempt.
LEMMA Interruption ==
    ASSUME Typed, Alone, Crash \/ \E j \in Job : Throw(j)
    PROVE  \E j \in Job :
              /\ ~At(j, "idle") /\ Current = job[j] /\ db' \in Interrupted(j)
              /\ leftovers \cup LeftBehind(j) \subseteq leftovers'
              /\ Alone' /\ Current'.at \in {"idle", "choose"}
              /\ UNCHANGED <<ox, oxUsers, ldap, undi, recorded, partial>>
              /\ last' = Nothing \/ last'.outcome = "failed" \/ (last' = last /\ Current'.at = "choose")
  <1>1. ASSUME Crash
        PROVE  \E j \in Job : /\ ~At(j, "idle") /\ db' \in Interrupted(j) /\ leftovers \cup LeftBehind(j) \subseteq leftovers'
                              /\ Current = job[j]
    <2>1. PICK j \in Job : ~At(j, "idle") /\ db' \in Interrupted(j)
      BY <1>1 DEF Crash
    <2>2. leftovers \cup LeftBehind(j) \subseteq leftovers'
      BY <1>1 DEF Crash
    <2> QED
      BY <2>1, <2>2, CurrentJob
  <1>2. ASSUME Crash
        PROVE  /\ Alone' /\ Current' = Idle /\ last' = Nothing
               /\ UNCHANGED <<ox, oxUsers, ldap, undi, recorded, partial>>
    BY <1>2, CurrentCrash DEF Crash, external
  <1>3. ASSUME NEW j \in Job, Throw(j)
        PROVE  /\ ~At(j, "idle") /\ Current = job[j] /\ db' \in Interrupted(j)
               /\ leftovers \cup LeftBehind(j) \subseteq leftovers'
               /\ Alone' /\ Current'.at \in {"idle", "choose"}
               /\ UNCHANGED <<ox, oxUsers, ldap, undi, recorded, partial>>
               /\ last'.outcome = "failed" \/ (last' = last /\ Current'.at = "choose")
    <2>1. /\ ~At(j, "idle") /\ db' \in Interrupted(j) /\ leftovers \cup LeftBehind(j) \subseteq leftovers'
          /\ UNCHANGED <<ox, oxUsers, ldap, undi, recorded, partial>>
      BY <1>3 DEF Throw, external
    <2>2. PICK q : job' = [job EXCEPT ![j] = q] /\ \/ q = Idle /\ last'.outcome = "failed"
                                                   \/ q.at = "choose" /\ last' = last
      <3>1. CASE Finish(j, "failed")
        BY <3>1, FinishLast DEF Finish
      <3>2. CASE job[j].attempt < RetryAttempts /\ Retry(j)
        <4> DEFINE q == [Idle EXCEPT !.at = "choose", !.kind = "set", !.name = job[j].name, !.attempt = job[j].attempt + 1]
        <4>1. q.at = "choose" /\ job' = [job EXCEPT ![j] = q] /\ last' = last
          BY <3>2 DEF Retry, Idle
        <4> QED
          BY <4>1
      <3> QED
        BY <1>3, <3>1, <3>2 DEF Throw, Retry
    <2>3. Alone' /\ Current' = IF q.at = "idle" THEN Idle ELSE q
      BY <2>1, <2>2, CurrentStep
    <2>4. Idle.at = "idle"
      BY DEF Idle
    <2> QED
      BY <2>1, <2>2, <2>3, <2>4, CurrentJob
  <1>4. Idle.at = "idle"
    BY DEF Idle
  <1> QED
    BY <1>1, <1>2, <1>3, <1>4

\* A part of the rows was saved or deleted.
InterruptedCalmly(j) ==
    \/ job[j].at \in {"suspendSave", "deleteMark"} /\ \E part \in SUBSET job[j].held : db' = Saved(part)
    \/ job[j].at = "deleteRows" /\ \E part \in SUBSET job[j].held : db' = Without(part)

LEMMA CalmInterrupted ==
    ASSUME Typed, NEW j \in Job, Places(db, job[j], leftovers), InterruptedCalmly(j)
    PROVE  Calm(db') /\ (Stays(db') \/ FrontPassive(db'))
  <1>1. PICK d : d = db'
    OBVIOUS
  <1>2. CASE job[j].at \in {"suspendSave", "deleteMark"} /\ \E part \in SUBSET job[j].held : d = Saved(part)
    <2>1. /\ Has(d) = Has(db)
          /\ \A i \in Has(db) : /\ d[i].priority = db[i].priority /\ d[i].address = db[i].address
                                /\ d[i].oxUserCounter = db[i].oxUserCounter
                                /\ d[i] = db[i] \/ d[i].status \in {"SUSPENDED", "TO_BE_DELETED"}
      BY <1>1, <1>2, HeldPart
    <2> QED
      BY <1>1, <2>1 DEF Calm, Stays
  <1>3. CASE job[j].at = "deleteRows" /\ \E part \in SUBSET job[j].held : d = Without(part)
    <2>1. Has(d) \subseteq Has(db) /\ \A i \in Has(d) : d[i] = db[i]
      BY <1>1, <1>3, DeletedPart
    <2>2. FrontPassive(db)
      BY <1>3 DEF Places, Holding, DeleteSteps
    <2> QED
      BY <1>1, <2>1, <2>2 DEF Calm, FrontPassive
  <1> QED
    BY <1>1, <1>2, <1>3 DEF InterruptedCalmly

----------------------------------------------------------------------------
(* The places, whatever the job does                                       *)

Placed == Alone /\ Places(db, Current, leftovers)

LEMMA PlacesIdle ==
    ASSUME NEW d, NEW q, NEW c, Places(d, q, c), q.at = "idle"
    PROVE  Places(d, Idle, c)
  BY DEF Idle, Places, ActiveFront, FrontKept, PendingKnown, Inserting, Setting, Placing, Fronting, Beside,
     Holding, Crons, SettingSteps, PlacingSteps, FrontSteps, BesideSteps, DeleteSteps, CronSteps

LEMMA StepPlaces ==
    ASSUME Typed, NEW j \in Job, Places(db, job[j], leftovers), Step(j)
    PROVE  \E q : job' = [job EXCEPT ![j] = q] /\ Places(db', q, leftovers)
  BY SetPlaces, SuspendPlaces, DeletePlaces, CronPlaces DEF Step

LEMMA StepKeepsLeftovers == ASSUME NEW j \in Job, Step(j) PROVE leftovers' = leftovers
  <1>1. CASE Set(j)
    BY <1>1 DEF Set, CheckPending, Choose, Insert, Reread, ShiftBack, Pend, KeepPrimary, ShiftToFront, Ensure,
       ChangeOxUser, CreateOxUser, SaveOx, UpsertLdap, UpsertUndi, Activate, ActivateAlternative, SaveFailure, history
  <1>2. CASE Suspend(j)
    BY <1>2 DEF Suspend, SuspendRead, SuspendSave, SuspendOx, SuspendUndi, history
  <1>3. CASE Delete(j)
    BY <1>3 DEF Delete, DeleteRead, DeleteMark, DeleteOxUser, DeleteLdapPerson, DeleteUndiPerson, DeleteRows, history
  <1>4. CASE Cron(j)
    BY <1>4 DEF Cron, Purge, CronRead, CronMark, CronOx, CronLdap, CronDelete, history
  <1> QED
    BY <1>1, <1>2, <1>3, <1>4 DEF Step

LEMMA PlacedInit == ASSUME Init PROVE Placed
  <1>1. Has(db) = {} /\ Idle.at = "idle"
    BY DEF Init, Has, Idle
  <1>2. Places(db, Idle, leftovers)
    BY <1>1 DEF Places, FrontOne, ActiveFront, FrontKept, PendingKnown, Inserting, Setting, Placing, Fronting, Beside,
       Holding, Crons, SettingSteps, PlacingSteps, FrontSteps, BesideSteps, DeleteSteps, CronSteps
  <1> QED
    BY <1>2, CurrentInit DEF Placed

LEMMA PlacedNext == ASSUME Serial = TRUE, Typed, Placed, [Next]_vars PROVE Placed'
  <1>1. ASSUME NEW j \in Job, NEW kind \in Kind, NEW name, Request(j, kind, name) PROVE Placed'
    <2>1. Places(db, Idle, leftovers) /\ Alone'
      BY <1>1, CurrentBegin DEF Placed
    <2>2. PICK q : job' = [job EXCEPT ![j] = q] /\ Places(db', q, leftovers)
      BY <1>1, <2>1, BeginPlaces
    <2>3. Current'.at # "idle" /\ Current' = job'[j]
      BY <1>1, CurrentBegin DEF Request, Typed, JobOK
    <2>4. job'[j] = q
      BY <2>2, JobIsFunction
    <2>5. leftovers' = leftovers
      BY <1>1 DEF Request
    <2> QED
      BY <2>1, <2>2, <2>3, <2>4, <2>5 DEF Placed
  <1>2. ASSUME NEW j \in Job, Step(j) PROVE Placed'
    <2>1. ~At(j, "idle") /\ Places(db, job[j], leftovers) /\ Alone
      BY <1>2, StepWorks, CurrentJob DEF Placed
    <2>2. PICK q : job' = [job EXCEPT ![j] = q] /\ Places(db', q, leftovers)
      BY <1>2, <2>1, StepPlaces
    <2>3. Alone' /\ Current' = IF q.at = "idle" THEN Idle ELSE q
      BY <2>1, <2>2, CurrentStep
    <2>4. Places(db', IF q.at = "idle" THEN Idle ELSE q, leftovers)
      BY <2>2, PlacesIdle
    <2>5. leftovers' = leftovers
      BY <1>2, StepKeepsLeftovers
    <2> QED
      BY <2>3, <2>4, <2>5 DEF Placed
  <1>3. CASE NextDay
    <2>1. UNCHANGED <<db, job, leftovers>>
      BY <1>3 DEF NextDay, store, history
    <2> QED
      BY <2>1, CurrentUnchanged DEF Placed
  <1>4. CASE Crash \/ \E j \in Job : Throw(j)
    <2>1. PICK j \in Job : /\ Current = job[j] /\ db' \in Interrupted(j) /\ leftovers \cup LeftBehind(j) \subseteq leftovers'
                           /\ Alone' /\ Current'.at \in {"idle", "choose"}
      BY <1>4, Interruption DEF Placed
    <2>2. Rest(db', leftovers')
      BY <2>1, InterruptedRest DEF Placed
    <2>3. PICK d, q, c : d = db' /\ q = Current' /\ c = leftovers'
      OBVIOUS
    <2>4. Places(d, q, c)
      BY <2>1, <2>2, <2>3, NeutralPlaces DEF NeutralSteps
    <2> QED
      BY <2>1, <2>3, <2>4 DEF Placed
  <1>5. CASE UNCHANGED vars
    <2>1. UNCHANGED <<db, job, leftovers>>
      BY <1>5 DEF vars, store, history
    <2> QED
      BY <2>1, CurrentUnchanged DEF Placed
  <1> QED
    BY <1>1, <1>2, <1>3, <1>4, <1>5, Nexts

Serially == Typed /\ Placed

LEMMA SeriallyAlways == ASSUME Serial = TRUE PROVE Spec => []Serially
  <1>1. Init => Serially
    BY TypedInit, PlacedInit DEF Serially
  <1>2. Serially /\ [Next]_vars => Serially'
    BY TypedNext, PlacedNext DEF Serially
  <1> QED
    BY <1>1, <1>2, PTL DEF Spec

LEMMA RowsHas == ASSUME DbOK PROVE Rows = {db[i] : i \in Has(db)}
  BY PersistedHas DEF Rows

\* One primary and one alternative address at most, whatever fails and
\* wherever a job is interrupted: the two shifts of a set request, the save of
\* rows that were read before, and the deletions leave room.
THEOREM EmailAtMostOneAtFront == ASSUME Serial = TRUE PROVE Spec => []AtMostOneAtFront
  <1>1. Serially => AtMostOneAtFront
    BY RowsHas DEF Serially, Typed, Placed, Places, FrontOne, AtMostOneAtFront
  <1> QED
    BY <1>1, SeriallyAlways, PTL

\* No address behind priority 1 is ACTIVE between two requests: the step that
\* deactivates follows the shift to the front, unless exactly that step is
\* interrupted, by a restart or by an error that the database throws.
THEOREM EmailOnlyFrontActive == ASSUME Serial = TRUE PROVE Spec => []OnlyFrontActive
  <1>1. ASSUME Serially, Quiet, "active" \notin leftovers, NEW r \in Rows, r.status = "ACTIVE" PROVE r.priority <= 1
    <2>1. DbOK /\ Places(db, Idle, leftovers) /\ Idle.at = "idle"
      BY <1>1, CurrentQuiet DEF Serially, Typed, Placed, Idle
    <2>2. PICK i \in Has(db) : db[i] = r
      BY <1>1, <2>1, RowsHas
    <2> QED
      BY <1>1, <2>1, <2>2 DEF Places, ActiveFront
  <1>2. Serially => OnlyFrontActive
    BY <1>1 DEF OnlyFrontActive
  <1> QED
    BY <1>2, SeriallyAlways, PTL

\* No address stays PENDING between two requests: every path on which an attempt
\* ends saves another status, unless the attempt is interrupted after it saved
\* that one, by a restart or by an error that the database throws.
THEOREM EmailNoPendingLeft == ASSUME Serial = TRUE PROVE Spec => []NoPendingLeft
  <1>1. ASSUME Serially, Quiet, "pending" \notin leftovers, NEW r \in Rows PROVE r.status # "PENDING"
    <2>1. DbOK /\ Places(db, Idle, leftovers) /\ Idle.at = "idle"
      BY <1>1, CurrentQuiet DEF Serially, Typed, Placed, Idle
    <2>2. PICK i \in Has(db) : db[i] = r
      BY <1>1, <2>1, RowsHas
    <2> QED
      BY <1>1, <2>1, <2>2 DEF Places, PendingKnown, FrontSteps
  <1>2. Serially => NoPendingLeft
    BY <1>1 DEF NoPendingLeft
  <1> QED
    BY <1>2, SeriallyAlways, PTL

----------------------------------------------------------------------------
(* What the steps of a set request do to the rows and to the other systems *)

LEMMA CreateOxEffect ==
    ASSUME Typed, NEW j \in Job, NEW o \in OxCalls, CreateOxUser(j, o)
    PROVE  /\ job[j].at = "ox" /\ job[j].primary.oxUserCounter = NoCounter
           /\ UNCHANGED <<db, ldap, undi, recorded, partial>>
           /\ \/ ox' = ox /\ oxUsers' = oxUsers /\ job'[j].at = "fail"
              \/ /\ ox = NoUser /\ oxUsers' = oxUsers + 1
                 /\ ox' # NoUser /\ ox'.id = oxUsers + 1 /\ ox'.primary = job[j].primary.address
                 /\ ox'.aliases = {job[j].primary.address}
                 /\ \/ job'[j].at = "fail"
                    \/ /\ job'[j].at = "saveOx"
                       /\ job'[j].primary.id = job[j].primary.id /\ job'[j].primary.address = job[j].primary.address
                       /\ job'[j].primary.oxUserCounter = oxUsers + 1
                       /\ job'[j].alternative = job[j].alternative
  <1>1. job[j].at = "ox" /\ job[j].primary.oxUserCounter = NoCounter /\ UNCHANGED <<db, ldap, undi, recorded, partial>>
    BY DEF CreateOxUser, At, store, history
  <1>2. job[j] \in JobSet /\ job \in [Job -> JobSet] /\ job[j].primary \in Row /\ oxUsers \in Nat
    BY <1>1, SettingFields DEF SettingSteps, Typed, JobOK, ExternalOK
  <1>3. \/ ox' = ox /\ oxUsers' = oxUsers /\ (Fail(j, "EXISTS_ONLY_IN_OX") \/ Fail(j, "FAILED"))
        \/ /\ ox = NoUser /\ oxUsers' = oxUsers + 1
           /\ ox' = [id |-> oxUsers + 1, primary |-> job[j].primary.address, aliases |-> {job[j].primary.address},
                     groups |-> o = "ok"]
           /\ \/ Fail(j, "EXISTS_ONLY_IN_OX") \/ Fail(j, "FAILED")
              \/ job' = [job EXCEPT ![j].at = "saveOx", ![j].primary.oxUserCounter = oxUsers + 1]
    BY DEF CreateOxUser, OxCalls, Calls
  <1>4. Fail(j, "EXISTS_ONLY_IN_OX") \/ Fail(j, "FAILED") => job'[j].at = "fail"
    BY FailTarget
  <1>5. CASE ox' = ox /\ oxUsers' = oxUsers /\ (Fail(j, "EXISTS_ONLY_IN_OX") \/ Fail(j, "FAILED"))
    BY <1>1, <1>4, <1>5
  <1>6. CASE /\ ox = NoUser /\ oxUsers' = oxUsers + 1
             /\ ox' = [id |-> oxUsers + 1, primary |-> job[j].primary.address, aliases |-> {job[j].primary.address},
                       groups |-> o = "ok"]
             /\ \/ Fail(j, "EXISTS_ONLY_IN_OX") \/ Fail(j, "FAILED")
                \/ job' = [job EXCEPT ![j].at = "saveOx", ![j].primary.oxUserCounter = oxUsers + 1]
    <2>1. /\ ox' # NoUser /\ ox'.id = oxUsers + 1 /\ ox'.primary = job[j].primary.address
          /\ ox'.aliases = {job[j].primary.address}
      BY <1>6 DEF NoUser
    <2>2. CASE job' = [job EXCEPT ![j].at = "saveOx", ![j].primary.oxUserCounter = oxUsers + 1]
      <3>1. PICK p, r : p = job[j].primary /\ r = [p EXCEPT !.oxUserCounter = oxUsers + 1]
        OBVIOUS
      <3>2. r.id = p.id /\ r.address = p.address /\ r.oxUserCounter = oxUsers + 1
        BY <1>2, <3>1 DEF Row
      <3>3. job'[j] = [job[j] EXCEPT !.at = "saveOx", !.primary = r]
        BY <1>2, <2>2, <3>1 DEF JobSet
      <3>4. job'[j].at = "saveOx" /\ job'[j].primary = r /\ job'[j].alternative = job[j].alternative
        BY <1>2, <3>3 DEF JobSet
      <3> QED
        BY <1>1, <1>6, <2>1, <3>1, <3>2, <3>4
    <2> QED
      BY <1>1, <1>4, <1>6, <2>1, <2>2
  <1> QED
    BY <1>3, <1>5, <1>6

LEMMA ChangeOxEffect ==
    ASSUME Typed, NEW j \in Job, NEW o \in OxCalls, ChangeOxUser(j, o)
    PROVE  /\ job[j].at = "ox" /\ job[j].primary.oxUserCounter # NoCounter
           /\ UNCHANGED <<db, oxUsers, ldap, undi, recorded, partial>>
           /\ \/ ox' = ox /\ job'[j].at = "fail"
              \/ /\ ox # NoUser /\ ox.id = job[j].primary.oxUserCounter
                 /\ ox' # NoUser /\ ox'.id = ox.id /\ ox'.primary = job[j].primary.address
                 /\ ox'.aliases = {job[j].primary.address, AddressOf(job[j].alternative)} \ {NoAddress}
                 /\ \/ job'[j].at = "fail"
                    \/ /\ job'[j].at = "saveOx" /\ job'[j].primary = job[j].primary
                       /\ job'[j].alternative = job[j].alternative
  <1>1. /\ job[j].at = "ox" /\ job[j].primary.oxUserCounter # NoCounter
        /\ UNCHANGED <<db, oxUsers, ldap, undi, recorded, partial>>
    BY DEF ChangeOxUser, At, store, history
  <1>2. job[j] \in JobSet /\ ox \in OxUser \cup {NoUser}
    BY <1>1, SettingFields DEF SettingSteps, Typed, ExternalOK
  <1>3. \/ ox' = ox /\ (Fail(j, "EXISTS_ONLY_IN_OX") \/ Fail(j, "FAILED"))
        \/ /\ ox # NoUser /\ ox.id = job[j].primary.oxUserCounter
           /\ ox' = [ox EXCEPT !.primary = job[j].primary.address,
                               !.aliases = {job[j].primary.address, AddressOf(job[j].alternative)} \ {NoAddress},
                               !.groups = @ \/ o = "ok"]
           /\ Fail(j, "EXISTS_ONLY_IN_OX") \/ Fail(j, "FAILED") \/ Goto(j, "saveOx")
    BY DEF ChangeOxUser, OxCalls, Calls
  <1>4. Fail(j, "EXISTS_ONLY_IN_OX") \/ Fail(j, "FAILED") => job'[j].at = "fail"
    BY FailTarget
  <1>5. Goto(j, "saveOx") => /\ job'[j].at = "saveOx" /\ job'[j].primary = job[j].primary
                             /\ job'[j].alternative = job[j].alternative
    BY <1>2, GotoTarget DEF JobSet
  <1>6. ASSUME ox # NoUser, ox' = [ox EXCEPT !.primary = job[j].primary.address,
                               !.aliases = {job[j].primary.address, AddressOf(job[j].alternative)} \ {NoAddress},
                               !.groups = @ \/ o = "ok"]
        PROVE  /\ ox' # NoUser /\ ox'.id = ox.id /\ ox'.primary = job[j].primary.address
               /\ ox'.aliases = {job[j].primary.address, AddressOf(job[j].alternative)} \ {NoAddress}
    BY <1>2, <1>6 DEF OxUser, NoUser
  <1> QED
    BY <1>1, <1>3, <1>4, <1>5, <1>6

LEMMA SaveOxEffect ==
    ASSUME Typed, NEW j \in Job, Places(db, job[j], leftovers), SaveOx(j)
    PROVE  \E r : /\ job[j].at = "saveOx" /\ UNCHANGED <<ox, oxUsers, ldap, undi>>
                  /\ r \in Row /\ r.id \in Has(db) /\ r.id = job[j].primary.id /\ r.address = job[j].primary.address
                  /\ r.oxUserCounter = job[j].primary.oxUserCounter /\ r.priority = 0 /\ db[r.id].priority = 0
                  /\ r.status = db[r.id].status
                  /\ Has(db') = Has(db) /\ db'[r.id] = r /\ \A i \in Has(db) \ {r.id} : db'[i] = db[i]
                  /\ recorded' = recorded \cup {r.oxUserCounter}
                  /\ partial' = (partial \/ \E i \in Has(db) \ {r.id} : db[i].oxUserCounter = NoCounter)
                  /\ job'[j].at = "ldap" /\ job'[j].primary = r /\ job'[j].alternative = job[j].alternative
  <1>1. job[j].at = "saveOx" /\ UNCHANGED <<ox, oxUsers, ldap, undi>>
    BY DEF SaveOx, At, external
  <1>2. job[j] \in JobSet /\ job \in [Job -> JobSet] /\ job[j].primary \in Row /\ DbOK
    BY <1>1, SettingFields DEF SettingSteps, JobOK
  <1>3. PICK p, r : p = job[j].primary /\ r = [p EXCEPT !.markedForCron = NoDate]
    OBVIOUS
  <1>4. /\ r.id = p.id /\ r.address = p.address /\ r.oxUserCounter = p.oxUserCounter /\ r.priority = p.priority
        /\ r.status = p.status
    BY <1>2, <1>3 DEF Row
  <1>5. r \in Row
    BY <1>2, <1>3, RowEdited DEF Status
  <1>6. p.id \in Has(db) /\ p.priority = 0 /\ db[p.id].priority = 0 /\ p.status = db[p.id].status
    BY <1>1, <1>3 DEF Places, Setting, Fronting, SettingSteps, FrontSteps
  <1>7. Exists(r)
    BY <1>4, <1>6, PersistedHas DEF Exists
  <1>8. /\ db' = Saved({r})
        /\ recorded' = recorded \cup {r.oxUserCounter}
        /\ partial' = (partial \/ \E q \in Rows : q.id # r.id /\ q.oxUserCounter = NoCounter)
        /\ job' = [job EXCEPT ![j].at = "ldap", ![j].primary = r]
    BY <1>3, <1>7 DEF SaveOx
  <1>9. (\E q \in Rows : q.id # r.id /\ q.oxUserCounter = NoCounter) <=>
        (\E i \in Has(db) \ {r.id} : db[i].oxUserCounter = NoCounter)
    BY <1>2, RowsHas, FrontRows
  <1>10. Has(db') = Has(db) /\ db'[r.id] = r /\ \A i \in Has(db) \ {r.id} : db'[i] = db[i]
    BY <1>2, <1>4, <1>5, <1>6, <1>8, SavedOne, PersistedHas
  <1>11. job'[j].at = "ldap" /\ job'[j].primary = r /\ job'[j].alternative = job[j].alternative
    BY <1>2, <1>8 DEF JobSet
  <1>12. partial' = (partial \/ \E i \in Has(db) \ {r.id} : db[i].oxUserCounter = NoCounter)
    BY <1>8, <1>9
  <1>13. /\ r.id \in Has(db) /\ r.id = job[j].primary.id /\ r.address = job[j].primary.address
         /\ r.oxUserCounter = job[j].primary.oxUserCounter /\ r.priority = 0 /\ db[r.id].priority = 0
         /\ r.status = db[r.id].status
    BY <1>3, <1>4, <1>6
  <1> QED
    BY <1>1, <1>5, <1>8, <1>10, <1>11, <1>12, <1>13

LEMMA LdapEffect ==
    ASSUME Typed, NEW j \in Job, NEW o \in Calls, UpsertLdap(j, o)
    PROVE  /\ job[j].at = "ldap" /\ UNCHANGED <<db, ox, oxUsers, undi, recorded, partial>>
           /\ ldap' = ldap \/ ldap' = [primary |-> job[j].primary.address, alternative |-> AddressOf(job[j].alternative)]
           /\ \/ job'[j].at = "fail"
              \/ /\ job'[j].at = "undi" /\ job'[j].primary = job[j].primary /\ job'[j].alternative = job[j].alternative
                 /\ ldap' = [primary |-> job[j].primary.address, alternative |-> AddressOf(job[j].alternative)]
  <1>1. job[j].at = "ldap" /\ UNCHANGED <<db, ox, oxUsers, undi, recorded, partial>>
    BY DEF UpsertLdap, At, store, history
  <1>2. job[j] \in JobSet
    BY <1>1, SettingFields DEF SettingSteps
  <1>3. Goto(j, "undi") => /\ job'[j].at = "undi" /\ job'[j].primary = job[j].primary
                           /\ job'[j].alternative = job[j].alternative
    BY <1>2, GotoTarget DEF JobSet
  <1>4. Fail(j, "FAILED") => job'[j].at = "fail"
    BY FailTarget
  <1> QED
    BY <1>1, <1>3, <1>4 DEF UpsertLdap

LEMMA UndiEffect ==
    ASSUME Typed, NEW j \in Job, NEW o \in Calls, UpsertUndi(j, o)
    PROVE  /\ job[j].at = "undi" /\ UNCHANGED <<db, ox, oxUsers, ldap, recorded, partial>>
           /\ \/ undi' = undi
              \/ undi' = [primary |-> job[j].primary.address, alternative |-> AddressOf(job[j].alternative),
                          deaktiviert |-> FALSE]
           /\ \/ job'[j].at = "fail"
              \/ /\ job'[j].at = "activate"
                 /\ job'[j].primary.id = job[j].primary.id /\ job'[j].primary.address = job[j].primary.address
                 /\ job'[j].primary.oxUserCounter = job[j].primary.oxUserCounter
                 /\ job'[j].alternative = job[j].alternative
                 /\ undi' = [primary |-> job[j].primary.address, alternative |-> AddressOf(job[j].alternative),
                             deaktiviert |-> FALSE]
  <1>1. job[j].at = "undi" /\ UNCHANGED <<db, ox, oxUsers, ldap, recorded, partial>>
    BY DEF UpsertUndi, At, store, history
  <1>2. job[j] \in JobSet /\ job \in [Job -> JobSet] /\ job[j].primary \in Row
    BY <1>1, SettingFields DEF SettingSteps, JobOK
  <1>3. ASSUME job' = [job EXCEPT ![j].at = "activate", ![j].primary.status = "ACTIVE"]
        PROVE  /\ job'[j].at = "activate"
               /\ job'[j].primary.id = job[j].primary.id /\ job'[j].primary.address = job[j].primary.address
               /\ job'[j].primary.oxUserCounter = job[j].primary.oxUserCounter
               /\ job'[j].alternative = job[j].alternative
    <2>1. PICK p, r : p = job[j].primary /\ r = [p EXCEPT !.status = "ACTIVE"]
      OBVIOUS
    <2>2. r.id = p.id /\ r.address = p.address /\ r.oxUserCounter = p.oxUserCounter
      BY <1>2, <2>1 DEF Row
    <2>3. job'[j] = [job[j] EXCEPT !.at = "activate", !.primary = r]
      BY <1>2, <1>3, <2>1 DEF JobSet
    <2>4. job'[j].at = "activate" /\ job'[j].primary = r /\ job'[j].alternative = job[j].alternative
      BY <1>2, <2>3 DEF JobSet
    <2> QED
      BY <2>1, <2>2, <2>4
  <1>4. Fail(j, "FAILED") => job'[j].at = "fail"
    BY FailTarget
  <1> QED
    BY <1>1, <1>3, <1>4 DEF UpsertUndi

LEMMA ActivateEffect ==
    ASSUME Typed, NEW j \in Job, Places(db, job[j], leftovers), Activate(j)
    PROVE  /\ job[j].at = "activate" /\ UNCHANGED <<ox, oxUsers, ldap, undi, recorded, partial, leftovers>>
           /\ db' = Saved({job[j].primary})
           /\ \/ job'[j] = Idle /\ job[j].alternative = NoRow
              \/ /\ job'[j].at = "activateAlternative" /\ job[j].alternative \in Row
                 /\ job'[j].alternative.id = job[j].alternative.id
                 /\ job'[j].alternative.address = job[j].alternative.address
  <1>1. job[j].at = "activate" /\ UNCHANGED <<ox, oxUsers, ldap, undi, recorded, partial, leftovers>>
    BY DEF Activate, At, external
  <1>2. job[j] \in JobSet /\ job \in [Job -> JobSet] /\ job[j].alternative \in Row \cup {NoRow}
    BY <1>1, SettingFields DEF SettingSteps, JobOK
  <1>3. CASE job[j].alternative = NoRow
    BY <1>1, <1>3, EndTarget DEF Activate
  <1>4. CASE job[j].alternative # NoRow
    <2>1. PICK p, q : p = job[j].alternative /\ q = [p EXCEPT !.status = "ACTIVE"]
      OBVIOUS
    <2>2. q.id = p.id /\ q.address = p.address /\ p \in Row
      BY <1>2, <1>4, <2>1 DEF Row
    <2>3. job' = [job EXCEPT ![j].at = "activateAlternative", ![j].alternative.status = "ACTIVE"]
      BY <1>4 DEF Activate
    <2>4. job'[j] = [job[j] EXCEPT !.at = "activateAlternative", !.alternative = q]
      BY <1>2, <2>1, <2>3 DEF JobSet
    <2>5. job'[j].at = "activateAlternative" /\ job'[j].alternative = q
      BY <1>2, <2>4 DEF JobSet
    <2> QED
      BY <1>1, <2>1, <2>2, <2>5 DEF Activate
  <1> QED
    BY <1>3, <1>4

LEMMA AlternativeEffect ==
    ASSUME Typed, NEW j \in Job, ActivateAlternative(j)
    PROVE  /\ job[j].at = "activateAlternative" /\ UNCHANGED <<ox, oxUsers, ldap, undi, recorded, partial, leftovers>>
           /\ db' = Saved({job[j].alternative}) /\ job'[j] = Idle
  BY EndTarget DEF ActivateAlternative, At, external

LEMMA ToFrontEffect ==
    ASSUME Typed, NEW j \in Job, Places(db, job[j], leftovers), ShiftToFront(j)
    PROVE  \E id : /\ job[j].at = "shift" /\ UNCHANGED <<ox, oxUsers, ldap, undi, recorded, partial>>
                   /\ id = job[j].primary.id /\ id \in Has(db) /\ db[id].status = "PENDING" /\ db[id].priority \in Nat \ {0}
                   /\ \A i \in Has(db) : db[i].priority = 0 => db[i].status = "ACTIVE"
                   /\ Has(db') = Has(db) /\ db'[id].priority = 0 /\ job'[j].at = "ensure"
                   /\ \A i \in Has(db) :
                         /\ db'[i].address = db[i].address /\ db'[i].status = db[i].status
                         /\ db'[i].oxUserCounter = db[i].oxUserCounter
                         /\ db'[i].priority \in Nat /\ db[i].priority \in Nat
                         /\ i # id => db'[i].priority > 0
                         /\ i # id /\ db'[i].priority = 1 => db[i].priority <= 1
  <1>1. job[j].at = "shift" /\ UNCHANGED <<ox, oxUsers, ldap, undi, recorded, partial>>
    BY DEF ShiftToFront, At, external, history
  <1>2. DbOK /\ job[j].primary \in Row
    BY <1>1, SettingFields DEF SettingSteps
  <1>3. PICK id : id = job[j].primary.id
    OBVIOUS
  <1>4. /\ id \in Has(db) /\ db[id].status = "PENDING" /\ FrontOne(db)
        /\ \A i \in Has(db) : db[i].priority = 0 /\ i # id => db[i].status = "ACTIVE"
        /\ NearPlace(db, job[j].primary) /\ job[j].primary.priority > 0
    BY <1>1, <1>3 DEF Places, Setting, Placing, SettingSteps, PlacingSteps
  <1>5. db[id].priority \in Nat /\ job[j].primary.priority \in Nat
    BY <1>2, <1>4, FrontRows, RowFields
  <1>6. db[id].priority # 0
    BY <1>3, <1>4, <1>5 DEF NearPlace
  <1>7. Exists(job[j].primary)
    BY <1>3, <1>4, PersistedHas DEF Exists
  <1>8. db' \in Shifted(id, 0) /\ Goto(j, "ensure")
    BY <1>3, <1>7 DEF ShiftToFront
  <1>9. PICK d \in Shifted(id, 0) : d = db'
    BY <1>8
  <1>10. /\ Has(d) = Has(db) /\ d[id].priority = 0
         /\ \A i \in Has(db) :
                /\ d[i].address = db[i].address /\ d[i].status = db[i].status
                /\ d[i].oxUserCounter = db[i].oxUserCounter
                /\ d[i].priority \in Nat /\ db[i].priority \in Nat
                /\ i # id => d[i].priority > 0
                /\ i # id /\ d[i].priority = 1 => db[i].priority <= 1
    BY <1>2, <1>4, ShiftForward, PersistedHas
  <1>11. job'[j].at = "ensure"
    BY <1>8, GotoTarget
  <1>12. \A i \in Has(db) : db[i].priority = 0 => db[i].status = "ACTIVE"
    BY <1>4, <1>6
  <1> QED
    BY <1>1, <1>3, <1>4, <1>5, <1>6, <1>9, <1>10, <1>11, <1>12

----------------------------------------------------------------------------
(* The numbers of the OX users                                             *)
(*                                                                         *)
(* d is the database, q the job that is under way, x the OX user, n counts *)
(* the OX users, rec and p are the two histories.                          *)

\* The rows know numbers that were given out; the alternative address has one,
\* an active primary one too; and if some have one and some have none, then a
\* number was saved while a row had none.
Numbered(d, x, n, rec, p) ==
    /\ x # NoUser => x.id \in 1..n
    /\ rec \subseteq 1..n
    /\ \A i \in Has(d) : d[i].oxUserCounter # NoCounter => d[i].oxUserCounter \in rec
    /\ \A i \in Has(d) : d[i].priority = 1 \/ (d[i].priority = 0 /\ d[i].status = "ACTIVE") =>
                            d[i].oxUserCounter # NoCounter
    /\ \A i, k \in Has(d) : d[i].oxUserCounter # NoCounter /\ d[k].oxUserCounter = NoCounter => p

\* A new row gets the number the others have.
NumberToInsert(d, q) ==
    q.at = "insert" =>
        IF q.primary.oxUserCounter = NoCounter THEN \A i \in Has(d) : d[i].oxUserCounter = NoCounter
        ELSE \E i \in Has(d) : d[i].oxUserCounter = q.primary.oxUserCounter

\* From the answer of OX on, the job works with the number of the OX user.
NumberInUse(d, q, x, rec) ==
    /\ q.at \in {"saveOx", "ldap", "undi", "activate"} => x # NoUser /\ x.id = q.primary.oxUserCounter
    /\ q.at = "saveOx" => \/ q.primary.oxUserCounter = d[q.primary.id].oxUserCounter
                          \/ d[q.primary.id].oxUserCounter = NoCounter /\ x.id \notin rec

Numbers(d, q, x, n, rec, p) == Numbered(d, x, n, rec, p) /\ NumberToInsert(d, q) /\ NumberInUse(d, q, x, rec)

NumberingSteps == {"insert", "saveOx", "ldap", "undi", "activate"}

LEMMA CalmNumbers ==
    ASSUME NEW q0, Numbers(db, q0, ox, oxUsers, recorded, partial), NEW d, Calm(d),
           NEW x, x = NoUser \/ (ox # NoUser /\ x.id = ox.id), NEW q, q.at \notin NumberingSteps
    PROVE  Numbers(d, q, x, oxUsers, recorded, partial)
  <1>1. Numbered(db, ox, oxUsers, recorded, partial)
    BY DEF Numbers
  <1>2. x # NoUser => x.id \in 1..oxUsers
    BY <1>1 DEF Numbered
  <1>3. \A i \in Has(d) : /\ i \in Has(db) /\ d[i].oxUserCounter = db[i].oxUserCounter
                          /\ d[i].priority = 1 => db[i].priority = 1
                          /\ d[i].priority = 0 => db[i].priority = 0
                          /\ d[i].priority = 0 /\ d[i].status = "ACTIVE" => db[i].status = "ACTIVE"
    BY DEF Calm
  <1>4. Numbered(d, x, oxUsers, recorded, partial)
    BY <1>1, <1>2, <1>3 DEF Numbered
  <1> QED
    BY <1>4 DEF Numbers, NumberToInsert, NumberInUse, NumberingSteps

LEMMA CalmNumbersNext ==
    ASSUME NEW j \in Job, Numbers(db, job[j], ox, oxUsers, recorded, partial), Calm(db'),
           ox' = NoUser \/ (ox # NoUser /\ ox'.id = ox.id), job'[j].at \notin NumberingSteps,
           UNCHANGED <<oxUsers, recorded, partial>>
    PROVE  Numbers(db', job'[j], ox', oxUsers', recorded', partial')
  <1>1. PICK d, x, q : d = db' /\ x = ox' /\ q = job'[j]
    OBVIOUS
  <1>2. Numbers(d, q, x, oxUsers, recorded, partial)
    BY <1>1, CalmNumbers
  <1> QED
    BY <1>1, <1>2

\* The steps of a set request that change no row at the front, and no user.
LEMMA PlainCalm ==
    ASSUME Typed, NEW j \in Job, Places(db, job[j], leftovers),
           \/ CheckPending(j) \/ Reread(j) \/ ShiftBack(j) \/ Pend(j) \/ KeepPrimary(j) \/ Ensure(j) \/ SaveFailure(j)
    PROVE  Calm(db') /\ UNCHANGED <<external, recorded, partial>>
  <1>1. CASE CheckPending(j)
    BY <1>1, CalmUnchanged DEF CheckPending, store
  <1>2. CASE Reread(j)
    BY <1>2, CalmUnchanged DEF Reread, store, history
  <1>3. CASE ShiftBack(j)
    BY <1>3, CalmShiftBack DEF ShiftBack, history
  <1>4. CASE Pend(j)
    BY <1>4, CalmPend DEF Pend, history
  <1>5. CASE KeepPrimary(j)
    BY <1>5, CalmUnchanged DEF KeepPrimary, store, history
  <1>6. CASE Ensure(j)
    BY <1>6, CalmEnsure DEF Ensure
  <1>7. CASE SaveFailure(j)
    BY <1>7, CalmFailure DEF SaveFailure
  <1> QED
    BY <1>1, <1>2, <1>3, <1>4, <1>5, <1>6, <1>7

\* The other requests give no number out: the OX user stays the same one or goes.
LEMMA OtherCalm ==
    ASSUME Typed, NEW j \in Job, Places(db, job[j], leftovers), Suspend(j) \/ Delete(j) \/ Cron(j)
    PROVE  /\ Calm(db') /\ UNCHANGED <<oxUsers, recorded, partial>>
           /\ ox' = NoUser \/ (ox # NoUser /\ ox'.id = ox.id)
           /\ job'[j].at \notin NumberingSteps
  <1>1. ox \in OxUser \cup {NoUser}
    BY DEF Typed, ExternalOK
  <1>2. job'[j].at \notin NumberingSteps
    BY SuspendTargets, DeleteTargets, CronTargets DEF NumberingSteps, SuspendSteps, DeleteSteps, CronSteps
  <1>3. Calm(db') /\ UNCHANGED <<oxUsers, recorded, partial>> /\ (ox' = NoUser \/ (ox # NoUser /\ ox'.id = ox.id))
    <2>1. CASE SuspendRead(j) \/ DeleteRead(j) \/ CronRead(j)
      BY <2>1, CalmUnchanged DEF SuspendRead, DeleteRead, CronRead, store, external
    <2>2. CASE SuspendSave(j) \/ DeleteMark(j)
      BY <2>2, CalmHeld DEF SuspendSave, DeleteMark, external, history
    <2>3. CASE Purge(j)
      BY <2>3, CalmPurge DEF Purge, external, history
    <2>4. CASE CronMark(j)
      BY <2>4, CalmCronMark DEF CronMark, external, history
    <2>5. CASE CronDelete(j)
      BY <2>5, CalmCronDelete DEF CronDelete, external
    <2>6. CASE DeleteRows(j)
      BY <2>6, CalmDeleteRows DEF DeleteRows, external
    <2>7. ASSUME NEW o \in Calls, SuspendUndi(j, o) \/ DeleteLdapPerson(j, o) \/ DeleteUndiPerson(j, o) \/ CronLdap(j, o)
          PROVE  Calm(db') /\ UNCHANGED <<oxUsers, recorded, partial, ox>>
      BY <2>7, CalmUnchanged DEF SuspendUndi, DeleteLdapPerson, DeleteUndiPerson, CronLdap, store, history
    <2>8. ASSUME NEW o \in Calls, SuspendOx(j, o) \/ DeleteOxUser(j, o) \/ CronOx(j, o)
          PROVE  /\ db' = db /\ UNCHANGED <<oxUsers, recorded, partial>>
                 /\ \/ ox' \in {ox, NoUser}
                    \/ ox # NoUser /\ ox' = [ox EXCEPT !.groups = FALSE]
                    \/ ox # NoUser /\ \E a, s : ox' = [ox EXCEPT !.primary = a, !.aliases = s]
      <3>1. CASE SuspendOx(j, o)
        BY <3>1 DEF SuspendOx, store, history
      <3>2. CASE DeleteOxUser(j, o)
        BY <3>2 DEF DeleteOxUser, store, history
      <3>3. CASE CronOx(j, o)
        BY <3>3 DEF CronOx, store, history
      <3> QED
        BY <2>8, <3>1, <3>2, <3>3
    <2>9. ASSUME NEW o \in Calls, SuspendOx(j, o) \/ DeleteOxUser(j, o) \/ CronOx(j, o)
          PROVE  ox' = NoUser \/ (ox # NoUser /\ ox'.id = ox.id)
      <3>1. \/ ox' \in {ox, NoUser}
            \/ ox # NoUser /\ ox' = [ox EXCEPT !.groups = FALSE]
            \/ ox # NoUser /\ \E a, s : ox' = [ox EXCEPT !.primary = a, !.aliases = s]
        BY <2>8, <2>9
      <3>2. CASE ox # NoUser /\ \E a, s : ox' = [ox EXCEPT !.primary = a, !.aliases = s]
        BY <1>1, <3>2 DEF OxUser
      <3>3. CASE ox # NoUser /\ ox' = [ox EXCEPT !.groups = FALSE]
        BY <1>1, <3>3 DEF OxUser
      <3> QED
        BY <3>1, <3>2, <3>3
    <2>10. ASSUME NEW o \in Calls, SuspendOx(j, o) \/ DeleteOxUser(j, o) \/ CronOx(j, o)
           PROVE  Calm(db') /\ UNCHANGED <<oxUsers, recorded, partial>>
      BY <2>8, <2>10, CalmUnchanged
    <2>11. CASE Suspend(j)
      BY <2>1, <2>2, <2>7, <2>9, <2>10, <2>11 DEF Suspend
    <2>12. CASE Delete(j)
      BY <2>1, <2>2, <2>6, <2>7, <2>9, <2>10, <2>12 DEF Delete
    <2>13. CASE Cron(j)
      BY <2>1, <2>3, <2>4, <2>5, <2>7, <2>9, <2>10, <2>13 DEF Cron
    <2> QED
      BY <2>11, <2>12, <2>13
  <1> QED
    BY <1>2, <1>3

LEMMA ChooseNumbers ==
    ASSUME Typed, NEW j \in Job, Numbers(db, job[j], ox, oxUsers, recorded, partial), Choose(j)
    PROVE  Numbers(db', job'[j], ox', oxUsers', recorded', partial')
  <1>1. /\ job[j] \in JobSet /\ job \in [Job -> JobSet] /\ job[j].at = "choose" /\ DbOK
        /\ UNCHANGED <<db, ox, oxUsers, recorded, partial>>
    BY JobTyped DEF Typed, JobOK, Choose, At, store, external, history
  <1>2. Numbered(db, ox, oxUsers, recorded, partial)
    BY DEF Numbers
  <1>3. CASE Matching(job[j].name) # {}
    <2>1. PICK r : job' = [job EXCEPT ![j].at = "reread", ![j].primary = r]
      BY <1>3 DEF Choose
    <2>2. job'[j].at = "reread"
      BY <1>1, <2>1 DEF JobSet
    <2>3. PICK q : q = job'[j]
      OBVIOUS
    <2>4. Numbers(db, q, ox, oxUsers, recorded, partial)
      BY <1>2, <2>2, <2>3 DEF Numbers, NumberToInsert, NumberInUse
    <2> QED
      BY <1>1, <2>3, <2>4
  <1>4. CASE Matching(job[j].name) = {}
    <2> DEFINE counters == {r \in Rows : r.oxUserCounter # NoCounter}
    <2>1. PICK counter \in IF counters = {} THEN {NoCounter} ELSE {r.oxUserCounter : r \in First(counters)} :
             job' = [job EXCEPT ![j].at = "insert",
                                ![j].primary =
                         [id |-> 0, address |-> Available(job[j].name),
                          priority |-> MaxEmailPriority, status |-> "NONE",
                          oxUserCounter |-> counter, markedForCron |-> NoDate]]
      BY <1>4, Zenon DEF Choose
    <2>2. job'[j].at = "insert" /\ job'[j].primary.oxUserCounter = counter
      BY <1>1, <2>1 DEF JobSet
    <2>3. \/ counters = {} /\ counter = NoCounter
          \/ \E r \in Rows : r.oxUserCounter # NoCounter /\ r.oxUserCounter = counter
      BY <2>1 DEF First
    <2>4. PICK q : q = job'[j]
      OBVIOUS
    <2>5. NumberToInsert(db, q)
      BY <1>1, <2>2, <2>3, <2>4, RowsHas DEF NumberToInsert
    <2>6. Numbers(db, q, ox, oxUsers, recorded, partial)
      BY <1>2, <2>2, <2>4, <2>5 DEF Numbers, NumberInUse
    <2> QED
      BY <1>1, <2>4, <2>6
  <1> QED
    BY <1>3, <1>4

LEMMA InsertEffect ==
    ASSUME Typed, NEW j \in Job, Insert(j)
    PROVE  /\ job[j].at = "insert" /\ UNCHANGED <<external, recorded, partial>> /\ job'[j].at \in {"idle", "choose", "reread"}
           /\ \/ db' = db
              \/ \E i \in Ids :
                    /\ i \notin Has(db) /\ Has(db') = Has(db) \cup {i} /\ (\A k \in Has(db) : db'[k] = db[k])
                    /\ db'[i].oxUserCounter = job[j].primary.oxUserCounter
                    /\ db'[i].priority = job[j].primary.priority /\ db'[i].status = job[j].primary.status
  <1>1. job[j] \in JobSet /\ job \in [Job -> JobSet] /\ job[j].at = "insert" /\ job[j].primary \in Row /\ DbOK
    BY JobTyped DEF Typed, JobOK, Insert, At, Holds
  <1>2. UNCHANGED <<external, recorded, partial>>
    BY DEF Insert
  <1>3. CASE \E r \in Rows : r.address = job[j].primary.address
    <2>1. Retry(j) /\ db' = db
      BY <1>3 DEF Insert, store
    <2> QED
      BY <1>1, <1>2, <2>1, RetryTarget
  <1>4. CASE ~\E r \in Rows : r.address = job[j].primary.address
    <2>1. PICK r : r = [job[j].primary EXCEPT !.id = rows + 1]
      OBVIOUS
    <2>2. /\ rows < MaxRows /\ db' = [db EXCEPT ![rows + 1] = r]
          /\ job' = [job EXCEPT ![j].at = "reread", ![j].primary = r]
      BY <1>4, <2>1 DEF Insert
    <2>3. rows + 1 \in Ids /\ rows + 1 \in 0..MaxRows /\ rows + 1 \notin Has(db)
      <3>1. \A i \in Has(db) : i <= rows
        BY <1>1, PersistedHas DEF DbOK
      <3>2. rows \in Nat
        BY <1>1 DEF DbOK
      <3> QED
        BY <2>2, <3>1, <3>2, Bounds DEF Ids, Typed, DbOK
    <2>4. /\ r \in Row /\ r # NoRow /\ r.oxUserCounter = job[j].primary.oxUserCounter
          /\ r.priority = job[j].primary.priority /\ r.status = job[j].primary.status
      <3>1. r \in Row
        BY <1>1, <2>1, <2>3, RowEdited
      <3> QED
        BY <1>1, <2>1, <2>3, <3>1, RowFields DEF Row
    <2>5. /\ Has(db') = Has(db) \cup {rows + 1} /\ db'[rows + 1] = r /\ \A i \in Has(db) : db'[i] = db[i]
      BY <1>1, <2>2, <2>3, <2>4 DEF Has, DbOK
    <2>6. job'[j].at = "reread"
      BY <1>1, <2>2 DEF JobSet
    <2> QED
      BY <1>1, <1>2, <2>3, <2>4, <2>5, <2>6
  <1> QED
    BY <1>3, <1>4

LEMMA InsertNumbers ==
    ASSUME Typed, NEW j \in Job, Places(db, job[j], leftovers), Numbers(db, job[j], ox, oxUsers, recorded, partial), Insert(j)
    PROVE  Numbers(db', job'[j], ox', oxUsers', recorded', partial')
  <1>1. /\ job[j].at = "insert" /\ UNCHANGED <<ox, oxUsers, recorded, partial>> /\ job'[j].at \in {"idle", "choose", "reread"}
    BY InsertEffect DEF external
  <1>2. PICK d, q, c : d = db' /\ q = job'[j] /\ c = job[j].primary.oxUserCounter
    OBVIOUS
  <1>3. Numbered(d, ox, oxUsers, recorded, partial)
    <2>0. Numbered(db, ox, oxUsers, recorded, partial)
      BY DEF Numbers
    <2>1. CASE d = db
      BY <2>0, <2>1
    <2>2. CASE \E i \in Ids :
                    /\ i \notin Has(db) /\ Has(d) = Has(db) \cup {i} /\ (\A k \in Has(db) : d[k] = db[k])
                    /\ d[i].oxUserCounter = c
                    /\ d[i].priority = job[j].primary.priority /\ d[i].status = job[j].primary.status
      <3>1. PICK i \in Ids :
                    /\ i \notin Has(db) /\ Has(d) = Has(db) \cup {i} /\ (\A k \in Has(db) : d[k] = db[k])
                    /\ d[i].oxUserCounter = c
                    /\ d[i].priority = job[j].primary.priority /\ d[i].status = job[j].primary.status
        BY <2>2
      <3>2. d[i].priority = MaxEmailPriority /\ MaxEmailPriority > 1 /\ MaxEmailPriority \in Nat
        BY <1>1, <3>1, Bounds DEF Places, Inserting
      <3>3. IF c = NoCounter THEN \A k \in Has(db) : db[k].oxUserCounter = NoCounter
            ELSE \E k \in Has(db) : db[k].oxUserCounter = c
        BY <1>1, <1>2 DEF Numbers, NumberToInsert
      <3>4. c # NoCounter => c \in recorded
        BY <2>0, <3>3 DEF Numbered
      <3>5. \A k, l \in Has(d) : d[k].oxUserCounter # NoCounter /\ d[l].oxUserCounter = NoCounter => partial
        BY <2>0, <3>1, <3>3 DEF Numbered
      <3>6. \A k \in Has(d) : d[k].priority = 1 \/ (d[k].priority = 0 /\ d[k].status = "ACTIVE") => k \in Has(db)
        BY <3>1, <3>2
      <3> QED
        BY <2>0, <3>1, <3>4, <3>5, <3>6 DEF Numbered
    <2> QED
      BY <1>2, <2>1, <2>2, InsertEffect
  <1>4. Numbers(d, q, ox, oxUsers, recorded, partial)
    BY <1>1, <1>2, <1>3 DEF Numbers, NumberToInsert, NumberInUse
  <1> QED
    BY <1>1, <1>2, <1>4

LEMMA ToFrontNumbers ==
    ASSUME Typed, NEW j \in Job, Places(db, job[j], leftovers), Numbers(db, job[j], ox, oxUsers, recorded, partial),
           ShiftToFront(j)
    PROVE  Numbers(db', job'[j], ox', oxUsers', recorded', partial')
  <1>1. PICK id : /\ UNCHANGED <<ox, oxUsers, recorded, partial>>
                  /\ id \in Has(db) /\ db[id].status = "PENDING"
                  /\ \A i \in Has(db) : db[i].priority = 0 => db[i].status = "ACTIVE"
                  /\ Has(db') = Has(db) /\ db'[id].priority = 0 /\ job'[j].at = "ensure"
                  /\ \A i \in Has(db) :
                         /\ db'[i].status = db[i].status
                         /\ db'[i].oxUserCounter = db[i].oxUserCounter
                         /\ db'[i].priority \in Nat /\ db[i].priority \in Nat
                         /\ i # id => db'[i].priority > 0
                         /\ i # id /\ db'[i].priority = 1 => db[i].priority <= 1
    BY ToFrontEffect
  <1>2. PICK d, q : d = db' /\ q = job'[j]
    OBVIOUS
  <1>3. Numbered(db, ox, oxUsers, recorded, partial)
    BY DEF Numbers
  <1>4. \A i \in Has(d) : d[i].priority = 1 => i # id /\ (db[i].priority = 1 \/ (db[i].priority = 0 /\ db[i].status = "ACTIVE"))
    BY <1>1, <1>2
  <1>5. \A i \in Has(d) : d[i].priority = 0 => d[i].status # "ACTIVE"
    BY <1>1, <1>2
  <1>6. Numbered(d, ox, oxUsers, recorded, partial)
    BY <1>1, <1>2, <1>3, <1>4, <1>5 DEF Numbered
  <1>7. Numbers(d, q, ox, oxUsers, recorded, partial)
    BY <1>1, <1>2, <1>6 DEF Numbers, NumberToInsert, NumberInUse
  <1> QED
    BY <1>1, <1>2, <1>7

LEMMA CreateOxNumbers ==
    ASSUME Typed, NEW j \in Job, Places(db, job[j], leftovers), Numbers(db, job[j], ox, oxUsers, recorded, partial),
           NEW o \in OxCalls, CreateOxUser(j, o)
    PROVE  Numbers(db', job'[j], ox', oxUsers', recorded', partial')
  <1>1. PICK d, q, x, n : d = db' /\ q = job'[j] /\ x = ox' /\ n = oxUsers'
    OBVIOUS
  <1>2. oxUsers \in Nat /\ Numbered(db, ox, oxUsers, recorded, partial) /\ UNCHANGED <<recorded, partial>> /\ d = db
    BY <1>1, CreateOxEffect DEF Typed, ExternalOK, Numbers
  <1>3. db[job[j].primary.id].oxUserCounter = NoCounter
    BY CreateOxEffect DEF Places, Setting, SettingSteps
  <1>4. CASE x = ox /\ n = oxUsers /\ q.at = "fail"
    <2>1. Numbers(d, q, x, n, recorded, partial)
      BY <1>2, <1>4 DEF Numbers, NumberToInsert, NumberInUse
    <2> QED
      BY <1>1, <1>2, <2>1
  <1>5. CASE /\ n = oxUsers + 1 /\ x # NoUser /\ x.id = oxUsers + 1
             /\ \/ q.at = "fail"
                \/ q.at = "saveOx" /\ q.primary.id = job[j].primary.id /\ q.primary.oxUserCounter = oxUsers + 1
    <2>1. Numbered(d, x, n, recorded, partial) /\ x.id \notin recorded
      BY <1>2, <1>5 DEF Numbered
    <2>2. Numbers(d, q, x, n, recorded, partial)
      BY <1>2, <1>3, <1>5, <2>1 DEF Numbers, NumberToInsert, NumberInUse
    <2> QED
      BY <1>1, <1>2, <2>2
  <1> QED
    BY <1>1, <1>4, <1>5, CreateOxEffect

LEMMA ChangeOxNumbers ==
    ASSUME Typed, NEW j \in Job, Places(db, job[j], leftovers), Numbers(db, job[j], ox, oxUsers, recorded, partial),
           NEW o \in OxCalls, ChangeOxUser(j, o)
    PROVE  Numbers(db', job'[j], ox', oxUsers', recorded', partial')
  <1>1. PICK d, q, x : d = db' /\ q = job'[j] /\ x = ox'
    OBVIOUS
  <1>2. Numbered(db, ox, oxUsers, recorded, partial) /\ UNCHANGED <<oxUsers, recorded, partial>> /\ d = db
    BY <1>1, ChangeOxEffect DEF Numbers
  <1>3. db[job[j].primary.id].oxUserCounter = job[j].primary.oxUserCounter
    BY ChangeOxEffect DEF Places, Setting, SettingSteps
  <1>4. CASE x = ox /\ q.at = "fail"
    <2>1. Numbers(d, q, x, oxUsers, recorded, partial)
      BY <1>2, <1>4 DEF Numbers, NumberToInsert, NumberInUse
    <2> QED
      BY <1>1, <1>2, <2>1
  <1>5. CASE /\ ox # NoUser /\ x # NoUser /\ x.id = ox.id /\ ox.id = job[j].primary.oxUserCounter
             /\ q.at = "fail" \/ (q.at = "saveOx" /\ q.primary = job[j].primary)
    <2>1. Numbered(d, x, oxUsers, recorded, partial)
      BY <1>2, <1>5 DEF Numbered
    <2>2. Numbers(d, q, x, oxUsers, recorded, partial)
      BY <1>2, <1>3, <1>5, <2>1 DEF Numbers, NumberToInsert, NumberInUse
    <2> QED
      BY <1>1, <1>2, <2>2
  <1> QED
    BY <1>1, <1>4, <1>5, ChangeOxEffect

LEMMA SaveOxNumbers ==
    ASSUME Typed, NEW j \in Job, Places(db, job[j], leftovers), Numbers(db, job[j], ox, oxUsers, recorded, partial),
           SaveOx(j)
    PROVE  Numbers(db', job'[j], ox', oxUsers', recorded', partial')
  <1>1. PICK r : /\ job[j].at = "saveOx" /\ UNCHANGED <<ox, oxUsers>>
                 /\ r \in Row /\ r.id \in Has(db) /\ r.oxUserCounter = job[j].primary.oxUserCounter
                 /\ Has(db') = Has(db) /\ db'[r.id] = r /\ \A i \in Has(db) \ {r.id} : db'[i] = db[i]
                 /\ recorded' = recorded \cup {r.oxUserCounter}
                 /\ partial' = (partial \/ \E i \in Has(db) \ {r.id} : db[i].oxUserCounter = NoCounter)
                 /\ job'[j].at = "ldap" /\ job'[j].primary = r
    BY SaveOxEffect
  <1>2. PICK d, q, rec : d = db' /\ q = job'[j] /\ rec = recorded'
    OBVIOUS
  <1>3. /\ Numbered(db, ox, oxUsers, recorded, partial) /\ ox # NoUser /\ ox.id = r.oxUserCounter
        /\ oxUsers \in Nat /\ ox.id \in 1..oxUsers /\ r.oxUserCounter # NoCounter
    BY <1>1 DEF Numbers, Numbered, NumberInUse, Typed, ExternalOK, NoCounter
  <1>4. rec \subseteq 1..oxUsers /\ \A i \in Has(d) : d[i].oxUserCounter # NoCounter => d[i].oxUserCounter \in rec
    BY <1>1, <1>2, <1>3 DEF Numbered
  <1>5. \A i \in Has(d) : d[i].priority = 1 \/ (d[i].priority = 0 /\ d[i].status = "ACTIVE") => d[i].oxUserCounter # NoCounter
    BY <1>1, <1>2, <1>3 DEF Numbered
  <1>6. ASSUME NEW i \in Has(d), NEW k \in Has(d), d[i].oxUserCounter # NoCounter, d[k].oxUserCounter = NoCounter
        PROVE  partial'
    <2>1. k # r.id /\ k \in Has(db) /\ db[k].oxUserCounter = NoCounter
      BY <1>1, <1>2, <1>3, <1>6
    <2> QED
      BY <1>1, <2>1
  <1>7. PICK p : p = partial'
    OBVIOUS
  <1>8. \A i, k \in Has(d) : d[i].oxUserCounter # NoCounter /\ d[k].oxUserCounter = NoCounter => p
    BY <1>6, <1>7
  <1>9. Numbered(d, ox, oxUsers, rec, p)
    BY <1>3, <1>4, <1>5, <1>8 DEF Numbered
  <1>10. Numbers(d, q, ox, oxUsers, rec, p)
    BY <1>1, <1>2, <1>3, <1>9 DEF Numbers, NumberToInsert, NumberInUse
  <1> QED
    BY <1>1, <1>2, <1>7, <1>10

LEMMA EntryNumbers ==
    ASSUME Typed, NEW j \in Job, Numbers(db, job[j], ox, oxUsers, recorded, partial),
           NEW o \in Calls, UpsertLdap(j, o) \/ UpsertUndi(j, o)
    PROVE  Numbers(db', job'[j], ox', oxUsers', recorded', partial')
  <1>1. PICK q : q = job'[j]
    OBVIOUS
  <1>2. /\ UNCHANGED <<db, ox, oxUsers, recorded, partial>> /\ job[j].at \in {"ldap", "undi"}
        /\ q.at = "fail" \/ (q.at \in {"undi", "activate"} /\ q.primary.oxUserCounter = job[j].primary.oxUserCounter)
    <2>1. CASE UpsertLdap(j, o)
      BY <1>1, <2>1, LdapEffect
    <2>2. CASE UpsertUndi(j, o)
      BY <1>1, <2>2, UndiEffect
    <2> QED
      BY <2>1, <2>2
  <1>3. Numbers(db, q, ox, oxUsers, recorded, partial)
    BY <1>2 DEF Numbers, NumberToInsert, NumberInUse
  <1> QED
    BY <1>1, <1>2, <1>3

\* A row that is activated has a number and keeps it.
LEMMA ActivatedNumbers ==
    ASSUME Typed, NEW j \in Job, Places(db, job[j], leftovers), Numbers(db, job[j], ox, oxUsers, recorded, partial),
           \/ job[j].at = "activate" /\ db' = Saved({job[j].primary})
           \/ job[j].at = "activateAlternative" /\ db' = Saved({job[j].alternative}),
           NEW q, q.at \notin NumberingSteps
    PROVE  Numbers(db', q, ox, oxUsers, recorded, partial)
  <1>0. Numbered(db, ox, oxUsers, recorded, partial)
    BY DEF Numbers
  <1>1. \E r : /\ r.id \in Has(db) /\ r.oxUserCounter # NoCounter /\ r.oxUserCounter = db[r.id].oxUserCounter
               /\ Has(db') = Has(db) /\ db'[r.id] = r /\ \A i \in Has(db) \ {r.id} : db'[i] = db[i]
    <2>1. CASE job[j].at = "activate" /\ db' = Saved({job[j].primary})
      <3>1. PICK r : /\ r = job[j].primary /\ r.id \in Has(db) /\ db[r.id].oxUserCounter = r.oxUserCounter
                     /\ Has(db') = Has(db) /\ db'[r.id] = r /\ \A i \in Has(db) \ {r.id} : db'[i] = db[i]
        BY <2>1, ActivateRows
      <3>2. ox # NoUser /\ ox.id = r.oxUserCounter /\ ox.id \in 1..oxUsers /\ oxUsers \in Nat
        BY <2>1, <3>1 DEF Numbers, Numbered, NumberInUse, Typed, ExternalOK
      <3> QED
        BY <3>1, <3>2 DEF NoCounter
    <2>2. CASE job[j].at = "activateAlternative" /\ db' = Saved({job[j].alternative})
      <3>1. PICK r : /\ r.id \in Has(db) /\ db[r.id].oxUserCounter = r.oxUserCounter /\ db[r.id].priority = 1
                     /\ Has(db') = Has(db) /\ db'[r.id] = r /\ \A i \in Has(db) \ {r.id} : db'[i] = db[i]
        BY <2>2, AlternativeRows
      <3>2. r.oxUserCounter # NoCounter
        BY <1>0, <3>1 DEF Numbered
      <3> QED
        BY <3>1, <3>2
    <2> QED
      BY <2>1, <2>2
  <1>2. PICK r : /\ r.id \in Has(db) /\ r.oxUserCounter # NoCounter /\ r.oxUserCounter = db[r.id].oxUserCounter
                 /\ Has(db') = Has(db) /\ db'[r.id] = r /\ \A i \in Has(db) \ {r.id} : db'[i] = db[i]
    BY <1>1
  <1>3. PICK d : d = db'
    OBVIOUS
  <1>4. \A i \in Has(d) : d[i].oxUserCounter = db[i].oxUserCounter
    BY <1>2, <1>3
  <1>5. Numbered(d, ox, oxUsers, recorded, partial)
    BY <1>0, <1>2, <1>3, <1>4 DEF Numbered
  <1> QED
    BY <1>3, <1>5 DEF Numbers, NumberToInsert, NumberInUse, NumberingSteps

LEMMA ActivateNumbers ==
    ASSUME Typed, NEW j \in Job, Places(db, job[j], leftovers), Numbers(db, job[j], ox, oxUsers, recorded, partial),
           Activate(j) \/ ActivateAlternative(j)
    PROVE  Numbers(db', job'[j], ox', oxUsers', recorded', partial')
  <1>1. /\ UNCHANGED <<ox, oxUsers, recorded, partial>>
        /\ \/ job[j].at = "activate" /\ db' = Saved({job[j].primary})
           \/ job[j].at = "activateAlternative" /\ db' = Saved({job[j].alternative})
        /\ job'[j] = Idle \/ job'[j].at = "activateAlternative"
    BY ActivateEffect, AlternativeEffect
  <1>2. PICK q : q = job'[j] /\ q.at \notin NumberingSteps
    BY <1>1 DEF Idle, NumberingSteps
  <1>3. Numbers(db', q, ox, oxUsers, recorded, partial)
    BY <1>1, <1>2, ActivatedNumbers
  <1> QED
    BY <1>1, <1>2, <1>3

LEMMA StepNumbers ==
    ASSUME Typed, NEW j \in Job, Places(db, job[j], leftovers), Numbers(db, job[j], ox, oxUsers, recorded, partial), Step(j)
    PROVE  Numbers(db', job'[j], ox', oxUsers', recorded', partial')
  <1>1. CASE \/ CheckPending(j) \/ Reread(j) \/ ShiftBack(j) \/ Pend(j) \/ KeepPrimary(j) \/ Ensure(j) \/ SaveFailure(j)
    <2>1. Calm(db') /\ UNCHANGED <<ox, oxUsers, recorded, partial>>
      BY <1>1, PlainCalm DEF external
    <2>2. job'[j].at \notin NumberingSteps
      BY <1>1, PlainTargets DEF PlainSteps, NumberingSteps
    <2> QED
      BY <2>1, <2>2, CalmNumbersNext
  <1>2. CASE Suspend(j) \/ Delete(j) \/ Cron(j)
    BY <1>2, OtherCalm, CalmNumbersNext
  <1>3. CASE Set(j)
    BY <1>1, <1>3, ChooseNumbers, InsertNumbers, ToFrontNumbers, CreateOxNumbers, ChangeOxNumbers, SaveOxNumbers,
       EntryNumbers, ActivateNumbers DEF Set
  <1> QED
    BY <1>2, <1>3 DEF Step

Counted == Numbers(db, Current, ox, oxUsers, recorded, partial)

LEMMA NumbersIdle ==
    ASSUME NEW d, NEW x, NEW n, NEW rec, NEW p, NEW q0, Numbers(d, q0, x, n, rec, p), NEW q, q.at \notin NumberingSteps
    PROVE  Numbers(d, q, x, n, rec, p)
  BY DEF Numbers, NumberToInsert, NumberInUse, NumberingSteps

\* An interruption gives out no number.
LEMMA InterruptedNumbers ==
    ASSUME Typed, NEW j \in Job, Places(db, job[j], leftovers), Numbers(db, job[j], ox, oxUsers, recorded, partial),
           db' \in Interrupted(j), NEW q, q.at \notin NumberingSteps
    PROVE  Numbers(db', q, ox, oxUsers, recorded, partial)
  <1>1. CASE \/ job[j].at = "activate" /\ db' = Saved({job[j].primary})
             \/ job[j].at = "activateAlternative" /\ db' = Saved({job[j].alternative})
    BY <1>1, ActivatedNumbers
  <1>2. CASE db' = db \/ InterruptedCalmly(j)
    BY <1>2, CalmInterrupted, CalmUnchanged, CalmNumbers
  <1> QED
    BY <1>1, <1>2, InterruptedCases DEF InterruptedCalmly

LEMMA CountedNext ==
    ASSUME Serial = TRUE, Typed, Placed, Counted, [Next]_vars
    PROVE  Counted'
  <1>0. Idle.at \notin NumberingSteps
    BY DEF Idle, NumberingSteps
  <1>1. ASSUME NEW j \in Job, NEW kind \in Kind, NEW name, Request(j, kind, name) PROVE Counted'
    <2>1. PICK q : q = Current' /\ q.at \in {"check", "suspendRead", "deleteRead", "purge"}
      BY <1>1, CurrentBegin
    <2>2. UNCHANGED <<db, ox, oxUsers, recorded, partial>>
      BY <1>1 DEF Request, store, external
    <2>3. Numbers(db, q, ox, oxUsers, recorded, partial)
      BY <2>1, NumbersIdle DEF Counted, NumberingSteps
    <2> QED
      BY <2>1, <2>2, <2>3 DEF Counted
  <1>2. ASSUME NEW j \in Job, Step(j) PROVE Counted'
    <2>1. ~At(j, "idle") /\ Places(db, job[j], leftovers) /\ Alone /\ Numbers(db, job[j], ox, oxUsers, recorded, partial)
      BY <1>2, StepWorks, CurrentJob DEF Placed, Counted
    <2>2. PICK q : job' = [job EXCEPT ![j] = q]
      BY <1>2, <2>1, StepPlaces
    <2>3. q = job'[j] /\ Current' = IF q.at = "idle" THEN Idle ELSE q
      BY <2>1, <2>2, CurrentStep, JobIsFunction
    <2>4. Numbers(db', q, ox', oxUsers', recorded', partial')
      BY <1>2, <2>1, <2>3, StepNumbers
    <2>5. PICK d, x, n, rec, p : d = db' /\ x = ox' /\ n = oxUsers' /\ rec = recorded' /\ p = partial'
      OBVIOUS
    <2>6. Numbers(d, IF q.at = "idle" THEN Idle ELSE q, x, n, rec, p)
      BY <1>0, <2>4, <2>5, NumbersIdle
    <2> QED
      BY <2>3, <2>5, <2>6 DEF Counted
  <1>3. CASE NextDay \/ UNCHANGED vars
    <2>1. UNCHANGED <<db, job, ox, oxUsers, recorded, partial>>
      BY <1>3 DEF NextDay, vars, store, external, history
    <2> QED
      BY <2>1, CurrentUnchanged DEF Counted
  <1>4. CASE Crash \/ \E j \in Job : Throw(j)
    <2>1. PICK j \in Job : /\ Current = job[j] /\ db' \in Interrupted(j) /\ Current'.at \in {"idle", "choose"}
                           /\ UNCHANGED <<ox, oxUsers, recorded, partial>>
      BY <1>4, Interruption DEF Placed
    <2>2. PICK q : q = Current' /\ q.at \notin NumberingSteps
      BY <2>1 DEF NumberingSteps
    <2>3. Numbers(db', q, ox, oxUsers, recorded, partial)
      BY <2>1, <2>2, InterruptedNumbers DEF Placed, Counted
    <2> QED
      BY <2>1, <2>2, <2>3 DEF Counted
  <1> QED
    BY <1>1, <1>2, <1>3, <1>4, Nexts

LEMMA CountedInit == ASSUME Init PROVE Counted
  <1>1. Has(db) = {} /\ Idle.at = "idle" /\ ox = NoUser /\ recorded = {} /\ Current = Idle
    BY CurrentInit DEF Init, Has, Idle
  <1> QED
    BY <1>1 DEF Counted, Numbers, Numbered, NumberToInsert, NumberInUse

LEMMA RealAddress == \A r \in Address : r # NoAddress
  <1>1. \A n, k : <<n, k>> # <<>>
    OBVIOUS
  <1>2. \A r \in Address : r = <<r[1], r[2]>>
    BY DEF Address
  <1> QED
    BY <1>1, <1>2 DEF NoAddress

----------------------------------------------------------------------------
(* OX, LDAP and UNDI                                                       *)
(*                                                                         *)
(* x, l and u are the person's entries there, p tells whether a counter    *)
(* was saved while another row had none.                                   *)

InSyncWith(r, x, l, u) ==
    /\ x # NoUser /\ x.id = r.oxUserCounter /\ x.primary = r.address
    /\ l.primary = r.address
    /\ u.primary = r.address /\ ~u.deaktiviert

AlternativeIn(r, x, l, u, p) ==
    /\ r.address \in x.aliases \/ p
    /\ l.alternative = r.address
    /\ u.alternative = r.address

\* While the primary address is ACTIVE, they know it and the alternative one,
ActiveKnown(d, x, l, u, p) ==
    \A i \in Has(d) : d[i].priority = 0 /\ d[i].status = "ACTIVE" =>
        /\ InSyncWith(d[i], x, l, u)
        /\ \A k \in Has(d) : d[k].priority = 1 /\ d[k].status = "ACTIVE" => AlternativeIn(d[k], x, l, u, p)

\* and OX and LDAP know no others.
OthersUnknown(d, x, l) ==
    \A i \in Has(d) : d[i].priority = 0 /\ d[i].status = "ACTIVE" =>
        \A a \in x.aliases \cup {l.alternative} :
            a = NoAddress \/ \E k \in Has(d) : d[k].priority <= 1 /\ d[k].address = a

\* How far a set request has come,
SettingKnown(q, x, l, u, p) ==
    /\ q.at \in {"saveOx", "ldap", "undi", "activate"} =>
          /\ x.primary = q.primary.address
          /\ x.aliases \subseteq {q.primary.address, AddressOf(q.alternative)}
          /\ q.alternative # NoRow => q.alternative.address \in x.aliases \/ p
    /\ q.at \in {"undi", "activate"} =>
          l.primary = q.primary.address /\ l.alternative = AddressOf(q.alternative)
    /\ q.at = "activate" =>
          u.primary = q.primary.address /\ u.alternative = AddressOf(q.alternative) /\ ~u.deaktiviert
    /\ q.at = "activateAlternative" => AlternativeIn(q.alternative, x, l, u, p)

\* and the cron job as long as all its calls were successful.
CronKnown(q, x, l) ==
    /\ q.at \in {"cronLdap", "cronDelete"} /\ q.ok => x.aliases = {q.primary.address}
    /\ q.at = "cronDelete" /\ q.ok => l.alternative = NoAddress

Known(d, q, x, l, u, p) ==
    ActiveKnown(d, x, l, u, p) /\ OthersUnknown(d, x, l) /\ SettingKnown(q, x, l, u, p) /\ CronKnown(q, x, l)

KnowingSteps == {"saveOx", "ldap", "undi", "activate", "activateAlternative", "cronLdap", "cronDelete"}

LEMMA StaysKnown ==
    ASSUME NEW x, NEW l, NEW u, NEW p, ActiveKnown(db, x, l, u, p), OthersUnknown(db, x, l), NEW d, Calm(d), Stays(d)
    PROVE  ActiveKnown(d, x, l, u, p) /\ OthersUnknown(d, x, l)
  <1>1. \A i \in Has(d) : /\ i \in Has(db) /\ d[i].oxUserCounter = db[i].oxUserCounter /\ d[i].address = db[i].address
                          /\ d[i].priority = 1 => db[i].priority = 1
                          /\ d[i].priority = 0 => db[i].priority = 0
                          /\ d[i].priority \in {0, 1} /\ d[i].status = "ACTIVE" => db[i].status = "ACTIVE"
    BY DEF Calm
  <1>2. \A i \in Has(db) : db[i].priority <= 1 => i \in Has(d) /\ d[i].priority = db[i].priority /\ d[i].address = db[i].address
    BY <1>1 DEF Stays
  <1>3. ActiveKnown(d, x, l, u, p)
    BY <1>1 DEF ActiveKnown, InSyncWith, AlternativeIn
  <1>4. OthersUnknown(d, x, l)
    <2>1. ASSUME NEW i \in Has(d), d[i].priority = 0, d[i].status = "ACTIVE", NEW a \in x.aliases \cup {l.alternative}, a # NoAddress
          PROVE  \E k \in Has(d) : d[k].priority <= 1 /\ d[k].address = a
      <3>1. PICK k \in Has(db) : db[k].priority <= 1 /\ db[k].address = a
        BY <1>1, <2>1 DEF OthersUnknown
      <3> QED
        BY <1>2, <3>1
    <2> QED
      BY <2>1 DEF OthersUnknown
  <1> QED
    BY <1>3, <1>4

LEMMA PassiveKnown ==
    ASSUME NEW d, FrontPassive(d), NEW x, NEW l, NEW u, NEW p
    PROVE  ActiveKnown(d, x, l, u, p) /\ OthersUnknown(d, x, l)
  BY DEF FrontPassive, ActiveKnown, OthersUnknown

\* A step after which the job has nothing to say about the other systems.
LEMMA StaysKnownNext ==
    ASSUME NEW j \in Job, Known(db, job[j], ox, ldap, undi, partial), job'[j].at \notin KnowingSteps,
           \/ FrontPassive(db')
           \/ Calm(db') /\ Stays(db') /\ UNCHANGED <<ox, ldap, undi, partial>>
    PROVE  Known(db', job'[j], ox', ldap', undi', partial')
  <1>1. PICK d, q, x, l, u, p : d = db' /\ q = job'[j] /\ x = ox' /\ l = ldap' /\ u = undi' /\ p = partial'
    OBVIOUS
  <1>2. ActiveKnown(d, x, l, u, p) /\ OthersUnknown(d, x, l)
    <2>1. CASE FrontPassive(d)
      BY <2>1, PassiveKnown
    <2>2. CASE Calm(d) /\ Stays(d) /\ x = ox /\ l = ldap /\ u = undi /\ p = partial
      BY <2>2, StaysKnown DEF Known
    <2> QED
      BY <1>1, <2>1, <2>2
  <1>3. Known(d, q, x, l, u, p)
    BY <1>1, <1>2 DEF Known, SettingKnown, CronKnown, KnowingSteps
  <1> QED
    BY <1>1, <1>3

LEMMA PlainStays ==
    ASSUME Typed, NEW j \in Job, Places(db, job[j], leftovers),
           \/ CheckPending(j) \/ Reread(j) \/ ShiftBack(j) \/ Pend(j) \/ KeepPrimary(j) \/ Ensure(j) \/ SaveFailure(j)
    PROVE  FrontPassive(db') \/ Stays(db')
  <1>1. CASE CheckPending(j)
    BY <1>1, CalmUnchanged DEF CheckPending, store
  <1>2. CASE Reread(j)
    BY <1>2, CalmUnchanged DEF Reread, store
  <1>3. CASE ShiftBack(j)
    BY <1>3, CalmShiftBack DEF FrontPassive
  <1>4. CASE Pend(j)
    BY <1>4, CalmPend
  <1>5. CASE KeepPrimary(j)
    BY <1>5, CalmUnchanged DEF KeepPrimary, store
  <1>6. CASE Ensure(j)
    BY <1>6, CalmEnsure
  <1>7. CASE SaveFailure(j)
    BY <1>7, CalmFailure
  <1> QED
    BY <1>1, <1>2, <1>3, <1>4, <1>5, <1>6, <1>7

LEMMA PlainKnown ==
    ASSUME Typed, NEW j \in Job, Places(db, job[j], leftovers), Known(db, job[j], ox, ldap, undi, partial),
           \/ CheckPending(j) \/ Reread(j) \/ ShiftBack(j) \/ Pend(j) \/ KeepPrimary(j) \/ Ensure(j) \/ SaveFailure(j)
    PROVE  Known(db', job'[j], ox', ldap', undi', partial')
  <1>1. Calm(db') /\ UNCHANGED <<ox, ldap, undi, partial>>
    BY PlainCalm DEF external
  <1>2. job'[j].at \notin KnowingSteps
    BY PlainTargets DEF PlainSteps, KnowingSteps
  <1> QED
    BY <1>1, <1>2, PlainStays, StaysKnownNext

LEMMA ChooseKnown ==
    ASSUME Typed, NEW j \in Job, Known(db, job[j], ox, ldap, undi, partial), Choose(j)
    PROVE  Known(db', job'[j], ox', ldap', undi', partial')
  <1>1. job[j] \in JobSet /\ job \in [Job -> JobSet] /\ UNCHANGED <<db, ox, ldap, undi, partial>>
    BY JobTyped DEF Typed, JobOK, Choose, store, external, history
  <1>2. \E s \in {"reread", "insert"} : \E r : job' = [job EXCEPT ![j].at = s, ![j].primary = r]
    BY DEF Choose
  <1>3. job'[j].at \in {"reread", "insert"}
    BY <1>1, <1>2 DEF JobSet
  <1> QED
    BY <1>1, <1>3, CalmUnchanged, StaysKnownNext DEF KnowingSteps

LEMMA InsertKnown ==
    ASSUME Typed, NEW j \in Job, Places(db, job[j], leftovers), Known(db, job[j], ox, ldap, undi, partial), Insert(j)
    PROVE  Known(db', job'[j], ox', ldap', undi', partial')
  <1>1. /\ job[j].at = "insert" /\ UNCHANGED <<ox, ldap, undi, partial>> /\ job'[j].at \in {"idle", "choose", "reread"}
    BY InsertEffect DEF external
  <1>2. job'[j].at \notin KnowingSteps
    BY <1>1 DEF KnowingSteps
  <1>3. CASE db' = db
    BY <1>1, <1>2, <1>3, CalmUnchanged, StaysKnownNext
  <1>4. CASE \E i \in Ids :
                    /\ i \notin Has(db) /\ Has(db') = Has(db) \cup {i} /\ (\A k \in Has(db) : db'[k] = db[k])
                    /\ db'[i].oxUserCounter = job[j].primary.oxUserCounter
                    /\ db'[i].priority = job[j].primary.priority /\ db'[i].status = job[j].primary.status
    <2>1. PICK d, q : d = db' /\ q = job'[j]
      OBVIOUS
    <2>2. PICK i \in Ids : i \notin Has(db) /\ Has(d) = Has(db) \cup {i} /\ (\A k \in Has(db) : d[k] = db[k])
                           /\ d[i].priority = MaxEmailPriority
      BY <1>1, <1>4, <2>1 DEF Places, Inserting
    <2>3. d[i].priority > 1 /\ d[i].priority \in Nat
      BY <2>2, Bounds
    <2>4. ActiveKnown(db, ox, ldap, undi, partial) /\ OthersUnknown(db, ox, ldap)
      BY DEF Known
    <2>5. ActiveKnown(d, ox, ldap, undi, partial)
      BY <2>2, <2>3, <2>4 DEF ActiveKnown
    <2>6. OthersUnknown(d, ox, ldap)
      <3>1. \A k \in Has(db) : k \in Has(d) /\ d[k] = db[k]
        BY <2>2
      <3>2. \A k \in Has(d) : d[k].priority = 0 => k \in Has(db) /\ d[k] = db[k]
        BY <2>2, <2>3
      <3> QED
        BY <2>4, <3>1, <3>2 DEF OthersUnknown
    <2>7. Known(d, q, ox, ldap, undi, partial)
      BY <1>2, <2>1, <2>5, <2>6 DEF Known, SettingKnown, CronKnown, KnowingSteps
    <2> QED
      BY <1>1, <2>1, <2>7
  <1> QED
    BY <1>3, <1>4, InsertEffect

LEMMA ToFrontKnown ==
    ASSUME Typed, NEW j \in Job, Places(db, job[j], leftovers), Known(db, job[j], ox, ldap, undi, partial), ShiftToFront(j)
    PROVE  Known(db', job'[j], ox', ldap', undi', partial')
  <1>1. PICK id : /\ id \in Has(db) /\ db[id].status = "PENDING" /\ Has(db') = Has(db) /\ job'[j].at = "ensure"
                  /\ \A i \in Has(db) :
                         db'[i].status = db[i].status /\ (i # id => db'[i].priority > 0 /\ db'[i].priority \in Nat)
    BY ToFrontEffect
  <1>2. FrontPassive(db')
    <2>1. PICK d : d = db'
      OBVIOUS
    <2>2. FrontPassive(d)
      BY <1>1, <2>1 DEF FrontPassive
    <2> QED
      BY <2>1, <2>2
  <1> QED
    BY <1>1, <1>2, StaysKnownNext DEF KnowingSteps

LEMMA CreateOxKnown ==
    ASSUME Typed, NEW j \in Job, Places(db, job[j], leftovers), Numbers(db, job[j], ox, oxUsers, recorded, partial),
           Known(db, job[j], ox, ldap, undi, partial), NEW o \in OxCalls, CreateOxUser(j, o)
    PROVE  Known(db', job'[j], ox', ldap', undi', partial')
  <1>1. PICK q, x, z, a : q = job'[j] /\ x = ox' /\ z = job[j].primary /\ a = job[j].alternative
    OBVIOUS
  <1>2. UNCHANGED <<db, ldap, undi, partial>> /\ job[j].at = "ox" /\ z.oxUserCounter = NoCounter
    BY <1>1, CreateOxEffect
  <1>3. /\ FrontOne(db) /\ z.id \in Has(db) /\ db[z.id].priority = 0 /\ db[z.id].oxUserCounter = NoCounter
        /\ a # NoRow => InPlace(db, a) /\ a.priority = 1
    BY <1>1, <1>2 DEF Places, Setting, Fronting, Beside, SettingSteps, FrontSteps, BesideSteps
  <1>4. CASE x = ox /\ q.at = "fail"
    <2>1. Known(db, q, x, ldap, undi, partial)
      BY <1>4 DEF Known, SettingKnown, CronKnown
    <2> QED
      BY <1>1, <1>2, <2>1
  <1>5. CASE /\ ox = NoUser /\ x # NoUser /\ x.primary = z.address /\ x.aliases = {z.address}
             /\ \/ q.at = "fail"
                \/ /\ q.at = "saveOx" /\ q.primary.address = z.address /\ q.alternative = a
    <2>1. FrontPassive(db)
      BY <1>5 DEF Known, ActiveKnown, InSyncWith, FrontPassive
    <2>2. a # NoRow => partial
      BY <1>3 DEF Numbers, Numbered, InPlace, Same
    <2>3. ActiveKnown(db, x, ldap, undi, partial) /\ OthersUnknown(db, x, ldap)
      BY <2>1, PassiveKnown
    <2>4. Known(db, q, x, ldap, undi, partial)
      BY <1>5, <2>2, <2>3 DEF Known, SettingKnown, CronKnown
    <2> QED
      BY <1>1, <1>2, <2>4
  <1> QED
    BY <1>1, <1>4, <1>5, CreateOxEffect

LEMMA ChangeOxKnown ==
    ASSUME Typed, NEW j \in Job, Places(db, job[j], leftovers), Known(db, job[j], ox, ldap, undi, partial),
           NEW o \in OxCalls, ChangeOxUser(j, o)
    PROVE  Known(db', job'[j], ox', ldap', undi', partial')
  <1>1. PICK q, x, z, a : q = job'[j] /\ x = ox' /\ z = job[j].primary /\ a = job[j].alternative
    OBVIOUS
  <1>2. UNCHANGED <<db, ldap, undi, partial>> /\ job[j].at = "ox"
    BY ChangeOxEffect
  <1>3. /\ FrontOne(db) /\ z.id \in Has(db) /\ db[z.id].priority = 0 /\ db[z.id].oxUserCounter = z.oxUserCounter
        /\ db[z.id].address = z.address
        /\ IF a = NoRow THEN \A i \in Has(db) : db[i].priority # 1 ELSE InPlace(db, a) /\ a.priority = 1
    BY <1>1, <1>2 DEF Places, Setting, Fronting, Beside, SettingSteps, FrontSteps, BesideSteps
  <1>4. CASE x = ox /\ q.at = "fail"
    <2>1. Known(db, q, x, ldap, undi, partial)
      BY <1>4 DEF Known, SettingKnown, CronKnown
    <2> QED
      BY <1>1, <1>2, <2>1
  <1>5. CASE /\ ox # NoUser /\ x # NoUser /\ x.id = ox.id /\ ox.id = z.oxUserCounter /\ x.primary = z.address
             /\ x.aliases = {z.address, AddressOf(a)} \ {NoAddress}
             /\ \/ q.at = "fail"
                \/ /\ q.at = "saveOx" /\ q.primary = z /\ q.alternative = a
    <2>0. a # NoRow => /\ a.id \in Has(db) /\ db[a.id].priority = 1 /\ db[a.id].address = a.address
                       /\ AddressOf(a) = a.address /\ a.address # NoAddress
      <3>1. a # NoRow => a \in Row
        BY <1>1, <1>2, SettingFields DEF SettingSteps
      <3>2. \A r \in Row : r.address # NoAddress
        BY RealAddress, RowFields
      <3> QED
        BY <1>3, <3>1, <3>2 DEF InPlace, Same, AddressOf
    <2>1. \A i \in Has(db) : /\ db[i].priority = 0 => i = z.id
                             /\ db[i].priority = 1 => a # NoRow /\ i = a.id
      BY <1>3, <2>0 DEF FrontOne
    <2>2. ActiveKnown(db, x, ldap, undi, partial)
      BY <1>3, <1>5, <2>0, <2>1 DEF Known, ActiveKnown, InSyncWith, AlternativeIn
    <2>3. \A b \in x.aliases : \E k \in Has(db) : db[k].priority <= 1 /\ db[k].address = b
      <3>1. ASSUME NEW b \in x.aliases PROVE b = z.address \/ (a # NoRow /\ b = a.address)
        BY <1>5, <3>1 DEF AddressOf
      <3> QED
        BY <1>3, <2>0, <3>1
    <2>4. OthersUnknown(db, x, ldap)
      BY <2>3 DEF Known, OthersUnknown
    <2>5. Known(db, q, x, ldap, undi, partial)
      BY <1>5, <2>0, <2>2, <2>4 DEF Known, SettingKnown, CronKnown
    <2> QED
      BY <1>1, <1>2, <2>5
  <1> QED
    BY <1>1, <1>4, <1>5, ChangeOxEffect

LEMMA SaveOxKnown ==
    ASSUME Typed, NEW j \in Job, Places(db, job[j], leftovers), Numbers(db, job[j], ox, oxUsers, recorded, partial),
           Known(db, job[j], ox, ldap, undi, partial), SaveOx(j)
    PROVE  Known(db', job'[j], ox', ldap', undi', partial')
  <1>1. PICK r : /\ job[j].at = "saveOx" /\ UNCHANGED <<ox, ldap, undi>>
                 /\ r.id \in Has(db) /\ r.id = job[j].primary.id /\ r.address = job[j].primary.address
                 /\ r.oxUserCounter = job[j].primary.oxUserCounter /\ r.priority = 0 /\ db[r.id].priority = 0
                 /\ r.status = db[r.id].status
                 /\ Has(db') = Has(db) /\ db'[r.id] = r /\ \A i \in Has(db) \ {r.id} : db'[i] = db[i]
                 /\ partial' = (partial \/ \E i \in Has(db) \ {r.id} : db[i].oxUserCounter = NoCounter)
                 /\ job'[j].at = "ldap" /\ job'[j].primary = r /\ job'[j].alternative = job[j].alternative
    BY SaveOxEffect
  <1>2. PICK d, q, p, a : d = db' /\ q = job'[j] /\ p = partial' /\ a = job[j].alternative
    OBVIOUS
  <1>3. partial => p
    BY <1>1, <1>2
  <1>4. FrontOne(db) /\ db[r.id].address = r.address
    BY <1>1 DEF Places, Setting, SettingSteps
  <1>5. ox # NoUser /\ ox.id = r.oxUserCounter
    BY <1>1 DEF Numbers, NumberInUse
  <1>6. \A i \in Has(d) : /\ d[i].priority = db[i].priority /\ d[i].address = db[i].address /\ d[i].status = db[i].status
                          /\ i # r.id => d[i].priority # 0 /\ d[i] = db[i]
    BY <1>1, <1>2, <1>4 DEF FrontOne
  <1>7. ActiveKnown(d, ox, ldap, undi, p)
    BY <1>1, <1>2, <1>3, <1>5, <1>6 DEF Known, ActiveKnown, InSyncWith, AlternativeIn
  <1>8. OthersUnknown(d, ox, ldap)
    BY <1>1, <1>2, <1>6 DEF Known, OthersUnknown
  <1>9. SettingKnown(q, ox, ldap, undi, p)
    BY <1>1, <1>2, <1>3 DEF Known, SettingKnown
  <1>10. Known(d, q, ox, ldap, undi, p)
    BY <1>1, <1>2, <1>7, <1>8, <1>9 DEF Known, CronKnown
  <1> QED
    BY <1>1, <1>2, <1>10

\* Where the primary and the alternative address of a set request are, and that
\* no others are in front.
LEMMA FrontOfSetting ==
    ASSUME Typed, NEW j \in Job, Places(db, job[j], leftovers), job[j].at \in {"ldap", "undi", "activate"},
           NEW z, z = job[j].primary, NEW a, a = job[j].alternative
    PROVE  /\ z \in Row /\ a \in Row \cup {NoRow}
           /\ z.id \in Has(db) /\ db[z.id].priority = 0 /\ db[z.id].address = z.address
           /\ db[z.id].oxUserCounter = z.oxUserCounter
           /\ a # NoRow => /\ a.id \in Has(db) /\ db[a.id].priority = 1 /\ db[a.id].address = a.address
                           /\ AddressOf(a) = a.address /\ a.address # NoAddress
           /\ a = NoRow => AddressOf(a) = NoAddress
           /\ \A i \in Has(db) : /\ db[i].priority = 0 => i = z.id
                                 /\ db[i].priority = 1 => a # NoRow /\ i = a.id
  <1>1. z \in Row /\ a \in Row \cup {NoRow}
    BY SettingFields DEF SettingSteps
  <1>2. /\ FrontOne(db) /\ z.id \in Has(db) /\ db[z.id].priority = 0 /\ db[z.id].oxUserCounter = z.oxUserCounter
        /\ db[z.id].address = z.address
        /\ IF a = NoRow THEN \A i \in Has(db) : db[i].priority # 1 ELSE InPlace(db, a) /\ a.priority = 1
    BY DEF Places, Setting, Fronting, Beside, SettingSteps, FrontSteps, BesideSteps
  <1>3. a # NoRow => /\ a.id \in Has(db) /\ db[a.id].priority = 1 /\ db[a.id].address = a.address
                     /\ AddressOf(a) = a.address /\ a.address # NoAddress
    BY <1>1, <1>2, RealAddress, RowFields DEF InPlace, Same, AddressOf
  <1>4. \A i \in Has(db) : /\ db[i].priority = 0 => i = z.id
                           /\ db[i].priority = 1 => a # NoRow /\ i = a.id
    BY <1>2, <1>3 DEF FrontOne
  <1> QED
    BY <1>1, <1>2, <1>3, <1>4 DEF AddressOf

LEMMA LdapKnown ==
    ASSUME Typed, NEW j \in Job, Places(db, job[j], leftovers), Known(db, job[j], ox, ldap, undi, partial),
           NEW o \in Calls, UpsertLdap(j, o)
    PROVE  Known(db', job'[j], ox', ldap', undi', partial')
  <1>1. PICK q, l, z, a : q = job'[j] /\ l = ldap' /\ z = job[j].primary /\ a = job[j].alternative
    OBVIOUS
  <1>2. job[j].at = "ldap" /\ UNCHANGED <<db, ox, undi, partial>>
    BY LdapEffect
  <1>3. /\ z.id \in Has(db) /\ db[z.id].priority = 0 /\ db[z.id].address = z.address
        /\ a # NoRow => /\ a.id \in Has(db) /\ db[a.id].priority = 1 /\ db[a.id].address = a.address
                        /\ AddressOf(a) = a.address
        /\ a = NoRow => AddressOf(a) = NoAddress
        /\ \A i \in Has(db) : /\ db[i].priority = 0 => i = z.id
                              /\ db[i].priority = 1 => a # NoRow /\ i = a.id
    BY <1>1, <1>2, FrontOfSetting
  <1>4. l = ldap \/ l = [primary |-> z.address, alternative |-> AddressOf(a)]
    BY <1>1, LdapEffect
  <1>5. \/ q.at = "fail"
        \/ q.at = "undi" /\ q.primary = z /\ q.alternative = a /\ l = [primary |-> z.address, alternative |-> AddressOf(a)]
    BY <1>1, LdapEffect
  <1>6. CASE l = ldap
    <2>1. Known(db, q, ox, l, undi, partial)
      BY <1>1, <1>2, <1>5, <1>6 DEF Known, SettingKnown, CronKnown
    <2> QED
      BY <1>1, <1>2, <2>1
  <1>7. CASE l = [primary |-> z.address, alternative |-> AddressOf(a)]
    <2>1. l.primary = z.address /\ l.alternative = AddressOf(a)
      BY <1>7
    <2>2. ActiveKnown(db, ox, l, undi, partial)
      BY <1>3, <2>1 DEF Known, ActiveKnown, InSyncWith, AlternativeIn
    <2>3. OthersUnknown(db, ox, l)
      BY <1>3, <2>1 DEF Known, OthersUnknown
    <2>4. SettingKnown(q, ox, l, undi, partial)
      BY <1>1, <1>2, <1>5, <2>1 DEF Known, SettingKnown
    <2>5. Known(db, q, ox, l, undi, partial)
      BY <1>5, <2>2, <2>3, <2>4 DEF Known, CronKnown
    <2> QED
      BY <1>1, <1>2, <2>5
  <1> QED
    BY <1>4, <1>6, <1>7

LEMMA UndiKnown ==
    ASSUME Typed, NEW j \in Job, Places(db, job[j], leftovers), Known(db, job[j], ox, ldap, undi, partial),
           NEW o \in Calls, UpsertUndi(j, o)
    PROVE  Known(db', job'[j], ox', ldap', undi', partial')
  <1>1. PICK q, u, z, a : q = job'[j] /\ u = undi' /\ z = job[j].primary /\ a = job[j].alternative
    OBVIOUS
  <1>2. job[j].at = "undi" /\ UNCHANGED <<db, ox, ldap, partial>>
    BY UndiEffect
  <1>3. /\ z.id \in Has(db) /\ db[z.id].priority = 0 /\ db[z.id].address = z.address
        /\ a # NoRow => /\ a.id \in Has(db) /\ db[a.id].priority = 1 /\ db[a.id].address = a.address
                        /\ AddressOf(a) = a.address
        /\ a = NoRow => AddressOf(a) = NoAddress
        /\ \A i \in Has(db) : /\ db[i].priority = 0 => i = z.id
                              /\ db[i].priority = 1 => a # NoRow /\ i = a.id
    BY <1>1, <1>2, FrontOfSetting
  <1>4. u = undi \/ u = [primary |-> z.address, alternative |-> AddressOf(a), deaktiviert |-> FALSE]
    BY <1>1, UndiEffect
  <1>5. \/ q.at = "fail"
        \/ /\ q.at = "activate" /\ q.primary.address = z.address /\ q.alternative = a
           /\ u = [primary |-> z.address, alternative |-> AddressOf(a), deaktiviert |-> FALSE]
    BY <1>1, UndiEffect
  <1>6. ASSUME u = [primary |-> z.address, alternative |-> AddressOf(a), deaktiviert |-> FALSE]
        PROVE  u.primary = z.address /\ u.alternative = AddressOf(a) /\ ~u.deaktiviert
    BY <1>6
  <1>7. ActiveKnown(db, ox, ldap, u, partial)
    <2>1. CASE u = undi
      BY <2>1 DEF Known
    <2>2. CASE u.primary = z.address /\ u.alternative = AddressOf(a) /\ ~u.deaktiviert
      BY <1>3, <2>2 DEF Known, ActiveKnown, InSyncWith, AlternativeIn
    <2> QED
      BY <1>4, <1>6, <2>1, <2>2
  <1>8. SettingKnown(q, ox, ldap, u, partial)
    <2>1. CASE q.at = "fail"
      BY <2>1 DEF SettingKnown
    <2>2. CASE /\ q.at = "activate" /\ q.primary.address = z.address /\ q.alternative = a
               /\ u.primary = z.address /\ u.alternative = AddressOf(a) /\ ~u.deaktiviert
      BY <1>1, <1>2, <2>2 DEF Known, SettingKnown
    <2> QED
      BY <1>5, <1>6, <2>1, <2>2
  <1>9. Known(db, q, ox, ldap, u, partial)
    BY <1>5, <1>7, <1>8 DEF Known, CronKnown
  <1> QED
    BY <1>1, <1>2, <1>9

Activating(j) == job[j].at = "activate" /\ db' = Saved({job[j].primary})

ActivatingAlternative(j) == job[j].at = "activateAlternative" /\ db' = Saved({job[j].alternative})

\* The row that is activated is the one that OX, LDAP and UNDI know.
LEMMA ActivatedKnown ==
    ASSUME Typed, NEW j \in Job, Places(db, job[j], leftovers), Numbers(db, job[j], ox, oxUsers, recorded, partial),
           Known(db, job[j], ox, ldap, undi, partial), Activating(j)
    PROVE  ActiveKnown(db', ox, ldap, undi, partial) /\ OthersUnknown(db', ox, ldap)
  <1>1. PICK z : /\ job[j].at = "activate"
                 /\ z = job[j].primary /\ z.id \in Has(db) /\ z.priority = 0 /\ z.status = "ACTIVE"
                 /\ Has(db') = Has(db) /\ db'[z.id] = z /\ \A i \in Has(db) \ {z.id} : db'[i] = db[i]
    BY ActivateRows DEF Activating
  <1>2. PICK d, a : d = db' /\ a = job[j].alternative
    OBVIOUS
  <1>3. /\ db[z.id].priority = 0 /\ db[z.id].address = z.address
        /\ a # NoRow => /\ a.id \in Has(db) /\ db[a.id].priority = 1 /\ db[a.id].address = a.address
                        /\ AddressOf(a) = a.address
        /\ a = NoRow => AddressOf(a) = NoAddress
        /\ \A i \in Has(db) : /\ db[i].priority = 0 => i = z.id
                              /\ db[i].priority = 1 => a # NoRow /\ i = a.id
    BY <1>1, <1>2, FrontOfSetting
  <1>4. /\ ox # NoUser /\ ox.id = z.oxUserCounter /\ ox.primary = z.address /\ ox.aliases \subseteq {z.address, AddressOf(a)}
        /\ a # NoRow => a.address \in ox.aliases \/ partial
        /\ ldap.primary = z.address /\ ldap.alternative = AddressOf(a)
        /\ undi.primary = z.address /\ undi.alternative = AddressOf(a) /\ ~undi.deaktiviert
    BY <1>1, <1>2 DEF Known, SettingKnown, Numbers, NumberInUse
  <1>5. \A i \in Has(d) : /\ d[i].priority = db[i].priority /\ d[i].address = db[i].address
                          /\ d[i].priority = 0 => d[i] = z
    BY <1>1, <1>2, <1>3
  <1>6. ActiveKnown(d, ox, ldap, undi, partial)
    BY <1>1, <1>2, <1>3, <1>4, <1>5 DEF ActiveKnown, InSyncWith, AlternativeIn
  <1>7. OthersUnknown(d, ox, ldap)
    <2>1. ASSUME NEW b \in ox.aliases \cup {ldap.alternative}, b # NoAddress
          PROVE  \E k \in Has(d) : d[k].priority <= 1 /\ d[k].address = b
      <3>1. b = z.address \/ (a # NoRow /\ b = a.address)
        BY <1>3, <1>4, <2>1
      <3> QED
        BY <1>1, <1>2, <1>3, <1>5, <3>1
    <2> QED
      BY <2>1 DEF OthersUnknown
  <1> QED
    BY <1>2, <1>6, <1>7

LEMMA ActivateKnown ==
    ASSUME Typed, NEW j \in Job, Places(db, job[j], leftovers), Numbers(db, job[j], ox, oxUsers, recorded, partial),
           Known(db, job[j], ox, ldap, undi, partial), Activate(j)
    PROVE  Known(db', job'[j], ox', ldap', undi', partial')
  <1>1. /\ job[j].at = "activate" /\ UNCHANGED <<ox, ldap, undi, partial>> /\ db' = Saved({job[j].primary})
        /\ \/ job'[j] = Idle
           \/ /\ job'[j].at = "activateAlternative" /\ job[j].alternative \in Row
              /\ job'[j].alternative.address = job[j].alternative.address
    BY ActivateEffect
  <1>2. PICK d, q, a : d = db' /\ q = job'[j] /\ a = job[j].alternative
    OBVIOUS
  <1>3. ActiveKnown(d, ox, ldap, undi, partial) /\ OthersUnknown(d, ox, ldap)
    BY <1>1, <1>2, ActivatedKnown DEF Activating
  <1>4. /\ a # NoRow => a.address \in ox.aliases \/ partial
        /\ ldap.alternative = AddressOf(a) /\ undi.alternative = AddressOf(a)
    BY <1>1, <1>2 DEF Known, SettingKnown
  <1>5. SettingKnown(q, ox, ldap, undi, partial) /\ CronKnown(q, ox, ldap)
    <2>1. CASE q = Idle
      BY <2>1 DEF SettingKnown, CronKnown, Idle
    <2>2. CASE q.at = "activateAlternative" /\ a \in Row /\ q.alternative.address = a.address
      BY <1>4, <2>2, NoneIsNone DEF SettingKnown, CronKnown, AlternativeIn, AddressOf
    <2> QED
      BY <1>1, <1>2, <2>1, <2>2
  <1>6. Known(d, q, ox, ldap, undi, partial)
    BY <1>3, <1>5 DEF Known
  <1> QED
    BY <1>1, <1>2, <1>6

LEMMA ActivatedAlternativeKnown ==
    ASSUME Typed, NEW j \in Job, Places(db, job[j], leftovers), Known(db, job[j], ox, ldap, undi, partial),
           ActivatingAlternative(j)
    PROVE  ActiveKnown(db', ox, ldap, undi, partial) /\ OthersUnknown(db', ox, ldap)
  <1>1. PICK r : /\ job[j].at = "activateAlternative"
                 /\ r = job[j].alternative /\ r.id \in Has(db) /\ r.priority = 1 /\ db[r.id].priority = 1
                 /\ db[r.id].address = r.address
                 /\ Has(db') = Has(db) /\ db'[r.id] = r /\ \A i \in Has(db) \ {r.id} : db'[i] = db[i]
    BY AlternativeRows DEF ActivatingAlternative
  <1>2. PICK d : d = db'
    OBVIOUS
  <1>3. AlternativeIn(r, ox, ldap, undi, partial)
    BY <1>1 DEF Known, SettingKnown
  <1>4. \A i \in Has(d) : /\ d[i].priority = db[i].priority /\ d[i].address = db[i].address
                          /\ d[i].priority = 0 => d[i] = db[i]
                          /\ i # r.id => d[i] = db[i]
    BY <1>1, <1>2
  <1>5. ActiveKnown(d, ox, ldap, undi, partial)
    BY <1>1, <1>2, <1>3, <1>4 DEF Known, ActiveKnown
  <1>6. OthersUnknown(d, ox, ldap)
    BY <1>1, <1>2, <1>4 DEF Known, OthersUnknown
  <1> QED
    BY <1>2, <1>5, <1>6

LEMMA AlternativeKnown ==
    ASSUME Typed, NEW j \in Job, Places(db, job[j], leftovers), Known(db, job[j], ox, ldap, undi, partial),
           ActivateAlternative(j)
    PROVE  Known(db', job'[j], ox', ldap', undi', partial')
  <1>1. /\ job[j].at = "activateAlternative" /\ UNCHANGED <<ox, ldap, undi, partial>>
        /\ db' = Saved({job[j].alternative}) /\ job'[j] = Idle
    BY AlternativeEffect
  <1>2. PICK d, q : d = db' /\ q = job'[j]
    OBVIOUS
  <1>3. ActiveKnown(d, ox, ldap, undi, partial) /\ OthersUnknown(d, ox, ldap)
    BY <1>1, <1>2, ActivatedAlternativeKnown DEF ActivatingAlternative
  <1>4. Known(d, q, ox, ldap, undi, partial)
    BY <1>1, <1>2, <1>3 DEF Known, SettingKnown, CronKnown, Idle
  <1> QED
    BY <1>1, <1>2, <1>4

LEMMA SetKnown ==
    ASSUME Typed, NEW j \in Job, Places(db, job[j], leftovers), Numbers(db, job[j], ox, oxUsers, recorded, partial),
           Known(db, job[j], ox, ldap, undi, partial), Set(j)
    PROVE  Known(db', job'[j], ox', ldap', undi', partial')
  BY PlainKnown, ChooseKnown, InsertKnown, ToFrontKnown, CreateOxKnown, ChangeOxKnown, SaveOxKnown, LdapKnown, UndiKnown,
     ActivateKnown, AlternativeKnown DEF Set

LEMMA SuspendDeleteKnown ==
    ASSUME Typed, NEW j \in Job, Places(db, job[j], leftovers), Known(db, job[j], ox, ldap, undi, partial),
           Suspend(j) \/ Delete(j)
    PROVE  Known(db', job'[j], ox', ldap', undi', partial')
  <1>1. job'[j].at \notin KnowingSteps
    BY SuspendTargets, DeleteTargets DEF KnowingSteps, SuspendSteps, DeleteSteps
  <1>2. \/ FrontPassive(db')
        \/ Calm(db') /\ Stays(db') /\ UNCHANGED <<ox, ldap, undi, partial>>
    <2>1. CASE SuspendRead(j) \/ DeleteRead(j)
      BY <2>1, CalmUnchanged DEF SuspendRead, DeleteRead, store, external
    <2>2. CASE SuspendSave(j) \/ DeleteMark(j)
      BY <2>2, CalmHeld
    <2>3. ASSUME NEW o \in Calls, \/ SuspendOx(j, o) \/ SuspendUndi(j, o)
                                  \/ DeleteOxUser(j, o) \/ DeleteLdapPerson(j, o) \/ DeleteUndiPerson(j, o)
          PROVE  FrontPassive(db')
      <3>1. job[j].at \in {"suspendOx", "suspendUndi", "deleteOx", "deleteLdap", "deleteUndi"} /\ db' = db
        BY <2>3 DEF SuspendOx, SuspendUndi, DeleteOxUser, DeleteLdapPerson, DeleteUndiPerson, At, store
      <3>2. FrontPassive(db)
        BY <3>1 DEF Places, Holding, DeleteSteps
      <3> QED
        BY <3>1, <3>2
    <2>4. CASE DeleteRows(j)
      BY <2>4, CalmDeleteRows DEF FrontPassive
    <2> QED
      BY <2>1, <2>2, <2>3, <2>4 DEF Suspend, Delete
  <1> QED
    BY <1>1, <1>2, StaysKnownNext

\* What the cron job does to OX and LDAP; the alternative address has a number.
LEMMA CronOxEffect ==
    ASSUME Typed, NEW j \in Job, NEW o \in Calls, CronOx(j, o), job[j].alternative.oxUserCounter # NoCounter
    PROVE  /\ job[j].at = "cronOx" /\ UNCHANGED <<db, ldap, undi, partial>>
           /\ job'[j].at = "cronLdap" /\ job'[j].primary = job[j].primary
           /\ \/ ox' = ox /\ ~job'[j].ok
              \/ /\ ox # NoUser /\ ox' # NoUser /\ ox'.id = ox.id
                 /\ ox'.primary = job[j].primary.address /\ ox'.aliases = {job[j].primary.address}
  <1>1. job[j].at = "cronOx" /\ UNCHANGED <<db, ldap, undi, partial>> /\ ox \in OxUser \cup {NoUser}
    BY DEF CronOx, At, store, history, Typed, ExternalOK
  <1>2. \/ ox' = ox /\ Continue(j, "cronLdap", FALSE)
        \/ /\ ox # NoUser
           /\ ox' = [ox EXCEPT !.primary = job[j].primary.address, !.aliases = {job[j].primary.address}]
           /\ \E b : Continue(j, "cronLdap", b)
    BY DEF CronOx, Calls
  <1>3. ASSUME NEW b, Continue(j, "cronLdap", b)
        PROVE  job'[j].at = "cronLdap" /\ job'[j].primary = job[j].primary /\ job'[j].ok = (job[j].ok /\ b)
    BY <1>3, ContinueTarget
  <1>4. CASE ox' = ox /\ Continue(j, "cronLdap", FALSE)
    BY <1>1, <1>3, <1>4
  <1>5. CASE /\ ox # NoUser
             /\ ox' = [ox EXCEPT !.primary = job[j].primary.address, !.aliases = {job[j].primary.address}]
             /\ \E b : Continue(j, "cronLdap", b)
    <2>1. /\ ox' # NoUser /\ ox'.id = ox.id
          /\ ox'.primary = job[j].primary.address /\ ox'.aliases = {job[j].primary.address}
      BY <1>1, <1>5 DEF OxUser, NoUser
    <2>2. PICK b : Continue(j, "cronLdap", b)
      BY <1>5
    <2>3. job'[j].at = "cronLdap" /\ job'[j].primary = job[j].primary
      BY <1>3, <2>2
    <2> QED
      BY <1>1, <1>5, <2>1, <2>3
  <1> QED
    BY <1>2, <1>4, <1>5

LEMMA CronLdapEffect ==
    ASSUME Typed, NEW j \in Job, NEW o \in Calls, CronLdap(j, o)
    PROVE  /\ job[j].at = "cronLdap" /\ UNCHANGED <<db, ox, undi, partial>>
           /\ job'[j].at = "cronDelete" /\ job'[j].primary = job[j].primary /\ (job'[j].ok => job[j].ok)
           /\ \/ ldap' = ldap /\ ~job'[j].ok
              \/ ldap' = [primary |-> job[j].primary.address, alternative |-> NoAddress]
  <1>1. job[j].at = "cronLdap" /\ UNCHANGED <<db, ox, undi, partial>>
    BY DEF CronLdap, At, store, history
  <1>2. ASSUME NEW b, Continue(j, "cronDelete", b)
        PROVE  job'[j].at = "cronDelete" /\ job'[j].primary = job[j].primary /\ job'[j].ok = (job[j].ok /\ b)
    BY <1>2, ContinueTarget
  <1>3. \/ ldap' = ldap /\ Continue(j, "cronDelete", FALSE)
        \/ ldap' = [primary |-> job[j].primary.address, alternative |-> NoAddress] /\ \E b : Continue(j, "cronDelete", b)
    BY DEF CronLdap, Calls
  <1>4. CASE ldap' = ldap /\ Continue(j, "cronDelete", FALSE)
    BY <1>1, <1>2, <1>4
  <1>5. CASE ldap' = [primary |-> job[j].primary.address, alternative |-> NoAddress] /\ \E b : Continue(j, "cronDelete", b)
    <2>1. PICK b : Continue(j, "cronDelete", b)
      BY <1>5
    <2> QED
      BY <1>1, <1>2, <1>5, <2>1
  <1> QED
    BY <1>3, <1>4, <1>5

\* The two addresses of the cron job.
LEMMA FrontOfCron ==
    ASSUME NEW q, Places(db, q, leftovers), q.at \in CronSteps, NEW z, z = q.primary, NEW a, a = q.alternative
    PROVE  /\ z.id \in Has(db) /\ db[z.id].priority = 0 /\ db[z.id].address = z.address
           /\ db[z.id].oxUserCounter = z.oxUserCounter
           /\ a.id \in Has(db) /\ db[a.id].priority = 1 /\ db[a.id].oxUserCounter = a.oxUserCounter
           /\ \A i \in Has(db) : /\ db[i].priority = 0 => i = z.id
                                 /\ db[i].priority = 1 => i = a.id
           /\ q.at # "cronMark" => db[a.id].status # "ACTIVE"
  BY DEF Places, Crons, InPlace, Same, FrontOne

LEMMA CronOxKnown ==
    ASSUME Typed, NEW j \in Job, Places(db, job[j], leftovers), Numbers(db, job[j], ox, oxUsers, recorded, partial),
           Known(db, job[j], ox, ldap, undi, partial), NEW o \in Calls, CronOx(j, o)
    PROVE  Known(db', job'[j], ox', ldap', undi', partial')
  <1>1. PICK q, x, z, a : q = job'[j] /\ x = ox' /\ z = job[j].primary /\ a = job[j].alternative
    OBVIOUS
  <1>2. job[j].at = "cronOx"
    BY DEF CronOx, At
  <1>3. /\ z.id \in Has(db) /\ db[z.id].priority = 0 /\ db[z.id].address = z.address
        /\ a.id \in Has(db) /\ db[a.id].priority = 1 /\ db[a.id].oxUserCounter = a.oxUserCounter
        /\ \A i \in Has(db) : /\ db[i].priority = 0 => i = z.id
                              /\ db[i].priority = 1 => i = a.id
        /\ db[a.id].status # "ACTIVE"
    BY <1>1, <1>2, FrontOfCron DEF CronSteps
  <1>4. a.oxUserCounter # NoCounter
    BY <1>3 DEF Numbers, Numbered
  <1>5. /\ UNCHANGED <<db, ldap, undi, partial>> /\ q.at = "cronLdap" /\ q.primary = z
        /\ \/ x = ox /\ ~q.ok
           \/ /\ ox # NoUser /\ x # NoUser /\ x.id = ox.id
              /\ x.primary = z.address /\ x.aliases = {z.address}
    BY <1>1, <1>4, CronOxEffect
  <1>6. SettingKnown(q, x, ldap, undi, partial) /\ CronKnown(q, x, ldap)
    BY <1>5 DEF SettingKnown, CronKnown
  <1>7. ActiveKnown(db, x, ldap, undi, partial) /\ OthersUnknown(db, x, ldap)
    <2>1. CASE x = ox
      BY <2>1 DEF Known
    <2>2. CASE ox # NoUser /\ x # NoUser /\ x.id = ox.id /\ x.primary = z.address /\ x.aliases = {z.address}
      <3>1. ActiveKnown(db, x, ldap, undi, partial)
        BY <1>3, <2>2 DEF Known, ActiveKnown, InSyncWith
      <3>2. OthersUnknown(db, x, ldap)
        BY <1>3, <2>2 DEF Known, OthersUnknown
      <3> QED
        BY <3>1, <3>2
    <2> QED
      BY <1>5, <2>1, <2>2
  <1>8. Known(db, q, x, ldap, undi, partial)
    BY <1>6, <1>7 DEF Known
  <1> QED
    BY <1>1, <1>5, <1>8

LEMMA CronLdapKnown ==
    ASSUME Typed, NEW j \in Job, Places(db, job[j], leftovers),
           Known(db, job[j], ox, ldap, undi, partial), NEW o \in Calls, CronLdap(j, o)
    PROVE  Known(db', job'[j], ox', ldap', undi', partial')
  <1>1. PICK q, l, z, a : q = job'[j] /\ l = ldap' /\ z = job[j].primary /\ a = job[j].alternative
    OBVIOUS
  <1>2. /\ job[j].at = "cronLdap" /\ UNCHANGED <<db, ox, undi, partial>>
        /\ q.at = "cronDelete" /\ q.primary = z /\ (q.ok => job[j].ok)
        /\ \/ l = ldap /\ ~q.ok
           \/ l = [primary |-> z.address, alternative |-> NoAddress]
    BY <1>1, CronLdapEffect
  <1>3. /\ z.id \in Has(db) /\ db[z.id].priority = 0 /\ db[z.id].address = z.address
        /\ a.id \in Has(db) /\ db[a.id].priority = 1
        /\ \A i \in Has(db) : /\ db[i].priority = 0 => i = z.id
                              /\ db[i].priority = 1 => i = a.id
        /\ db[a.id].status # "ACTIVE"
    BY <1>1, <1>2, FrontOfCron DEF CronSteps
  <1>4. SettingKnown(q, ox, l, undi, partial)
    BY <1>2 DEF SettingKnown
  <1>5. CronKnown(q, ox, l)
    BY <1>1, <1>2 DEF Known, CronKnown
  <1>6. ActiveKnown(db, ox, l, undi, partial) /\ OthersUnknown(db, ox, l)
    <2>1. CASE l = ldap
      BY <2>1 DEF Known
    <2>2. CASE l.primary = z.address /\ l.alternative = NoAddress
      <3>1. ActiveKnown(db, ox, l, undi, partial)
        BY <1>3, <2>2 DEF Known, ActiveKnown, InSyncWith
      <3>2. OthersUnknown(db, ox, l)
        BY <1>3, <2>2 DEF Known, OthersUnknown
      <3> QED
        BY <3>1, <3>2
    <2> QED
      BY <1>2, <2>1, <2>2
  <1>7. Known(db, q, ox, l, undi, partial)
    BY <1>4, <1>5, <1>6 DEF Known
  <1> QED
    BY <1>1, <1>2, <1>7

LEMMA CronDeleteKnown ==
    ASSUME Typed, NEW j \in Job, Places(db, job[j], leftovers),
           Known(db, job[j], ox, ldap, undi, partial), CronDelete(j)
    PROVE  Known(db', job'[j], ox', ldap', undi', partial')
  <1>1. /\ job[j].at = "cronDelete" /\ UNCHANGED <<ox, ldap, undi, partial>> /\ DbOK
        /\ db' = (IF job[j].ok THEN Without({job[j].alternative}) ELSE db)
    BY DEF CronDelete, At, external, Typed
  <1>2. job'[j].at \notin KnowingSteps
    BY EndTarget DEF CronDelete, KnowingSteps
  <1>3. CASE ~job[j].ok
    BY <1>1, <1>2, <1>3, CalmUnchanged, StaysKnownNext
  <1>4. CASE job[j].ok
    <2>1. PICK d, q, z, a : d = db' /\ q = job'[j] /\ z = job[j].primary /\ a = job[j].alternative
      OBVIOUS
    <2>2. /\ z.id \in Has(db) /\ db[z.id].priority = 0 /\ db[z.id].address = z.address
          /\ a.id \in Has(db) /\ db[a.id].priority = 1
          /\ \A i \in Has(db) : /\ db[i].priority = 0 => i = z.id
                                /\ db[i].priority = 1 => i = a.id
      BY <1>1, <2>1, FrontOfCron DEF CronSteps
    <2>3. d = Without({a})
      BY <1>1, <1>4, <2>1
    <2>4. Calm(d)
      BY <1>1, <2>3, CalmWithout
    <2>5. z.id \in Has(d) /\ d[z.id] = db[z.id]
      BY <1>1, <2>2, <2>3, WithoutRows DEF Has
    <2>6. ox.aliases = {z.address} /\ ldap.alternative = NoAddress
      BY <1>1, <1>4, <2>1 DEF Known, CronKnown
    <2>7. \A i \in Has(d) : /\ i \in Has(db) /\ d[i].oxUserCounter = db[i].oxUserCounter /\ d[i].address = db[i].address
                            /\ d[i].priority = 1 => db[i].priority = 1
                            /\ d[i].priority = 0 => db[i].priority = 0
                            /\ d[i].priority \in {0, 1} /\ d[i].status = "ACTIVE" => db[i].status = "ACTIVE"
      BY <2>4 DEF Calm
    <2>8. ActiveKnown(d, ox, ldap, undi, partial)
      BY <2>7 DEF Known, ActiveKnown, InSyncWith, AlternativeIn
    <2>9. OthersUnknown(d, ox, ldap)
      BY <2>2, <2>5, <2>6 DEF OthersUnknown
    <2>10. Known(d, q, ox, ldap, undi, partial)
      BY <1>2, <2>1, <2>8, <2>9 DEF Known, SettingKnown, CronKnown, KnowingSteps
    <2> QED
      BY <1>1, <2>1, <2>10
  <1> QED
    BY <1>3, <1>4

LEMMA CronTakesUp ==
    ASSUME Typed, NEW j \in Job, Purge(j) \/ CronRead(j) \/ CronMark(j)
    PROVE  job'[j].at \in {"idle", "deleteRead", "cronRead", "cronMark", "cronOx"}
  <1>1. job[j] \in JobSet /\ job \in [Job -> JobSet]
    BY HeldFields DEF Typed, JobOK
  <1>2. CASE Purge(j) \/ CronMark(j)
    BY <1>2, GotoTarget DEF Purge, CronMark
  <1>3. CASE CronRead(j)
    <2>1. CASE Finish(j, "ok") \/ Finish(j, "error") \/ Goto(j, "deleteRead")
      BY <2>1, EndTarget, GotoTarget
    <2>2. CASE ~(Finish(j, "ok") \/ Finish(j, "error") \/ Goto(j, "deleteRead"))
      <3>1. PICK zero, one, r :
                 /\ zero \in Row /\ zero.id \in Has(db) /\ db[zero.id] = zero /\ zero.priority = 0
                 /\ one \in Row /\ one.id \in Has(db) /\ db[one.id] = one /\ one.priority = 1
                 /\ r \in Row /\ r.id = one.id /\ r.address = one.address /\ r.priority = 1
                 /\ r.oxUserCounter = one.oxUserCounter /\ r.status = "TO_BE_DELETED"
                 /\ job' = [job EXCEPT ![j].at = "cronMark", ![j].primary = zero, ![j].alternative = r]
        BY <1>3, <2>2, CronReads
      <3> QED
        BY <1>1, <3>1 DEF JobSet
    <2> QED
      BY <2>1, <2>2
  <1> QED
    BY <1>2, <1>3

LEMMA CronTakesUpKnown ==
    ASSUME Typed, NEW j \in Job, Places(db, job[j], leftovers),
           Known(db, job[j], ox, ldap, undi, partial), Purge(j) \/ CronRead(j) \/ CronMark(j)
    PROVE  Known(db', job'[j], ox', ldap', undi', partial')
  <1>1. Calm(db') /\ Stays(db') /\ UNCHANGED <<ox, ldap, undi, partial>>
    <2>1. CASE Purge(j)
      BY <2>1, CalmPurge DEF Purge, external, history
    <2>2. CASE CronRead(j)
      BY <2>2, CalmUnchanged DEF CronRead, store, external
    <2>3. CASE CronMark(j)
      BY <2>3, CalmCronMark DEF CronMark, external, history
    <2> QED
      BY <2>1, <2>2, <2>3
  <1>2. job'[j].at \notin KnowingSteps
    BY CronTakesUp DEF KnowingSteps
  <1> QED
    BY <1>1, <1>2, StaysKnownNext

LEMMA StepKnown ==
    ASSUME Typed, NEW j \in Job, Places(db, job[j], leftovers), Numbers(db, job[j], ox, oxUsers, recorded, partial),
           Known(db, job[j], ox, ldap, undi, partial), Step(j)
    PROVE  Known(db', job'[j], ox', ldap', undi', partial')
  <1>1. CASE Cron(j)
    BY <1>1, CronTakesUpKnown, CronOxKnown, CronLdapKnown, CronDeleteKnown DEF Cron
  <1> QED
    BY <1>1, SetKnown, SuspendDeleteKnown DEF Step

Synced == Known(db, Current, ox, ldap, undi, partial)

LEMMA KnownIdle ==
    ASSUME NEW d, NEW x, NEW l, NEW u, NEW p, NEW q0, Known(d, q0, x, l, u, p), NEW q, q.at \notin KnowingSteps
    PROVE  Known(d, q, x, l, u, p)
  BY DEF Known, SettingKnown, CronKnown, KnowingSteps

\* An interruption makes no address ACTIVE that the other systems do not know.
LEMMA InterruptedKnown ==
    ASSUME Typed, NEW j \in Job, Places(db, job[j], leftovers), Numbers(db, job[j], ox, oxUsers, recorded, partial),
           Known(db, job[j], ox, ldap, undi, partial), db' \in Interrupted(j), NEW q, q.at \notin KnowingSteps
    PROVE  Known(db', q, ox, ldap, undi, partial)
  <1>1. PICK d : d = db'
    OBVIOUS
  <1>2. ActiveKnown(d, ox, ldap, undi, partial) /\ OthersUnknown(d, ox, ldap)
    <2>1. CASE job[j].at = "activate" /\ db' = Saved({job[j].primary})
      BY <1>1, <2>1, ActivatedKnown DEF Activating
    <2>2. CASE job[j].at = "activateAlternative" /\ db' = Saved({job[j].alternative})
      BY <1>1, <2>2, ActivatedAlternativeKnown DEF ActivatingAlternative
    <2>3. CASE d = db
      BY <2>3 DEF Known
    <2>4. CASE InterruptedCalmly(j)
      <3>1. Calm(d) /\ (Stays(d) \/ FrontPassive(d))
        BY <1>1, <2>4, CalmInterrupted
      <3> QED
        BY <3>1, StaysKnown, PassiveKnown DEF Known
    <2> QED
      BY <1>1, <2>1, <2>2, <2>3, <2>4, InterruptedCases DEF InterruptedCalmly
  <1> QED
    BY <1>1, <1>2 DEF Known, SettingKnown, CronKnown, KnowingSteps

LEMMA SyncedNext ==
    ASSUME Serial = TRUE, Typed, Placed, Counted, Synced, [Next]_vars
    PROVE  Synced'
  <1>0. Idle.at \notin KnowingSteps
    BY DEF Idle, KnowingSteps
  <1>1. ASSUME NEW j \in Job, NEW kind \in Kind, NEW name, Request(j, kind, name) PROVE Synced'
    <2>1. PICK q : q = Current' /\ q.at \in {"check", "suspendRead", "deleteRead", "purge"}
      BY <1>1, CurrentBegin
    <2>2. UNCHANGED <<db, ox, ldap, undi, partial>>
      BY <1>1 DEF Request, store, external
    <2>3. Known(db, q, ox, ldap, undi, partial)
      BY <2>1, KnownIdle DEF Synced, KnowingSteps
    <2> QED
      BY <2>1, <2>2, <2>3 DEF Synced
  <1>2. ASSUME NEW j \in Job, Step(j) PROVE Synced'
    <2>1. /\ ~At(j, "idle") /\ Places(db, job[j], leftovers) /\ Alone /\ Numbers(db, job[j], ox, oxUsers, recorded, partial)
          /\ Known(db, job[j], ox, ldap, undi, partial)
      BY <1>2, StepWorks, CurrentJob DEF Placed, Counted, Synced
    <2>2. PICK q : job' = [job EXCEPT ![j] = q]
      BY <1>2, <2>1, StepPlaces
    <2>3. q = job'[j] /\ Current' = IF q.at = "idle" THEN Idle ELSE q
      BY <2>1, <2>2, CurrentStep, JobIsFunction
    <2>4. Known(db', q, ox', ldap', undi', partial')
      BY <1>2, <2>1, <2>3, StepKnown
    <2>5. PICK d, x, l, u, p : d = db' /\ x = ox' /\ l = ldap' /\ u = undi' /\ p = partial'
      OBVIOUS
    <2>6. Known(d, IF q.at = "idle" THEN Idle ELSE q, x, l, u, p)
      BY <1>0, <2>4, <2>5, KnownIdle
    <2> QED
      BY <2>3, <2>5, <2>6 DEF Synced
  <1>3. CASE NextDay \/ UNCHANGED vars
    <2>1. UNCHANGED <<db, job, ox, ldap, undi, partial>>
      BY <1>3 DEF NextDay, vars, store, external, history
    <2> QED
      BY <2>1, CurrentUnchanged DEF Synced
  <1>4. CASE Crash \/ \E j \in Job : Throw(j)
    <2>1. PICK j \in Job : /\ Current = job[j] /\ db' \in Interrupted(j) /\ Current'.at \in {"idle", "choose"}
                           /\ UNCHANGED <<ox, ldap, undi, partial>>
      BY <1>4, Interruption DEF Placed
    <2>2. PICK q : q = Current' /\ q.at \notin KnowingSteps
      BY <2>1 DEF KnowingSteps
    <2>3. Known(db', q, ox, ldap, undi, partial)
      BY <2>1, <2>2, InterruptedKnown DEF Placed, Counted, Synced
    <2> QED
      BY <2>1, <2>2, <2>3 DEF Synced
  <1> QED
    BY <1>1, <1>2, <1>3, <1>4, Nexts

LEMMA SyncedInit == ASSUME Init PROVE Synced
  <1>1. Has(db) = {} /\ Idle.at = "idle" /\ Current = Idle
    BY CurrentInit DEF Init, Has, Idle
  <1> QED
    BY <1>1 DEF Synced, Known, ActiveKnown, OthersUnknown, SettingKnown, CronKnown

LEMMA SyncedAlways == ASSUME Serial = TRUE PROVE Spec => [](Typed /\ Placed /\ Counted /\ Synced)
  <1>1. Init => Typed /\ Placed /\ Counted /\ Synced
    BY TypedInit, PlacedInit, CountedInit, SyncedInit
  <1>2. (Typed /\ Placed /\ Counted /\ Synced) /\ [Next]_vars => (Typed /\ Placed /\ Counted /\ Synced)'
    BY TypedNext, PlacedNext, CountedNext, SyncedNext
  <1> QED
    BY <1>1, <1>2, PTL DEF Spec

\* Whatever requests, failing calls, retries and interruptions came before: while no
\* request is under way, an ACTIVE primary address is the one that OX, LDAP and
\* UNDI have, and so is an ACTIVE alternative address (in OX unless an OX user
\* was created when only some of the rows had a counter).
THEOREM EmailActiveIsInSync == ASSUME Serial = TRUE PROVE Spec => []ActiveIsInSync
  <1>1. ASSUME Typed, Synced PROVE ActiveIsInSync
    <2>1. DbOK /\ ActiveKnown(db, ox, ldap, undi, partial)
      BY <1>1 DEF Typed, Synced, Known
    <2>2. Rows = {db[i] : i \in Has(db)}
      BY <2>1, RowsHas
    <2>3. \A zero \in Primaries :
             /\ InSync(zero)
             /\ \A one \in Rows : one.priority = 1 /\ one.status = "ACTIVE" => AlternativeInSync(one)
      BY <2>1, <2>2 DEF ActiveKnown, InSyncWith, AlternativeIn, Primaries, InSync, AlternativeInSync
    <2> QED
      BY <2>3 DEF ActiveIsInSync
  <1> QED
    BY <1>1, SyncedAlways, PTL

\* While no request is under way, OX and LDAP list no address of a person with
\* an ACTIVE primary address that the database has given up: a row goes only
\* after the cron job or the deletion has removed its address there.
THEOREM EmailNoForgottenAddress == ASSUME Serial = TRUE PROVE Spec => []NoForgottenAddress
  <1>1. ASSUME Typed, Synced PROVE NoForgottenAddress
    <2>1. DbOK /\ OthersUnknown(db, ox, ldap)
      BY <1>1 DEF Typed, Synced, Known
    <2>2. Rows = {db[i] : i \in Has(db)}
      BY <2>1, RowsHas
    <2>3. ASSUME Primaries # {}, NEW a \in (ox.aliases \cup {ldap.alternative}) \ {NoAddress}
          PROVE  a \in {r.address : r \in {s \in Rows : s.priority <= 1}}
      <3>1. PICK i \in Has(db) : db[i].priority = 0 /\ db[i].status = "ACTIVE"
        BY <2>2, <2>3 DEF Primaries
      <3>2. PICK k \in Has(db) : db[k].priority <= 1 /\ db[k].address = a
        BY <2>1, <2>3, <3>1 DEF OthersUnknown
      <3> QED
        BY <2>2, <3>2
    <2> QED
      BY <2>3 DEF NoForgottenAddress
  <1> QED
    BY <1>1, SyncedAlways, PTL

----------------------------------------------------------------------------
(* How a job ends                                                          *)

\* The steps of the other requests.
OtherSteps ==
    {"suspendRead", "suspendSave", "suspendOx", "suspendUndi", "purge", "cronRead"} \cup {"deleteRead"} \cup DeleteSteps
    \cup CronSteps

KindKnown(q) == q.at \in OtherSteps => q.kind # "set"

\* After a set request that succeeded, an ACTIVE primary address fits the name.
Fits(d, la) ==
    la.kind = "set" /\ la.outcome = "ok" =>
        \E i \in Has(d) : /\ d[i].priority = 0 /\ d[i].status = "ACTIVE"
                          /\ d[i].address[1] = la.name /\ d[i].markedForCron = NoDate

\* While a job is under way nothing has ended.
Ended(d, q, la) ==
    /\ Fits(d, la) /\ KindKnown(q)
    /\ la.kind = "set" /\ la.outcome = "ok" => q.at = "idle"

LEMMA OtherAt ==
    ASSUME NEW j \in Job, Suspend(j) \/ Delete(j) \/ Cron(j)
    PROVE  job[j].at \in OtherSteps
  <1>1. CASE Suspend(j)
    BY <1>1 DEF Suspend, SuspendRead, SuspendSave, SuspendOx, SuspendUndi, At, OtherSteps
  <1>2. CASE Delete(j)
    BY <1>2 DEF Delete, DeleteRead, DeleteMark, DeleteOxUser, DeleteLdapPerson, DeleteUndiPerson, DeleteRows, At,
       OtherSteps, DeleteSteps
  <1>3. CASE Cron(j)
    BY <1>3 DEF Cron, Purge, CronRead, CronMark, CronOx, CronLdap, CronDelete, At, OtherSteps, CronSteps
  <1> QED
    BY <1>1, <1>2, <1>3

\* The other requests: they end, or the job keeps its kind.
LEMMA OtherKinds ==
    ASSUME Typed, NEW j \in Job, Suspend(j) \/ Delete(j) \/ Cron(j)
    PROVE  \/ job'[j] = Idle /\ last'.kind = job[j].kind
           \/ job'[j].kind = job[j].kind /\ last' = last
  <1>1. job[j] \in JobSet /\ job \in [Job -> JobSet]
    BY HeldFields DEF Typed, JobOK
  <1>2. ASSUME NEW outcome, Finish(j, outcome) PROVE job'[j] = Idle /\ last'.kind = job[j].kind
    <2>1. job'[j] = Idle
      BY <1>1, <1>2 DEF Finish
    <2>2. last'.kind = job[j].kind
      BY <1>2 DEF Finish
    <2> QED
      BY <2>1, <2>2, Zenon
  <1>3. ASSUME NEW s, Goto(j, s) PROVE job'[j].kind = job[j].kind
    BY <1>1, <1>3 DEF Goto, JobSet
  <1>4. ASSUME NEW s, NEW b, Continue(j, s, b) PROVE job'[j].kind = job[j].kind
    BY <1>1, <1>4 DEF Continue, JobSet
  <1>5. ASSUME NEW s, NEW h, job' = [job EXCEPT ![j].at = s, ![j].held = h] PROVE job'[j].kind = job[j].kind
    BY <1>1, <1>5 DEF JobSet
  <1>6. ASSUME NEW s, NEW p, NEW a, job' = [job EXCEPT ![j].at = s, ![j].primary = p, ![j].alternative = a]
        PROVE  job'[j].kind = job[j].kind
    BY <1>1, <1>6 DEF JobSet
  <1>7. CASE SuspendRead(j) \/ DeleteRead(j)
    BY <1>2, <1>5, <1>7 DEF SuspendRead, DeleteRead
  <1>8. CASE SuspendSave(j) \/ DeleteMark(j) \/ Purge(j) \/ CronMark(j)
    BY <1>3, <1>8 DEF SuspendSave, DeleteMark, Purge, CronMark, history
  <1>9. CASE DeleteRows(j) \/ CronDelete(j)
    <2>1. \E outcome : Finish(j, outcome)
      <3>1. DeleteRows(j) => Finish(j, "ok")
        BY DEF DeleteRows
      <3>2. CronDelete(j) => Finish(j, IF job[j].ok THEN "ok" ELSE "kept")
        BY DEF CronDelete
      <3> QED
        BY <1>9, <3>1, <3>2, Zenon
    <2>2. PICK outcome : Finish(j, outcome)
      BY <2>1
    <2>3. job'[j] = Idle /\ last'.kind = job[j].kind
      BY <1>2, <2>2, Zenon
    <2> QED
      BY <2>3
  <1>10. CASE CronRead(j)
    <2>1. \/ \E outcome : Finish(j, outcome)
          \/ Goto(j, "deleteRead") /\ UNCHANGED last
          \/ \E p, a : job' = [job EXCEPT ![j].at = "cronMark", ![j].primary = p, ![j].alternative = a]
                       /\ UNCHANGED last
      BY <1>10, Zenon DEF CronRead
    <2>2. ASSUME NEW outcome, Finish(j, outcome) PROVE job'[j] = Idle /\ last'.kind = job[j].kind
      BY <1>2, <2>2, Zenon
    <2>3. CASE Goto(j, "deleteRead") /\ UNCHANGED last
      BY <1>3, <2>3
    <2>4. ASSUME NEW p, NEW a, last' = last,
                 job' = [job EXCEPT ![j].at = "cronMark", ![j].primary = p, ![j].alternative = a]
          PROVE  job'[j].kind = job[j].kind /\ last' = last
      BY <1>6, <2>4
    <2> QED
      BY <2>1, <2>2, <2>3, <2>4
  <1>11. ASSUME NEW o \in Calls,
                \/ SuspendOx(j, o) \/ SuspendUndi(j, o) \/ DeleteOxUser(j, o) \/ DeleteLdapPerson(j, o)
                \/ DeleteUndiPerson(j, o) \/ CronOx(j, o) \/ CronLdap(j, o)
         PROVE  \/ job'[j] = Idle /\ last'.kind = job[j].kind
                \/ job'[j].kind = job[j].kind /\ last' = last
    <2>1. CASE SuspendOx(j, o)
      BY <1>3, <2>1 DEF SuspendOx, history
    <2>2. CASE SuspendUndi(j, o)
      BY <1>2, <2>2 DEF SuspendUndi
    <2>3. CASE DeleteOxUser(j, o)
      BY <1>4, <2>3 DEF DeleteOxUser, history
    <2>4. CASE DeleteLdapPerson(j, o)
      BY <1>4, <2>4 DEF DeleteLdapPerson, history
    <2>5. CASE DeleteUndiPerson(j, o)
      BY <1>2, <1>3, <2>5 DEF DeleteUndiPerson
    <2>6. CASE CronOx(j, o)
      BY <1>4, <2>6 DEF CronOx, history
    <2>7. CASE CronLdap(j, o)
      BY <1>4, <2>7 DEF CronLdap, history
    <2> QED
      BY <1>11, <2>1, <2>2, <2>3, <2>4, <2>5, <2>6, <2>7
  <1> QED
    BY <1>7, <1>8, <1>9, <1>10, <1>11 DEF Suspend, Delete, Cron

LEMMA OtherEnded ==
    ASSUME Typed, NEW j \in Job, Ended(db, job[j], last), ~At(j, "idle"), Suspend(j) \/ Delete(j) \/ Cron(j)
    PROVE  Ended(db', job'[j], last')
  <1>1. job[j].kind # "set" /\ ~(last.kind = "set" /\ last.outcome = "ok")
    BY OtherAt DEF Ended, KindKnown, At
  <1>2. PICK d, q, la : d = db' /\ q = job'[j] /\ la = last'
    OBVIOUS
  <1>3. CASE q = Idle /\ la.kind = job[j].kind
    <2>1. Ended(d, q, la)
      BY <1>1, <1>3 DEF Ended, KindKnown, Fits, Idle, OtherSteps, DeleteSteps, CronSteps
    <2> QED
      BY <1>2, <2>1
  <1>4. CASE q.kind = job[j].kind /\ la = last
    <2>1. Ended(d, q, la)
      BY <1>1, <1>4 DEF Ended, KindKnown, Fits
    <2> QED
      BY <1>2, <2>1
  <1> QED
    BY <1>2, <1>3, <1>4, OtherKinds

\* A set request: most steps change nothing, or end without success.
LEMMA SetEnds ==
    ASSUME Typed, NEW j \in Job, Places(db, job[j], leftovers), Set(j), ~Activate(j), ~ActivateAlternative(j)
    PROVE  /\ job'[j].at \notin OtherSteps
           /\ \/ last' = last
              \/ last'.outcome # "ok"
  <1>0. job[j] \in JobSet /\ job \in [Job -> JobSet]
    BY HeldFields DEF Typed, JobOK
  <1>1. ASSUME NEW outcome, outcome # "ok", Finish(j, outcome) PROVE last'.outcome # "ok"
    BY <1>1, FinishLast
  <1>2. CASE CheckPending(j) \/ Insert(j) \/ Ensure(j) \/ SaveFailure(j)
    <2>1. last' = last \/ last'.outcome # "ok"
      BY <1>1, <1>2 DEF CheckPending, Insert, Ensure, SaveFailure, Retry
    <2> QED
      BY <1>2, <2>1, PlainTargets DEF PlainSteps, OtherSteps, DeleteSteps, CronSteps
  <1>3. CASE Reread(j) \/ ShiftBack(j) \/ Pend(j) \/ KeepPrimary(j) \/ ShiftToFront(j)
    <2>1. last' = last
      BY <1>3 DEF Reread, ShiftBack, Pend, KeepPrimary, ShiftToFront, history
    <2> QED
      BY <1>3, <2>1, PlainTargets DEF PlainSteps, OtherSteps, DeleteSteps, CronSteps
  <1>4. CASE Choose(j)
    <2>1. \E s \in {"reread", "insert"} : \E r : job' = [job EXCEPT ![j].at = s, ![j].primary = r]
      BY <1>4 DEF Choose
    <2>2. job'[j].at \in {"reread", "insert"} /\ last' = last
      <3>1. last' = last
        BY <1>4 DEF Choose, history
      <3>2. PICK s \in {"reread", "insert"} : \E r : job' = [job EXCEPT ![j].at = s, ![j].primary = r]
        BY <2>1
      <3>3. PICK r : job' = [job EXCEPT ![j].at = s, ![j].primary = r]
        BY <3>2
      <3>4. job'[j].at = s
        BY ONLY <1>0, <3>3, j \in Job DEF JobSet
      <3> QED
        BY ONLY <3>1, <3>2, <3>4
    <2> QED
      BY <2>2 DEF OtherSteps, DeleteSteps, CronSteps
  <1>5. ASSUME NEW o \in OxCalls, ChangeOxUser(j, o) PROVE job'[j].at \in {"fail", "saveOx"} /\ last' = last
    BY <1>5, ChangeOxEffect DEF ChangeOxUser, history
  <1>6. ASSUME NEW o \in OxCalls, CreateOxUser(j, o) PROVE job'[j].at \in {"fail", "saveOx"} /\ last' = last
    BY <1>6, CreateOxEffect DEF CreateOxUser, history
  <1>7. CASE SaveOx(j)
    <2>1. job'[j].at = "ldap" /\ last' = last
      BY <1>7, SaveOxEffect DEF SaveOx
    <2> QED
      BY <2>1 DEF OtherSteps, DeleteSteps, CronSteps
  <1>8. ASSUME NEW o \in Calls, UpsertLdap(j, o) PROVE job'[j].at \in {"fail", "undi"} /\ last' = last
    BY <1>8, LdapEffect DEF UpsertLdap, history
  <1>9. ASSUME NEW o \in Calls, UpsertUndi(j, o) PROVE job'[j].at \in {"fail", "activate"} /\ last' = last
    BY <1>9, UndiEffect DEF UpsertUndi, history
  <1>10. {"fail", "saveOx", "undi", "activate"} \cap OtherSteps = {}
    BY DEF OtherSteps, DeleteSteps, CronSteps
  <1> QED
    BY <1>2, <1>3, <1>4, <1>5, <1>6, <1>7, <1>8, <1>9, <1>10 DEF Set

LEMMA SetEnded ==
    ASSUME Typed, NEW j \in Job, Places(db, job[j], leftovers), Ended(db, job[j], last), ~At(j, "idle"), Set(j)
    PROVE  Ended(db', job'[j], last')
  <1>1. ~(last.kind = "set" /\ last.outcome = "ok")
    BY DEF Ended, At
  <1>2. PICK d, q, la : d = db' /\ q = job'[j] /\ la = last'
    OBVIOUS
  <1>3. CASE ~Activate(j) /\ ~ActivateAlternative(j)
    <2>1. q.at \notin OtherSteps /\ (la = last \/ la.outcome # "ok")
      BY <1>2, <1>3, SetEnds
    <2>2. Ended(d, q, la)
      BY <1>1, <2>1 DEF Ended, KindKnown, Fits
    <2> QED
      BY <1>2, <2>2
  <1>4. CASE Activate(j)
    <2>1. PICK z : /\ job[j].at = "activate"
                   /\ z = job[j].primary /\ z.id \in Has(db) /\ z.priority = 0 /\ z.status = "ACTIVE" /\ z.markedForCron = NoDate
                   /\ Has(db') = Has(db) /\ db'[z.id] = z
                   /\ \/ job'[j] = Idle /\ job[j].alternative = NoRow
                      \/ job'[j].at = "activateAlternative" /\ job[j].alternative \in Row
      BY <1>4, ActivateEffect, ActivateRows
    <2>2. z.address[1] = job[j].name
      BY <2>1 DEF Places, Setting, SettingSteps
    <2>3. CASE job[j].alternative = NoRow
      <3>1. q = Idle /\ la.name = job[j].name
        BY <1>2, <1>4, <2>1, <2>3, NoneIsNone, FinishLast DEF Activate
      <3>2. Ended(d, q, la)
        BY <1>2, <2>1, <2>2, <3>1 DEF Ended, KindKnown, Fits, Idle, OtherSteps, DeleteSteps, CronSteps
      <3> QED
        BY <1>2, <3>2
    <2>4. CASE job[j].alternative # NoRow
      <3>1. q.at = "activateAlternative" /\ la = last
        BY <1>2, <1>4, <2>1, <2>4 DEF Activate
      <3>2. Ended(d, q, la)
        BY <1>1, <3>1 DEF Ended, KindKnown, Fits, OtherSteps, DeleteSteps, CronSteps
      <3> QED
        BY <1>2, <3>2
    <2> QED
      BY <2>3, <2>4
  <1>5. CASE ActivateAlternative(j)
    <2>1. PICK r : /\ job[j].at = "activateAlternative"
                   /\ r.id \in Has(db) /\ db[r.id].priority = 1
                   /\ Has(db') = Has(db) /\ db'[r.id] = r /\ \A i \in Has(db) \ {r.id} : db'[i] = db[i]
                   /\ job'[j] = Idle
      BY <1>5, AlternativeEffect, AlternativeRows
    <2>2. PICK i \in Has(db) : db[i].priority = 0 /\ db[i].status = "ACTIVE" /\ db[i].address[1] = job[j].name
                               /\ db[i].markedForCron = NoDate
      BY <2>1 DEF Places, Beside
    <2>3. i \in Has(d) /\ d[i] = db[i]
      BY <1>2, <2>1, <2>2
    <2>4. la.name = job[j].name
      BY <1>2, <1>5, FinishLast DEF ActivateAlternative
    <2>5. Ended(d, q, la)
      BY <1>2, <2>1, <2>2, <2>3, <2>4 DEF Ended, KindKnown, Fits, Idle, OtherSteps, DeleteSteps, CronSteps
    <2> QED
      BY <1>2, <2>5
  <1> QED
    BY <1>3, <1>4, <1>5

Closed == Ended(db, Current, last)

LEMMA ClosedNext ==
    ASSUME Serial = TRUE, Typed, Placed, Closed, [Next]_vars
    PROVE  Closed'
  <1>1. ASSUME NEW j \in Job, NEW kind \in Kind, NEW name, Request(j, kind, name) PROVE Closed'
    <2>1. PICK q : q = Current' /\ q = [Idle EXCEPT !.at = FirstStep[kind], !.kind = kind, !.name = name]
      BY <1>1, CurrentBegin
    <2>2. KindKnown(q)
      BY <2>1 DEF KindKnown, Idle, FirstStep, Kind, OtherSteps, DeleteSteps, CronSteps
    <2>3. db' = db /\ last' = Nothing /\ Nothing.kind # "set"
      BY <1>1 DEF Request, store, Nothing
    <2>4. Ended(db, q, Nothing)
      BY <2>2, <2>3 DEF Ended, Fits
    <2> QED
      BY <2>1, <2>3, <2>4 DEF Closed
  <1>2. ASSUME NEW j \in Job, Step(j) PROVE Closed'
    <2>1. ~At(j, "idle") /\ Places(db, job[j], leftovers) /\ Alone /\ Ended(db, job[j], last)
      BY <1>2, StepWorks, CurrentJob DEF Placed, Closed
    <2>2. PICK q : job' = [job EXCEPT ![j] = q]
      BY <1>2, <2>1, StepPlaces
    <2>3. q = job'[j] /\ Current' = IF q.at = "idle" THEN Idle ELSE q
      BY <2>1, <2>2, CurrentStep, JobIsFunction
    <2>4. Ended(db', q, last')
      BY <1>2, <2>1, <2>3, SetEnded, OtherEnded DEF Step
    <2>5. PICK d, la : d = db' /\ la = last'
      OBVIOUS
    <2>6. Ended(d, IF q.at = "idle" THEN Idle ELSE q, la)
      BY <2>4, <2>5 DEF Ended, KindKnown, Idle, OtherSteps, DeleteSteps, CronSteps
    <2> QED
      BY <2>3, <2>5, <2>6 DEF Closed
  <1>3. CASE NextDay \/ UNCHANGED vars
    <2>1. UNCHANGED <<db, job, last>>
      BY <1>3 DEF NextDay, vars, store, history
    <2> QED
      BY <2>1, CurrentUnchanged DEF Closed
  <1>4. CASE Crash \/ \E j \in Job : Throw(j)
    <2>1. PICK j \in Job : /\ Current = job[j] /\ ~At(j, "idle") /\ Current'.at \in {"idle", "choose"}
                           /\ last' = Nothing \/ last'.outcome = "failed" \/ last' = last
      BY <1>4, Interruption DEF Placed
    <2>2. ~(last.kind = "set" /\ last.outcome = "ok")
      BY <2>1 DEF Closed, Ended, At
    <2>3. PICK d, q, la : d = db' /\ q = Current' /\ la = last'
      OBVIOUS
    <2>4. ~(la.kind = "set" /\ la.outcome = "ok")
      BY <2>1, <2>2, <2>3 DEF Nothing
    <2>5. Ended(d, q, la)
      BY <2>1, <2>3, <2>4 DEF Ended, KindKnown, Fits, OtherSteps, DeleteSteps, CronSteps
    <2> QED
      BY <2>3, <2>5 DEF Closed
  <1> QED
    BY <1>1, <1>2, <1>3, <1>4, Nexts

LEMMA ClosedInit == ASSUME Init PROVE Closed
  <1>1. Current = Idle /\ last = Nothing
    BY CurrentInit DEF Init
  <1> QED
    BY <1>1 DEF Closed, Ended, KindKnown, Fits, Idle, Nothing, OtherSteps, DeleteSteps, CronSteps

\* A set request that reports success has left an ACTIVE primary address that
\* fits the requested name and is not due for deletion, whatever the attempts
\* before the last one left behind.
THEOREM EmailSuccessFits == ASSUME Serial = TRUE PROVE Spec => []SuccessFits
  <1>1. Init => Typed /\ Placed /\ Closed
    BY TypedInit, PlacedInit, ClosedInit
  <1>2. (Typed /\ Placed /\ Closed) /\ [Next]_vars => (Typed /\ Placed /\ Closed)'
    BY TypedNext, PlacedNext, ClosedNext
  <1>3. ASSUME Typed, Closed PROVE SuccessFits
    <2>1. DbOK /\ Fits(db, last)
      BY <1>3 DEF Typed, Closed, Ended
    <2>2. Rows = {db[i] : i \in Has(db)}
      BY <2>1, RowsHas
    <2> QED
      BY <2>1, <2>2 DEF Fits, SuccessFits, Primaries
  <1> QED
    BY <1>1, <1>2, <1>3, PTL DEF Spec

----------------------------------------------------------------------------
(* What is left to be deleted                                              *)

\* The number of the person's OX user was never saved, or it was saved while
\* another row had none.
Forgotten(x, rec, p) == x = NoUser \/ x.id \notin rec \/ p

\* A saved number of the OX user is the number of every row, and there is one.
Recorded(d, x, rec, p) == Forgotten(x, rec, p) \/ (Has(d) # {} /\ \A i \in Has(d) : d[i].oxUserCounter = x.id)

\* Entries in LDAP and UNDI have a row.
Covered(d, l, u) == Has(d) = {} => l = NoUser /\ u = NoUser

\* What a deletion has been successful with is gone.
Deleted(q, x, l, u, rec, p) ==
    /\ q.at \in {"deleteLdap", "deleteUndi"} /\ q.ok => Forgotten(x, rec, p)
    /\ q.at = "deleteUndi" /\ q.ok => l = NoUser
    /\ q.at = "deleteRows" => Forgotten(x, rec, p) /\ l = NoUser /\ u = NoUser

Owned(d, q, x, l, u, rec, p, c) ==
    "front" \notin c => Recorded(d, x, rec, p) /\ Covered(d, l, u) /\ Deleted(q, x, l, u, rec, p)

DeletedSteps == {"deleteLdap", "deleteUndi", "deleteRows"}

\* A step that leaves some row, keeps the numbers, and creates no entry without a row.
LEMMA OwnedNext ==
    ASSUME NEW j \in Job, Owned(db, job[j], ox, ldap, undi, recorded, partial, leftovers),
           \A i \in Has(db') : i \in Has(db) /\ db'[i].oxUserCounter = db[i].oxUserCounter,
           "front" \notin leftovers /\ Has(db') = {} => Has(db) = {},
           ox' = NoUser \/ (ox # NoUser /\ ox'.id = ox.id),
           ldap' = NoUser \/ ldap # NoUser \/ Has(db') # {},
           undi' = NoUser \/ undi # NoUser \/ Has(db') # {},
           UNCHANGED <<recorded, partial, leftovers>>, job'[j].at \notin DeletedSteps
    PROVE  Owned(db', job'[j], ox', ldap', undi', recorded', partial', leftovers')
  <1>1. PICK d, q, x, l, u : d = db' /\ q = job'[j] /\ x = ox' /\ l = ldap' /\ u = undi'
    OBVIOUS
  <1>2. ASSUME "front" \notin leftovers
        PROVE  Recorded(d, x, recorded, partial) /\ Covered(d, l, u) /\ Deleted(q, x, l, u, recorded, partial)
    <2>1. Recorded(db, ox, recorded, partial) /\ Covered(db, ldap, undi)
      BY <1>2 DEF Owned
    <2>2. Recorded(d, x, recorded, partial)
      BY <1>1, <1>2, <2>1 DEF Recorded, Forgotten
    <2>3. Covered(d, l, u)
      BY <1>1, <1>2, <2>1 DEF Covered
    <2>4. Deleted(q, x, l, u, recorded, partial)
      BY <1>1 DEF Deleted, DeletedSteps
    <2> QED
      BY <2>2, <2>3, <2>4
  <1>3. Owned(d, q, x, l, u, recorded, partial, leftovers)
    BY <1>2 DEF Owned
  <1> QED
    BY <1>1, <1>3

LEMMA SavedHas == ASSUME DbOK, NEW rs \in SUBSET Row PROVE Has(Saved(rs)) = Has(db)
  BY SavedRows DEF Has

\* The steps that change no number and remove no row.
LEMMA PlainHas ==
    ASSUME Typed, NEW j \in Job, Places(db, job[j], leftovers),
           \/ CheckPending(j) \/ Reread(j) \/ ShiftBack(j) \/ Pend(j) \/ KeepPrimary(j) \/ Ensure(j) \/ SaveFailure(j)
    PROVE  Has(db') = Has(db)
  <1>1. DbOK
    BY DEF Typed
  <1>2. CASE CheckPending(j) \/ Reread(j) \/ KeepPrimary(j)
    BY <1>2 DEF CheckPending, Reread, KeepPrimary, store
  <1>3. CASE ShiftBack(j)
    <2>1. CASE Exists(job[j].displaced)
      <3>1. PICK id, d : id \in Persisted /\ d \in Shifted(id, 2) /\ db' = d
        BY <1>3, <2>1 DEF ShiftBack, Exists
      <3> QED
        BY <1>1, <3>1, ShiftBackward, PersistedHas
    <2> QED
      BY <1>3, <2>1 DEF ShiftBack
  <1>4. CASE Pend(j)
    <2>1. job[j].primary \in Row
      BY <1>4, SettingFields DEF Pend, At, SettingSteps
    <2>2. [job[j].primary EXCEPT !.status = "PENDING"] \in Row
      BY <2>1, RowEdited DEF Status
    <2> QED
      BY <1>1, <1>4, <2>2, SavedHas DEF Pend
  <1>5. CASE SaveFailure(j)
    <2>1. job[j].primary \in Row
      BY <1>5, SettingFields DEF SaveFailure, At, SettingSteps
    <2> QED
      BY <1>1, <1>5, <2>1, SavedHas DEF SaveFailure
  <1>6. CASE Ensure(j)
    <2>1. today + Deadline \in Nat
      BY Bounds DEF Typed, HistoryOK
    <2>2. db' = Ensured(today + Deadline)
      BY <1>6 DEF Ensure
    <2> QED
      BY <1>1, <2>1, <2>2, EnsuredRows DEF Has
  <1> QED
    BY <1>2, <1>3, <1>4, <1>5, <1>6

LEMMA PlainOwned ==
    ASSUME Typed, NEW j \in Job, Places(db, job[j], leftovers),
           Owned(db, job[j], ox, ldap, undi, recorded, partial, leftovers),
           \/ CheckPending(j) \/ Reread(j) \/ ShiftBack(j) \/ Pend(j) \/ KeepPrimary(j) \/ Ensure(j) \/ SaveFailure(j)
    PROVE  Owned(db', job'[j], ox', ldap', undi', recorded', partial', leftovers')
  <1>1. Calm(db') /\ UNCHANGED <<external, recorded, partial>>
    BY PlainCalm
  <1>2. job'[j].at \notin DeletedSteps
    BY PlainTargets DEF PlainSteps, DeletedSteps
  <1>3. Has(db') = Has(db)
    BY PlainHas
  <1>4. leftovers' = leftovers
    BY StepKeepsLeftovers DEF Step, Set
  <1>5. \A i \in Has(db') : i \in Has(db) /\ db'[i].oxUserCounter = db[i].oxUserCounter
    <2>1. PICK d : d = db'
      OBVIOUS
    <2>2. \A i \in Has(d) : i \in Has(db) /\ d[i].oxUserCounter = db[i].oxUserCounter
      BY <1>1, <2>1 DEF Calm
    <2> QED
      BY <2>1, <2>2
  <1>6. UNCHANGED <<ox, ldap, undi>>
    BY <1>1 DEF external
  <1>7. /\ ox' = NoUser \/ (ox # NoUser /\ ox'.id = ox.id)
        /\ ldap' = NoUser \/ ldap # NoUser \/ Has(db') # {}
        /\ undi' = NoUser \/ undi # NoUser \/ Has(db') # {}
    BY <1>6
  <1> QED
    BY <1>1, <1>2, <1>3, <1>4, <1>5, <1>7, OwnedNext

LEMMA ChooseOwned ==
    ASSUME Typed, NEW j \in Job, Owned(db, job[j], ox, ldap, undi, recorded, partial, leftovers), Choose(j)
    PROVE  Owned(db', job'[j], ox', ldap', undi', recorded', partial', leftovers')
  <1>1. job[j] \in JobSet /\ job \in [Job -> JobSet] /\ UNCHANGED <<db, ox, ldap, undi, recorded, partial, leftovers>>
    BY JobTyped DEF Typed, JobOK, Choose, store, external, history
  <1>2. \E s \in {"reread", "insert"} : \E r : job' = [job EXCEPT ![j].at = s, ![j].primary = r]
    BY DEF Choose
  <1>3. job'[j].at \notin DeletedSteps
    BY <1>1, <1>2 DEF JobSet, DeletedSteps
  <1> QED
    BY <1>1, <1>3, OwnedNext

LEMMA InsertOwned ==
    ASSUME Typed, NEW j \in Job, Numbers(db, job[j], ox, oxUsers, recorded, partial),
           Owned(db, job[j], ox, ldap, undi, recorded, partial, leftovers), Insert(j)
    PROVE  Owned(db', job'[j], ox', ldap', undi', recorded', partial', leftovers')
  <1>1. /\ job[j].at = "insert" /\ UNCHANGED <<ox, ldap, undi, recorded, partial>>
        /\ job'[j].at \in {"idle", "choose", "reread"}
    BY InsertEffect DEF external
  <1>2. job'[j].at \notin DeletedSteps
    BY <1>1 DEF DeletedSteps
  <1>3. leftovers' = leftovers
    BY StepKeepsLeftovers DEF Step, Set
  <1>4. CASE db' = db
    BY <1>1, <1>2, <1>3, <1>4, OwnedNext
  <1>5. CASE \E i \in Ids :
                    /\ i \notin Has(db) /\ Has(db') = Has(db) \cup {i} /\ (\A k \in Has(db) : db'[k] = db[k])
                    /\ db'[i].oxUserCounter = job[j].primary.oxUserCounter
                    /\ db'[i].priority = job[j].primary.priority /\ db'[i].status = job[j].primary.status
    <2>1. PICK d, q, n : d = db' /\ q = job'[j] /\ n = job[j].primary.oxUserCounter
      OBVIOUS
    <2>2. PICK i \in Ids : /\ i \notin Has(db) /\ Has(d) = Has(db) \cup {i} /\ (\A k \in Has(db) : d[k] = db[k])
                           /\ d[i].oxUserCounter = n
      BY <1>5, <2>1
    <2>3. IF n = NoCounter THEN \A k \in Has(db) : db[k].oxUserCounter = NoCounter
          ELSE \E k \in Has(db) : db[k].oxUserCounter = n
      BY <1>1, <2>1 DEF Numbers, NumberToInsert
    <2>4. ox # NoUser => ox.id # NoCounter
      BY DEF Numbers, Numbered, NoCounter, Typed, ExternalOK
    <2>5. ASSUME "front" \notin leftovers
          PROVE  /\ Recorded(d, ox, recorded, partial) /\ Covered(d, ldap, undi)
                 /\ Deleted(q, ox, ldap, undi, recorded, partial)
      <3>1. Recorded(db, ox, recorded, partial)
        BY <2>5 DEF Owned
      <3>2. Recorded(d, ox, recorded, partial)
        BY <2>2, <2>3, <2>4, <3>1 DEF Recorded, Forgotten
      <3>3. Covered(d, ldap, undi)
        BY <2>2 DEF Covered
      <3>4. Deleted(q, ox, ldap, undi, recorded, partial)
        BY <1>2, <2>1 DEF Deleted, DeletedSteps
      <3> QED
        BY <3>2, <3>3, <3>4
    <2>6. Owned(d, q, ox, ldap, undi, recorded, partial, leftovers)
      BY <2>5 DEF Owned
    <2> QED
      BY <1>1, <1>3, <2>1, <2>6
  <1> QED
    BY <1>4, <1>5, InsertEffect

LEMMA ToFrontOwned ==
    ASSUME Typed, NEW j \in Job, Places(db, job[j], leftovers),
           Owned(db, job[j], ox, ldap, undi, recorded, partial, leftovers), ShiftToFront(j)
    PROVE  Owned(db', job'[j], ox', ldap', undi', recorded', partial', leftovers')
  <1>1. /\ UNCHANGED <<ox, ldap, undi, recorded, partial>> /\ Has(db') = Has(db) /\ job'[j].at = "ensure"
        /\ \A i \in Has(db) : db'[i].oxUserCounter = db[i].oxUserCounter
    BY ToFrontEffect
  <1>2. leftovers' = leftovers
    BY StepKeepsLeftovers DEF Step, Set
  <1> QED
    BY <1>1, <1>2, OwnedNext DEF DeletedSteps

\* A new OX user has a number that was never saved.
LEMMA CreateOxOwned ==
    ASSUME Typed, NEW j \in Job, Numbers(db, job[j], ox, oxUsers, recorded, partial),
           Owned(db, job[j], ox, ldap, undi, recorded, partial, leftovers), NEW o \in OxCalls, CreateOxUser(j, o)
    PROVE  Owned(db', job'[j], ox', ldap', undi', recorded', partial', leftovers')
  <1>1. PICK q, x : q = job'[j] /\ x = ox'
    OBVIOUS
  <1>2. /\ UNCHANGED <<db, ldap, undi, recorded, partial>> /\ q.at \in {"fail", "saveOx"}
        /\ x = ox \/ (x # NoUser /\ x.id = oxUsers + 1)
    BY <1>1, CreateOxEffect
  <1>3. leftovers' = leftovers
    BY DEF CreateOxUser, history
  <1>4. oxUsers + 1 \notin recorded
    BY DEF Numbers, Numbered, Typed, ExternalOK
  <1>5. ASSUME "front" \notin leftovers
        PROVE  /\ Recorded(db, x, recorded, partial) /\ Covered(db, ldap, undi)
               /\ Deleted(q, x, ldap, undi, recorded, partial)
    <2>1. Recorded(db, ox, recorded, partial) /\ Covered(db, ldap, undi)
      BY <1>5 DEF Owned
    <2>2. Recorded(db, x, recorded, partial)
      BY <1>2, <1>4, <2>1 DEF Recorded, Forgotten
    <2> QED
      BY <1>2, <2>1, <2>2 DEF Deleted
  <1>6. Owned(db, q, x, ldap, undi, recorded, partial, leftovers)
    BY <1>5 DEF Owned
  <1> QED
    BY <1>1, <1>2, <1>3, <1>6

LEMMA ChangeOxOwned ==
    ASSUME Typed, NEW j \in Job, Owned(db, job[j], ox, ldap, undi, recorded, partial, leftovers),
           NEW o \in OxCalls, ChangeOxUser(j, o)
    PROVE  Owned(db', job'[j], ox', ldap', undi', recorded', partial', leftovers')
  <1>1. /\ UNCHANGED <<db, ldap, undi, recorded, partial>> /\ job'[j].at \in {"fail", "saveOx"}
        /\ ox' = NoUser \/ (ox # NoUser /\ ox'.id = ox.id)
    BY ChangeOxEffect
  <1>2. leftovers' = leftovers
    BY DEF ChangeOxUser, history
  <1> QED
    BY <1>1, <1>2, OwnedNext DEF DeletedSteps

\* The number is saved: the other rows have it already, or one of them has none.
LEMMA SaveOxOwned ==
    ASSUME Typed, NEW j \in Job, Places(db, job[j], leftovers), Numbers(db, job[j], ox, oxUsers, recorded, partial),
           Owned(db, job[j], ox, ldap, undi, recorded, partial, leftovers), SaveOx(j)
    PROVE  Owned(db', job'[j], ox', ldap', undi', recorded', partial', leftovers')
  <1>1. PICK r : /\ job[j].at = "saveOx" /\ UNCHANGED <<ox, ldap, undi>>
                 /\ r.id \in Has(db) /\ r.id = job[j].primary.id /\ r.oxUserCounter = job[j].primary.oxUserCounter
                 /\ Has(db') = Has(db) /\ db'[r.id] = r /\ \A i \in Has(db) \ {r.id} : db'[i] = db[i]
                 /\ recorded' = recorded \cup {r.oxUserCounter}
                 /\ partial' = (partial \/ \E i \in Has(db) \ {r.id} : db[i].oxUserCounter = NoCounter)
                 /\ job'[j].at = "ldap"
    BY SaveOxEffect
  <1>2. PICK d, q, rec, p : d = db' /\ q = job'[j] /\ rec = recorded' /\ p = partial'
    OBVIOUS
  <1>3. leftovers' = leftovers
    BY DEF SaveOx
  <1>4. /\ Numbered(db, ox, oxUsers, recorded, partial) /\ ox # NoUser /\ ox.id = r.oxUserCounter
        /\ ox.id # NoCounter
    BY <1>1 DEF Numbers, Numbered, NumberInUse, Typed, ExternalOK, NoCounter
  <1>5. r.oxUserCounter = db[r.id].oxUserCounter \/ db[r.id].oxUserCounter = NoCounter
    BY <1>1 DEF Numbers, NumberInUse
  <1>6. ASSUME "front" \notin leftovers
        PROVE  Recorded(d, ox, rec, p) /\ Covered(d, ldap, undi) /\ Deleted(q, ox, ldap, undi, rec, p)
    <2>1. Recorded(db, ox, recorded, partial) /\ Covered(db, ldap, undi)
      BY <1>6 DEF Owned
    <2>2. ASSUME ~p, NEW i \in Has(d) PROVE d[i].oxUserCounter = ox.id
      <3>1. CASE i = r.id
        BY <1>1, <1>2, <1>4, <3>1
      <3>2. CASE i # r.id
        <4>1. ~partial /\ i \in Has(db) /\ db[i].oxUserCounter # NoCounter /\ d[i] = db[i]
          BY <1>1, <1>2, <2>2, <3>2
        <4>2. db[r.id].oxUserCounter # NoCounter
          BY <1>1, <1>4, <4>1 DEF Numbered
        <4>3. ox.id \in recorded
          BY <1>1, <1>4, <1>5, <4>2 DEF Numbered
        <4> QED
          BY <1>4, <2>1, <4>1, <4>3 DEF Recorded, Forgotten
      <3> QED
        BY <3>1, <3>2
    <2>3. Recorded(d, ox, rec, p)
      BY <1>1, <1>2, <2>2 DEF Recorded, Forgotten
    <2>4. Covered(d, ldap, undi)
      BY <1>1, <1>2 DEF Covered
    <2>5. Deleted(q, ox, ldap, undi, rec, p)
      BY <1>1, <1>2 DEF Deleted
    <2> QED
      BY <2>3, <2>4, <2>5
  <1>7. Owned(d, q, ox, ldap, undi, rec, p, leftovers)
    BY <1>6 DEF Owned
  <1> QED
    BY <1>1, <1>2, <1>3, <1>7

LEMMA EntryOwned ==
    ASSUME Typed, NEW j \in Job, Places(db, job[j], leftovers),
           Owned(db, job[j], ox, ldap, undi, recorded, partial, leftovers), NEW o \in Calls, UpsertLdap(j, o) \/ UpsertUndi(j, o)
    PROVE  Owned(db', job'[j], ox', ldap', undi', recorded', partial', leftovers')
  <1>1. /\ UNCHANGED <<db, ox, recorded, partial>> /\ job'[j].at \in {"undi", "activate", "fail"}
        /\ job[j].at \in {"ldap", "undi"}
    <2>1. CASE UpsertLdap(j, o)
      BY <2>1, LdapEffect
    <2>2. CASE UpsertUndi(j, o)
      BY <2>2, UndiEffect
    <2> QED
      BY <2>1, <2>2
  <1>2. leftovers' = leftovers
    BY DEF UpsertLdap, UpsertUndi, history
  <1>3. Has(db') # {}
    BY <1>1 DEF Places, Setting, SettingSteps
  <1> QED
    BY <1>1, <1>2, <1>3, OwnedNext DEF DeletedSteps

\* A row that is activated keeps its number.
LEMMA ActivatedCounters ==
    ASSUME Typed, NEW j \in Job, Places(db, job[j], leftovers),
           \/ job[j].at = "activate" /\ db' = Saved({job[j].primary})
           \/ job[j].at = "activateAlternative" /\ db' = Saved({job[j].alternative})
    PROVE  Has(db') = Has(db) /\ \A i \in Has(db) : db'[i].oxUserCounter = db[i].oxUserCounter
  <1>1. PICK r : /\ r.id \in Has(db) /\ db[r.id].oxUserCounter = r.oxUserCounter
                 /\ Has(db') = Has(db) /\ db'[r.id] = r /\ \A i \in Has(db) \ {r.id} : db'[i] = db[i]
    <2>1. CASE job[j].at = "activate" /\ db' = Saved({job[j].primary})
      BY <2>1, ActivateRows
    <2>2. CASE job[j].at = "activateAlternative" /\ db' = Saved({job[j].alternative})
      BY <2>2, AlternativeRows
    <2> QED
      BY <2>1, <2>2
  <1> QED
    BY <1>1

LEMMA ActivateOwned ==
    ASSUME Typed, NEW j \in Job, Places(db, job[j], leftovers),
           Owned(db, job[j], ox, ldap, undi, recorded, partial, leftovers), Activate(j) \/ ActivateAlternative(j)
    PROVE  Owned(db', job'[j], ox', ldap', undi', recorded', partial', leftovers')
  <1>1. /\ UNCHANGED <<ox, ldap, undi, recorded, partial, leftovers>>
        /\ \/ job[j].at = "activate" /\ db' = Saved({job[j].primary})
           \/ job[j].at = "activateAlternative" /\ db' = Saved({job[j].alternative})
        /\ job'[j] = Idle \/ job'[j].at = "activateAlternative"
    BY ActivateEffect, AlternativeEffect
  <1>2. Has(db') = Has(db) /\ \A i \in Has(db) : db'[i].oxUserCounter = db[i].oxUserCounter
    BY <1>1, ActivatedCounters
  <1>3. job'[j].at \notin DeletedSteps
    BY <1>1 DEF Idle, DeletedSteps
  <1> QED
    BY <1>1, <1>2, <1>3, OwnedNext

LEMMA SetOwned ==
    ASSUME Typed, NEW j \in Job, Places(db, job[j], leftovers), Numbers(db, job[j], ox, oxUsers, recorded, partial),
           Owned(db, job[j], ox, ldap, undi, recorded, partial, leftovers), Set(j)
    PROVE  Owned(db', job'[j], ox', ldap', undi', recorded', partial', leftovers')
  BY PlainOwned, ChooseOwned, InsertOwned, ToFrontOwned, CreateOxOwned, ChangeOxOwned, SaveOxOwned, EntryOwned, ActivateOwned
     DEF Set

\* A list of rows that is not empty has a first one.
LEMMA FirstSome == ASSUME NEW rs \in SUBSET Row, rs # {} PROVE First(rs) # {}
  <1>1. PICK ps : ps = {r.priority : r \in rs}
    OBVIOUS
  <1>2. ps \subseteq Nat /\ ps # {}
    BY <1>1, RowFields
  <1>3. \E n \in ps : \A m \in ps : ~(<<m, n>> \in OpToRel(<, Nat))
    BY <1>2, NatLessThanWellFounded, WFMin, Zenon
  <1>4. PICK n \in ps : \A m \in ps : ~(m < n)
    BY <1>2, <1>3 DEF OpToRel
  <1>5. PICK r \in rs : r.priority = n
    BY <1>1, <1>4
  <1>6. ASSUME NEW s \in rs PROVE r.priority <= s.priority
    <2>1. s.priority \in ps
      BY <1>1
    <2>2. ~(s.priority < n) /\ s.priority \in Nat /\ n \in Nat
      BY <1>2, <1>4, <2>1
    <2> QED
      BY <1>5, <2>2
  <1> QED
    BY <1>5, <1>6 DEF First

\* The deletion of the OX user: the number of the rows, if there is one, is that of the user.
LEMMA DeleteOxOwned ==
    ASSUME Typed, NEW j \in Job, Places(db, job[j], leftovers), Numbers(db, job[j], ox, oxUsers, recorded, partial),
           Owned(db, job[j], ox, ldap, undi, recorded, partial, leftovers), NEW o \in Calls, DeleteOxUser(j, o)
    PROVE  Owned(db', job'[j], ox', ldap', undi', recorded', partial', leftovers')
  <1>1. /\ job[j].at = "deleteOx" /\ UNCHANGED <<db, ldap, undi, recorded, partial, leftovers>>
        /\ job[j].held \in SUBSET Row
    BY HeldFields DEF DeleteOxUser, At, store, history
  <1>2. PICK q, x, h : q = job'[j] /\ x = ox' /\ h = job[j].held
    OBVIOUS
  <1>3. /\ \A i \in Has(db) : \E r \in h : r.id = i
        /\ \A r \in h : r.id \in Has(db) /\ r.oxUserCounter = db[r.id].oxUserCounter
    BY <1>1, <1>2 DEF Places, Holding, DeleteSteps
  <1>4. /\ q.at = "deleteLdap"
        /\ \/ Counters(h) = {} /\ x = ox
           \/ \E n \in Counters(h) : /\ x = IF ox # NoUser /\ ox.id = n /\ o # "error" THEN NoUser ELSE ox
                                     /\ q.ok => o = "ok"
    <2>1. CASE Counters(h) = {} /\ Continue(j, "deleteLdap", TRUE) /\ x = ox
      BY <1>2, <2>1, ContinueTarget
    <2>2. ASSUME NEW n \in Counters(h), x = (IF ox # NoUser /\ ox.id = n /\ o # "error" THEN NoUser ELSE ox),
                 Continue(j, "deleteLdap", o = "ok")
          PROVE  q.at = "deleteLdap" /\ (q.ok => o = "ok")
      BY <1>2, <2>2, ContinueTarget
    <2>3. \/ Counters(h) = {} /\ Continue(j, "deleteLdap", TRUE) /\ x = ox
          \/ \E n \in Counters(h) : /\ x = IF ox # NoUser /\ ox.id = n /\ o # "error" THEN NoUser ELSE ox
                                    /\ Continue(j, "deleteLdap", o = "ok")
      BY <1>2 DEF DeleteOxUser
    <2> QED
      BY <2>1, <2>2, <2>3
  <1>5. ox # NoUser => ox.id # NoCounter
    BY DEF Numbers, Numbered, NoCounter, Typed, ExternalOK
  <1>6. ASSUME "front" \notin leftovers, q.ok PROVE Forgotten(x, recorded, partial)
    <2> SUFFICES ASSUME ~Forgotten(x, recorded, partial) PROVE FALSE
      OBVIOUS
    <2>1. x # NoUser /\ x = ox /\ ~Forgotten(ox, recorded, partial)
      BY <1>4 DEF Forgotten
    <2>2. Has(db) # {} /\ \A i \in Has(db) : db[i].oxUserCounter = ox.id
      BY <1>6, <2>1 DEF Owned, Recorded
    <2>3. h # {} /\ \A r \in h : r.oxUserCounter = ox.id /\ r.oxUserCounter # NoCounter
      BY <1>3, <1>5, <2>1, <2>2
    <2>4. {s \in h : s.oxUserCounter # NoCounter} = h
      BY <2>3
    <2>5. First(h) # {}
      BY <1>1, <1>2, <2>3, FirstSome
    <2>6. Counters(h) # {} /\ \A n \in Counters(h) : n = ox.id
      BY <2>3, <2>4, <2>5 DEF Counters, First
    <2>7. PICK n \in Counters(h) : /\ x = IF ox # NoUser /\ ox.id = n /\ o # "error" THEN NoUser ELSE ox
                                   /\ q.ok => o = "ok"
      BY <1>4, <2>6
    <2> QED
      BY <1>6, <2>1, <2>6, <2>7
  <1>7. ASSUME "front" \notin leftovers
        PROVE  /\ Recorded(db, x, recorded, partial) /\ Covered(db, ldap, undi)
               /\ Deleted(q, x, ldap, undi, recorded, partial)
    <2>1. Recorded(db, ox, recorded, partial) /\ Covered(db, ldap, undi)
      BY <1>7 DEF Owned
    <2>2. x = ox \/ x = NoUser
      BY <1>4
    <2>3. Recorded(db, x, recorded, partial)
      BY <2>1, <2>2 DEF Recorded, Forgotten
    <2>4. Deleted(q, x, ldap, undi, recorded, partial)
      BY <1>4, <1>6, <1>7 DEF Deleted
    <2> QED
      BY <2>1, <2>3, <2>4
  <1>8. Owned(db, q, x, ldap, undi, recorded, partial, leftovers)
    BY <1>7 DEF Owned
  <1> QED
    BY <1>1, <1>2, <1>8

LEMMA DeleteEntriesOwned ==
    ASSUME Typed, NEW j \in Job, Owned(db, job[j], ox, ldap, undi, recorded, partial, leftovers),
           NEW o \in Calls, DeleteLdapPerson(j, o) \/ DeleteUndiPerson(j, o)
    PROVE  Owned(db', job'[j], ox', ldap', undi', recorded', partial', leftovers')
  <1>1. PICK q, l, u : q = job'[j] /\ l = ldap' /\ u = undi'
    OBVIOUS
  <1>2. UNCHANGED <<db, ox, recorded, partial, leftovers>>
    BY DEF DeleteLdapPerson, DeleteUndiPerson, store, history
  <1>3. \/ /\ job[j].at = "deleteLdap" /\ q.at = "deleteUndi" /\ u = undi /\ l \in {ldap, NoUser}
           /\ q.ok => job[j].ok /\ l = NoUser
        \/ job[j].at = "deleteUndi" /\ q.at = "deleteRows" /\ l = ldap /\ u = NoUser /\ job[j].ok
        \/ job[j].at = "deleteUndi" /\ q.at = "idle" /\ l = ldap /\ u \in {undi, NoUser}
    <2>1. CASE DeleteLdapPerson(j, o)
      <3>1. q.at = "deleteUndi" /\ q.ok = (job[j].ok /\ o = "ok")
        BY <1>1, <2>1, ContinueTarget DEF DeleteLdapPerson
      <3>2. job[j].at = "deleteLdap" /\ u = undi /\ l = IF o = "error" THEN ldap ELSE NoUser
        BY <1>1, <2>1 DEF DeleteLdapPerson, At
      <3> QED
        BY <3>1, <3>2
    <2>2. CASE DeleteUndiPerson(j, o)
      <3>1. job[j].at = "deleteUndi" /\ l = ldap /\ u = IF o = "error" THEN undi ELSE NoUser
        BY <1>1, <2>2 DEF DeleteUndiPerson, At
      <3>2. CASE job[j].ok /\ o = "ok"
        BY <1>1, <2>2, <3>1, <3>2, GotoTarget DEF DeleteUndiPerson
      <3>3. CASE ~(job[j].ok /\ o = "ok")
        BY <1>1, <2>2, <3>1, <3>3, EndTarget DEF DeleteUndiPerson
      <3> QED
        BY <3>2, <3>3
    <2> QED
      BY <2>1, <2>2
  <1>4. ASSUME "front" \notin leftovers
        PROVE  Recorded(db, ox, recorded, partial) /\ Covered(db, l, u) /\ Deleted(q, ox, l, u, recorded, partial)
    <2>1. /\ Recorded(db, ox, recorded, partial) /\ Covered(db, ldap, undi)
          /\ Deleted(job[j], ox, ldap, undi, recorded, partial)
      BY <1>4 DEF Owned
    <2>2. Covered(db, l, u)
      BY <1>3, <2>1 DEF Covered
    <2>3. Deleted(q, ox, l, u, recorded, partial)
      BY <1>3, <2>1 DEF Deleted
    <2> QED
      BY <2>1, <2>2, <2>3
  <1>5. Owned(db, q, ox, l, u, recorded, partial, leftovers)
    BY <1>4 DEF Owned
  <1> QED
    BY <1>1, <1>2, <1>5

LEMMA DeleteRowsOwned ==
    ASSUME Typed, NEW j \in Job, Places(db, job[j], leftovers),
           Owned(db, job[j], ox, ldap, undi, recorded, partial, leftovers), DeleteRows(j)
    PROVE  Owned(db', job'[j], ox', ldap', undi', recorded', partial', leftovers')
  <1>1. PICK d, q : d = db' /\ q = job'[j]
    OBVIOUS
  <1>2. job[j].at = "deleteRows" /\ UNCHANGED <<ox, ldap, undi, recorded, partial, leftovers>> /\ q.at = "idle" /\ Has(d) = {}
    BY <1>1, CalmDeleteRows, EndTarget DEF DeleteRows, At, external
  <1>3. ASSUME "front" \notin leftovers
        PROVE  Recorded(d, ox, recorded, partial) /\ Covered(d, ldap, undi) /\ Deleted(q, ox, ldap, undi, recorded, partial)
    BY <1>2, <1>3 DEF Owned, Recorded, Covered, Deleted
  <1>4. Owned(d, q, ox, ldap, undi, recorded, partial, leftovers)
    BY <1>3 DEF Owned
  <1> QED
    BY <1>1, <1>2, <1>4

\* The other steps of a request to suspend or to delete.
LEMMA SuspendOwned ==
    ASSUME Typed, NEW j \in Job, Places(db, job[j], leftovers),
           Owned(db, job[j], ox, ldap, undi, recorded, partial, leftovers), Suspend(j) \/ DeleteRead(j) \/ DeleteMark(j)
    PROVE  Owned(db', job'[j], ox', ldap', undi', recorded', partial', leftovers')
  <1>1. Suspend(j) \/ Delete(j) \/ Cron(j)
    BY DEF Delete
  <1>2. /\ Calm(db') /\ UNCHANGED <<recorded, partial>> /\ (ox' = NoUser \/ (ox # NoUser /\ ox'.id = ox.id))
    BY <1>1, OtherCalm
  <1>3. leftovers' = leftovers
    BY <1>1, StepKeepsLeftovers DEF Step
  <1>4. \A i \in Has(db') : i \in Has(db) /\ db'[i].oxUserCounter = db[i].oxUserCounter
    <2>1. PICK d : d = db'
      OBVIOUS
    <2>2. \A i \in Has(d) : i \in Has(db) /\ d[i].oxUserCounter = db[i].oxUserCounter
      BY <1>2, <2>1 DEF Calm
    <2> QED
      BY <2>1, <2>2
  <1>5. job[j] \in JobSet /\ job \in [Job -> JobSet]
    BY HeldFields DEF Typed, JobOK
  <1>6. CASE SuspendSave(j) \/ DeleteMark(j)
    <2>1. Has(db') = Has(db) /\ UNCHANGED <<ldap, undi>>
      BY <1>6, CalmHeld DEF SuspendSave, DeleteMark, external
    <2>2. job'[j].at \notin DeletedSteps
      <3>1. Goto(j, "suspendOx") \/ Goto(j, "deleteOx")
        BY <1>6 DEF SuspendSave, DeleteMark
      <3>2. Goto(j, "suspendOx") => job'[j].at = "suspendOx"
        BY GotoTarget
      <3>3. Goto(j, "deleteOx") => job'[j].at = "deleteOx"
        BY GotoTarget
      <3> QED
        BY <3>1, <3>2, <3>3 DEF DeletedSteps
    <2> QED
      BY <1>2, <1>3, <1>4, <2>1, <2>2, OwnedNext
  <1>7. CASE DeleteRead(j)
    <2>1. UNCHANGED <<db, ldap, undi>>
      BY <1>7 DEF DeleteRead, store, external
    <2>2. job'[j].at \notin DeletedSteps
      <3>1. Finish(j, "ok") \/ \E h : job' = [job EXCEPT ![j].at = "deleteMark", ![j].held = h]
        BY <1>7 DEF DeleteRead
      <3>2. CASE Finish(j, "ok")
        BY <3>2, EndTarget DEF DeletedSteps
      <3>3. CASE \E h : job' = [job EXCEPT ![j].at = "deleteMark", ![j].held = h]
        BY <1>5, <3>3 DEF DeletedSteps, JobSet
      <3> QED
        BY <3>1, <3>2, <3>3
    <2> QED
      BY <1>2, <1>3, <1>4, <2>1, <2>2, OwnedNext
  <1>8. CASE Suspend(j) /\ ~SuspendSave(j)
    <2>1. UNCHANGED <<db, ldap>> /\ (undi' = undi \/ undi # NoUser)
      BY <1>8 DEF Suspend, SuspendRead, SuspendOx, SuspendUndi, store, external
    <2>2. job'[j].at \notin DeletedSteps
      BY <1>8, SuspendTargets DEF SuspendSteps, DeletedSteps
    <2> QED
      BY <1>2, <1>3, <1>4, <2>1, <2>2, OwnedNext
  <1> QED
    BY <1>6, <1>7, <1>8

\* The cron job leaves the row of the primary address.
LEMMA CronOwned ==
    ASSUME Typed, NEW j \in Job, Places(db, job[j], leftovers),
           Owned(db, job[j], ox, ldap, undi, recorded, partial, leftovers), Cron(j)
    PROVE  Owned(db', job'[j], ox', ldap', undi', recorded', partial', leftovers')
  <1>1. /\ Calm(db') /\ UNCHANGED <<recorded, partial>> /\ (ox' = NoUser \/ (ox # NoUser /\ ox'.id = ox.id))
    BY OtherCalm
  <1>2. leftovers' = leftovers
    BY StepKeepsLeftovers DEF Step
  <1>3. \A i \in Has(db') : i \in Has(db) /\ db'[i].oxUserCounter = db[i].oxUserCounter
    <2>1. PICK d : d = db'
      OBVIOUS
    <2>2. \A i \in Has(d) : i \in Has(db) /\ d[i].oxUserCounter = db[i].oxUserCounter
      BY <1>1, <2>1 DEF Calm
    <2> QED
      BY <2>1, <2>2
  <1>4. job'[j].at \notin DeletedSteps
    BY CronTargets DEF CronSteps, DeletedSteps
  <1>5. DbOK
    BY DEF Typed
  <1>6. /\ "front" \notin leftovers /\ Has(db') = {} => Has(db) = {}
        /\ UNCHANGED undi /\ (ldap' = ldap \/ ldap # NoUser)
    <2>1. CASE Purge(j)
      <3>1. UNCHANGED <<ldap, undi>> /\ job[j].at = "purge" /\ Stays(db')
        BY <2>1, CalmPurge DEF Purge, external, At
      <3>2. PICK d : d = db'
        OBVIOUS
      <3>3. ASSUME "front" \notin leftovers, Has(db) # {} PROVE Has(d) # {}
        <4>1. PICK i \in Has(db) : db[i].priority = 0
          BY <3>1, <3>3 DEF Places, FrontKept, PlacingSteps
        <4> QED
          BY <3>1, <3>2, <4>1 DEF Stays
      <3> QED
        BY <3>1, <3>2, <3>3
    <2>2. CASE CronRead(j)
      BY <2>2 DEF CronRead, store, external
    <2>3. CASE CronMark(j)
      <3>1. job[j].alternative \in Row
        BY <2>3, HeldFields DEF CronMark, At, CronSteps
      <3>2. db' = Saved({job[j].alternative}) /\ UNCHANGED <<ldap, undi>>
        BY <2>3 DEF CronMark, external
      <3> QED
        BY <1>5, <3>1, <3>2, SavedHas
    <2>4. ASSUME NEW o \in Calls, CronOx(j, o)
          PROVE  UNCHANGED <<db, ldap, undi>>
      BY <2>4 DEF CronOx, store
    <2>5. ASSUME NEW o \in Calls, CronLdap(j, o)
          PROVE  UNCHANGED <<db, undi>> /\ (ldap' = ldap \/ ldap # NoUser)
      BY <2>5 DEF CronLdap, store
    <2>6. CASE CronDelete(j)
      <3>1. /\ UNCHANGED <<ldap, undi>> /\ job[j].at = "cronDelete"
            /\ db' = IF job[j].ok THEN Without({job[j].alternative}) ELSE db
        BY <2>6 DEF CronDelete, external, At
      <3>2. PICK d, z, a : d = db' /\ z = job[j].primary /\ a = job[j].alternative
        OBVIOUS
      <3>3. /\ z.id \in Has(db) /\ db[z.id].priority = 0
            /\ a.id \in Has(db) /\ db[a.id].priority = 1
        BY <3>1, <3>2, FrontOfCron DEF CronSteps
      <3>4. z.id \in Has(d)
        BY <1>5, <3>1, <3>2, <3>3, WithoutRows DEF Has
      <3> QED
        BY <3>1, <3>2, <3>4
    <2> QED
      BY <2>1, <2>2, <2>3, <2>4, <2>5, <2>6 DEF Cron
  <1> QED
    BY <1>1, <1>2, <1>3, <1>4, <1>6, OwnedNext

LEMMA StepOwned ==
    ASSUME Typed, NEW j \in Job, Places(db, job[j], leftovers), Numbers(db, job[j], ox, oxUsers, recorded, partial),
           Owned(db, job[j], ox, ldap, undi, recorded, partial, leftovers), Step(j)
    PROVE  Owned(db', job'[j], ox', ldap', undi', recorded', partial', leftovers')
  <1>1. CASE Delete(j)
    BY <1>1, SuspendOwned, DeleteOxOwned, DeleteEntriesOwned, DeleteRowsOwned DEF Delete
  <1> QED
    BY <1>1, SetOwned, SuspendOwned, CronOwned DEF Step

Traceable == Owned(db, Current, ox, ldap, undi, recorded, partial, leftovers)

LEMMA OwnedIdle ==
    ASSUME NEW d, NEW x, NEW l, NEW u, NEW rec, NEW p, NEW c, NEW q0, Owned(d, q0, x, l, u, rec, p, c),
           NEW q, q.at \notin DeletedSteps
    PROVE  Owned(d, q, x, l, u, rec, p, c)
  BY DEF Owned, Deleted, DeletedSteps

\* An interruption deletes no row, except in the step that deletes them.
LEMMA InterruptedOwned ==
    ASSUME Typed, NEW j \in Job, Places(db, job[j], leftovers),
           Owned(db, job[j], ox, ldap, undi, recorded, partial, leftovers), db' \in Interrupted(j),
           NEW c, leftovers \cup LeftBehind(j) \subseteq c, NEW q, q.at \notin DeletedSteps
    PROVE  Owned(db', q, ox, ldap, undi, recorded, partial, c)
  <1>1. PICK d : d = db'
    OBVIOUS
  <1>2. ASSUME "front" \notin c
        PROVE  Recorded(d, ox, recorded, partial) /\ Covered(d, ldap, undi)
    <2>1. "front" \notin leftovers /\ job[j].at # "deleteRows"
      BY <1>2 DEF LeftBehind, Unfinished
    <2>2. Has(d) = Has(db) /\ \A i \in Has(db) : d[i].oxUserCounter = db[i].oxUserCounter
      <3>1. CASE job[j].at \in {"suspendSave", "deleteMark"} /\ \E part \in SUBSET job[j].held : db' = Saved(part)
        BY <1>1, <3>1, HeldPart
      <3>2. CASE \/ job[j].at = "activate" /\ db' = Saved({job[j].primary})
                 \/ job[j].at = "activateAlternative" /\ db' = Saved({job[j].alternative})
        BY <1>1, <3>2, ActivatedCounters
      <3>3. CASE db' = db
        BY <1>1, <3>3
      <3> QED
        BY <2>1, <3>1, <3>2, <3>3, InterruptedCases
    <2>3. Recorded(db, ox, recorded, partial) /\ Covered(db, ldap, undi)
      BY <2>1 DEF Owned
    <2> QED
      BY <2>2, <2>3 DEF Recorded, Covered
  <1> QED
    BY <1>1, <1>2 DEF Owned, Deleted, DeletedSteps

LEMMA TraceableNext ==
    ASSUME Serial = TRUE, Typed, Placed, Counted, Traceable, [Next]_vars
    PROVE  Traceable'
  <1>0. Idle.at \notin DeletedSteps
    BY DEF Idle, DeletedSteps
  <1>1. ASSUME NEW j \in Job, NEW kind \in Kind, NEW name, Request(j, kind, name) PROVE Traceable'
    <2>1. PICK q : q = Current' /\ q.at \in {"check", "suspendRead", "deleteRead", "purge"}
      BY <1>1, CurrentBegin
    <2>2. UNCHANGED <<db, ox, ldap, undi, recorded, partial, leftovers>>
      BY <1>1 DEF Request, store, external
    <2>3. Owned(db, q, ox, ldap, undi, recorded, partial, leftovers)
      BY <2>1, OwnedIdle DEF Traceable, DeletedSteps
    <2> QED
      BY <2>1, <2>2, <2>3 DEF Traceable
  <1>2. ASSUME NEW j \in Job, Step(j) PROVE Traceable'
    <2>1. /\ ~At(j, "idle") /\ Places(db, job[j], leftovers) /\ Alone /\ Numbers(db, job[j], ox, oxUsers, recorded, partial)
          /\ Owned(db, job[j], ox, ldap, undi, recorded, partial, leftovers)
      BY <1>2, StepWorks, CurrentJob DEF Placed, Counted, Traceable
    <2>2. PICK q : job' = [job EXCEPT ![j] = q]
      BY <1>2, <2>1, StepPlaces
    <2>3. q = job'[j] /\ Current' = IF q.at = "idle" THEN Idle ELSE q
      BY <2>1, <2>2, CurrentStep, JobIsFunction
    <2>4. Owned(db', q, ox', ldap', undi', recorded', partial', leftovers')
      BY <1>2, <2>1, <2>3, StepOwned
    <2>5. PICK d, x, l, u, rec, p, c :
             d = db' /\ x = ox' /\ l = ldap' /\ u = undi' /\ rec = recorded' /\ p = partial' /\ c = leftovers'
      OBVIOUS
    <2>6. Owned(d, IF q.at = "idle" THEN Idle ELSE q, x, l, u, rec, p, c)
      BY <1>0, <2>4, <2>5, OwnedIdle
    <2> QED
      BY <2>3, <2>5, <2>6 DEF Traceable
  <1>3. CASE NextDay \/ UNCHANGED vars
    <2>1. UNCHANGED <<db, job, ox, ldap, undi, recorded, partial, leftovers>>
      BY <1>3 DEF NextDay, vars, store, external, history
    <2> QED
      BY <2>1, CurrentUnchanged DEF Traceable
  <1>4. CASE Crash \/ \E j \in Job : Throw(j)
    <2>1. PICK j \in Job : /\ Current = job[j] /\ db' \in Interrupted(j) /\ leftovers \cup LeftBehind(j) \subseteq leftovers'
                           /\ Current'.at \in {"idle", "choose"} /\ UNCHANGED <<ox, ldap, undi, recorded, partial>>
      BY <1>4, Interruption DEF Placed
    <2>2. PICK q, c : q = Current' /\ c = leftovers' /\ q.at \notin DeletedSteps
      BY <2>1 DEF DeletedSteps
    <2>3. Owned(db', q, ox, ldap, undi, recorded, partial, c)
      BY <2>1, <2>2, InterruptedOwned DEF Placed, Traceable
    <2> QED
      BY <2>1, <2>2, <2>3 DEF Traceable
  <1> QED
    BY <1>1, <1>2, <1>3, <1>4, Nexts

LEMMA TraceableInit == ASSUME Init PROVE Traceable
  <1>1. Has(db) = {} /\ Idle.at = "idle" /\ ox = NoUser /\ ldap = NoUser /\ undi = NoUser /\ Current = Idle
    BY CurrentInit DEF Init, Has, Idle
  <1> QED
    BY <1>1 DEF Traceable, Owned, Recorded, Forgotten, Covered, Deleted

\* A person with an entry in LDAP or UNDI, or with an OX user whose number was
\* saved, has a row from which the deletion can be retried: the rows go only
\* after everything that they lead to.  That takes an address in front, so an
\* attempt that was interrupted before it had one there is excepted, and so is an
\* interrupted deletion of the rows.  The OX user may be missed if its number
\* was saved while another row had none.
THEOREM EmailNothingOrphaned == ASSUME Serial = TRUE PROVE Spec => []NothingOrphaned
  <1>1. Init => Typed /\ Placed /\ Counted /\ Traceable
    BY TypedInit, PlacedInit, CountedInit, TraceableInit
  <1>2. (Typed /\ Placed /\ Counted /\ Traceable) /\ [Next]_vars => (Typed /\ Placed /\ Counted /\ Traceable)'
    BY TypedNext, PlacedNext, CountedNext, TraceableNext
  <1>3. ASSUME Typed, Traceable PROVE NothingOrphaned
    <2>1. DbOK
      BY <1>3 DEF Typed
    <2>2. Rows = {} => Has(db) = {}
      BY <2>1, RowsHas
    <2> QED
      BY <1>3, <2>2 DEF Traceable, Owned, Recorded, Forgotten, Covered, NothingOrphaned
  <1> QED
    BY <1>1, <1>2, <1>3, PTL DEF Spec

=============================================================================
