--------------------------- MODULE AngeboteProofs ---------------------------
(***************************************************************************)
(* Proofs about Angebote for all schools, Angebote, offers and Rollen and  *)
(* any number of requests.                                                 *)
(*                                                                         *)
(* The inductive invariant says of each request that what it has read, and *)
(* what it has concluded from it, still holds, unless others have written  *)
(* the Angebot since it began (beside).                                    *)
(***************************************************************************)
EXTENDS Angebote, TLAPS

\* A request has the parameters that its next steps use.
PlanInv(j) ==
    /\ job[j].at = "idle" => job[j] = Idle
    /\ job[j].at \in {"read", "apply"} => job[j].op \in {"forRolle", "forAngebot"}
    /\ job[j].at \in {"name", "write"} => job[j].op \in {"patch", "create"}
    /\ job[j].at \in {"rollen", "strip"} => job[j].op = "patch"
    /\ job[j].at \in {"attached", "extended"} => job[j].op = "delete"
    /\ job[j].at = "drop" => job[j].op \in {"delete", "dropRolle"}
    /\ job[j].at = "save" => job[j].op = "assign"
    /\ job[j].op = "forRolle" => /\ job[j].orga \in Orga /\ job[j].rolle \in Rolle
                                 /\ \A p \in job[j].add : p[1] = job[j].rolle
    /\ job[j].op = "forAngebot" => /\ job[j].orga \in Orga /\ job[j].id \in Sp
                                   /\ \A p \in job[j].add : p[2] = job[j].id
    /\ job[j].op = "patch" => /\ job[j].id \in Sp
                              /\ job[j].base \in Angebot /\ job[j].new \in Angebot
                              /\ job[j].base.at = job[j].new.at /\ job[j].base.offer = job[j].new.offer
    /\ job[j].op = "create" => job[j].new \in Angebot
    /\ job[j].op = "delete" => job[j].id \in Sp
    /\ job[j].op \in {"assign", "dropRolle"} => job[j].rolle \in Rolle /\ job[j].row \in RolleRow

\* The Angebot is still the one that was read.
BaseInv(j) ==
    job[j].op \in {"forAngebot", "patch"} =>
        job[j].id \in job[j].beside \/ sp[job[j].id] = job[j].base

\* The version tells whether the Rolle is still the one that was read.
RowInv(j) ==
    job[j].op = "assign" =>
        \/ rolle[job[j].rolle] \in {job[j].row, NoRolle}
        \/ rolle[job[j].rolle].version > job[j].row.version

\* Rollenerweiterung.createNew is still worth something.
AddInv(j) ==
    job[j].at = "apply" =>
        \A p \in job[j].add : p[2] \in job[j].beside \/ Admits(sp[p[2]], p[1])

\* getAttachedRollenError is still worth something.
RollenInv(j) ==
    (job[j].op = "patch" /\ job[j].at \in {"strip", "write"}) =>
        \/ job[j].id \in job[j].beside
        \/ \A r \in Rolle : job[j].id \in rolle[r].sps /\ Allows(job[j].base, r) => Allows(job[j].new, r)

\* What is left of the Rollenerweiterungen will still be admitted.
StripInv(j) ==
    (job[j].op = "patch" /\ job[j].at = "write") =>
        \/ job[j].id \in job[j].beside
        \/ \A e \in erw : e.sp = job[j].id => e.sp \in raced \/ Admits(job[j].new, e.rolle)

JobInv(j) ==
    /\ PlanInv(j) /\ BaseInv(j) /\ RowInv(j)
    /\ AddInv(j) /\ RollenInv(j) /\ StripInv(j)

IInv == TypeOK /\ ErweiterungenAdmitted /\ \A j \in Job : JobInv(j)

----------------------------------------------------------------------------
(* Types                                                                   *)

LEMMA NotRows ==
    /\ NoAngebot \notin Angebot /\ NoRolle \notin RolleRow
    /\ \A r \in Rolle : ~Admits(NoAngebot, r)
  BY AngebotAssumption DEF Angebot, NoAngebot, RolleRow, NoRolle, Admits

LEMMA IdleTyped == Idle \in JobSet /\ Idle.at = "idle"
  BY AngebotAssumption DEF Idle, JobSet, At, Op, Nothing

\* The fields of a request.
LEMMA JobFields ==
    ASSUME TypeOK, NEW j \in Job
    PROVE  /\ job[j] \in JobSet
           /\ job[j].at \in At /\ job[j].op \in Op /\ job[j].orga \in Orga \cup {None}
           /\ job[j].id \in Sp \cup {None} /\ job[j].rolle \in Rolle \cup {None}
           /\ job[j].vidis \in View /\ job[j].todo \subseteq School
           /\ job[j].page \subseteq School /\ job[j].open \subseteq School
           /\ job[j].seen \in [Sp -> Angebot \cup {NoAngebot}]
           /\ job[j].check \subseteq Offering /\ job[j].ready \subseteq Offering
           /\ job[j].strip \subseteq Sp /\ job[j].drop \subseteq Sp
           /\ job[j].add \subseteq Pair /\ job[j].remove \subseteq Pair
           /\ job[j].base \in Angebot \cup {NoAngebot} /\ job[j].new \in Angebot \cup {NoAngebot}
           /\ job[j].row \in RolleRow \cup {NoRolle} /\ job[j].sps \subseteq Sp
           /\ job[j].beside \subseteq Sp
  BY DEF TypeOK, JobSet

\* What the synchronisation of a page replaces in them.
LEMMA FlushedTyped ==
    ASSUME NEW q \in JobSet, NEW R \in SUBSET Offering, NEW D \in SUBSET Sp
    PROVE  [q EXCEPT !.ready = R, !.drop = D] \in JobSet
  BY DEF JobSet

LEMMA CheckedTyped ==
    ASSUME NEW q \in JobSet, NEW C \in SUBSET Offering, NEW R \in SUBSET Offering
    PROVE  [q EXCEPT !.check = C, !.ready = R] \in JobSet
  BY DEF JobSet

LEMMA StrippedTyped ==
    ASSUME NEW q \in JobSet, NEW D \in SUBSET Sp, NEW S \in SUBSET Sp
    PROVE  [q EXCEPT !.drop = D, !.strip = S] \in JobSet
  BY DEF JobSet

LEMMA ExistingTyped ==
    ASSUME TypeOK
    PROVE  /\ Existing \subseteq Sp /\ \A s \in Existing : sp[s] \in Angebot
           /\ \A s \in Sp \ Existing : sp[s] = NoAngebot
           /\ Rollen \subseteq Rolle /\ \A r \in Rollen : rolle[r] \in RolleRow
           /\ \A o : Of(o) \subseteq Existing
  BY DEF TypeOK, Existing, Rollen, Of

LEMMA GotoTyped == ASSUME TypeOK, NEW j \in Job, NEW new \in JobSet, Goto(j, new) PROVE TypeOK'
  BY DEF TypeOK, Goto, tables, Existing

LEMMA BeginTyped == ASSUME TypeOK, NEW j \in Job, NEW new \in JobSet, Begin(j, new) PROVE TypeOK'
  <1>1. used'.requests \in 0..MaxRequests /\ used' = [used EXCEPT !.requests = used'.requests]
    BY AngebotAssumption DEF TypeOK, Begin
  <1>2. used' \in [requests : 0..MaxRequests, changes : 0..MaxChanges, crashes : 0..MaxCrashes]
    BY <1>1 DEF TypeOK
  <1> QED
    BY <1>2 DEF TypeOK, Begin, tables, Existing

LEMMA WroteTyped ==
    ASSUME TypeOK, NEW j \in Job, NEW S \in SUBSET Sp, NEW new \in JobSet, Wrote(j, S, new),
           sp' \in [Sp -> Angebot \cup {NoAngebot}], Existing' \subseteq born', born' \subseteq Sp,
           rolle' \in [Rolle -> RolleRow \cup {NoRolle}], erw' \subseteq Erweiterung
    PROVE  TypeOK'
  <1>1. \A k \in Job : [job[k] EXCEPT !.beside = @ \cup S] \in JobSet
    BY JobFields DEF JobSet
  <1>2. job' \in [Job -> JobSet]
    BY <1>1 DEF TypeOK, Wrote
  <1>3. raced' \subseteq Sp
    BY DEF TypeOK, Wrote
  <1> QED
    BY <1>2, <1>3 DEF TypeOK, Wrote

\* What a flush of a synchronisation does to the rows: D go, New are created and
\* renamed keep everything but their name.
FlushStep(j, W, D, New, renamed) ==
    /\ \A t \in D : Removable(t) /\ sp'[t] = NoAngebot
    /\ \A t \in New \ D : sp'[t] \in Angebot
    /\ \A t \in renamed \ (D \cup New) : /\ sp'[t] \in Angebot
                                       /\ sp'[t].open = sp[t].open /\ sp'[t].arten = sp[t].arten
    /\ \A t \in Sp \ (D \cup New \cup renamed) : sp'[t] = sp[t]
    /\ sp' \in [Sp -> Angebot \cup {NoAngebot}]
    /\ born' = born \cup New
    /\ Wrote(j, D \cup New \cup renamed, [job[j] EXCEPT !.ready = @ \ W, !.drop = @ \ D])
    /\ UNCHANGED <<rolle, erw>>

LEMMA FlushRows ==
    ASSUME TypeOK, NEW j \in Job, Flush(j)
    PROVE  \E W \in SUBSET Offering, D \in SUBSET Sp, New \in SUBSET (Sp \ born), renamed \in SUBSET Existing :
              \/ Goto(j, [job[j] EXCEPT !.ready = @ \ W, !.drop = @ \ D])
              \/ FlushStep(j, W, D, New, renamed)
  <1> DEFINE Creations(W) == {p \in W : SeenOf(j, p) = {}}
             Renamed(W) == Existing \cap UNION {SeenOf(j, p) : p \in W}
             After(W, D) == [job[j] EXCEPT !.ready = @ \ W, !.drop = @ \ D]
             Ids(id, W) == {id[p] : p \in Creations(W)}
  <1>1. PICK W \in SUBSET job[j].ready, D \in SUBSET job[j].drop :
           \/ /\ Flushable(Creations(W), D)
              /\ \E id \in [Creations(W) -> Sp \ born] :
                    /\ sp' = Flushed(j, id, Renamed(W), D)
                    /\ born' = born \cup Ids(id, W)
                    /\ Wrote(j, D \cup Ids(id, W) \cup Renamed(W), After(W, D))
                    /\ UNCHANGED <<rolle, erw>>
           \/ Goto(j, After(W, D))
    BY Zenon DEF Flush
  <1>2. W \in SUBSET Offering /\ D \in SUBSET Sp
    BY JobFields
  <1>3. Creations(W) \subseteq Offering /\ Renamed(W) \in SUBSET Existing
    BY <1>2
  <1>4. ASSUME NEW id \in [Creations(W) -> Sp \ born], Flushable(Creations(W), D),
               sp' = Flushed(j, id, Renamed(W), D),
               born' = born \cup Ids(id, W),
               Wrote(j, D \cup Ids(id, W) \cup Renamed(W), After(W, D)),
               UNCHANGED <<rolle, erw>>
        PROVE  FlushStep(j, W, D, Ids(id, W), Renamed(W)) /\ Ids(id, W) \in SUBSET (Sp \ born)
    <2> DEFINE G == Creations(W)
               N == Ids(id, W)
               R == Renamed(W)
    <2>1. N \in SUBSET (Sp \ born)
      OBVIOUS
    <2>2. job[j].vidis.title \in [Offer -> Title] /\ job[j].seen \in [Sp -> Angebot \cup {NoAngebot}]
      BY JobFields DEF View
    <2>3. \A p \in Offering : FromVidis(j, p) \in Angebot
      BY <2>2 DEF FromVidis, TitleOf, Angebot, Offering, Orga
    <2>4. ASSUME NEW t \in Sp, \E p \in G : id[p] = t PROVE (CHOOSE p \in G : id[p] = t) \in G
      BY <2>4
    <2>5. R \subseteq Sp /\ \A t \in R : sp[t] \in Angebot /\ job[j].seen[t].offer \in Offer
      <3>1. \A t \in R : \E p \in W : t \in SeenOf(j, p)
        OBVIOUS
      <3> QED
        BY <3>1, <1>2, ExistingTyped DEF SeenOf, Offering
    <2>6. \A t \in R : LET new == [sp[t] EXCEPT !.name = job[j].vidis.title[job[j].seen[t].offer]]
                       IN  new \in Angebot /\ new.open = sp[t].open /\ new.arten = sp[t].arten
      <3>1. ASSUME NEW a \in Angebot, NEW n \in Title
            PROVE  LET new == [a EXCEPT !.name = n]
                   IN  new \in Angebot /\ new.open = a.open /\ new.arten = a.arten
        BY ONLY <3>1 DEF Angebot
      <3>2. \A t \in R : sp[t] \in Angebot /\ job[j].vidis.title[job[j].seen[t].offer] \in Title
        BY <2>2, <2>5
      <3> QED
        BY <3>1, <3>2
    <2>7. DOMAIN id = G /\ \A t : t \in N <=> \E p \in G : id[p] = t
      OBVIOUS
    <2> DEFINE F(t) == IF t \in D THEN NoAngebot
                       ELSE IF t \in N THEN FromVidis(j, CHOOSE p \in G : id[p] = t)
                       ELSE IF t \in R THEN [sp[t] EXCEPT !.name = job[j].vidis.title[job[j].seen[t].offer]]
                       ELSE sp[t]
    <2>8. sp' = [t \in Sp |-> F(t)]
      BY <1>4, <2>7, Zenon DEF Flushed
    <2>9. \A t \in N : FromVidis(j, CHOOSE p \in G : id[p] = t) \in Angebot
      <3> SUFFICES ASSUME NEW t \in N PROVE FromVidis(j, CHOOSE p \in G : id[p] = t) \in Angebot
        OBVIOUS
      <3>1. (CHOOSE p \in G : id[p] = t) \in Offering
        BY <1>3, <2>1, <2>4, <2>7
      <3> QED
        BY <2>3, <3>1
    <2>10. \A t \in Sp : sp[t] \in Angebot \cup {NoAngebot}
      BY DEF TypeOK
    <2>11. D \subseteq Sp /\ N \subseteq Sp
      BY <1>2, <2>1
    <2>12. \A t \in D : Removable(t)
      BY <1>4 DEF Flushable
    <2> HIDE DEF G, N, R, Creations, Renamed, Ids
    <2>13. \A t \in Sp : F(t) \in Angebot \cup {NoAngebot}
      BY <2>6, <2>9, <2>10
    <2>14. \A t \in D : sp'[t] = NoAngebot
      BY <2>8, <2>11
    <2>15. \A t \in N \ D : sp'[t] \in Angebot
      BY <2>8, <2>9, <2>11
    <2>16. \A t \in R \ (D \cup N) : /\ sp'[t] \in Angebot
                                   /\ sp'[t].open = sp[t].open /\ sp'[t].arten = sp[t].arten
      <3> SUFFICES ASSUME NEW t \in R \ (D \cup N)
                   PROVE  sp'[t] = [sp[t] EXCEPT !.name = job[j].vidis.title[job[j].seen[t].offer]]
        BY <2>6
      <3> QED
        BY <2>5, <2>8
    <2>17. \A t \in Sp \ (D \cup N \cup R) : sp'[t] = sp[t]
      BY <2>8
    <2>18. sp' \in [Sp -> Angebot \cup {NoAngebot}]
      <3> HIDE DEF F
      <3> QED
        BY <2>8, <2>13
    <2>19. FlushStep(j, W, D, N, R)
      <3> HIDE DEF F
      <3> QED
        BY <1>4, <2>12, <2>14, <2>15, <2>16, <2>17, <2>18, Zenon DEF FlushStep, N, R, After
    <2> QED
      BY <2>1, <2>19 DEF N, R
  <1> HIDE DEF Creations, Renamed, Ids
  <1> QED
    BY <1>1, <1>2, <1>3, <1>4

\* Types are kept by every step.
LEMMA TypeStep == IInv /\ [Next]_vars => TypeOK'
  <1> SUFFICES ASSUME IInv, [Next]_vars PROVE TypeOK'
    OBVIOUS
  <1> USE JobFields, ExistingTyped, IdleTyped DEF IInv
  <1>1. ASSUME NEW j \in Job, Step(j) PROVE TypeOK'
    <2> USE <1>1
    <2>p. PlanInv(j)
      BY DEF JobInv
    <2>1. CASE Sync(j)
      <3>1. PICK todo \in SUBSET School : Begin(j, [Idle EXCEPT !.at = "load", !.op = "sync", !.vidis = vidis, !.todo = todo])
        BY <2>1 DEF Sync
      <3>2. [Idle EXCEPT !.at = "load", !.op = "sync", !.vidis = vidis, !.todo = todo] \in JobSet
        BY ZenonT(60) DEF JobSet, TypeOK, At, Op
      <3> QED
        BY <3>1, <3>2, BeginTyped
    <2>2. CASE LoadPage(j)
      <3> DEFINE found(P, seen, open, check, strip) ==
                     [job[j] EXCEPT !.at = "page", !.page = P, !.seen = seen,
                                    !.open = open, !.check = check, !.strip = strip]
      <3>1. PICK P \in SUBSET job[j].todo :
               \E open \in SUBSET P :
                 Goto(j, found(P, VidisAngebote(P), open,
                               UNION {Missing(job[j].vidis, VidisAngebote(P), s) : s \in P},
                               UNION {Withdrawn(job[j].vidis, VidisAngebote(P), s) : s \in P}))
        BY <2>2 DEF LoadPage
      <3>2. P \subseteq School /\ VidisAngebote(P) \in [Sp -> Angebot \cup {NoAngebot}]
        BY DEF VidisAngebote, TypeOK
      <3>3. UNION {Missing(job[j].vidis, VidisAngebote(P), s) : s \in P} \subseteq Offering
        <4>1. \A s \in P : Missing(job[j].vidis, VidisAngebote(P), s) \subseteq Offering
          BY <3>2 DEF Missing, Offered, Offering
        <4> QED
          BY <4>1
      <3>4. UNION {Withdrawn(job[j].vidis, VidisAngebote(P), s) : s \in P} \subseteq Sp
        BY DEF Withdrawn
      <3>5. \A seen \in [Sp -> Angebot \cup {NoAngebot}], open \in SUBSET School,
               check \in SUBSET Offering, strip \in SUBSET Sp : found(P, seen, open, check, strip) \in JobSet
        <4>1. job[j] \in JobSet /\ P \in SUBSET School /\ "page" \in At
          BY <3>2 DEF At
        <4> HIDE JobFields, ExistingTyped, IdleTyped
        <4> QED
          BY <4>1, ZenonT(60) DEF JobSet
      <3> HIDE DEF found
      <3> QED
        BY <3>1, <3>2, <3>3, <3>4, <3>5, GotoTyped
    <2>3. CASE CheckOffer(j) \/ CheckRename(j)
      <3>1. PICK p \in job[j].check, ready \in SUBSET Offering : Goto(j, [job[j] EXCEPT !.check = @ \ {p}, !.ready = ready])
        BY <2>3 DEF CheckOffer, CheckRename
      <3>2. [job[j] EXCEPT !.check = @ \ {p}, !.ready = ready] \in JobSet
        BY <3>1, CheckedTyped, job[j].check \ {p} \in SUBSET Offering
      <3> QED
        BY <3>1, <3>2, GotoTyped
    <2>4. CASE StripWithdrawn(j)
      <3>1. PICK S \in SUBSET job[j].strip :
               /\ erw' \subseteq erw
               /\ Wrote(j, S, [job[j] EXCEPT !.drop = @ \cup S, !.strip = @ \ S])
               /\ UNCHANGED <<sp, born, rolle>>
        <4>1. PICK s \in job[j].open :
                 LET S == {t \in job[j].strip : job[j].seen[t].at = s} IN
                 /\ erw' = erw \ OwnErweiterungen(s, S)
                 /\ Wrote(j, S, [job[j] EXCEPT !.drop = @ \cup S, !.strip = @ \ S])
          BY <2>4, Zenon DEF StripWithdrawn
        <4> DEFINE S == {t \in job[j].strip : job[j].seen[t].at = s}
        <4>2. UNCHANGED <<sp, born, rolle>> /\ S \in SUBSET job[j].strip
          BY <2>4 DEF StripWithdrawn
        <4>3. erw' \subseteq erw /\ Wrote(j, S, [job[j] EXCEPT !.drop = @ \cup S, !.strip = @ \ S])
          BY <4>1
        <4> HIDE DEF S
        <4> QED
          BY <4>2, <4>3
      <3>2. [job[j] EXCEPT !.drop = @ \cup S, !.strip = @ \ S] \in JobSet
        BY <3>1, StrippedTyped, job[j].drop \cup S \in SUBSET Sp, job[j].strip \ S \in SUBSET Sp
      <3>3. Existing' = Existing /\ S \in SUBSET Sp
        BY <3>1 DEF Existing
      <3> QED
        BY <3>1, <3>2, <3>3, WroteTyped DEF TypeOK
    <2>5. CASE Flush(j)
      <3>1. PICK W \in SUBSET Offering, D \in SUBSET Sp, New \in SUBSET (Sp \ born), renamed \in SUBSET Existing :
               \/ Goto(j, [job[j] EXCEPT !.ready = @ \ W, !.drop = @ \ D])
               \/ FlushStep(j, W, D, New, renamed)
        BY <2>5, FlushRows
      <3> DEFINE after == [job[j] EXCEPT !.ready = @ \ W, !.drop = @ \ D]
      <3>2. after \in JobSet
        BY FlushedTyped, job[j].ready \ W \in SUBSET Offering, job[j].drop \ D \in SUBSET Sp
      <3> HIDE DEF after
      <3>3. CASE Goto(j, after)
        BY <3>2, <3>3, GotoTyped
      <3>4. CASE FlushStep(j, W, D, New, renamed)
        <4>1. /\ sp' \in [Sp -> Angebot \cup {NoAngebot}] /\ born' = born \cup New
              /\ Wrote(j, D \cup New \cup renamed, after) /\ UNCHANGED <<rolle, erw>>
              /\ \A t \in Sp \ (D \cup New \cup renamed) : sp'[t] = sp[t]
              /\ \A t \in D : sp'[t] = NoAngebot
          BY <3>4 DEF FlushStep, after
        <4>2. Existing' \subseteq born'
          BY <4>1 DEF TypeOK, Existing
        <4>3. born' \subseteq Sp /\ D \cup New \cup renamed \in SUBSET Sp
          BY <4>1 DEF TypeOK
        <4>4. rolle' \in [Rolle -> RolleRow \cup {NoRolle}] /\ erw' \subseteq Erweiterung
          BY <4>1 DEF TypeOK
        <4> QED
          BY <3>2, <4>1, <4>2, <4>3, <4>4, WroteTyped
      <3> QED
        BY <3>1, <3>3, <3>4 DEF after
    <2>6. CASE StartRenames(j)
      <3>1. PICK s \in School : Goto(j, [job[j] EXCEPT !.open = @ \ {s},
                                          !.check = @ \cup Outdated(job[j].vidis, job[j].seen, s)])
        BY <2>6 DEF StartRenames
      <3>2. Outdated(job[j].vidis, job[j].seen, s) \subseteq Offering
        BY DEF Outdated, Offered, Offering
      <3>3. \A check \in SUBSET Offering : [job[j] EXCEPT !.open = @ \ {s}, !.check = @ \cup check] \in JobSet
        BY ZenonT(60) DEF JobSet
      <3> QED
        BY <3>1, <3>2, <3>3, GotoTyped
    <2>7. CASE EndPage(j)
      <3>1. [Idle EXCEPT !.at = "load", !.op = "sync", !.vidis = job[j].vidis,
                         !.todo = job[j].todo \ job[j].page, !.beside = job[j].beside] \in JobSet
        BY ZenonT(60) DEF JobSet, At, Op
      <3> QED
        BY <2>7, <3>1, GotoTyped DEF EndPage
    <2>10. CASE ForRolle(j)
      <3>1. PICK o \in Orga, r \in Rollen, c \in Change(Existing) :
               Begin(j, [Idle EXCEPT !.at = "read", !.op = "forRolle", !.orga = o, !.rolle = r, !.row = rolle[r],
                                     !.add = {r} \X c.add, !.remove = {r} \X c.remove])
        BY <2>10 DEF ForRolle
      <3>2. {r} \X c.add \subseteq Pair /\ {r} \X c.remove \subseteq Pair
        BY DEF Change, Pair
      <3>3. \A add, remove \in SUBSET Pair :
               [Idle EXCEPT !.at = "read", !.op = "forRolle", !.orga = o, !.rolle = r, !.row = rolle[r],
                            !.add = add, !.remove = remove] \in JobSet
        <4>1. /\ Idle \in JobSet /\ "read" \in At /\ "forRolle" \in Op
              /\ r \in Rolle /\ rolle[r] \in RolleRow
          BY DEF At, Op
        <4> QED
          BY <4>1, ZenonT(60) DEF JobSet
      <3> QED
        BY <3>1, <3>2, <3>3, BeginTyped
    <2>11. CASE ForAngebot(j)
      <3>1. PICK o \in Orga, s \in Existing, c \in Change(Rollen) :
               Begin(j, [Idle EXCEPT !.at = "read", !.op = "forAngebot", !.orga = o, !.id = s, !.base = sp[s],
                                     !.add = c.add \X {s}, !.remove = c.remove \X {s}])
        BY <2>11 DEF ForAngebot
      <3>2. c.add \X {s} \subseteq Pair /\ c.remove \X {s} \subseteq Pair
        BY DEF Change, Pair
      <3>3. \A add, remove \in SUBSET Pair :
               [Idle EXCEPT !.at = "read", !.op = "forAngebot", !.orga = o, !.id = s, !.base = sp[s],
                            !.add = add, !.remove = remove] \in JobSet
        <4>1. /\ Idle \in JobSet /\ "read" \in At /\ "forAngebot" \in Op
              /\ s \in Sp /\ sp[s] \in Angebot
          BY DEF At, Op
        <4> QED
          BY <4>1, ZenonT(60) DEF JobSet
      <3> QED
        BY <3>1, <3>2, <3>3, BeginTyped
    <2>12. CASE ReadForRolle(j) \/ ReadForAngebot(j)
      <3>1. PICK add \in SUBSET job[j].add, remove \in SUBSET job[j].remove :
               Goto(j, Rest([job[j] EXCEPT !.at = "apply", !.add = add, !.remove = remove]))
        BY <2>12 DEF ReadForRolle, ReadForAngebot
      <3>2. [job[j] EXCEPT !.at = "apply", !.add = add, !.remove = remove] \in JobSet
        <4>1. /\ job[j] \in JobSet /\ "apply" \in At
              /\ add \in SUBSET Pair /\ remove \in SUBSET Pair
          BY DEF At
        <4> HIDE JobFields, ExistingTyped, IdleTyped
        <4> QED
          BY <4>1 DEF JobSet
      <3> QED
        BY <3>1, <3>2, GotoTyped DEF Rest
    <2>13. CASE Add(j)
      <3>1. PICK p \in job[j].add :
               \/ /\ p[1] \in Rollen /\ p[2] \in Existing
                  /\ erw' = erw \cup {[orga |-> job[j].orga, rolle |-> p[1], sp |-> p[2]]}
                  /\ Wrote(j, {p[2]}, Rest([job[j] EXCEPT !.add = @ \ {p}]))
                  /\ UNCHANGED <<sp, born, rolle>>
               \/ Goto(j, Idle)
        BY <2>13 DEF Add
      <3>2. Rest([job[j] EXCEPT !.add = @ \ {p}]) \in JobSet
        <4>1. [job[j] EXCEPT !.add = @ \ {p}] \in JobSet
          BY DEF JobSet
        <4> QED
          BY <4>1 DEF Rest
      <3>3. job[j].orga \in Orga
        BY <2>13, <2>p DEF Add, PlanInv
      <3>4. CASE p[2] \in Existing /\ p[1] \in Rollen /\ Wrote(j, {p[2]}, Rest([job[j] EXCEPT !.add = @ \ {p}]))
                 /\ erw' = erw \cup {[orga |-> job[j].orga, rolle |-> p[1], sp |-> p[2]]} /\ UNCHANGED <<sp, born, rolle>>
        <4>1. [orga |-> job[j].orga, rolle |-> p[1], sp |-> p[2]] \in Erweiterung
          BY <3>3, <3>4 DEF Erweiterung
        <4>2. erw' \subseteq Erweiterung /\ Existing' = Existing
          BY <3>4, <4>1 DEF TypeOK, Existing
        <4> QED
          BY <3>2, <3>4, <4>2, WroteTyped DEF TypeOK
      <3> QED
        BY <3>1, <3>4, GotoTyped
    <2>14. CASE Remove(j)
      <3>1. PICK p \in job[j].remove :
               /\ erw' \subseteq erw
               /\ Wrote(j, {p[2]}, Rest([job[j] EXCEPT !.remove = @ \ {p}]))
               /\ UNCHANGED <<sp, born, rolle>>
        BY <2>14 DEF Remove
      <3>2. [job[j] EXCEPT !.remove = @ \ {p}] \in JobSet
        BY DEF JobSet
      <3>3. {p[2]} \subseteq Sp /\ Existing' = Existing
        BY <3>1 DEF Pair, Existing
      <3> QED
        BY <3>1, <3>2, <3>3, WroteTyped DEF TypeOK, Rest
    <2>15. CASE Patch(j)
      <3>1. PICK s \in Existing, n \in Name, open \in BOOLEAN, arten \in SUBSET Art :
               Begin(j, [Idle EXCEPT !.at = "name", !.op = "patch", !.id = s, !.base = sp[s],
                                     !.new = [sp[s] EXCEPT !.name = n, !.open = open, !.arten = arten]])
        BY <2>15 DEF Patch
      <3>2. [sp[s] EXCEPT !.name = n, !.open = open, !.arten = arten] \in Angebot
        BY DEF Angebot
      <3>3. [Idle EXCEPT !.at = "name", !.op = "patch", !.id = s, !.base = sp[s],
                         !.new = [sp[s] EXCEPT !.name = n, !.open = open, !.arten = arten]] \in JobSet
        BY <3>2, ZenonT(60) DEF JobSet, At, Op
      <3> QED
        BY <3>1, <3>3, BeginTyped
    <2>16. CASE Create(j)
      <3>1. PICK o \in Orga, n \in Name, open \in BOOLEAN, arten \in SUBSET Art :
               Begin(j, [Idle EXCEPT !.at = "name", !.op = "create",
                             !.new = [at |-> o, offer |-> None, name |-> n, open |-> open, arten |-> arten]])
        BY <2>16 DEF Create
      <3>2. [at |-> o, offer |-> None, name |-> n, open |-> open, arten |-> arten] \in Angebot
        BY DEF Angebot
      <3>3. [Idle EXCEPT !.at = "name", !.op = "create",
                !.new = [at |-> o, offer |-> None, name |-> n, open |-> open, arten |-> arten]] \in JobSet
        BY <3>2, ZenonT(60) DEF JobSet, At, Op
      <3> QED
        BY <3>1, <3>3, BeginTyped
    <2>17. CASE CheckName(j) \/ CheckRollen(j) \/ CheckAttached(j) \/ CheckExtended(j)
      <3>1. PICK at \in {"write", "rollen", "strip", "extended", "drop"} :
               Goto(j, Idle) \/ Goto(j, [job[j] EXCEPT !.at = at])
        BY <2>17 DEF CheckName, CheckRollen, CheckAttached, CheckExtended
      <3>2. [job[j] EXCEPT !.at = at] \in JobSet
        BY DEF JobSet, At
      <3> QED
        BY <3>1, <3>2, GotoTyped
    <2>18. CASE Strip(j)
      <3>1. [job[j] EXCEPT !.at = "write"] \in JobSet
        BY DEF JobSet, At
      <3>2. Existing' = Existing /\ erw' \subseteq erw
        BY <2>18 DEF Strip, Existing
      <3>3. job[j].id \in Sp
        BY <2>18, <2>p DEF Strip, PlanInv
      <3> QED
        BY <2>18, <3>1, <3>2, <3>3, WroteTyped DEF Strip, TypeOK
    <2>19. CASE WritePatch(j)
      <3>1. CASE Goto(j, Idle)
        BY <3>1, GotoTyped
      <3>2. CASE /\ sp[job[j].id] # NoAngebot
                 /\ sp' = [sp EXCEPT ![job[j].id] = Written(@, job[j].base, job[j].new)]
                 /\ Wrote(j, {job[j].id}, Idle)
                 /\ UNCHANGED <<born, rolle, erw>>
        <4>1. job[j].id \in Existing /\ job[j].base \in Angebot /\ job[j].new \in Angebot
          BY <2>19, <3>2, <2>p DEF WritePatch, Is, PlanInv, Existing
        <4>2. Written(sp[job[j].id], job[j].base, job[j].new) \in Angebot
          BY <4>1, ZenonT(60) DEF Written, Angebot
        <4>3. sp' \in [Sp -> Angebot \cup {NoAngebot}] /\ Existing' \subseteq Existing
          BY <3>2, <4>1, <4>2 DEF TypeOK, Existing
        <4> QED
          BY <3>2, <4>1, <4>3, WroteTyped, ZenonT(60) DEF TypeOK
      <3> QED
        BY <2>19, <3>1, <3>2 DEF WritePatch, Insertable
    <2>20. CASE WriteCreate(j)
      <3>1. PICK s \in Sp \ born :
               /\ sp' = [sp EXCEPT ![s] = job[j].new]
               /\ born' = born \cup {s}
               /\ Wrote(j, {s}, Idle)
               /\ UNCHANGED <<rolle, erw>>
        BY <2>20 DEF WriteCreate
      <3>2. sp' \in [Sp -> Angebot \cup {NoAngebot}] /\ Existing' \subseteq born' /\ born' \subseteq Sp
        BY <3>1 DEF TypeOK, Existing
      <3> QED
        BY <3>1, <3>2, WroteTyped DEF TypeOK
    <2>21. CASE Delete(j)
      <3>1. PICK s \in Existing : Begin(j, [Idle EXCEPT !.at = "attached", !.op = "delete", !.id = s])
        BY <2>21 DEF Delete
      <3>2. [Idle EXCEPT !.at = "attached", !.op = "delete", !.id = s] \in JobSet
        BY ZenonT(60) DEF JobSet, At, Op
      <3> QED
        BY <3>1, <3>2, BeginTyped
    <2>22. CASE Drop(j)
      <3>1. CASE Goto(j, Idle)
        BY <3>1, GotoTyped
      <3>2. CASE /\ sp' = [sp EXCEPT ![job[j].id] = NoAngebot]
                 /\ Wrote(j, {job[j].id}, Idle)
                 /\ UNCHANGED <<born, rolle, erw>>
        <4>1. job[j].id \in Sp
          BY <2>22, <2>p DEF Drop, Is, PlanInv
        <4>2. sp' \in [Sp -> Angebot \cup {NoAngebot}] /\ Existing' \subseteq Existing
          BY <3>2, <4>1 DEF TypeOK, Existing
        <4>3. /\ Existing' \subseteq born' /\ born' \subseteq Sp /\ {job[j].id} \subseteq Sp
              /\ rolle' \in [Rolle -> RolleRow \cup {NoRolle}] /\ erw' \subseteq Erweiterung
          BY <3>2, <4>1, <4>2 DEF TypeOK
        <4> QED
          BY <3>2, <4>2, <4>3, WroteTyped
      <3> QED
        BY <2>22, <3>1, <3>2 DEF Drop
    <2>23. CASE Assign(j)
      <3>1. PICK r \in Rollen, sps \in SUBSET Sp :
               Begin(j, [Idle EXCEPT !.at = "save", !.op = "assign", !.rolle = r, !.row = rolle[r], !.sps = sps])
        BY <2>23 DEF Assign
      <3>2. [Idle EXCEPT !.at = "save", !.op = "assign", !.rolle = r, !.row = rolle[r], !.sps = sps] \in JobSet
        BY ZenonT(60) DEF JobSet, At, Op
      <3> QED
        BY <3>1, <3>2, BeginTyped
    <2>24. CASE Save(j)
      <3> DEFINE r == job[j].rolle
                 S == (job[j].sps \ job[j].row.sps) \cup (job[j].row.sps \ job[j].sps)
      <3>1. CASE Goto(j, Idle)
        BY <3>1, GotoTyped
      <3>2. CASE /\ rolle[r].version = job[j].row.version
                 /\ rolle' = [rolle EXCEPT ![r] = [sps |-> job[j].sps, version |-> @.version + 1]]
                 /\ Wrote(j, S, Idle)
                 /\ UNCHANGED <<sp, born, erw>>
        <4>1. r \in Rolle /\ job[j].row \in RolleRow
          BY <2>24, <2>p DEF Save, PlanInv
        <4>2. [sps |-> job[j].sps, version |-> rolle[r].version + 1] \in RolleRow
          BY <3>2, <4>1 DEF RolleRow
        <4>3. rolle' \in [Rolle -> RolleRow \cup {NoRolle}] /\ Existing' = Existing /\ S \subseteq Sp
          BY <3>2, <4>1, <4>2 DEF TypeOK, Existing, RolleRow
        <4> HIDE DEF r, S
        <4> QED
          BY <3>2, <4>3, WroteTyped DEF TypeOK
      <3> QED
        BY <2>24, <3>1, <3>2 DEF Save
    <2>25. CASE DropRolle(j)
      <3>1. PICK r \in Rollen : Begin(j, [Idle EXCEPT !.at = "drop", !.op = "dropRolle", !.rolle = r, !.row = rolle[r]])
        BY <2>25 DEF DropRolle
      <3>2. [Idle EXCEPT !.at = "drop", !.op = "dropRolle", !.rolle = r, !.row = rolle[r]] \in JobSet
        BY ZenonT(60) DEF JobSet, At, Op
      <3> QED
        BY <3>1, <3>2, BeginTyped
    <2>26. CASE RemoveRolle(j)
      <3> DEFINE r == job[j].rolle
                 own == {e \in erw : e.rolle = r}
                 S == rolle[r].sps \cup {e.sp : e \in own}
      <3>1. CASE Goto(j, Idle)
        BY <3>1, GotoTyped
      <3>2. CASE /\ rolle' = [rolle EXCEPT ![r] = NoRolle]
                 /\ erw' = erw \ own
                 /\ Wrote(j, S, Idle)
                 /\ UNCHANGED <<sp, born>>
        <4>1. r \in Rolle
          BY <2>26, <2>p DEF RemoveRolle, Is, PlanInv
        <4>2. S \subseteq Sp
          BY <4>1, SMTT(30) DEF TypeOK, RolleRow, NoRolle, Erweiterung
        <4>3. rolle' \in [Rolle -> RolleRow \cup {NoRolle}] /\ Existing' = Existing /\ erw' \subseteq Erweiterung
          BY <3>2, <4>1 DEF TypeOK, Existing
        <4> HIDE DEF r, own, S
        <4> QED
          BY <3>2, <4>2, <4>3, WroteTyped DEF TypeOK
      <3> QED
        BY <2>26, <3>1, <3>2 DEF RemoveRolle
    <2> QED
      BY <2>1, <2>2, <2>3, <2>4, <2>5, <2>6, <2>7, <2>10, <2>11, <2>12, <2>13, <2>14, <2>15, <2>16,
         <2>17, <2>18, <2>19, <2>20, <2>21, <2>22, <2>23, <2>24, <2>25, <2>26 DEF Step
  <1>2. CASE VidisChanges
    <2>1. vidis' \in View
      <3> HIDE JobFields, ExistingTyped, IdleTyped
      <3>1. vidis.active \in SUBSET Offering /\ vidis.title \in [Offer -> Title] /\ vidis \in View
        BY DEF TypeOK, View
      <3>2. ASSUME NEW s \in School, NEW o \in Offer,
                   vidis' = [vidis EXCEPT !.active = IF <<s, o>> \in @ THEN @ \ {<<s, o>>} ELSE @ \cup {<<s, o>>}]
            PROVE  vidis' \in View
        <4>1. (IF <<s, o>> \in vidis.active THEN vidis.active \ {<<s, o>>} ELSE vidis.active \cup {<<s, o>>})
                 \in SUBSET Offering
          BY <3>1 DEF Offering
        <4> QED
          BY <3>1, <3>2, <4>1 DEF View
      <3>3. ASSUME NEW o \in Offer, NEW n \in Title, vidis' = [vidis EXCEPT !.title[o] = n]
            PROVE  vidis' \in View
        BY <3>1, <3>3 DEF View
      <3> QED
        BY <1>2, <3>2, <3>3 DEF VidisChanges
    <2>2. used' \in [requests : 0..MaxRequests, changes : 0..MaxChanges, crashes : 0..MaxCrashes]
      BY <1>2, AngebotAssumption DEF VidisChanges, TypeOK
    <2> QED
      BY <1>2, <2>1, <2>2 DEF VidisChanges, TypeOK, tables, Existing
  <1>3. CASE Crash
    <2>1. used' \in [requests : 0..MaxRequests, changes : 0..MaxChanges, crashes : 0..MaxCrashes]
      BY <1>3, AngebotAssumption DEF Crash, TypeOK
    <2> QED
      BY <1>3, <2>1 DEF Crash, TypeOK, tables, Existing
  <1>4. CASE UNCHANGED vars
    BY <1>4 DEF vars, tables, TypeOK, Existing
  <1> QED
    BY <1>1, <1>2, <1>3, <1>4 DEF Next

----------------------------------------------------------------------------
(* What a step does to the conclusions of the other requests               *)

LEMMA IdleKept == ASSUME NEW j \in Job, job'[j] = Idle PROVE JobInv(j)'
  BY DEF JobInv, PlanInv, BaseInv, RowInv, AddInv, RollenInv, StripInv, Idle

\* A synchronisation concludes nothing that it would not ask again.
LEMMA SyncKept ==
    ASSUME NEW j \in Job, job'[j].op = "sync", job'[j].at \in {"load", "page"}
    PROVE  JobInv(j)'
  BY DEF JobInv, PlanInv, BaseInv, RowInv, AddInv, RollenInv, StripInv

\* A step that writes nothing.
LEMMA QuietKept ==
    ASSUME IInv, NEW j \in Job, NEW new, Goto(j, new) \/ Begin(j, new)
    PROVE  /\ job'[j] = new /\ ErweiterungenAdmitted'
           /\ \A k \in Job \ {j} : JobInv(k)'
  <1>1. UNCHANGED <<sp, rolle, erw, raced>> /\ job' = [job EXCEPT ![j] = new]
    BY DEF Goto, Begin, tables
  <1>2. job'[j] = new /\ \A k \in Job \ {j} : job'[k] = job[k]
    BY <1>1 DEF IInv, TypeOK
  <1>3. ASSUME NEW k \in Job \ {j} PROVE JobInv(k)'
    BY <1>1, <1>2 DEF IInv, JobInv, PlanInv, BaseInv, RowInv, AddInv, RollenInv, StripInv
  <1> QED
    BY <1>1, <1>2, <1>3 DEF IInv, ErweiterungenAdmitted

\* A step that writes no more than it says: the others keep their conclusions
\* about everything else.
LEMMA WroteKept ==
    ASSUME IInv, TypeOK', NEW j \in Job, NEW S \in SUBSET Sp, NEW new, Wrote(j, S, new),
           \A s \in Sp \ S : sp'[s] = sp[s],
           \A e \in erw' : e \in erw \/ e.sp \in S,
           \A r \in Rolle : rolle'[r].sps \subseteq rolle[r].sps \cup S,
           \A r \in Rolle : \/ rolle'[r] \in {rolle[r], NoRolle}
                            \/ (rolle[r] # NoRolle /\ rolle'[r].version > rolle[r].version)
    PROVE  /\ job'[j] = new /\ raced' = raced \cup (S \cap job[j].beside)
           /\ \A k \in Job \ {j} : JobInv(k)'
  <1>1. job'[j] = new /\ raced' = raced \cup (S \cap job[j].beside)
    BY DEF Wrote
  <1>2. ASSUME NEW k \in Job \ {j} PROVE JobInv(k)'
    <2>1. CASE ~Busy(k)
      <3>1. job'[k] = Idle
        BY <2>1 DEF Wrote, Busy, IInv, JobInv, PlanInv
      <3> QED
        BY <3>1, IdleKept
    <2>2. CASE Busy(k)
      <3>1. job'[k] = [job[k] EXCEPT !.beside = @ \cup S]
        BY <2>2 DEF Wrote
      <3>2. job[k] \in JobSet /\ JobInv(k)
        BY JobFields DEF IInv
      <3>3. /\ job'[k].at = job[k].at /\ job'[k].op = job[k].op /\ job'[k].orga = job[k].orga
            /\ job'[k].id = job[k].id /\ job'[k].rolle = job[k].rolle /\ job'[k].add = job[k].add
            /\ job'[k].base = job[k].base /\ job'[k].new = job[k].new /\ job'[k].row = job[k].row
            /\ job'[k].beside = job[k].beside \cup S /\ job[k].at # "idle"
        BY <2>2, <3>1, <3>2 DEF JobSet, Busy
      <3>4. PlanInv(k)'
        BY <3>2, <3>3 DEF JobInv, PlanInv
      <3>5. BaseInv(k)'
        BY <3>2, <3>3 DEF JobInv, BaseInv, PlanInv
      <3>6. RowInv(k)'
        <4> SUFFICES ASSUME job[k].op = "assign" PROVE RowInv(k)'
          BY <3>3 DEF RowInv
        <4> DEFINE r == job[k].rolle
        <4>1. r \in Rolle /\ job[k].row \in RolleRow
          BY <3>2 DEF JobInv, PlanInv
        <4>3. CASE rolle'[r] = NoRolle
          BY <3>3, <4>3 DEF RowInv
        <4>4. CASE rolle'[r] = rolle[r]
          BY <3>2, <3>3, <4>4 DEF JobInv, RowInv
        <4>5. CASE rolle[r] # NoRolle /\ rolle'[r].version > rolle[r].version
          <5>1. rolle[r] = job[k].row \/ rolle[r].version > job[k].row.version
            BY <3>2, <4>5 DEF JobInv, RowInv
          <5>2. rolle[r].version \in Nat /\ rolle'[r].version \in Nat /\ job[k].row.version \in Nat
            BY <4>1 DEF IInv, TypeOK, RolleRow, NoRolle
          <5>3. rolle'[r].version > job[k].row.version
            BY <4>5, <5>1, <5>2
          <5> QED
            BY <3>3, <5>3 DEF RowInv
        <4> QED
          BY <4>1, <4>3, <4>4, <4>5
      <3>7. AddInv(k)'
        <4> SUFFICES ASSUME job[k].at = "apply", NEW p \in job[k].add
                     PROVE  p[2] \in job[k].beside \cup S \/ Admits(sp'[p[2]], p[1])
          BY <3>3 DEF AddInv, Admits, Allows
        <4>1. p[2] \in Sp
          BY JobFields DEF IInv, Pair
        <4> QED
          BY <3>2, <4>1 DEF JobInv, AddInv
      <3>8. RollenInv(k)'
        <4> SUFFICES ASSUME job[k].op = "patch", job[k].at \in {"strip", "write"}, job[k].id \notin job[k].beside \cup S,
                            NEW r \in Rolle, job[k].id \in rolle'[r].sps, Allows(job[k].base, r)
                     PROVE  Allows(job[k].new, r)
          BY <3>3 DEF RollenInv, Allows
        <4> QED
          BY <3>2 DEF JobInv, RollenInv
      <3>9. StripInv(k)'
        <4> SUFFICES ASSUME job[k].op = "patch", job[k].at = "write", job[k].id \notin job[k].beside \cup S,
                            NEW e \in erw', e.sp = job[k].id, e.sp \notin raced'
                     PROVE  Admits(job[k].new, e.rolle)
          BY <3>3 DEF StripInv, Admits, Allows
        <4> QED
          BY <1>1, <3>2 DEF JobInv, StripInv
      <3> QED
        BY <3>4, <3>5, <3>6, <3>7, <3>8, <3>9 DEF JobInv
    <2> QED
      BY <2>1, <2>2
  <1> QED
    BY <1>1, <1>2

\* The same if only Rollenerweiterungen are written.
LEMMA WroteErwKept ==
    ASSUME IInv, TypeOK', NEW j \in Job, NEW S \in SUBSET Sp, NEW new, Wrote(j, S, new),
           UNCHANGED <<sp, rolle>>, \A e \in erw' : e \in erw \/ e.sp \in S
    PROVE  /\ job'[j] = new /\ raced' = raced \cup (S \cap job[j].beside)
           /\ \A k \in Job \ {j} : JobInv(k)'
  <1>1. /\ \A s \in Sp \ S : sp'[s] = sp[s]
        /\ \A r \in Rolle : rolle'[r].sps \subseteq rolle[r].sps \cup S
        /\ \A r \in Rolle : \/ rolle'[r] \in {rolle[r], NoRolle}
                            \/ (rolle[r] # NoRolle /\ rolle'[r].version > rolle[r].version)
    OBVIOUS
  <1> QED
    BY <1>1, WroteKept

----------------------------------------------------------------------------
(* The inductive invariant                                                 *)

LEMMA AdmittedKept ==
    ASSUME IInv, raced \subseteq raced',
           \A e \in erw' : \/ e.sp \in raced'
                           \/ e \in erw /\ (Admits(sp[e.sp], e.rolle) => Admits(sp'[e.sp], e.rolle))
    PROVE  ErweiterungenAdmitted'
  BY DEF IInv, ErweiterungenAdmitted, Admits, Allows

\* The parts of JobInv about a request that is in the middle of its work.
LEMMA Conclusions ==
    ASSUME IInv, NEW j \in Job
    PROVE  PlanInv(j) /\ BaseInv(j) /\ RowInv(j) /\ AddInv(j) /\ RollenInv(j) /\ StripInv(j)
  BY DEF IInv, JobInv

\* A synchronisation.
LEMMA SyncStep ==
    ASSUME IInv, TypeOK', NEW j \in Job,
           \/ Sync(j) \/ LoadPage(j) \/ CheckOffer(j) \/ StripWithdrawn(j) \/ Flush(j)
           \/ StartRenames(j) \/ CheckRename(j) \/ EndPage(j)
    PROVE  IInv'
  <1> USE JobFields, ExistingTyped DEF IInv
  <1>p. PlanInv(j)
    BY DEF JobInv
  <1>1. CASE Sync(j)
    <2>1. PICK todo : Begin(j, [Idle EXCEPT !.at = "load", !.op = "sync", !.vidis = vidis, !.todo = todo])
      BY <1>1 DEF Sync
    <2>2. job'[j] = [Idle EXCEPT !.at = "load", !.op = "sync", !.vidis = vidis, !.todo = todo]
      BY <2>1, QuietKept
    <2>3. JobInv(j)'
      BY <2>2, SyncKept, ZenonT(60) DEF Idle
    <2> QED
      BY <2>1, <2>3, QuietKept
  <1>2. CASE LoadPage(j)
    <2>1. PICK P, seen, open, check, strip :
             Goto(j, [job[j] EXCEPT !.at = "page", !.page = P, !.seen = seen,
                                    !.open = open, !.check = check, !.strip = strip])
      BY <1>2, Zenon DEF LoadPage
    <2>2. JobInv(j)'
      <3>1. job[j] \in JobSet /\ job[j].op = "sync"
        BY <1>2 DEF LoadPage, Is
      <3>2. job'[j] = [job[j] EXCEPT !.at = "page", !.page = P, !.seen = seen,
                                     !.open = open, !.check = check, !.strip = strip]
        BY <2>1, QuietKept
      <3>3. job'[j].at = "page" /\ job'[j].op = "sync"
        BY <3>1, <3>2 DEF JobSet
      <3> QED
        BY <3>3, SyncKept
    <2> QED
      BY <2>1, <2>2, QuietKept
  <1>3. CASE CheckOffer(j) \/ CheckRename(j) \/ StartRenames(j)
    <2>1. PICK open, check, ready : Goto(j, [job[j] EXCEPT !.open = open, !.check = check, !.ready = ready])
      <3>1. CASE CheckOffer(j) \/ CheckRename(j)
        <4>1. PICK p, ready : Goto(j, [job[j] EXCEPT !.check = @ \ {p}, !.ready = ready])
          BY <3>1 DEF CheckOffer, CheckRename
        <4>2. [job[j] EXCEPT !.check = @ \ {p}, !.ready = ready]
                 = [job[j] EXCEPT !.open = @, !.check = @ \ {p}, !.ready = ready]
          BY DEF JobSet
        <4> QED
          BY <4>1, <4>2
      <3>2. CASE StartRenames(j)
        <4>1. PICK s : Goto(j, [job[j] EXCEPT !.open = @ \ {s},
                                              !.check = @ \cup Outdated(job[j].vidis, job[j].seen, s)])
          BY <3>2 DEF StartRenames
        <4> DEFINE outdated == Outdated(job[j].vidis, job[j].seen, s)
        <4>2. [job[j] EXCEPT !.open = @ \ {s}, !.check = @ \cup outdated]
                 = [job[j] EXCEPT !.open = @ \ {s}, !.check = @ \cup outdated, !.ready = @]
          <5> HIDE DEF outdated
          <5> QED
            BY DEF JobSet
        <4>3. Goto(j, [job[j] EXCEPT !.open = @ \ {s}, !.check = @ \cup outdated, !.ready = @])
          BY <4>1, <4>2
        <4> HIDE DEF outdated
        <4> QED
          BY <4>3
      <3> QED
        BY <1>3, <3>1, <3>2
    <2>2. JobInv(j)'
      <3>1. job'[j] = [job[j] EXCEPT !.open = open, !.check = check, !.ready = ready] /\ job[j] \in JobSet
        BY <2>1, QuietKept
      <3>2. job[j].at = "page" /\ job[j].op = "sync"
        BY <1>3 DEF CheckOffer, CheckRename, StartRenames, Is
      <3>3. job'[j].at = "page" /\ job'[j].op = "sync"
        BY <3>1, <3>2 DEF JobSet
      <3> QED
        BY <3>3, SyncKept
    <2> QED
      BY <2>1, <2>2, QuietKept
  <1>4. CASE StripWithdrawn(j)
    <2>1. PICK S \in SUBSET job[j].strip :
             /\ Wrote(j, S, [job[j] EXCEPT !.drop = @ \cup S, !.strip = @ \ S])
             /\ UNCHANGED <<sp, rolle>> /\ erw' \subseteq erw
      <3>1. PICK s \in job[j].open :
               LET S == {t \in job[j].strip : job[j].seen[t].at = s} IN
               /\ erw' = erw \ OwnErweiterungen(s, S)
               /\ Wrote(j, S, [job[j] EXCEPT !.drop = @ \cup S, !.strip = @ \ S])
        BY <1>4, Zenon DEF StripWithdrawn
      <3> DEFINE S == {t \in job[j].strip : job[j].seen[t].at = s}
      <3>2. UNCHANGED <<sp, rolle>> /\ S \in SUBSET job[j].strip
        BY <1>4 DEF StripWithdrawn
      <3>3. erw' \subseteq erw /\ Wrote(j, S, [job[j] EXCEPT !.drop = @ \cup S, !.strip = @ \ S])
        BY <3>1
      <3> HIDE DEF S
      <3> QED
        BY <3>2, <3>3
    <2> DEFINE new == [job[j] EXCEPT !.drop = @ \cup S, !.strip = @ \ S]
    <2>2. new.at = "page" /\ new.op = "sync"
      BY <1>4 DEF StripWithdrawn, Is, JobSet
    <2> HIDE DEF new
    <2>3. /\ job'[j] = new /\ raced \subseteq raced'
          /\ \A k \in Job \ {j} : JobInv(k)'
      <3>1. S \in SUBSET Sp /\ Wrote(j, S, new) /\ UNCHANGED <<sp, rolle>> /\ \A e \in erw' : e \in erw \/ e.sp \in S
        BY <2>1 DEF new
      <3>2. /\ job'[j] = new /\ raced' = raced \cup (S \cap job[j].beside)
            /\ \A k \in Job \ {j} : JobInv(k)'
        BY ONLY <3>1, IInv, TypeOK', j \in Job, WroteErwKept
      <3> QED
        BY ONLY <3>2
    <2>4. JobInv(j)'
      BY <2>2, <2>3, SyncKept
    <2>5. ErweiterungenAdmitted'
      BY <2>1, <2>3, AdmittedKept
    <2> QED
      BY <2>3, <2>4, <2>5
  <1>5. CASE Flush(j)
    <2>1. PICK W \in SUBSET Offering, D \in SUBSET Sp, New \in SUBSET (Sp \ born), renamed \in SUBSET Existing :
             \/ Goto(j, [job[j] EXCEPT !.ready = @ \ W, !.drop = @ \ D])
             \/ FlushStep(j, W, D, New, renamed)
      BY <1>5, FlushRows
    <2> DEFINE after == [job[j] EXCEPT !.ready = @ \ W, !.drop = @ \ D]
    <2>2. after.at = "page" /\ after.op = "sync"
      BY <1>5 DEF Flush, Is, JobSet
    <2> HIDE DEF after
    <2>3. CASE Goto(j, after)
      BY <2>2, <2>3, QuietKept, SyncKept
    <2>4. CASE FlushStep(j, W, D, New, renamed)
      <3> DEFINE S == D \cup New \cup renamed
      <3>1. /\ \A t \in D : Removable(t) /\ sp'[t] = NoAngebot
            /\ \A t \in renamed \ (D \cup New) : sp'[t].open = sp[t].open /\ sp'[t].arten = sp[t].arten
            /\ \A t \in Sp \ S : sp'[t] = sp[t]
            /\ Wrote(j, S, after) /\ UNCHANGED <<rolle, erw>>
        BY <2>4 DEF FlushStep, after
      <3>2. S \in SUBSET Sp /\ New \cap Existing = {}
        BY DEF TypeOK
      <3>3. /\ job'[j] = after /\ raced \subseteq raced'
            /\ \A k \in Job \ {j} : JobInv(k)'
        <4> HIDE DEF S
        <4>1. /\ \A e \in erw' : e \in erw \/ e.sp \in S
              /\ \A r \in Rolle : rolle'[r].sps \subseteq rolle[r].sps \cup S
              /\ \A r \in Rolle : \/ rolle'[r] \in {rolle[r], NoRolle}
                                  \/ (rolle[r] # NoRolle /\ rolle'[r].version > rolle[r].version)
          BY <3>1
        <4>2. S \in SUBSET Sp /\ Wrote(j, S, after) /\ \A s \in Sp \ S : sp'[s] = sp[s]
          BY <3>1, <3>2
        <4>3. /\ job'[j] = after /\ raced' = raced \cup (S \cap job[j].beside)
              /\ \A k \in Job \ {j} : JobInv(k)'
          BY ONLY <4>1, <4>2, IInv, TypeOK', j \in Job, WroteKept
        <4> QED
          BY ONLY <4>3
      <3>4. JobInv(j)'
        BY <2>2, <3>3, SyncKept
      <3>5. ASSUME NEW e \in erw', Admits(sp[e.sp], e.rolle) PROVE Admits(sp'[e.sp], e.rolle)
        <4>1. e \in erw /\ e.sp \in Sp /\ e.rolle \in Rolle
          BY <3>1 DEF TypeOK, Erweiterung
        <4>2. e.sp \in Existing \ New
          BY <3>2, <3>5, <4>1, NotRows
        <4>3. e.sp \notin D
          BY <3>1, <4>1 DEF Removable, Extended
        <4>4. sp'[e.sp].open = sp[e.sp].open /\ sp'[e.sp].arten = sp[e.sp].arten
          BY <3>1, <4>1, <4>2, <4>3
        <4> QED
          BY <3>5, <4>4 DEF Admits, Allows
      <3>6. ErweiterungenAdmitted'
        BY <3>1, <3>3, <3>5, AdmittedKept
      <3> QED
        BY <3>3, <3>4, <3>6
    <2> QED
      BY <2>1, <2>3, <2>4 DEF after
  <1>6. CASE EndPage(j)
    <2>1. PICK todo : \/ Goto(j, Idle)
                      \/ Goto(j, [Idle EXCEPT !.at = "load", !.op = "sync", !.vidis = job[j].vidis,
                                              !.todo = todo, !.beside = job[j].beside])
      BY <1>6 DEF EndPage
    <2>2. JobInv(j)'
      <3>1. job'[j] = Idle \/ job'[j] = [Idle EXCEPT !.at = "load", !.op = "sync", !.vidis = job[j].vidis,
                                                     !.todo = todo, !.beside = job[j].beside]
        BY <2>1, QuietKept
      <3>2. \/ job'[j] = Idle
            \/ job'[j].at = "load" /\ job'[j].op = "sync"
        BY <3>1, ZenonT(60) DEF Idle
      <3> QED
        BY <3>2, IdleKept, SyncKept
    <2> QED
      BY <2>1, <2>2, QuietKept
  <1> QED
    BY <1>1, <1>2, <1>3, <1>4, <1>5, <1>6

\* A request about Rollenerweiterungen.
LEMMA ErweiterungStep ==
    ASSUME IInv, TypeOK', NEW j \in Job,
           \/ ForRolle(j) \/ ForAngebot(j) \/ ReadForRolle(j) \/ ReadForAngebot(j)
           \/ Add(j) \/ Remove(j)
    PROVE  IInv'
  <1> USE JobFields, ExistingTyped DEF IInv
  <1>p. PlanInv(j) /\ BaseInv(j) /\ AddInv(j)
    BY Conclusions
  <1>1. CASE ForRolle(j) \/ ForAngebot(j)
    <2>1. PICK new : /\ Begin(j, new) /\ new.at = "read" /\ new.op \in {"forRolle", "forAngebot"}
                     /\ new.orga \in Orga
                     /\ new.op = "forRolle" => /\ new.rolle \in Rolle
                                                /\ \A p \in new.add : p[1] = new.rolle
                     /\ new.op = "forAngebot" => /\ new.id \in Sp /\ new.base = sp[new.id]
                                                   /\ \A p \in new.add : p[2] = new.id
      <3>1. CASE ForRolle(j)
        <4>1. PICK o \in Orga, r \in Rollen, c \in Change(Existing) :
                 Begin(j, [Idle EXCEPT !.at = "read", !.op = "forRolle", !.orga = o, !.rolle = r, !.row = rolle[r],
                                       !.add = {r} \X c.add, !.remove = {r} \X c.remove])
          BY <3>1 DEF ForRolle
        <4> DEFINE new == [Idle EXCEPT !.at = "read", !.op = "forRolle", !.orga = o, !.rolle = r, !.row = rolle[r],
                                       !.add = {r} \X c.add, !.remove = {r} \X c.remove]
        <4>2. /\ new.at = "read" /\ new.op = "forRolle" /\ new.orga \in Orga
              /\ new.rolle = r /\ new.add = {r} \X c.add
          BY DEF Idle
        <4>3. \A p \in new.add : p[1] = new.rolle
          BY <4>2
        <4>4. Begin(j, new)
          BY <4>1
        <4> HIDE DEF new
        <4> QED
          BY <4>2, <4>3, <4>4
      <3>2. CASE ForAngebot(j)
        <4>1. PICK o \in Orga, s \in Existing, c \in Change(Rollen) :
                 Begin(j, [Idle EXCEPT !.at = "read", !.op = "forAngebot", !.orga = o, !.id = s, !.base = sp[s],
                                       !.add = c.add \X {s}, !.remove = c.remove \X {s}])
          BY <3>2 DEF ForAngebot
        <4> DEFINE new == [Idle EXCEPT !.at = "read", !.op = "forAngebot", !.orga = o, !.id = s, !.base = sp[s],
                                       !.add = c.add \X {s}, !.remove = c.remove \X {s}]
        <4>2. /\ new.at = "read" /\ new.op = "forAngebot" /\ new.orga \in Orga
              /\ new.id = s /\ new.base = sp[s] /\ new.add = c.add \X {s}
          BY DEF Idle
        <4>3. \A p \in new.add : p[2] = new.id
          BY <4>2
        <4>4. Begin(j, new)
          BY <4>1
        <4> HIDE DEF new
        <4> QED
          BY <4>2, <4>3, <4>4
      <3> QED
        BY <1>1, <3>1, <3>2
    <2>2. job'[j] = new /\ sp' = sp
      BY <2>1, QuietKept DEF Begin, tables
    <2>3. JobInv(j)'
      BY <2>1, <2>2 DEF JobInv, PlanInv, BaseInv, RowInv, AddInv, RollenInv, StripInv
    <2> QED
      BY <2>1, <2>3, QuietKept
  <1>2. CASE ReadForRolle(j) \/ ReadForAngebot(j)
    <2>1. PICK add \in SUBSET job[j].add, remove \in SUBSET job[j].remove :
             /\ Goto(j, Rest([job[j] EXCEPT !.at = "apply", !.add = add, !.remove = remove]))
             /\ \A p \in add : p[2] \in job[j].beside \/ Admits(sp[p[2]], p[1])
      <3>1. CASE ReadForRolle(j)
        <4> DEFINE r == job[j].rolle
                   add == {p \in job[j].add : /\ p[2] \in Existing
                                              /\ ~Exists(job[j].orga, r, p[2])
                                              /\ Creatable(job[j].row, r, sp[p[2]], p[2])}
                   remove == {p \in job[j].remove : p[2] \in Existing}
        <4>1. Goto(j, Rest([job[j] EXCEPT !.at = "apply", !.add = add, !.remove = remove]))
          BY <3>1, Zenon DEF ReadForRolle
        <4>2. \A p \in add : p[1] = r /\ Admits(sp[p[2]], p[1])
          BY <3>1, <1>p DEF ReadForRolle, Creatable, Is, PlanInv
        <4>3. add \subseteq job[j].add /\ remove \subseteq job[j].remove
          OBVIOUS
        <4> HIDE DEF add, remove
        <4> QED
          BY <4>1, <4>2, <4>3
      <3>2. CASE ReadForAngebot(j)
        <4> DEFINE s == job[j].id
                   add == {p \in job[j].add : /\ p[1] \in Rollen
                                              /\ ~Exists(job[j].orga, p[1], s)
                                              /\ Creatable(rolle[p[1]], p[1], job[j].base, s)}
                   remove == {p \in job[j].remove : p[1] \in Rollen}
        <4>1. Goto(j, Rest([job[j] EXCEPT !.at = "apply", !.add = add, !.remove = remove]))
          BY <3>2, Zenon DEF ReadForAngebot
        <4>2. \A p \in add : p[2] = s /\ Admits(job[j].base, p[1])
          BY <3>2, <1>p DEF ReadForAngebot, Creatable, Is, PlanInv
        <4>3. add \subseteq job[j].add /\ remove \subseteq job[j].remove
          OBVIOUS
        <4>4. s \in job[j].beside \/ sp[s] = job[j].base
          BY <3>2, <1>p DEF ReadForAngebot, Is, BaseInv
        <4> HIDE DEF add, remove, s
        <4> QED
          BY <4>1, <4>2, <4>3, <4>4
      <3> QED
        BY <1>2, <3>1, <3>2
    <2> DEFINE new == [job[j] EXCEPT !.at = "apply", !.add = add, !.remove = remove]
    <2>2. /\ job[j].at = "read" /\ job[j] \in JobSet
      BY <1>2 DEF ReadForRolle, ReadForAngebot, Is
    <2>3. /\ new.at = "apply" /\ new.op = job[j].op /\ new.orga = job[j].orga /\ new.id = job[j].id
          /\ new.rolle = job[j].rolle /\ new.add = add /\ new.base = job[j].base /\ new.beside = job[j].beside
      BY <2>2 DEF JobSet
    <2> HIDE DEF new
    <2>4. (job'[j] = Idle \/ job'[j] = new) /\ UNCHANGED sp
      BY <2>1, QuietKept DEF Rest, Goto, tables, new
    <2>5. ASSUME job'[j] = new PROVE JobInv(j)'
      BY <2>1, <2>2, <2>3, <2>4, <2>5, <1>p DEF JobInv, PlanInv, BaseInv, RowInv, AddInv, RollenInv, StripInv
    <2> QED
      BY <2>1, <2>4, <2>5, QuietKept, IdleKept
  <1>3. CASE Add(j)
    <2>1. PICK p \in job[j].add :
             \/ /\ erw' = erw \cup {[orga |-> job[j].orga, rolle |-> p[1], sp |-> p[2]]}
                /\ Wrote(j, {p[2]}, Rest([job[j] EXCEPT !.add = @ \ {p}]))
                /\ UNCHANGED <<sp, born, rolle>>
             \/ Goto(j, Idle)
      BY <1>3 DEF Add
    <2> DEFINE new == [job[j] EXCEPT !.add = @ \ {p}]
    <2>2. /\ job[j].at = "apply" /\ job[j] \in JobSet /\ p[2] \in Sp
      BY <1>3 DEF Add, Pair
    <2>3. /\ new.at = "apply" /\ new.op = job[j].op /\ new.orga = job[j].orga /\ new.id = job[j].id
          /\ new.rolle = job[j].rolle /\ new.add = job[j].add \ {p} /\ new.base = job[j].base
          /\ new.beside = job[j].beside
      BY <2>2 DEF JobSet
    <2> HIDE DEF new
    <2>4. CASE Goto(j, Idle)
      BY <2>4, QuietKept, IdleKept
    <2>5. ASSUME erw' = erw \cup {[orga |-> job[j].orga, rolle |-> p[1], sp |-> p[2]]},
                 Wrote(j, {p[2]}, Rest(new)), UNCHANGED <<sp, born, rolle>>
          PROVE  IInv'
      <3>1. {p[2]} \in SUBSET Sp /\ \A e \in erw' : e \in erw \/ e.sp \in {p[2]}
        BY <2>2, <2>5
      <3>2. /\ job'[j] = Rest(new) /\ raced' = raced \cup ({p[2]} \cap job[j].beside)
            /\ \A k \in Job \ {j} : JobInv(k)'
        BY <2>5, <3>1, WroteErwKept
      <3>3. ASSUME job'[j] = new PROVE JobInv(j)'
        BY <2>2, <2>3, <2>5, <3>3, <1>p DEF JobInv, PlanInv, BaseInv, RowInv, AddInv, RollenInv, StripInv
      <3>4. JobInv(j)'
        BY <3>2, <3>3, IdleKept DEF Rest
      <3>5. p[2] \in raced' \/ Admits(sp[p[2]], p[1])
        BY <2>2, <3>2, <1>p DEF AddInv
      <3>6. ErweiterungenAdmitted'
        <4> SUFFICES ASSUME NEW e \in erw', e.sp \notin raced' PROVE Admits(sp[e.sp], e.rolle)
          BY <2>5 DEF ErweiterungenAdmitted, Admits, Allows
        <4> QED
          BY <2>5, <3>2, <3>5 DEF ErweiterungenAdmitted
      <3> QED
        BY <3>2, <3>4, <3>6
    <2> QED
      BY <2>1, <2>4, <2>5 DEF new
  <1>4. CASE Remove(j)
    <2>1. PICK p \in job[j].remove :
             /\ erw' \subseteq erw
             /\ Wrote(j, {p[2]}, Rest([job[j] EXCEPT !.remove = @ \ {p}]))
             /\ UNCHANGED <<sp, born, rolle>>
      BY <1>4 DEF Remove
    <2> DEFINE new == [job[j] EXCEPT !.remove = @ \ {p}]
    <2>2. /\ job[j].at = "apply" /\ job[j] \in JobSet /\ p[2] \in Sp
      BY <1>4 DEF Remove, Pair
    <2>3. /\ new.at = "apply" /\ new.op = job[j].op /\ new.orga = job[j].orga /\ new.id = job[j].id
          /\ new.rolle = job[j].rolle /\ new.add = job[j].add /\ new.base = job[j].base
          /\ new.beside = job[j].beside
      BY <2>2 DEF JobSet
    <2>v. Wrote(j, {p[2]}, Rest(new))
      BY <2>1
    <2> HIDE DEF new
    <2>w. /\ UNCHANGED <<sp, rolle>>
          /\ {p[2]} \in SUBSET Sp /\ \A e \in erw' : e \in erw \/ e.sp \in {p[2]}
      BY <2>1, <2>2
    <2> HIDE JobFields, ExistingTyped
    <2>4. /\ job'[j] = Rest(new) /\ raced' = raced \cup ({p[2]} \cap job[j].beside)
          /\ \A k \in Job \ {j} : JobInv(k)'
      BY <2>v, <2>w, WroteErwKept
    <2>5. ASSUME job'[j] = new PROVE JobInv(j)'
      BY <2>1, <2>2, <2>3, <2>5, <1>p DEF JobInv, PlanInv, BaseInv, RowInv, AddInv, RollenInv, StripInv
    <2>6. JobInv(j)'
      BY <2>4, <2>5, IdleKept DEF Rest
    <2>7. ErweiterungenAdmitted'
      BY <2>1, <2>4, AdmittedKept
    <2> QED
      BY <2>4, <2>6, <2>7
  <1> QED
    BY <1>1, <1>2, <1>3, <1>4

\* Without others beside it, a request writes what it means to write.
LEMMA WrittenIsNew ==
    ASSUME NEW base \in Angebot, NEW new \in Angebot
    PROVE  /\ Written(base, base, new).open = new.open
           /\ Written(base, base, new).arten = new.arten
  BY DEF Written, Angebot

\* A request by hand about an Angebot.
LEMMA PatchStep ==
    ASSUME IInv, TypeOK', NEW j \in Job,
           \/ Patch(j) \/ Create(j) \/ CheckName(j) \/ CheckRollen(j) \/ Strip(j)
           \/ WritePatch(j) \/ WriteCreate(j) \/ Delete(j) \/ CheckAttached(j) \/ CheckExtended(j) \/ Drop(j)
    PROVE  IInv'
  <1> USE JobFields, ExistingTyped DEF IInv
  <1>p. PlanInv(j) /\ BaseInv(j) /\ RollenInv(j) /\ StripInv(j)
    BY Conclusions
  <1>1. CASE Patch(j)
    <2>1. PICK s \in Existing, n \in Name, open \in BOOLEAN, arten \in SUBSET Art :
             Begin(j, [Idle EXCEPT !.at = "name", !.op = "patch", !.id = s, !.base = sp[s],
                                   !.new = [sp[s] EXCEPT !.name = n, !.open = open, !.arten = arten]])
      BY <1>1, Zenon DEF Patch
    <2> DEFINE new == [sp[s] EXCEPT !.name = n, !.open = open, !.arten = arten]
    <2>2. new \in Angebot /\ new.at = sp[s].at /\ new.offer = sp[s].offer
      BY DEF Angebot
    <2> HIDE DEF new
    <2>3. /\ job'[j].at = "name" /\ job'[j].op = "patch" /\ job'[j].id = s
          /\ job'[j].base = sp[s] /\ job'[j].new = new /\ sp' = sp
      <3>1. job'[j] = [Idle EXCEPT !.at = "name", !.op = "patch", !.id = s, !.base = sp[s], !.new = new]
        BY <2>1, QuietKept DEF new
      <3>2. sp' = sp
        BY <2>1 DEF Begin, tables
      <3>3. /\ job'[j].at = "name" /\ job'[j].op = "patch" /\ job'[j].id = s
            /\ job'[j].base = sp[s] /\ job'[j].new = new
        BY <3>1 DEF Idle
      <3> QED
        BY <3>2, <3>3
    <2>4. JobInv(j)'
      BY <2>2, <2>3 DEF JobInv, PlanInv, BaseInv, RowInv, AddInv, RollenInv, StripInv
    <2> QED
      BY <2>1, <2>4, QuietKept
  <1>2. CASE Create(j)
    <2>1. PICK new \in Angebot : Begin(j, [Idle EXCEPT !.at = "name", !.op = "create", !.new = new])
      <3>1. PICK o \in Orga, n \in Name, open \in BOOLEAN, arten \in SUBSET Art :
               Begin(j, [Idle EXCEPT !.at = "name", !.op = "create",
                                     !.new = [at |-> o, offer |-> None, name |-> n, open |-> open, arten |-> arten]])
        BY <1>2, Zenon DEF Create
      <3> DEFINE new == [at |-> o, offer |-> None, name |-> n, open |-> open, arten |-> arten]
      <3>2. new \in Angebot
        BY DEF Angebot
      <3>3. Begin(j, [Idle EXCEPT !.at = "name", !.op = "create", !.new = new])
        BY <3>1
      <3> HIDE DEF new
      <3> QED
        BY <3>2, <3>3, Zenon
    <2>2. job'[j].at = "name" /\ job'[j].op = "create" /\ job'[j].new = new
      <3>1. job'[j] = [Idle EXCEPT !.at = "name", !.op = "create", !.new = new]
        BY <2>1, QuietKept
      <3> QED
        BY <3>1 DEF Idle
    <2>3. JobInv(j)'
      BY <2>2 DEF JobInv, PlanInv, BaseInv, RowInv, AddInv, RollenInv, StripInv
    <2> QED
      BY <2>1, <2>3, QuietKept
  <1>3. CASE CheckName(j) \/ CheckRollen(j)
    <2>1. PICK at : /\ Goto(j, Idle) \/ Goto(j, [job[j] EXCEPT !.at = at])
                    /\ \/ job[j].op = "create" /\ at = "write"
                       \/ job[j].op = "patch" /\ at = "rollen"
                       \/ /\ job[j].op = "patch" /\ at = "strip"
                          /\ \A r \in Rolle : job[j].id \in rolle[r].sps /\ Allows(job[j].base, r)
                                                => Allows(job[j].new, r)
      <3>1. CASE CheckRollen(j)
        BY <1>3, <3>1, <1>p DEF CheckRollen, Conflicts, PlanInv
      <3>2. CASE CheckName(j)
        <4>1. job[j].at = "name" /\ job[j].op \in {"patch", "create"}
          BY <3>2, <1>p DEF CheckName, PlanInv
        <4>2. \/ Goto(j, Idle)
              \/ job[j].op = "create" /\ Goto(j, [job[j] EXCEPT !.at = "write"])
              \/ job[j].op = "patch" /\ Narrows(j) /\ Goto(j, [job[j] EXCEPT !.at = "rollen"])
              \/ job[j].op = "patch" /\ ~Narrows(j) /\ Goto(j, [job[j] EXCEPT !.at = "strip"])
          BY <3>2, <4>1 DEF CheckName
        <4>3. ~Narrows(j) => \A r \in Rolle : Allows(job[j].base, r) => Allows(job[j].new, r)
          BY DEF Narrows, Allows
        <4>4. CASE job[j].op = "create"
          BY <4>2, <4>4
        <4>5. CASE job[j].op = "patch"
          BY <4>2, <4>3, <4>5
        <4> QED
          BY <4>1, <4>4, <4>5
      <3> QED
        BY <1>3, <3>1, <3>2
    <2>2. UNCHANGED <<sp, rolle>> /\ job[j] \in JobSet /\ (job'[j] = Idle \/ job'[j] = [job[j] EXCEPT !.at = at])
      BY <2>1, QuietKept DEF Goto, tables
    <2>3. ASSUME job'[j] = [job[j] EXCEPT !.at = at] PROVE JobInv(j)'
      <3>1. /\ job'[j].at = at /\ job'[j].op = job[j].op /\ job'[j].id = job[j].id
            /\ job'[j].base = job[j].base /\ job'[j].new = job[j].new /\ job'[j].beside = job[j].beside
        BY <2>2, <2>3 DEF JobSet
      <3>2. PlanInv(j)' /\ BaseInv(j)' /\ RowInv(j)' /\ AddInv(j)' /\ StripInv(j)'
        BY <2>1, <2>2, <3>1, <1>p DEF PlanInv, BaseInv, RowInv, AddInv, StripInv
      <3>3. RollenInv(j)'
        BY <2>1, <2>2, <3>1 DEF RollenInv, Allows
      <3> QED
        BY <3>2, <3>3 DEF JobInv
    <2> QED
      BY <2>1, <2>2, <2>3, QuietKept, IdleKept
  <1>4. CASE Strip(j)
    <2>1. /\ job[j].at = "strip" /\ erw' = erw \ Spoilt(j) /\ job[j] \in JobSet
          /\ Wrote(j, {job[j].id}, [job[j] EXCEPT !.at = "write"])
          /\ UNCHANGED <<sp, rolle>> /\ job[j].op = "patch"
      BY <1>4, <1>p DEF Strip, PlanInv
    <2>i. /\ job[j].id \in Sp /\ job[j].base \in Angebot /\ job[j].new \in Angebot
          /\ job[j].base.at = job[j].new.at /\ job[j].base.offer = job[j].new.offer
      BY <2>1, <1>p DEF PlanInv
    <2>w. {job[j].id} \in SUBSET Sp /\ \A e \in erw' : e \in erw \/ e.sp \in {job[j].id}
      BY <2>1, <2>i
    <2>2. /\ job'[j] = [job[j] EXCEPT !.at = "write"] /\ raced \subseteq raced'
          /\ \A k \in Job \ {j} : JobInv(k)'
      <3> DEFINE new == [job[j] EXCEPT !.at = "write"]
      <3>1. Wrote(j, {job[j].id}, new) /\ UNCHANGED <<sp, rolle>>
        BY <2>1
      <3> HIDE DEF new
      <3> HIDE JobFields, ExistingTyped
      <3>2. /\ job'[j] = new /\ raced' = raced \cup ({job[j].id} \cap job[j].beside)
            /\ \A k \in Job \ {j} : JobInv(k)'
        BY <2>w, <3>1, WroteErwKept
      <3> QED
        BY <3>2 DEF new
    <2>3. /\ job'[j].at = "write" /\ job'[j].op = "patch" /\ job'[j].id = job[j].id
          /\ job'[j].base = job[j].base /\ job'[j].new = job[j].new /\ job'[j].beside = job[j].beside
      BY <2>1, <2>2 DEF JobSet
    <2>4. PlanInv(j)' /\ BaseInv(j)' /\ RowInv(j)' /\ AddInv(j)' /\ RollenInv(j)'
      <3>1. PlanInv(j)'
        BY <2>i, <2>3 DEF PlanInv
      <3>2. BaseInv(j)' /\ RowInv(j)' /\ AddInv(j)'
        BY <2>1, <2>3, <1>p DEF BaseInv, RowInv, AddInv
      <3>3. RollenInv(j)'
        BY <2>1, <2>3, <1>p DEF RollenInv, Allows
      <3> QED
        BY <3>1, <3>2, <3>3
    <2>5. ErweiterungenAdmitted'
      BY <2>1, <2>2, AdmittedKept
    <2>6. ASSUME job[j].id \notin job[j].beside, NEW e \in erw', e.sp = job[j].id, e.sp \notin raced'
          PROVE  Admits(job[j].new, e.rolle)
      <3>1. e \in erw /\ e \notin Spoilt(j) /\ e.rolle \in Rolle
        BY <2>1, <2>6 DEF TypeOK, Erweiterung
      <3>2. Admits(job[j].base, e.rolle)
        BY <2>1, <2>2, <2>6, <3>1, <1>p DEF BaseInv, ErweiterungenAdmitted
      <3>3. job[j].new.open
        BY <2>6, <2>i, <3>1, <3>2 DEF Spoilt, Admits, Angebot
      <3>4. Allows(job[j].new, e.rolle)
        <4>1. CASE Narrows(j)
          BY <2>6, <3>1, <3>2, <3>3, <4>1 DEF Spoilt
        <4>2. CASE ~Narrows(j)
          BY <3>2, <4>2 DEF Narrows, Admits, Allows
        <4> QED
          BY <4>1, <4>2
      <3> QED
        BY <3>3, <3>4 DEF Admits
    <2>7. StripInv(j)'
      <3> SUFFICES ASSUME job[j].id \notin job[j].beside, NEW e \in erw', e.sp = job[j].id, e.sp \notin raced'
                   PROVE  Admits(job[j].new, e.rolle)
        BY <2>3 DEF StripInv, Admits, Allows
      <3> QED
        BY <2>6
    <2> QED
      BY <2>2, <2>4, <2>5, <2>7 DEF JobInv
  <1>5. CASE WritePatch(j)
    <2> DEFINE s == job[j].id
    <2>1. job[j].at = "write" /\ job[j].op = "patch" /\ s \in Sp /\ job[j].base \in Angebot /\ job[j].new \in Angebot
      BY <1>5, <1>p DEF WritePatch, Is, PlanInv
    <2>2. CASE Goto(j, Idle)
      BY <2>2, QuietKept, IdleKept
    <2>3. ASSUME sp' = [sp EXCEPT ![s] = Written(@, job[j].base, job[j].new)],
                 Wrote(j, {s}, Idle), UNCHANGED <<born, rolle, erw>>
          PROVE  IInv'
      <3>0. {s} \in SUBSET Sp
        BY <2>1
      <3>1. /\ job'[j] = Idle /\ raced' = raced \cup ({s} \cap job[j].beside)
            /\ \A k \in Job \ {j} : JobInv(k)'
        <4>1. /\ \A t \in Sp \ {s} : sp'[t] = sp[t]
              /\ \A e \in erw' : e \in erw \/ e.sp \in {s}
              /\ \A r \in Rolle : rolle'[r].sps \subseteq rolle[r].sps \cup {s}
              /\ \A r \in Rolle : \/ rolle'[r] \in {rolle[r], NoRolle}
                                   \/ (rolle[r] # NoRolle /\ rolle'[r].version > rolle[r].version)
          BY <2>3 DEF TypeOK
        <4> HIDE DEF s
        <4> HIDE JobFields, ExistingTyped
        <4> QED
          BY <2>3, <3>0, <4>1, WroteKept
      <3>2. ErweiterungenAdmitted'
        <4> SUFFICES ASSUME NEW e \in erw', e.sp \notin raced' PROVE Admits(sp'[e.sp], e.rolle)
          BY DEF ErweiterungenAdmitted, Admits, Allows
        <4>1. e \in erw /\ e.sp \in Sp /\ e.rolle \in Rolle /\ e.sp \notin raced
          BY <2>3, <3>1 DEF TypeOK, Erweiterung
        <4>2. CASE e.sp # s
          BY <2>3, <4>1, <4>2 DEF ErweiterungenAdmitted, TypeOK
        <4>3. CASE e.sp = s
          <5>1. s \notin job[j].beside
            BY <3>1, <4>3
          <5>2. sp[s] = job[j].base /\ Admits(job[j].new, e.rolle)
            BY <2>1, <4>1, <4>3, <5>1, <1>p DEF BaseInv, StripInv
          <5>3. sp'[s].open = job[j].new.open /\ sp'[s].arten = job[j].new.arten
            BY <2>1, <2>3, <5>2, WrittenIsNew DEF TypeOK
          <5> QED
            BY <4>3, <5>2, <5>3 DEF Admits, Allows
        <4> QED
          BY <4>2, <4>3
      <3> QED
        BY <3>1, <3>2, IdleKept
    <2> QED
      BY <1>5, <2>2, <2>3 DEF WritePatch
  <1>6. CASE WriteCreate(j)
    <2>1. PICK s \in Sp \ born : /\ sp' = [sp EXCEPT ![s] = job[j].new] /\ Wrote(j, {s}, Idle)
                                 /\ UNCHANGED <<rolle, erw>>
      BY <1>6 DEF WriteCreate
    <2>2. /\ job'[j] = Idle /\ raced \subseteq raced'
          /\ \A k \in Job \ {j} : JobInv(k)'
      <3>1. /\ {s} \in SUBSET Sp /\ \A t \in Sp \ {s} : sp'[t] = sp[t]
            /\ \A e \in erw' : e \in erw \/ e.sp \in {s}
            /\ \A r \in Rolle : rolle'[r].sps \subseteq rolle[r].sps \cup {s}
            /\ \A r \in Rolle : \/ rolle'[r] \in {rolle[r], NoRolle}
                                 \/ (rolle[r] # NoRolle /\ rolle'[r].version > rolle[r].version)
        BY <2>1 DEF TypeOK
      <3> HIDE JobFields, ExistingTyped
      <3>2. /\ job'[j] = Idle /\ raced' = raced \cup ({s} \cap job[j].beside)
            /\ \A k \in Job \ {j} : JobInv(k)'
        BY <2>1, <3>1, WroteKept
      <3> QED
        BY <3>2
    <2>3. ASSUME NEW e \in erw', Admits(sp[e.sp], e.rolle) PROVE Admits(sp'[e.sp], e.rolle)
      <3>1. e.sp \in Sp /\ e.rolle \in Rolle
        BY <2>1 DEF TypeOK, Erweiterung
      <3>2. e.sp \in Existing /\ e.sp # s
        BY <2>3, <3>1, NotRows DEF TypeOK
      <3> QED
        BY <2>1, <2>3, <3>1, <3>2 DEF TypeOK
    <2>4. ErweiterungenAdmitted'
      BY <2>1, <2>2, <2>3, AdmittedKept
    <2> QED
      BY <2>2, <2>4, IdleKept
  <1>7. CASE Delete(j)
    <2>1. PICK s \in Existing : Begin(j, [Idle EXCEPT !.at = "attached", !.op = "delete", !.id = s])
      BY <1>7, Zenon DEF Delete
    <2>2. job'[j].at = "attached" /\ job'[j].op = "delete" /\ job'[j].id = s
      <3>1. job'[j] = [Idle EXCEPT !.at = "attached", !.op = "delete", !.id = s]
        BY <2>1, QuietKept
      <3> QED
        BY <3>1 DEF Idle
    <2>3. JobInv(j)'
      BY <2>2 DEF JobInv, PlanInv, BaseInv, RowInv, AddInv, RollenInv, StripInv
    <2> QED
      BY <2>1, <2>3, QuietKept
  <1>8. CASE CheckAttached(j) \/ CheckExtended(j)
    <2>1. PICK at \in {"extended", "drop"} : Goto(j, [job[j] EXCEPT !.at = at]) \/ Goto(j, Idle)
      BY <1>8 DEF CheckAttached, CheckExtended
    <2>2. job[j].op = "delete" /\ job[j].id \in Sp /\ job[j] \in JobSet
      BY <1>8, <1>p DEF CheckAttached, CheckExtended, PlanInv
    <2>3. job'[j] = [job[j] EXCEPT !.at = at] \/ job'[j] = Idle
      BY <2>1, QuietKept
    <2>4. ASSUME job'[j] = [job[j] EXCEPT !.at = at] PROVE JobInv(j)'
      <3>1. job'[j].at = at /\ job'[j].op = "delete" /\ job'[j].id \in Sp
        BY <2>2, <2>4 DEF JobSet
      <3> QED
        BY <3>1 DEF JobInv, PlanInv, BaseInv, RowInv, AddInv, RollenInv, StripInv
    <2> QED
      BY <2>1, <2>3, <2>4, QuietKept, IdleKept
  <1>9. CASE Drop(j)
    <2> DEFINE s == job[j].id
    <2>1. s \in Sp
      BY <1>9, <1>p DEF Drop, Is, PlanInv
    <2>2. CASE Goto(j, Idle)
      BY <2>2, QuietKept, IdleKept
    <2>3. ASSUME Removable(s), sp' = [sp EXCEPT ![s] = NoAngebot], Wrote(j, {s}, Idle), UNCHANGED <<born, rolle, erw>>
          PROVE  IInv'
      <3>1. /\ job'[j] = Idle /\ raced \subseteq raced'
            /\ \A k \in Job \ {j} : JobInv(k)'
        <4>1. /\ {s} \in SUBSET Sp /\ \A t \in Sp \ {s} : sp'[t] = sp[t]
              /\ \A e \in erw' : e \in erw \/ e.sp \in {s}
              /\ \A r \in Rolle : rolle'[r].sps \subseteq rolle[r].sps \cup {s}
              /\ \A r \in Rolle : \/ rolle'[r] \in {rolle[r], NoRolle}
                                   \/ (rolle[r] # NoRolle /\ rolle'[r].version > rolle[r].version)
          BY <2>1, <2>3 DEF TypeOK
        <4> HIDE DEF s
        <4> HIDE JobFields, ExistingTyped
        <4>2. /\ job'[j] = Idle /\ raced' = raced \cup ({s} \cap job[j].beside)
              /\ \A k \in Job \ {j} : JobInv(k)'
          BY <2>3, <4>1, WroteKept
        <4> QED
          BY <4>2
      <3>2. ASSUME NEW e \in erw' PROVE sp'[e.sp] = sp[e.sp]
        BY <2>3, <3>2 DEF Removable, Extended, TypeOK, Erweiterung
      <3>3. ErweiterungenAdmitted'
        BY <2>3, <3>1, <3>2, AdmittedKept DEF Admits, Allows
      <3> QED
        BY <3>1, <3>3, IdleKept
    <2> QED
      BY <1>9, <2>2, <2>3 DEF Drop
  <1> QED
    BY <1>1, <1>2, <1>3, <1>4, <1>5, <1>6, <1>7, <1>8, <1>9

\* A request about a Rolle.
LEMMA RolleStep ==
    ASSUME IInv, TypeOK', NEW j \in Job, Assign(j) \/ Save(j) \/ DropRolle(j) \/ RemoveRolle(j)
    PROVE  IInv'
  <1> USE JobFields, ExistingTyped DEF IInv
  <1>p. PlanInv(j) /\ RowInv(j)
    BY Conclusions
  <1>1. CASE Assign(j) \/ DropRolle(j)
    <2>1. PICK r \in Rollen : \E new : /\ Begin(j, new) /\ new.rolle = r /\ new.row = rolle[r]
                                       /\ \/ new.at = "save" /\ new.op = "assign"
                                          \/ new.at = "drop" /\ new.op = "dropRolle"
      <3>1. CASE Assign(j)
        <4>0. PICK r \in Rollen : \E sps \in SUBSET (Of(RolleAt[r]) \cup Of(Land)) :
                 Begin(j, [Idle EXCEPT !.at = "save", !.op = "assign", !.rolle = r, !.row = rolle[r], !.sps = sps])
          BY <3>1, Zenon DEF Assign
        <4>1. PICK sps \in SUBSET (Of(RolleAt[r]) \cup Of(Land)) :
                 Begin(j, [Idle EXCEPT !.at = "save", !.op = "assign", !.rolle = r, !.row = rolle[r], !.sps = sps])
          BY <4>0, Zenon
        <4> DEFINE new == [Idle EXCEPT !.at = "save", !.op = "assign", !.rolle = r, !.row = rolle[r], !.sps = sps]
        <4>2. new.at = "save" /\ new.op = "assign" /\ new.rolle = r /\ new.row = rolle[r]
          BY DEF Idle
        <4>3. Begin(j, new)
          BY <4>1
        <4> HIDE DEF new
        <4> QED
          BY <4>2, <4>3, Zenon
      <3>2. CASE DropRolle(j)
        <4>1. PICK r \in Rollen :
                 Begin(j, [Idle EXCEPT !.at = "drop", !.op = "dropRolle", !.rolle = r, !.row = rolle[r]])
          BY <3>2, Zenon DEF DropRolle
        <4> DEFINE new == [Idle EXCEPT !.at = "drop", !.op = "dropRolle", !.rolle = r, !.row = rolle[r]]
        <4>2. new.at = "drop" /\ new.op = "dropRolle" /\ new.rolle = r /\ new.row = rolle[r]
          BY DEF Idle
        <4>3. Begin(j, new)
          BY <4>1
        <4> HIDE DEF new
        <4> QED
          BY <4>2, <4>3, Zenon
      <3> QED
        BY <1>1, <3>1, <3>2
    <2>v. PICK new : /\ Begin(j, new) /\ new.rolle = r /\ new.row = rolle[r]
                     /\ \/ new.at = "save" /\ new.op = "assign"
                        \/ new.at = "drop" /\ new.op = "dropRolle"
      BY <2>1
    <2>2. job'[j] = new /\ rolle' = rolle
      BY <2>v, QuietKept DEF Begin, tables
    <2>3. /\ job'[j].rolle = r /\ job'[j].row = rolle[r] /\ r \in Rolle /\ rolle[r] \in RolleRow
          /\ \/ job'[j].at = "save" /\ job'[j].op = "assign"
             \/ job'[j].at = "drop" /\ job'[j].op = "dropRolle"
      BY <2>v, <2>2
    <2>4. JobInv(j)'
      BY <2>2, <2>3 DEF JobInv, PlanInv, BaseInv, RowInv, AddInv, RollenInv, StripInv
    <2> QED
      BY <2>v, <2>4, QuietKept
  <1>2. CASE Save(j)
    <2> DEFINE r == job[j].rolle
               S == (job[j].sps \ job[j].row.sps) \cup (job[j].row.sps \ job[j].sps)
    <2>1. r \in Rolle /\ job[j].row \in RolleRow /\ job[j].sps \subseteq Sp /\ job[j].op = "assign"
      BY <1>2, <1>p DEF Save, PlanInv
    <2>2. CASE Goto(j, Idle)
      BY <2>2, QuietKept, IdleKept
    <2>3. ASSUME rolle[r].version = job[j].row.version,
                 rolle' = [rolle EXCEPT ![r] = [sps |-> job[j].sps, version |-> @.version + 1]],
                 Wrote(j, S, Idle), UNCHANGED <<sp, born, erw>>
          PROVE  IInv'
      <3>1. rolle[r] = job[j].row
        BY <2>1, <2>3, <1>p DEF RowInv, RolleRow, NoRolle
      <3>2. rolle'[r].sps = job[j].sps /\ rolle'[r].version = rolle[r].version + 1 /\ rolle[r] # NoRolle
        BY <2>1, <2>3, <3>1, NotRows DEF TypeOK
      <3>3. rolle[r].version \in Nat
        BY <2>1, <3>1 DEF RolleRow
      <3>4. \A q \in Rolle : /\ rolle'[q].sps \subseteq rolle[q].sps \cup S
                             /\ \/ rolle'[q] \in {rolle[q], NoRolle}
                                \/ (rolle[q] # NoRolle /\ rolle'[q].version > rolle[q].version)
        BY <2>1, <2>3, <3>1, <3>2, <3>3 DEF TypeOK
      <3>5. S \in SUBSET Sp
        BY <2>1 DEF RolleRow
      <3>6. /\ \A s \in Sp \ S : sp'[s] = sp[s]
            /\ \A e \in erw' : e \in erw \/ e.sp \in S
        BY <2>3
      <3> HIDE DEF r, S
      <3>7. /\ job'[j] = Idle /\ raced' = raced \cup (S \cap job[j].beside)
            /\ \A k \in Job \ {j} : JobInv(k)'
        <4> HIDE JobFields, ExistingTyped
        <4> QED
          BY <2>3, <3>4, <3>5, <3>6, WroteKept
      <3>8. ErweiterungenAdmitted'
        BY <2>3, <3>7, AdmittedKept DEF Admits, Allows
      <3> QED
        BY <3>7, <3>8, IdleKept
    <2> QED
      BY <1>2, <2>2, <2>3, Zenon DEF Save
  <1>3. CASE RemoveRolle(j)
    <2> DEFINE r == job[j].rolle
               own == {e \in erw : e.rolle = r}
               S == rolle[r].sps \cup {e.sp : e \in own}
    <2>1. r \in Rolle
      BY <1>3, <1>p DEF RemoveRolle, Is, PlanInv
    <2>2. CASE Goto(j, Idle)
      BY <2>2, QuietKept, IdleKept
    <2>3. ASSUME rolle' = [rolle EXCEPT ![r] = NoRolle], erw' = erw \ own,
                 Wrote(j, S, Idle), UNCHANGED <<sp, born>>
          PROVE  IInv'
      <3>1. S \in SUBSET Sp
        BY <2>1 DEF TypeOK, RolleRow, NoRolle, Erweiterung
      <3>2. /\ \A s \in Sp \ S : sp'[s] = sp[s]
            /\ \A e \in erw' : e \in erw \/ e.sp \in S
        BY <2>3
      <3>3. \A q \in Rolle : /\ rolle'[q].sps \subseteq rolle[q].sps \cup S
                             /\ \/ rolle'[q] \in {rolle[q], NoRolle}
                                \/ (rolle[q] # NoRolle /\ rolle'[q].version > rolle[q].version)
        BY <2>1, <2>3 DEF TypeOK, NoRolle
      <3>4. erw' \subseteq erw
        BY <2>3
      <3> HIDE DEF r, own, S
      <3>5. /\ job'[j] = Idle /\ raced' = raced \cup (S \cap job[j].beside)
            /\ \A k \in Job \ {j} : JobInv(k)'
        <4> HIDE JobFields, ExistingTyped
        <4> QED
          BY <2>3, <3>1, <3>2, <3>3, WroteKept
      <3>6. ErweiterungenAdmitted'
        BY <2>3, <3>4, <3>5, AdmittedKept DEF Admits, Allows
      <3> QED
        BY <3>5, <3>6, IdleKept
    <2> QED
      BY <1>3, <2>2, <2>3, Zenon DEF RemoveRolle
  <1> QED
    BY <1>1, <1>2, <1>3

\* The environment and a restart.
LEMMA OtherStep ==
    ASSUME IInv, TypeOK', VidisChanges \/ Crash \/ UNCHANGED vars
    PROVE  IInv'
  <1>1. UNCHANGED <<sp, rolle, erw, raced>> /\ \A j \in Job : job'[j] \in {job[j], Idle}
    BY DEF VidisChanges, Crash, vars, tables
  <1>2. ASSUME NEW j \in Job, job'[j] = job[j] PROVE JobInv(j)'
    BY <1>1, <1>2 DEF IInv, JobInv, PlanInv, BaseInv, RowInv, AddInv, RollenInv, StripInv
  <1> QED
    BY <1>1, <1>2, IdleKept DEF IInv, ErweiterungenAdmitted

LEMMA Initially == Init => IInv
  <1> SUFFICES ASSUME Init PROVE IInv
    OBVIOUS
  <1>1. TypeOK
    <2>1. used \in [requests : 0..MaxRequests, changes : 0..MaxChanges, crashes : 0..MaxCrashes]
      BY AngebotAssumption DEF Init
    <2> QED
      BY <2>1, AngebotAssumption, IdleTyped DEF Init, TypeOK, Existing
  <1>2. ErweiterungenAdmitted
    BY AngebotAssumption DEF Init, ErweiterungenAdmitted
  <1>3. ASSUME NEW j \in Job PROVE JobInv(j)
    <2>1. job[j] = Idle
      BY DEF Init
    <2> QED
      BY <2>1 DEF JobInv, PlanInv, BaseInv, RowInv, AddInv, RollenInv, StripInv, Idle
  <1> QED
    BY <1>1, <1>2, <1>3 DEF IInv

LEMMA Inductive == IInv /\ [Next]_vars => IInv'
  <1> SUFFICES ASSUME IInv, [Next]_vars PROVE IInv'
    OBVIOUS
  <1>1. TypeOK'
    BY TypeStep
  <1>2. ASSUME NEW j \in Job, Step(j) PROVE IInv'
    BY <1>1, <1>2, SyncStep, ErweiterungStep, PatchStep, RolleStep DEF Step
  <1> QED
    BY <1>1, <1>2, OtherStep DEF Next

LEMMA Invariance == Spec => []IInv
  BY Initially, Inductive, PTL DEF Spec

----------------------------------------------------------------------------
(* The theorems                                                            *)

\* The tables and the requests keep their types, and a row has an id that was
\* given out.
THEOREM TypeCorrect == Spec => []TypeOK
  BY Invariance, PTL DEF IInv

\* Every Rollenerweiterung is admitted by its Angebot, unless requests wrote the
\* Angebot side by side.
THEOREM ErweiterungenStayAdmitted == Spec => []ErweiterungenAdmitted
  BY Invariance, PTL DEF IInv

\* Only the flush of a changed Angebot may forbid a Rollenart; it has asked for the
\* Rollen that have the Angebot.
LEMMA ArtenKept ==
    ASSUME IInv, [Next]_vars, NEW s \in Existing \cap Existing', NEW r \in Rolle,
           s \in rolle[r].sps, Allows(sp[s], r)
    PROVE  Allows(sp'[s], r) \/ s \in raced'
  <1>0. s \in Sp /\ sp[s] \in Angebot /\ sp'[s] # NoAngebot
    BY ExistingTyped DEF IInv, Existing
  <1>1. CASE sp'[s].arten = sp[s].arten
    BY <1>1 DEF Allows
  <1>2. ASSUME NEW j \in Job, Flush(j) PROVE sp'[s].arten = sp[s].arten
    <2>1. PICK W \in SUBSET Offering, D \in SUBSET Sp, New \in SUBSET (Sp \ born), renamed \in SUBSET Existing :
             \/ Goto(j, [job[j] EXCEPT !.ready = @ \ W, !.drop = @ \ D])
             \/ FlushStep(j, W, D, New, renamed)
      BY <1>2, FlushRows DEF IInv
    <2>2. CASE UNCHANGED sp
      BY <2>2
    <2>3. CASE FlushStep(j, W, D, New, renamed)
      <3>1. s \notin New
        BY DEF IInv, TypeOK
      <3>2. s \notin D
        BY <1>0, <2>3 DEF FlushStep
      <3> QED
        BY <1>0, <2>3, <3>1, <3>2 DEF FlushStep
    <2> QED
      BY <2>1, <2>2, <2>3 DEF Goto, tables
  <1>3. ASSUME NEW j \in Job, WritePatch(j), s \notin raced' PROVE Allows(sp'[s], r)
    <2>1. CASE UNCHANGED sp \/ s # job[j].id
      BY <1>0, <1>3, <2>1 DEF WritePatch, Goto, tables, Allows, IInv, TypeOK
    <2>2. CASE ~UNCHANGED sp /\ s = job[j].id
      <3>1. sp' = [sp EXCEPT ![s] = Written(@, job[j].base, job[j].new)] /\ s \notin job[j].beside
        BY <1>3, <2>2 DEF WritePatch, Goto, tables, Wrote
      <3>2. job[j].op = "patch" /\ job[j].at = "write"
        BY <1>3 DEF WritePatch, Is
      <3>3. /\ sp[s] = job[j].base /\ job[j].new \in Angebot
            /\ Allows(job[j].base, r) => Allows(job[j].new, r)
        BY <2>2, <3>1, <3>2, Conclusions DEF PlanInv, BaseInv, RollenInv
      <3>4. sp'[s].arten = job[j].new.arten
        BY <1>0, <3>1, <3>3, WrittenIsNew DEF IInv, TypeOK
      <3> QED
        BY <3>3, <3>4 DEF Allows
    <2> QED
      BY <2>1, <2>2
  <1>4. ASSUME NEW j \in Job, WriteCreate(j) PROVE sp'[s] = sp[s]
    BY <1>0, <1>4 DEF WriteCreate, IInv, TypeOK
  <1>5. ASSUME NEW j \in Job, Drop(j) PROVE sp'[s] = sp[s]
    <2>1. CASE UNCHANGED sp
      BY <2>1
    <2>2. CASE sp' = [sp EXCEPT ![job[j].id] = NoAngebot]
      BY <1>0, <2>2 DEF IInv, TypeOK
    <2> QED
      BY <1>5, <2>1, <2>2 DEF Drop, Goto, tables
  <1>6. ASSUME NEW j \in Job, Step(j), ~Flush(j), ~WritePatch(j), ~WriteCreate(j), ~Drop(j)
        PROVE  sp' = sp
    <2>b. ASSUME NEW new, Begin(j, new) PROVE sp' = sp
      BY <2>b DEF Begin, tables
    <2>g. ASSUME NEW new, Goto(j, new) PROVE sp' = sp
      BY <2>g DEF Goto, tables
    <2>1. CASE Sync(j) \/ ForRolle(j) \/ ForAngebot(j) \/ Patch(j) \/ Create(j)
      <3>1. CASE Sync(j)
        BY <3>1, <2>b, Zenon DEF Sync
      <3>2. CASE ForRolle(j)
        BY <3>2, <2>b, Zenon DEF ForRolle
      <3>3. CASE ForAngebot(j)
        BY <3>3, <2>b, Zenon DEF ForAngebot
      <3>4. CASE Patch(j)
        BY <3>4, <2>b, Zenon DEF Patch
      <3>5. CASE Create(j)
        BY <3>5, <2>b, Zenon DEF Create
      <3> QED
        BY <2>1, <3>1, <3>2, <3>3, <3>4, <3>5
    <2>2. CASE Delete(j) \/ Assign(j) \/ DropRolle(j)
      <3>1. CASE Delete(j)
        BY <3>1, <2>b, Zenon DEF Delete
      <3>2. CASE Assign(j)
        BY <3>2, <2>b, Zenon DEF Assign
      <3>3. CASE DropRolle(j)
        BY <3>3, <2>b, Zenon DEF DropRolle
      <3> QED
        BY <2>2, <3>1, <3>2, <3>3
    <2>3. CASE LoadPage(j) \/ CheckOffer(j) \/ StartRenames(j) \/ CheckRename(j) \/ EndPage(j)
      <3>1. CASE LoadPage(j)
        BY <3>1, <2>g, Zenon DEF LoadPage
      <3>2. CASE CheckOffer(j)
        BY <3>2, <2>g, Zenon DEF CheckOffer
      <3>3. CASE StartRenames(j)
        BY <3>3, <2>g, Zenon DEF StartRenames
      <3>4. CASE CheckRename(j)
        BY <3>4, <2>g, Zenon DEF CheckRename
      <3>5. CASE EndPage(j)
        BY <3>5, <2>g, Zenon DEF EndPage
      <3> QED
        BY <2>3, <3>1, <3>2, <3>3, <3>4, <3>5
    <2>4. CASE ReadForRolle(j) \/ ReadForAngebot(j) \/ CheckName(j) \/ CheckRollen(j)
             \/ CheckAttached(j) \/ CheckExtended(j)
      <3>1. CASE ReadForRolle(j)
        BY <3>1, <2>g, Zenon DEF ReadForRolle
      <3>2. CASE ReadForAngebot(j)
        BY <3>2, <2>g, Zenon DEF ReadForAngebot
      <3>3. CASE CheckName(j)
        BY <3>3, <2>g, Zenon DEF CheckName
      <3>4. CASE CheckRollen(j)
        BY <3>4, <2>g, Zenon DEF CheckRollen
      <3>5. CASE CheckAttached(j)
        BY <3>5, <2>g, Zenon DEF CheckAttached
      <3>6. CASE CheckExtended(j)
        BY <3>6, <2>g, Zenon DEF CheckExtended
      <3> QED
        BY <2>4, <3>1, <3>2, <3>3, <3>4, <3>5, <3>6
    <2>5. CASE StripWithdrawn(j) \/ Add(j) \/ Remove(j) \/ Strip(j)
      BY <2>5 DEF StripWithdrawn, Add, Remove, Strip, Goto, tables
    <2>6. CASE Save(j) \/ RemoveRolle(j)
      BY <2>6 DEF Save, RemoveRolle, Goto, tables
    <2> QED
      BY <1>6, <2>1, <2>2, <2>3, <2>4, <2>5, <2>6 DEF Step
  <1>7. ASSUME VidisChanges \/ Crash \/ UNCHANGED vars PROVE sp' = sp
    BY <1>7 DEF VidisChanges, Crash, vars, tables
  <1> QED
    BY <1>1, <1>2, <1>3, <1>4, <1>5, <1>6, <1>7 DEF Next, Allows

\* A whitelist never forbids a Rolle that has the Angebot and was allowed to.
THEOREM RollenKeepAngebote == Spec => RollenStayAllowed
  <1>1. IInv /\ [Next]_vars
           => [\A s \in Existing \cap Existing', r \in Rolle :
                 s \in rolle[r].sps /\ s \in rolle'[r].sps /\ Allows(sp[s], r)
                    => Allows(sp'[s], r) \/ s \in raced']_vars
    BY ArtenKept
  <1> QED
    BY <1>1, Invariance, PTL DEF Spec, RollenStayAllowed

=============================================================================
