--------------------------- MODULE ModerationProofs ---------------------------
(****************************************************************************)
(* Moderation, proved for any sessions, moderators, versions and overlaps.   *)
(*                                                                           *)
(* The argument: every handler writes from the copy it loaded, so what       *)
(* counts is how far a copy may be from the row.  Where no approval overlaps *)
(* a change, a public row was public in every copy, and a change of the      *)
(* content then takes it back (Watched).  Where no edit overlaps another     *)
(* saving, the copy of a saving still has the content and its verdict, and   *)
(* what is in the queue, public or rejected complies (Screened).             *)
(****************************************************************************)
EXTENDS Moderation, TLAPS

\* What the constants are.
Parameters == MaxVersions \in Nat \ {0} /\ Worlds \subseteq World

Busy(s) == sess[s] # Idle

\* Sessions are in progress together only through doors that may overlap.
Apart ==
  /\ item.version = 0 => item = NoItem /\ \A s \in Sessions : ~Busy(s)
  /\ \A s, t \in Sessions :
       Busy(s) /\ Busy(t) /\ s # t => {sess[s].door, sess[t].door} \in world.overlap

\* Moderators decide on what is there, and alone.
Attended == world.attentive /\ \A pair \in world.overlap : "approve" \notin pair

Watched ==
  /\ PublicWasReviewed
  /\ \A s \in Sessions : Busy(s) =>
       /\ item.status = "approved" => sess[s].copy.status = "approved"
       /\ sess[s].door = "approve" => sess[s].saw = item.version

\* The doors that save content or its verdict.
Savings == {"edit", "photo", "files"}

\* A law about compliance holds, see PublishedIsCompliant.
Guarded ==
  /\ world.enforced
  /\ \A door \in Savings : {"edit", door} \notin world.overlap
  /\ world.lapses => world.overlap = {}

\* The statuses an item reaches through the gate, and keeps while licences last.
Passed == {"pending_moderation", "approved", "rejected"}

\* What the copy of a saving has in common with the row.
Faithful(door, copy) ==
  /\ copy.risky = item.risky
  /\ copy.status \in Passed => Compliant(copy.risky)
  /\ door = "edit" /\ copy.status = "draft" => item.status \in {"draft", "archived"}

\* Where licences last: what passed the gate complies, and the content of a
\* saving's copy is the content of the row.
Screened ==
  /\ item.status \in Passed => Compliant(item.risky)
  /\ \A s \in Sessions :
       Busy(s) /\ sess[s].door \in Savings => Faithful(sess[s].door, sess[s].copy)

\* Where licences change: a session is alone, but for what suspends the company.
Undisturbed ==
  \A s \in Sessions : Busy(s) =>
    /\ sess[s].copy.risky = item.risky
    /\ item.status = "approved" => sess[s].copy.status = "approved"

IInv ==
  /\ TypeOK
  /\ Apart
  /\ Attended => Watched
  /\ Guarded /\ ~world.lapses => Screened
  /\ world.overlap = {} => Undisturbed

-----------------------------------------------------------------------------
(* The data                                                                  *)

LEMMA ItemFacts ==
  ASSUME Parameters, NEW i \in Item
  PROVE  /\ i.status \in Statuses /\ i.version \in 0..MaxVersions /\ i.version \in Nat
         /\ i.risky \in BOOLEAN /\ i.ok \in BOOLEAN /\ i.reviewed \in 0..MaxVersions
  BY DEF Parameters, Item

LEMMA SessionFacts ==
  ASSUME TypeOK, NEW s \in Sessions, Busy(s)
  PROVE  /\ sess[s] \in Session /\ sess[s].door \in Doors /\ sess[s].copy \in Item
         /\ sess[s].saw \in 0..MaxVersions
<1>1. sess[s] \in Session
  BY DEF TypeOK, Busy
<1>2. QED
  BY <1>1 DEF Session

\* A session that is in progress is at one of the doors.
LEMMA AtWork ==
  ASSUME NEW s \in Sessions, sess[s].door \in Doors
  PROVE  Busy(s)
  BY DEF Busy, Idle, Doors

LEMMA GateIs ==
  ASSUME NEW status \in Statuses, NEW held, NEW ok
  PROVE  /\ Gate(status, held, ok) \in Statuses
         /\ Gate(status, held, ok) \in {status, "draft", "pending_moderation"}
         /\ ~ok /\ world.enforced => Gate(status, held, ok) = "draft"
  BY DEF Gate, Statuses

LEMMA RequeuedIs ==
  ASSUME NEW status \in Statuses
  PROVE  /\ Requeued(status) \in Statuses \ {"approved", "rejected"}
         /\ Requeued(status) \in {status, "pending_moderation"}
         /\ status \notin {"approved", "rejected"} => Requeued(status) = status
  BY DEF Requeued, Statuses

LEMMA CompliantIs ==
  ASSUME TypeOK, NEW risky \in BOOLEAN
  PROVE  Compliant(risky) \in BOOLEAN
  BY DEF TypeOK, Compliant

LEMMA SavedIs ==
  ASSUME Parameters, item \in Item, NEW copy \in Item, NEW version \in 0..MaxVersions,
         NEW status \in Statuses, NEW risky \in BOOLEAN, NEW ok \in BOOLEAN,
         NEW i, i = Saved(copy, version, status, risky, ok)
  PROVE  /\ i \in Item
         /\ i.status = Column(copy.status, status, item.status)
         /\ i.version = version
         /\ i.risky = Column(copy.risky, risky, item.risky)
         /\ i.reviewed = item.reviewed
  BY DEF Parameters, Item, Saved, Column

-----------------------------------------------------------------------------
(* What the steps do, column by column                                       *)

\* The session ends.
LEMMA DoneIs ==
  ASSUME TypeOK, NEW s \in Sessions, Done(s)
  PROVE  /\ sess' \in [Sessions -> Session \cup {Idle}]
         /\ \A t \in Sessions : Busy(t)' => Busy(t) /\ t # s /\ sess'[t] = sess[t]
  BY DEF TypeOK, Done, Busy

\* A session begins with the row as its copy.
LEMMA BeginIs ==
  ASSUME TypeOK, NEW s \in Sessions, NEW door \in Doors, NEW saw \in 0..MaxVersions,
         Begin(s, door, saw)
  PROVE  /\ sess' \in [Sessions -> Session \cup {Idle}]
         /\ sess'[s].door = door /\ sess'[s].copy = item /\ sess'[s].saw = saw
         /\ \A t \in Sessions : Busy(t)' =>
              t = s \/ (Busy(t) /\ sess'[t] = sess[t] /\ {door, sess[t].door} \in world.overlap)
<1>1. [door |-> door, copy |-> item, saw |-> saw] \in Session
  BY DEF TypeOK, Session
<1>2. QED
  BY <1>1 DEF TypeOK, Begin, Busy, MayOverlap

\* What a handler leaves of the row, by its door.
SavesEdit(s) ==
  LET copy == sess[s].copy
  IN  \E risky \in BOOLEAN :
        /\ sess[s].door = "edit"
        /\ item'.version = item.version + 1
        /\ item'.status = Column(copy.status,
                                 Gate(Requeued(copy.status), ~copy.ok, Compliant(risky)),
                                 item.status)
        /\ item'.risky = Column(copy.risky, risky, item.risky)
        /\ item'.reviewed = item.reviewed

SavesPhoto(s) ==
  LET copy == sess[s].copy
  IN  /\ sess[s].door = "photo"
      /\ item'.version = item.version + 1
      /\ item'.status = Column(copy.status, Requeued(copy.status), item.status)
      /\ item'.risky = item.risky
      /\ item'.reviewed = item.reviewed

SavesFiles(s) ==
  LET copy == sess[s].copy
  IN  /\ sess[s].door = "files"
      /\ item'.version = item.version
      /\ item'.status = Column(copy.status,
                               Gate(copy.status, ~copy.ok, Compliant(copy.risky)), item.status)
      /\ item'.risky = item.risky
      /\ item'.reviewed = item.reviewed

Approves(s) ==
  /\ sess[s].door = "approve"
  /\ Publishable(sess[s].copy)
  /\ item.status = "pending_moderation"
  /\ item'.status = "approved" /\ item'.version = item.version
  /\ item'.risky = item.risky /\ item'.reviewed = sess[s].saw

\* Archived, rejected, refused or rolled back: the content stays, and nothing is
\* published.
Withdraws ==
  /\ \/ item'.status \in {item.status, "archived"}
     \/ item.status = "pending_moderation" /\ item'.status = "rejected"
  /\ item'.version = item.version
  /\ item'.risky = item.risky /\ item'.reviewed = item.reviewed

Saves(s) == SavesEdit(s) \/ SavesPhoto(s) \/ SavesFiles(s) \/ Approves(s) \/ Withdraws

Around == <<world, licence, company, notice, screen>>

LEMMA GoesIs ==
  ASSUME Parameters, TypeOK, NEW s \in Sessions, Goes(s)
  PROVE  /\ Busy(s) /\ Done(s) /\ UNCHANGED Around
         /\ item' \in Item
         /\ Saves(s)
<1> DEFINE copy == sess[s].copy
<1>1. item \in Item /\ item.version \in Nat
  BY ItemFacts DEF TypeOK
<1>2. ASSUME Busy(s)
      PROVE  /\ copy \in Item /\ copy.status \in Statuses /\ copy.risky \in BOOLEAN
             /\ Compliant(copy.risky) \in BOOLEAN
             /\ sess[s].saw \in 0..MaxVersions
  <2>1. copy \in Item /\ sess[s].saw \in 0..MaxVersions
    BY <1>2, SessionFacts
  <2> HIDE DEF copy
  <2>2. copy.status \in Statuses /\ copy.risky \in BOOLEAN
    BY <2>1, ItemFacts
  <2>3. Compliant(copy.risky) \in BOOLEAN
    BY <2>2, CompliantIs
  <2>4. QED
    BY <2>1, <2>2, <2>3
<1>3. CASE Rollback(s)
  BY <1>1, <1>3 DEF Rollback, Busy, Around, Saves, Withdraws
<1>4. ASSUME NEW risky \in BOOLEAN, FinishEdit(s, risky)
      PROVE  Busy(s) /\ Done(s) /\ UNCHANGED Around /\ item' \in Item /\ SavesEdit(s)
  <2>1. Busy(s) /\ Done(s) /\ UNCHANGED Around /\ sess[s].door = "edit"
    BY <1>4, AtWork DEF FinishEdit, Doors, Around
  <2>2. item.version + 1 \in 0..MaxVersions
    BY <1>1, <1>4 DEF FinishEdit, Parameters
  <2> DEFINE status == Gate(Requeued(copy.status), ~copy.ok, Compliant(risky))
  <2>3. status \in Statuses /\ Compliant(risky) \in BOOLEAN
    BY <1>2, <2>1, GateIs, RequeuedIs, CompliantIs
  <2>4. item' = Saved(copy, item.version + 1, status, risky, Compliant(risky))
    BY <1>4 DEF FinishEdit
  <2> HIDE DEF status, copy
  <2>5. /\ item' \in Item
        /\ item'.status = Column(copy.status, status, item.status)
        /\ item'.version = item.version + 1
        /\ item'.risky = Column(copy.risky, risky, item.risky)
        /\ item'.reviewed = item.reviewed
    <3>1. copy \in Item /\ item \in Item
      BY <1>1, <1>2, <2>1
    <3>2. risky \in BOOLEAN /\ Compliant(risky) \in BOOLEAN /\ status \in Statuses
      BY <1>4, <2>3
    <3>3. QED
      BY <2>2, <2>4, <3>1, <3>2, SavedIs
  <2>6. QED
    BY <2>1, <2>5 DEF SavesEdit, status, copy
<1>5. CASE FinishPhoto(s)
  <2>1. Busy(s) /\ Done(s) /\ UNCHANGED Around /\ sess[s].door = "photo"
    BY <1>5, AtWork DEF FinishPhoto, Doors, Around
  <2>2. item.version + 1 \in 0..MaxVersions
    BY <1>1, <1>5 DEF FinishPhoto, Parameters
  <2>3. Requeued(copy.status) \in Statuses /\ copy.ok \in BOOLEAN
    BY <1>2, <2>1, RequeuedIs, ItemFacts
  <2>4. item' = Saved(copy, item.version + 1, Requeued(copy.status), copy.risky, copy.ok)
    BY <1>5 DEF FinishPhoto
  <2> HIDE DEF copy
  <2>5. /\ item' \in Item
        /\ item'.status = Column(copy.status, Requeued(copy.status), item.status)
        /\ item'.version = item.version + 1
        /\ item'.risky = Column(copy.risky, copy.risky, item.risky)
        /\ item'.reviewed = item.reviewed
    <3>1. copy \in Item /\ item \in Item /\ copy.risky \in BOOLEAN
      BY <1>1, <1>2, <2>1
    <3>2. QED
      BY <2>2, <2>3, <2>4, <3>1, SavedIs
  <2>6. QED
    BY <2>1, <2>5 DEF Saves, SavesPhoto, copy, Column
<1>6. CASE FinishFiles(s)
  <2>1. Busy(s) /\ Done(s) /\ UNCHANGED Around /\ sess[s].door = "files"
    BY <1>6, AtWork DEF FinishFiles, Doors, Around
  <2> DEFINE ok == Compliant(copy.risky)
             status == Gate(copy.status, ~copy.ok, ok)
  <2>3. status \in Statuses /\ ok \in BOOLEAN
    BY <1>2, <2>1, GateIs
  <2>4. item' = Saved(copy, item.version, status, copy.risky, ok)
    BY <1>6 DEF FinishFiles
  <2>2. item.version \in 0..MaxVersions
    BY <1>1, ItemFacts
  <2> HIDE DEF status, ok, copy
  <2>5. /\ item' \in Item
        /\ item'.status = Column(copy.status, status, item.status)
        /\ item'.version = item.version
        /\ item'.risky = Column(copy.risky, copy.risky, item.risky)
        /\ item'.reviewed = item.reviewed
    <3>1. copy \in Item /\ item \in Item /\ copy.risky \in BOOLEAN
      BY <1>1, <1>2, <2>1
    <3>2. QED
      BY <2>2, <2>3, <2>4, <3>1, SavedIs
  <2>6. QED
    BY <2>1, <2>5 DEF Saves, SavesFiles, copy, Column, status, ok
<1>7. CASE FinishArchive(s)
  <2>1. Busy(s) /\ Done(s) /\ UNCHANGED Around
    BY <1>7, AtWork DEF FinishArchive, Doors, Around
  <2>2. item.version \in 0..MaxVersions /\ "archived" \in Statuses /\ copy.ok \in BOOLEAN
    BY <1>1, <1>2, <2>1, ItemFacts DEF Statuses
  <2>3. item' = Saved(copy, item.version, "archived", copy.risky, copy.ok)
    BY <1>7 DEF FinishArchive
  <2> HIDE DEF copy
  <2>4. /\ item' \in Item
        /\ item'.status = Column(copy.status, "archived", item.status)
        /\ item'.version = item.version
        /\ item'.risky = Column(copy.risky, copy.risky, item.risky)
        /\ item'.reviewed = item.reviewed
    <3>1. copy \in Item /\ item \in Item /\ copy.risky \in BOOLEAN
      BY <1>1, <1>2, <2>1
    <3>2. QED
      BY <2>2, <2>3, <3>1, SavedIs
  <2>5. QED
    BY <2>1, <2>4 DEF Saves, Withdraws, Column
<1>8. CASE FinishApprove(s)
  <2>1. Busy(s) /\ Done(s) /\ UNCHANGED Around
    BY <1>8, AtWork DEF FinishApprove, Doors, Around
  <2>2. Column(copy.ok, Compliant(copy.risky), item.ok) \in BOOLEAN
    BY <1>1, <1>2, <2>1, ItemFacts DEF Column
  <2>3. QED
    BY <1>1, <1>2, <1>8, <2>1, <2>2 DEF FinishApprove, Claims, Saves, Approves, Item, Statuses
<1>9. CASE FinishReject(s)
  <2>1. Busy(s) /\ Done(s) /\ UNCHANGED Around
    BY <1>9, AtWork DEF FinishReject, Doors, Around
  <2>2. QED
    BY <1>1, <1>9, <2>1 DEF FinishReject, Claims, Saves, Withdraws, Item, Statuses
<1>10. CASE RefuseApprove(s)
  <2>1. Busy(s) /\ Done(s) /\ UNCHANGED Around
    BY <1>10, AtWork DEF RefuseApprove, Doors, Around
  <2>2. Column(copy.ok, FALSE, item.ok) \in BOOLEAN
    BY <1>1, ItemFacts DEF Column
  <2>3. QED
    BY <1>1, <1>10, <2>1, <2>2 DEF RefuseApprove, Saves, Withdraws, Item
<1>11. QED
  BY <1>3, <1>4, <1>5, <1>6, <1>7, <1>8, <1>9, <1>10 DEF Goes, Saves

-----------------------------------------------------------------------------
(* The steps                                                                 *)

\* A session begins.
Starts(s) ==
  \E door \in Doors, saw \in 0..MaxVersions :
    /\ Begin(s, door, saw)
    /\ door = "approve" /\ world.attentive => saw = item.version

\* A step of none of the sessions.
Beside ==
  /\ UNCHANGED <<world, sess>>
  /\ \/ UNCHANGED item
     \/ item = NoItem /\ \E risky \in BOOLEAN : Create(risky)
     \/ item.status = "approved" /\ item'.status = "archived"
        /\ item'.version = item.version /\ item'.risky = item.risky
        /\ item'.reviewed = item.reviewed

LEMMA CreateIs ==
  ASSUME Parameters, TypeOK, NEW risky \in BOOLEAN, Create(risky)
  PROVE  /\ item' \in Item /\ item'.version = 1 /\ item'.risky = risky
         /\ item'.status \in {"draft", "pending_moderation"}
         /\ world.enforced /\ ~Compliant(risky) => item'.status = "draft"
<1> DEFINE status == Gate("pending_moderation", FALSE, Compliant(risky))
<1>1. /\ status \in Statuses /\ status \in {"draft", "pending_moderation"}
      /\ world.enforced /\ ~Compliant(risky) => status = "draft"
  BY DEF Gate, Statuses
<1>2. Compliant(risky) \in BOOLEAN
  BY CompliantIs
<1>3. item' = [NoItem EXCEPT !.status = status, !.version = 1, !.risky = risky,
                             !.ok = Compliant(risky)]
  BY DEF Create
<1> HIDE DEF status
<1>4. item' = [status |-> status, version |-> 1, risky |-> risky, ok |-> Compliant(risky),
               reviewed |-> 0]
  BY <1>3 DEF NoItem
<1>5. 1 \in 0..MaxVersions /\ 0 \in 0..MaxVersions
  BY DEF Parameters
<1>6. item' \in Item
  BY <1>1, <1>2, <1>4, <1>5 DEF Item
<1>7. QED
  BY <1>1, <1>4, <1>6

LEMMA StepIs ==
  ASSUME Parameters, TypeOK, Next
  PROVE  \/ \E s \in Sessions : Starts(s) /\ item # NoItem
         \/ \E s \in Sessions : Goes(s)
         \/ Beside
<1>1. ASSUME NEW s \in Sessions, NEW door \in Doors, BeginChange(s, door)
      PROVE  Starts(s) /\ item # NoItem
  <2>1. Begin(s, door, 0) /\ door # "approve" /\ item # NoItem
    BY <1>1 DEF BeginChange, Begin
  <2>2. 0 \in 0..MaxVersions
    BY DEF Parameters
  <2>3. QED
    BY <2>1, <2>2 DEF Starts
<1>2. ASSUME NEW s \in Sessions, NEW m \in Moderators, NEW door \in Doors,
             BeginDecision(s, m, door)
      PROVE  Starts(s) /\ item # NoItem
  BY <1>2 DEF BeginDecision, Starts, Begin, TypeOK
<1>3. ASSUME NEW risky \in BOOLEAN, Create(risky) PROVE Beside
  BY <1>3 DEF Create, Beside
<1>4. ASSUME NEW m \in Moderators, Look(m) PROVE Beside
  BY <1>4 DEF Look, Beside
<1>5. CASE LicenceChanges \/ Suspend \/ Reinstate
  BY <1>5 DEF LicenceChanges, Suspend, Reinstate, Beside
<1>6. CASE ArchiveOffers
  BY <1>6 DEF ArchiveOffers, Beside, TypeOK, Item
<1>7. QED
  BY <1>1, <1>2, <1>3, <1>4, <1>5, <1>6 DEF Next, Begins

LEMMA TypeKept ==
  ASSUME Parameters, TypeOK, [Next]_vars
  PROVE  TypeOK'
<1>1. CASE UNCHANGED vars
  BY <1>1 DEF vars, TypeOK
<1>2. ASSUME NEW s \in Sessions, NEW door \in Doors, NEW saw \in 0..MaxVersions,
             Begin(s, door, saw)
      PROVE  TypeOK'
  BY <1>2, BeginIs DEF TypeOK, Begin
<1>3. ASSUME NEW s \in Sessions, Goes(s) PROVE TypeOK'
  BY <1>3, GoesIs, DoneIs DEF TypeOK, Around
<1>4. ASSUME NEW risky \in BOOLEAN, Create(risky) PROVE TypeOK'
  BY <1>4, CreateIs DEF Create, TypeOK
<1>5. ASSUME NEW m \in Moderators, Look(m) PROVE TypeOK'
  <2>1. item.version \in 0..MaxVersions
    BY ItemFacts DEF TypeOK
  <2>2. QED
    BY <1>5, <2>1 DEF Look, TypeOK
<1>6. CASE LicenceChanges \/ Suspend \/ Reinstate
  BY <1>6 DEF LicenceChanges, Suspend, Reinstate, TypeOK
<1>7. CASE ArchiveOffers
  BY <1>7 DEF ArchiveOffers, TypeOK, Item, Statuses
<1>8. ASSUME NEW s \in Sessions, Begins(s) PROVE TypeOK'
  <2>1. \A door \in Doors : BeginChange(s, door) => Begin(s, door, 0)
    BY DEF BeginChange
  <2>2. \A m \in Moderators, door \in Doors : BeginDecision(s, m, door) =>
          Begin(s, door, screen[m]) /\ screen[m] \in 0..MaxVersions
    BY DEF BeginDecision, TypeOK
  <2>3. QED
    BY <1>2, <1>8, <2>1, <2>2 DEF Begins, Parameters
<1>9. QED
  BY <1>1, <1>3, <1>4, <1>5, <1>6, <1>7, <1>8 DEF Next

\* The circumstances of a behaviour stay.
LEMMA WorldLasts ==
  ASSUME Parameters, TypeOK, [Next]_vars
  PROVE  world' = world
<1>1. ASSUME NEW s \in Sessions, Begins(s) \/ Goes(s) PROVE world' = world
  BY <1>1, GoesIs DEF Begins, BeginChange, BeginDecision, Begin, Around
<1>2. QED
  BY <1>1 DEF Next, vars, Create, Look, LicenceChanges, Suspend, Reinstate, ArchiveOffers

LEMMA ApartKept ==
  ASSUME Parameters, TypeOK, Apart, [Next]_vars
  PROVE  Apart'
<1>1. item \in Item /\ item.version \in Nat
  BY ItemFacts DEF TypeOK
<1>2. CASE UNCHANGED vars
  BY <1>2 DEF vars, Apart, Busy
<1>3. ASSUME NEW s \in Sessions, Starts(s), item # NoItem PROVE Apart'
  <2>1. PICK door \in Doors, saw \in 0..MaxVersions : Begin(s, door, saw)
    BY <1>3 DEF Starts
  <2>2. UNCHANGED <<world, item>>
    BY <2>1 DEF Begin
  <2>3. item'.version # 0
    BY <1>3, <2>2 DEF Apart
  <2>4. sess'[s].door = door /\ \A t \in Sessions : Busy(t)' =>
          t = s \/ (Busy(t) /\ sess'[t] = sess[t] /\ {door, sess[t].door} \in world.overlap)
    BY <2>1, BeginIs
  <2>5. ASSUME NEW t \in Sessions, NEW u \in Sessions, Busy(t)', Busy(u)', t # u
        PROVE  {sess'[t].door, sess'[u].door} \in world'.overlap
    <3>1. \A x, y : {x, y} = {y, x}
      OBVIOUS
    <3>2. QED
      BY <2>2, <2>4, <2>5, <3>1 DEF Apart
  <2>6. QED
    BY <2>3, <2>5 DEF Apart
<1>4. ASSUME NEW s \in Sessions, Goes(s) PROVE Apart'
  <2>1. /\ Busy(s) /\ Done(s) /\ world' = world /\ item' \in Item /\ Saves(s)
    BY <1>4, GoesIs DEF Around
  <2>2. item.version # 0
    BY <2>1 DEF Apart
  <2>3. item'.version # 0
    BY <1>1, <2>1, <2>2 DEF Saves, SavesEdit, SavesPhoto, SavesFiles, Approves, Withdraws
  <2>4. QED
    BY <2>1, <2>3, DoneIs DEF Apart
<1>5. CASE Beside
  <2>1. /\ UNCHANGED <<world, sess>>
        /\ item' = item \/ item'.version # 0
    <3>1. item.version = 0 => item.status = "none"
      BY DEF Apart, NoItem
    <3>2. QED
      BY <1>5, <3>1, CreateIs DEF Beside
  <2>2. QED
    BY <2>1 DEF Apart, Busy
<1>6. QED
  BY <1>2, <1>3, <1>4, <1>5, StepIs

-----------------------------------------------------------------------------
(* Where no approval overlaps a change                                       *)

LEMMA WatchedKept ==
  ASSUME Parameters, TypeOK, Apart, Attended, Watched, [Next]_vars
  PROVE  Watched'
<1>1. item \in Item /\ item.version \in Nat /\ item.status \in Statuses
  BY ItemFacts DEF TypeOK
<1>2. CASE UNCHANGED vars
  BY <1>2 DEF vars, Watched, Busy, PublicWasReviewed
<1>3. ASSUME NEW s \in Sessions, Starts(s) PROVE Watched'
  <2>1. PICK door \in Doors, saw \in 0..MaxVersions :
          Begin(s, door, saw) /\ (door = "approve" /\ world.attentive => saw = item.version)
    BY <1>3 DEF Starts
  <2>2. item' = item
    BY <2>1 DEF Begin
  <2>3. /\ sess'[s].door = door /\ sess'[s].copy = item /\ sess'[s].saw = saw
        /\ \A t \in Sessions : Busy(t)' => t = s \/ (Busy(t) /\ sess'[t] = sess[t])
    BY <2>1, BeginIs
  <2>4. QED
    BY <2>1, <2>2, <2>3 DEF Watched, PublicWasReviewed, Attended
<1>4. ASSUME NEW s \in Sessions, Goes(s) PROVE Watched'
  <2>1. Busy(s) /\ Done(s) /\ Saves(s)
    BY <1>4, GoesIs
  <2>2. \A t \in Sessions : Busy(t)' => Busy(t) /\ t # s /\ sess'[t] = sess[t]
    BY <2>1, DoneIs
  <2>3. sess[s].copy.status \in Statuses
    BY <2>1, SessionFacts, ItemFacts
  <2>4. \A t \in Sessions : Busy(t)' =>
          sess[s].door # "approve" /\ sess[t].door # "approve"
    BY <2>1, <2>2 DEF Apart, Attended
  <2>5. item.status = "approved" => sess[s].copy.status = "approved"
    BY <2>1 DEF Watched
  <2>6. CASE SavesEdit(s) \/ SavesPhoto(s)
    <3>1. \A held, ok : Gate(Requeued(sess[s].copy.status), held, ok) # "approved"
      BY <2>3, RequeuedIs, GateIs
    <3>2. item'.status # "approved"
      BY <2>3, <2>5, <2>6, <3>1, RequeuedIs DEF SavesEdit, SavesPhoto, Column
    <3>3. QED
      BY <2>2, <2>4, <3>2 DEF Watched, PublicWasReviewed
  <2>7. CASE SavesFiles(s)
    <3>1. \A held, ok : Gate(sess[s].copy.status, held, ok) \in
            {sess[s].copy.status, "draft", "pending_moderation"}
      BY <2>3, GateIs
    <3>2. item'.status = "approved" => item.status = "approved"
      BY <2>7, <3>1 DEF SavesFiles, Column
    <3>3. QED
      BY <2>2, <2>7, <3>2 DEF SavesFiles, Watched, PublicWasReviewed
  <2>8. CASE Approves(s)
    BY <2>1, <2>2, <2>4, <2>8 DEF Approves, Watched, PublicWasReviewed
  <2>9. CASE Withdraws
    BY <2>2, <2>9 DEF Withdraws, Watched, PublicWasReviewed
  <2>10. QED
    BY <2>1, <2>6, <2>7, <2>8, <2>9 DEF Saves
<1>5. CASE Beside
  <2>1. sess' = sess
    BY <1>5 DEF Beside
  <2>2. CASE item' = item
    BY <2>1, <2>2 DEF Watched, PublicWasReviewed, Busy
  <2>3. ASSUME NEW risky \in BOOLEAN, Create(risky), item = NoItem PROVE Watched'
    <3>1. item'.status # "approved" /\ item.version = 0
      BY <2>3, CreateIs DEF NoItem
    <3>2. QED
      BY <2>1, <3>1 DEF Watched, PublicWasReviewed, Apart, Busy
  <2>4. QED
    BY <1>5, <2>1, <2>2, <2>3 DEF Beside, Watched, PublicWasReviewed, Busy
<1>6. QED
  BY <1>2, <1>3, <1>4, <1>5, StepIs

-----------------------------------------------------------------------------
(* Where no two savings overlap                                              *)

\* Where licences last, no step changes what complies.
LEMMA LicenceLasts ==
  ASSUME Parameters, TypeOK, ~world.lapses, [Next]_vars
  PROVE  licence' = licence
<1>1. ASSUME NEW s \in Sessions, Begins(s) \/ Goes(s) PROVE licence' = licence
  BY <1>1, GoesIs DEF Begins, BeginChange, BeginDecision, Begin, Around
<1>2. QED
  BY <1>1 DEF Next, vars, Create, Look, LicenceChanges, Suspend, Reinstate, ArchiveOffers

LEMMA EditScreens ==
  ASSUME Parameters, TypeOK, world.enforced, NEW s \in Sessions, Busy(s), SavesEdit(s),
         Faithful(sess[s].door, sess[s].copy)
  PROVE  item'.status \in Passed => Compliant(item'.risky)
<1> DEFINE copy == sess[s].copy
<1>1. copy.status \in Statuses
  BY SessionFacts, ItemFacts
<1>2. PICK risky \in BOOLEAN :
        /\ item'.status = Column(copy.status,
                                 Gate(Requeued(copy.status), ~copy.ok, Compliant(risky)),
                                 item.status)
        /\ item'.risky = Column(copy.risky, risky, item.risky)
  BY DEF SavesEdit
<1> DEFINE status == Gate(Requeued(copy.status), ~copy.ok, Compliant(risky))
<1>3. copy.risky = item.risky /\ (copy.status = "draft" => item.status \in {"draft", "archived"})
  BY DEF Faithful, SavesEdit
<1>4. ~Compliant(risky) => status = "draft"
  BY <1>1, RequeuedIs, GateIs
<1>5. item'.status = Column(copy.status, status, item.status)
  BY <1>2
<1> HIDE DEF copy, status
<1>6. item'.risky = risky
  BY <1>2, <1>3 DEF Column
<1>7. ~Compliant(risky) => item'.status \in {"draft", "archived"}
  BY <1>3, <1>4, <1>5 DEF Column
<1>8. QED
  BY <1>6, <1>7 DEF Passed

LEMMA FilesScreen ==
  ASSUME Parameters, TypeOK, world.enforced, NEW s \in Sessions, Busy(s), SavesFiles(s),
         Faithful(sess[s].door, sess[s].copy), item.status \in Passed => Compliant(item.risky)
  PROVE  item'.status \in Passed => Compliant(item'.risky)
<1> DEFINE copy == sess[s].copy
           status == Gate(copy.status, ~copy.ok, Compliant(copy.risky))
<1>1. copy.status \in Statuses
  BY SessionFacts, ItemFacts
<1>2. /\ item'.status = Column(copy.status, status, item.status)
      /\ item'.risky = item.risky
  BY DEF SavesFiles
<1>3. copy.risky = item.risky
  BY DEF Faithful
<1>4. ~Compliant(copy.risky) => status = "draft"
  BY <1>1, GateIs
<1> HIDE DEF copy, status
<1>5. ~Compliant(copy.risky) => item'.status \in {"draft", item.status}
  BY <1>2, <1>4 DEF Column
<1>6. QED
  BY <1>2, <1>3, <1>5 DEF Passed

LEMMA PhotoScreens ==
  ASSUME Parameters, TypeOK, NEW s \in Sessions, Busy(s), SavesPhoto(s),
         Faithful(sess[s].door, sess[s].copy), item.status \in Passed => Compliant(item.risky)
  PROVE  item'.status \in Passed => Compliant(item'.risky)
<1> DEFINE copy == sess[s].copy
<1>1. copy.status \in Statuses
  BY SessionFacts, ItemFacts
<1>2. copy.status \notin {"approved", "rejected"} => Requeued(copy.status) = copy.status
  BY <1>1, RequeuedIs
<1>3. /\ item'.status = Column(copy.status, Requeued(copy.status), item.status)
      /\ item'.risky = item.risky
  BY DEF SavesPhoto
<1>4. /\ copy.risky = item.risky
      /\ copy.status \in Passed => Compliant(copy.risky)
  BY DEF Faithful
<1> HIDE DEF copy
<1>5. QED
  BY <1>2, <1>3, <1>4 DEF Column, Passed

LEMMA ScreenedKept ==
  ASSUME Parameters, TypeOK, Apart, Guarded, ~world.lapses, Screened, [Next]_vars
  PROVE  Screened'
<1>1. licence' = licence
  BY LicenceLasts
<1>2. \A risky : Compliant(risky)' <=> Compliant(risky)
  BY <1>1 DEF Compliant
<1>3. CASE UNCHANGED vars
  BY <1>3 DEF vars, Screened, Faithful, Busy, Compliant
<1>4. ASSUME NEW s \in Sessions, Starts(s) PROVE Screened'
  <2>1. PICK door \in Doors, saw \in 0..MaxVersions : Begin(s, door, saw)
    BY <1>4 DEF Starts
  <2>2. item' = item
    BY <2>1 DEF Begin
  <2>3. /\ sess'[s].door = door /\ sess'[s].copy = item
        /\ \A t \in Sessions : Busy(t)' => t = s \/ (Busy(t) /\ sess'[t] = sess[t])
    BY <2>1, BeginIs
  <2>4. QED
    BY <1>1, <2>2, <2>3 DEF Screened, Faithful, Compliant
<1>5. ASSUME NEW s \in Sessions, Goes(s) PROVE Screened'
  <2>1. Busy(s) /\ Done(s) /\ Saves(s)
    BY <1>5, GoesIs
  <2>2. \A t \in Sessions : Busy(t)' => Busy(t) /\ t # s /\ sess'[t] = sess[t]
    BY <2>1, DoneIs
  <2>3. sess[s].door \in Savings => Faithful(sess[s].door, sess[s].copy)
    BY <2>1 DEF Screened
  <2>4. ASSUME NEW t \in Sessions, Busy(t)', sess[s].door \in Savings, sess[t].door \in Savings
        PROVE  sess[s].door # "edit" /\ sess[t].door # "edit"
    <3>1. {sess[s].door, sess[t].door} \in world.overlap
      BY <2>1, <2>2, <2>4 DEF Apart
    <3>2. {sess[s].door, sess[t].door} = {sess[t].door, sess[s].door}
      OBVIOUS
    <3>3. QED
      BY <2>4, <3>1, <3>2 DEF Guarded
  <2>5. item'.status \in Passed => Compliant(item'.risky)
    BY <2>1, <2>3, EditScreens, FilesScreen, PhotoScreens
       DEF Saves, SavesEdit, SavesPhoto, SavesFiles, Approves, Withdraws, Savings, Guarded,
           Screened, Passed
  <2>6. ASSUME NEW t \in Sessions, Busy(t)', sess'[t].door \in Savings
        PROVE  Faithful(sess[t].door, sess[t].copy)'
    <3>1. sess'[t] = sess[t] /\ Busy(t) /\ sess[t].door \in Savings
      BY <2>2, <2>6
    <3>2. item'.risky = item.risky
      <4>1. ~SavesEdit(s)
        BY <2>4, <2>6, <3>1 DEF SavesEdit, Savings
      <4>2. SavesFiles(s) \/ SavesPhoto(s) => sess[s].copy.risky = item.risky
        BY <2>3 DEF Faithful, SavesFiles, SavesPhoto, Savings
      <4>3. QED
        BY <2>1, <4>1, <4>2 DEF Saves, SavesPhoto, SavesFiles, Approves, Withdraws
    <3>3. sess[t].door = "edit" /\ item.status \in {"draft", "archived"} =>
            item'.status \in {"draft", "archived"}
      <4>1. sess[t].door = "edit" => sess[s].door \notin Savings
        BY <2>4, <2>6, <3>1
      <4>2. QED
        BY <2>1, <4>1 DEF Saves, SavesEdit, SavesPhoto, SavesFiles, Approves, Withdraws, Savings
    <3>4. Faithful(sess[t].door, sess[t].copy)
      BY <3>1 DEF Screened
    <3>5. QED
      BY <1>1, <3>1, <3>2, <3>3, <3>4 DEF Faithful, Compliant
  <2>7. QED
    BY <1>1, <2>5, <2>6 DEF Screened, Faithful, Compliant
<1>6. CASE Beside
  <2>1. sess' = sess
    BY <1>6 DEF Beside
  <2>2. CASE item' = item
    BY <1>1, <2>1, <2>2 DEF Screened, Faithful, Compliant, Busy
  <2>3. ASSUME NEW risky \in BOOLEAN, Create(risky), item = NoItem PROVE Screened'
    <3>1. /\ item'.status \in {"draft", "pending_moderation"} /\ item'.risky = risky
          /\ ~Compliant(risky) => item'.status = "draft"
      BY <2>3, CreateIs DEF Guarded
    <3>2. \A s \in Sessions : ~Busy(s)'
      BY <2>1, <2>3 DEF Apart, Busy, NoItem
    <3>3. QED
      BY <1>1, <3>1, <3>2 DEF Screened, Passed, Compliant
  <2>4. CASE item.status = "approved" /\ item'.status = "archived" /\ item'.risky = item.risky
    BY <1>1, <2>1, <2>4 DEF Screened, Faithful, Passed, Compliant, Busy
  <2>5. QED
    BY <1>6, <2>2, <2>3, <2>4 DEF Beside
<1>7. QED
  BY <1>3, <1>4, <1>5, <1>6, StepIs

LEMMA UndisturbedKept ==
  ASSUME Parameters, TypeOK, Apart, world.overlap = {}, Undisturbed, [Next]_vars
  PROVE  Undisturbed'
<1>1. CASE UNCHANGED vars
  BY <1>1 DEF vars, Undisturbed, Busy
<1>2. ASSUME NEW s \in Sessions, Starts(s) PROVE Undisturbed'
  <2>1. PICK door \in Doors, saw \in 0..MaxVersions : Begin(s, door, saw)
    BY <1>2 DEF Starts
  <2>2. item' = item
    BY <2>1 DEF Begin
  <2>3. /\ sess'[s].copy = item
        /\ \A t \in Sessions : Busy(t)' => t = s \/ (Busy(t) /\ sess'[t] = sess[t])
    BY <2>1, BeginIs
  <2>4. QED
    BY <2>2, <2>3 DEF Undisturbed
<1>3. ASSUME NEW s \in Sessions, Goes(s) PROVE Undisturbed'
  <2>1. Busy(s) /\ Done(s)
    BY <1>3, GoesIs
  <2>2. \A t \in Sessions : Busy(t)' => Busy(t) /\ t # s
    BY <2>1, DoneIs
  <2>3. QED
    BY <2>1, <2>2 DEF Undisturbed, Apart
<1>4. CASE Beside
  <2>1. sess' = sess
    BY <1>4 DEF Beside
  <2>2. CASE item' = item
    BY <2>1, <2>2 DEF Undisturbed, Busy
  <2>3. CASE item = NoItem
    BY <2>1, <2>3 DEF Undisturbed, Apart, Busy, NoItem
  <2>4. CASE item'.status = "archived" /\ item'.risky = item.risky
    BY <2>1, <2>4 DEF Undisturbed, Busy
  <2>5. QED
    BY <1>4, <2>2, <2>3, <2>4 DEF Beside
<1>5. QED
  BY <1>1, <1>2, <1>3, <1>4, StepIs

-----------------------------------------------------------------------------
(* The theorems                                                              *)

LEMMA InitHolds == Parameters /\ Init => IInv
<1> SUFFICES ASSUME Parameters, Init PROVE IInv
  OBVIOUS
<1>1. \A s \in Sessions : ~Busy(s)
  BY DEF Init, Busy
<1>2. NoItem \in Item
  BY DEF NoItem, Item, Statuses, Parameters
<1>3. TypeOK
  <2>1. 0 \in 0..MaxVersions
    BY DEF Parameters
  <2>2. screen \in [Moderators -> 0..MaxVersions] /\ sess \in [Sessions -> Session \cup {Idle}]
    BY <2>1 DEF Init
  <2>3. QED
    BY <1>2, <2>2 DEF Init, TypeOK
<1>4. item = NoItem /\ item.status = "none"
  BY DEF Init, NoItem
<1>5. QED
  BY <1>1, <1>3, <1>4
     DEF IInv, Apart, Watched, Screened, Undisturbed, PublicWasReviewed, Passed

LEMMA StepHolds == Parameters /\ IInv /\ [Next]_vars => IInv'
<1> SUFFICES ASSUME Parameters, IInv, [Next]_vars PROVE IInv'
  OBVIOUS
<1>1. TypeOK /\ Apart
  BY DEF IInv
<1>2. world' = world
  BY <1>1, WorldLasts
<1>3. TypeOK' /\ Apart'
  BY <1>1, TypeKept, ApartKept
<1>4. Attended' => Watched'
  BY <1>1, <1>2, WatchedKept DEF IInv, Attended
<1>5. (Guarded /\ ~world.lapses)' => Screened'
  BY <1>1, <1>2, ScreenedKept DEF IInv, Guarded
<1>6. (world.overlap = {})' => Undisturbed'
  BY <1>1, <1>2, UndisturbedKept DEF IInv
<1>7. QED
  BY <1>3, <1>4, <1>5, <1>6 DEF IInv

\* What is published, or changed while public, complies.
Published ==
  /\ Guarded
  /\ item'.status = "approved"
  /\ item.status # "approved" \/ item'.version # item.version
  => Compliant(item'.risky)

LEMMA StepPublishes == Parameters /\ IInv /\ [Next]_vars => Published
<1> SUFFICES ASSUME Parameters, IInv, [Next]_vars, Guarded, item'.status = "approved",
                    item.status # "approved" \/ item'.version # item.version
             PROVE  Compliant(item'.risky)
  BY DEF Published
<1>1. TypeOK /\ Apart
  BY DEF IInv
<1>2. CASE ~world.lapses
  <2>1. IInv'
    BY StepHolds
  <2>2. licence' = licence /\ world' = world
    BY <1>1, <1>2, LicenceLasts, WorldLasts
  <2>3. Screened'
    BY <1>2, <2>1, <2>2 DEF IInv, Guarded
  <2>4. QED
    BY <2>2, <2>3 DEF Screened, Passed, Compliant
<1>3. CASE world.lapses
  <2>1. Undisturbed
    BY <1>3 DEF IInv, Guarded
  <2>2. item' # item
    OBVIOUS
  <2>3. ASSUME NEW s \in Sessions, Goes(s) PROVE Compliant(item'.risky)
    <3>1. Busy(s) /\ Saves(s)
      BY <1>1, <2>3, GoesIs
    <3>2. /\ sess[s].copy.status \in Statuses /\ sess[s].copy.risky = item.risky
          /\ item.status = "approved" => sess[s].copy.status = "approved"
      BY <1>1, <2>1, <3>1, SessionFacts, ItemFacts DEF Undisturbed
    <3>3. CASE SavesEdit(s) \/ SavesPhoto(s)
      <4>1. \A held, ok : Gate(Requeued(sess[s].copy.status), held, ok) # "approved"
        BY <3>2, RequeuedIs, GateIs
      <4>2. QED
        BY <3>2, <3>3, <4>1, RequeuedIs DEF SavesEdit, SavesPhoto, Column
    <3>4. CASE SavesFiles(s)
      <4>1. \A held, ok : Gate(sess[s].copy.status, held, ok) \in
              {sess[s].copy.status, "draft", "pending_moderation"}
        BY <3>2, GateIs
      <4>2. QED
        BY <3>4, <4>1 DEF SavesFiles, Column
    <3>5. CASE Approves(s)
      BY <3>2, <3>5 DEF Approves, Publishable, Guarded
    <3>6. CASE Withdraws
      BY <3>6 DEF Withdraws
    <3>7. QED
      BY <3>1, <3>3, <3>4, <3>5, <3>6 DEF Saves
  <2>4. ASSUME NEW s \in Sessions, Starts(s) PROVE FALSE
    BY <2>2, <2>4 DEF Starts, Begin
  <2>5. CASE Beside
    <3>1. ASSUME NEW risky \in BOOLEAN, Create(risky) PROVE item'.status # "approved"
      BY <1>1, <3>1, CreateIs
    <3>2. QED
      BY <2>2, <2>5, <3>1 DEF Beside
  <2>6. ~UNCHANGED vars
    BY <2>2 DEF vars
  <2>7. QED
    BY <1>1, <2>3, <2>4, <2>5, <2>6, StepIs
<1>4. QED
  BY <1>2, <1>3

\* The item, the sessions and what surrounds them stay of their types, whatever
\* doors overlap.
THEOREM TypeCorrect == ASSUME Parameters PROVE Spec => []TypeOK
<1>1. Init => IInv
  BY InitHolds
<1>2. IInv /\ [Next]_vars => IInv'
  BY StepHolds
<1>3. IInv => TypeOK
  BY DEF IInv
<1>4. QED
  BY <1>1, <1>2, <1>3, PTL DEF Spec

\* Where moderators decide on what is there and no approval overlaps a change of
\* the content, what is public is the version that was approved, however many
\* changes overlap one another (update_company_offer, requeue_for_photo_change).
THEOREM PublicWasSeen == ASSUME Parameters PROVE Spec => []AttendedPublicWasReviewed
<1>1. Init => IInv
  BY InitHolds
<1>2. IInv /\ [Next]_vars => IInv'
  BY StepHolds
<1>3. IInv => AttendedPublicWasReviewed
  BY DEF IInv, Attended, Watched, AttendedPublicWasReviewed
<1>4. QED
  BY <1>1, <1>2, <1>3, PTL DEF Spec

\* With the gate enforced, what is published complies, and so does what is
\* changed while it is public (apply_publish_gate, assert_publishable).
THEOREM PublishedComplies == ASSUME Parameters PROVE Spec => PublishedIsCompliant
<1>1. Init => IInv
  BY InitHolds
<1>2. IInv /\ [Next]_vars => IInv'
  BY StepHolds
<1>3. IInv /\ [Next]_vars => Published
  BY StepPublishes
<1>4. Published =>
        [/\ world.enforced
         /\ \A door \in {"edit", "photo", "files"} : {"edit", door} \notin world.overlap
         /\ world.lapses => world.overlap = {}
         /\ item'.status = "approved"
         /\ item.status # "approved" \/ item'.version # item.version
         => Compliant(item'.risky)]_vars
  BY DEF Published, Guarded, Savings
<1>5. QED
  BY <1>1, <1>2, <1>3, <1>4, PTL DEF Spec, PublishedIsCompliant

=============================================================================
