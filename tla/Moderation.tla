------------------------------ MODULE Moderation ------------------------------
(****************************************************************************)
(* What the marketplace shows: a company's offer, or a buyer's inquiry about *)
(* one, from its first save through moderation, edits, the compliance gate   *)
(* and the suspension of the company (app/domains/marketplace, and the       *)
(* archive_company_offers consumer of app/tasks/verification.py).            *)
(*                                                                           *)
(* A moderator reads the item on a screen and decides later; a handler       *)
(* loads the row, works on its copy and commits later, and its UPDATE        *)
(* carries only the columns whose value it changed.  A decision claims the   *)
(* row with UPDATE ... WHERE status = 'pending...'.                          *)
(****************************************************************************)
EXTENDS Naturals

CONSTANTS
  Sessions,    \* concurrent database sessions
  Moderators,  \* staff at the dashboard or in the Telegram group
  Worlds,      \* the circumstances to consider, see World
  MaxVersions  \* bound: versions of the content

Doors == {"edit", "photo", "files", "approve", "reject", "archive"}

\* kind       the item, an offer or an inquiry
\* enforced   the setting dangerous_check_enforced
\* lapses     licences and documents come and go
\* attentive  moderators decide on the version that is there, not on an older one
\* overlap    the pairs of doors whose sessions may overlap
World ==
  [ kind : {"offer", "inquiry"}, enforced : BOOLEAN, lapses : BOOLEAN, attentive : BOOLEAN,
    overlap : SUBSET {{a, b} : a, b \in Doors} ]

VARIABLES
  world,    \* the circumstances of this behaviour
  item,     \* the row of seller_offers or offer_requests
  licence,  \* what a risky substance requires is there: a licence, or documents
  company,  \* companies.status
  notice,   \* COMPANY_SUSPENDED has not reached archive_company_offers
  screen,   \* [Moderators -> the version on the screen, 0 for none]
  sess      \* [Sessions -> session]

vars == <<world, item, licence, company, notice, screen, sess>>

\* An inquiry's `pending` is written pending_moderation here.
Statuses == {"none", "draft", "pending_moderation", "approved", "rejected", "archived"}

\* version   which content the row has
\* risky     that content is a substance that needs a licence or documents
\* ok        compliance_ok
\* reviewed  the version the approving moderator had on the screen
Item ==
  [ status : Statuses, version : 0..MaxVersions, risky : BOOLEAN, ok : BOOLEAN,
    reviewed : 0..MaxVersions ]

NoItem == [status |-> "none", version |-> 0, risky |-> FALSE, ok |-> TRUE, reviewed |-> 0]

\* copy  the row as the session loaded it
\* saw   the version on the moderator's screen
Session == [door : Doors, copy : Item, saw : 0..MaxVersions]

Idle == [door |-> "none"]

TypeOK ==
  /\ world \in Worlds
  /\ item \in Item
  /\ licence \in BOOLEAN
  /\ company \in {"verified", "suspended"}
  /\ notice \in BOOLEAN
  /\ screen \in [Moderators -> 0..MaxVersions]
  /\ sess \in [Sessions -> Session \cup {Idle}]

Init ==
  /\ world \in Worlds
  /\ item = NoItem
  /\ licence \in BOOLEAN
  /\ company = "verified"
  /\ notice = FALSE
  /\ screen = [m \in Moderators |-> 0]
  /\ sess = [s \in Sessions |-> Idle]

Offer == world.kind = "offer"

\* compliance.evaluate
Compliant(risky) == ~risky \/ licence

-----------------------------------------------------------------------------
(* Sessions                                                                  *)

MayOverlap(door) ==
  \A s \in Sessions : sess[s] # Idle => {door, sess[s].door} \in world.overlap

Begin(s, door, saw) ==
  /\ sess[s] = Idle
  /\ item # NoItem
  /\ MayOverlap(door)
  /\ sess' = [sess EXCEPT ![s] = [door |-> door, copy |-> item, saw |-> saw]]
  /\ UNCHANGED <<world, item, licence, company, notice, screen>>

\* The seller's or the buyer's doors; update_offer_request refuses an inquiry
\* that was rejected, and an inquiry has no photos, files or archive.
BeginChange(s, door) ==
  /\ door \in {"edit", "photo", "files", "archive"}
  /\ ~Offer => door = "edit" /\ item.status # "rejected"
  /\ Begin(s, door, 0)

\* A moderator acts on the item on the screen; the handler loads the row.
BeginDecision(s, m, door) ==
  /\ door \in {"approve", "reject"}
  /\ screen[m] # 0
  /\ world.attentive => screen[m] = item.version
  /\ Begin(s, door, screen[m])

Done(s) == sess' = [sess EXCEPT ![s] = Idle]

Rollback(s) ==
  /\ sess[s] # Idle
  /\ Done(s)
  /\ UNCHANGED <<world, item, licence, company, notice, screen>>

\* Only a column that differs from the copy is in the UPDATE.
Column(copy, new, now) == IF new = copy THEN now ELSE new

-----------------------------------------------------------------------------
(* Changing the content                                                      *)

\* Fault: only a rejected item is reviewed again after an edit.
Requeued_RejectedOnly(status) == IF status = "rejected" THEN "pending_moderation" ELSE status

\* An approved or rejected item goes back to the queue when it is edited.
Requeued(status) == IF status \in {"approved", "rejected"} THEN "pending_moderation" ELSE status

\* Fault: the gate looks at drafts only.
Gate_DraftsOnly(status, held, ok) ==
  IF held /\ status = "draft" /\ (ok \/ ~world.enforced) THEN "pending_moderation" ELSE status

\* apply_publish_gate: an offer that does not comply is held as a draft, and a
\* draft the gate was holding is released once it does.
Gate(status, held, ok) ==
  IF ~ok /\ world.enforced THEN "draft"
  ELSE IF held /\ status = "draft" THEN "pending_moderation"
  ELSE status

\* Creating the item: an inquiry has no gate.
Create(risky) ==
  /\ item = NoItem
  /\ company = "verified"
  /\ ~Offer => ~risky
  /\ item' = [NoItem EXCEPT !.status = Gate("pending_moderation", FALSE, Compliant(risky)),
                            !.version = 1, !.risky = risky, !.ok = Compliant(risky)]
  /\ UNCHANGED <<world, licence, company, notice, screen, sess>>

\* What a session that worked on `copy` leaves of the row.
Saved(copy, version, status, risky, ok) ==
  [ item EXCEPT !.version = version,
                !.status = Column(copy.status, status, @),
                !.risky = Column(copy.risky, risky, @),
                !.ok = Column(copy.ok, ok, @) ]

\* update_company_offer, update_offer_request
FinishEdit(s, risky) ==
  LET copy == sess[s].copy
  IN  /\ sess[s].door = "edit"
      /\ item.version < MaxVersions
      /\ ~Offer => ~risky
      /\ item' = Saved(copy, item.version + 1,
                       Gate(Requeued(copy.status), ~copy.ok, Compliant(risky)),
                       risky, Compliant(risky))
      /\ Done(s)
      /\ UNCHANGED <<world, licence, company, notice, screen>>

\* requeue_for_photo_change
FinishPhoto(s) ==
  LET copy == sess[s].copy
  IN  /\ sess[s].door = "photo"
      /\ item.version < MaxVersions
      /\ item' = Saved(copy, item.version + 1, Requeued(copy.status), copy.risky, copy.ok)
      /\ Done(s)
      /\ UNCHANGED <<world, licence, company, notice, screen>>

\* recheck_compliance_after_files: a document was attached; the gate decides.
FinishFiles(s) ==
  LET copy == sess[s].copy
      ok == Compliant(copy.risky)
  IN  /\ sess[s].door = "files"
      /\ item' = Saved(copy, item.version, Gate(copy.status, ~copy.ok, ok), copy.risky, ok)
      /\ Done(s)
      /\ UNCHANGED <<world, licence, company, notice, screen>>

\* The seller takes the offer off the market, whatever its status.
FinishArchive(s) ==
  LET copy == sess[s].copy
  IN  /\ sess[s].door = "archive"
      /\ item' = Saved(copy, item.version, "archived", copy.risky, copy.ok)
      /\ Done(s)
      /\ UNCHANGED <<world, licence, company, notice, screen>>

-----------------------------------------------------------------------------
(* Moderation                                                                *)

Look(m) ==
  /\ item.status = "pending_moderation"
  /\ screen' = [screen EXCEPT ![m] = item.version]
  /\ UNCHANGED <<world, item, licence, company, notice, sess>>

\* _claim_pending_moderation, _claim_pending
Claims == item.status = "pending_moderation"

\* assert_publishable judges the copy.
Publishable(copy) == world.enforced => Compliant(copy.risky)

FinishApprove(s) ==
  LET copy == sess[s].copy
  IN  /\ sess[s].door = "approve"
      /\ Publishable(copy)
      /\ Claims
      /\ item' = [item EXCEPT !.status = "approved", !.reviewed = sess[s].saw,
                              !.ok = Column(copy.ok, Compliant(copy.risky), @)]
      /\ Done(s)
      /\ UNCHANGED <<world, licence, company, notice, screen>>

FinishReject(s) ==
  /\ sess[s].door = "reject"
  /\ Claims
  /\ item' = [item EXCEPT !.status = "rejected"]
  /\ Done(s)
  /\ UNCHANGED <<world, licence, company, notice, screen>>

\* The approval is refused, and the verdict stamped by it is kept.
RefuseApprove(s) ==
  LET copy == sess[s].copy
  IN  /\ sess[s].door = "approve"
      /\ ~Publishable(copy)
      /\ item' = [item EXCEPT !.ok = Column(copy.ok, FALSE, @)]
      /\ Done(s)
      /\ UNCHANGED <<world, licence, company, notice, screen>>

-----------------------------------------------------------------------------
(* Around it                                                                 *)

\* A licence is registered or expires, a document is attached or removed.
LicenceChanges ==
  /\ Offer /\ world.lapses
  /\ licence' = ~licence
  /\ UNCHANGED <<world, item, company, notice, screen, sess>>

Suspend ==
  /\ Offer
  /\ company = "verified"
  /\ company' = "suspended"
  /\ notice' = TRUE
  /\ UNCHANGED <<world, item, licence, screen, sess>>

Reinstate ==
  /\ company = "suspended"
  /\ company' = "verified"
  /\ UNCHANGED <<world, item, licence, notice, screen, sess>>

\* archive_company_offers: UPDATE ... WHERE status = 'approved'.
ArchiveOffers ==
  /\ notice
  /\ notice' = FALSE
  /\ item' = IF item.status = "approved" THEN [item EXCEPT !.status = "archived"] ELSE item
  /\ UNCHANGED <<world, licence, company, screen, sess>>

-----------------------------------------------------------------------------

Begins(s) ==
  \/ \E door \in Doors : BeginChange(s, door)
  \/ \E m \in Moderators, door \in Doors : BeginDecision(s, m, door)

Goes(s) ==
  \/ Rollback(s)
  \/ \E risky \in BOOLEAN : FinishEdit(s, risky)
  \/ FinishPhoto(s)
  \/ FinishFiles(s)
  \/ FinishArchive(s)
  \/ FinishApprove(s)
  \/ RefuseApprove(s)
  \/ FinishReject(s)

Next ==
  \/ \E risky \in BOOLEAN : Create(risky)
  \/ \E s \in Sessions : Begins(s) \/ Goes(s)
  \/ \E m \in Moderators : Look(m)
  \/ LicenceChanges \/ Suspend \/ Reinstate \/ ArchiveOffers

Spec == Init /\ [][Next]_vars

-----------------------------------------------------------------------------
(* Properties                                                                *)

\* update_offer: "nothing is public without moderation": what is public is what
\* the moderator who approved it had seen.  The code breaks it where a pending item
\* is edited under a moderator's eyes (README, section 4); what it does keep is next.
PublicWasReviewed == item.status = "approved" => item.version = item.reviewed

\* The same where moderators decide on what is there and no change of the
\* content overlaps an approval; changes may overlap one another.
AttendedPublicWasReviewed ==
  world.attentive /\ (\A pair \in world.overlap : "approve" \notin pair) => PublicWasReviewed

\* With the gate enforced nothing is published, and no published content changed,
\* without what it requires, although the gate and the approval both judge copies:
\* where no edit overlaps another saving (not even a photo, which puts what the edit
\* made a draft back in the queue), and if licences change, nothing overlaps.
PublishedIsCompliant ==
  [][/\ world.enforced
     /\ \A door \in {"edit", "photo", "files"} : {"edit", door} \notin world.overlap
     /\ world.lapses => world.overlap = {}
     /\ item'.status = "approved"
     /\ item.status # "approved" \/ item'.version # item.version
     => Compliant(item'.risky)]_vars

=============================================================================
