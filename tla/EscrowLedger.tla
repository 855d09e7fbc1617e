---------------------------- MODULE EscrowLedger ----------------------------
(****************************************************************************)
(* What one transaction does to one deal and its payment.                    *)
(*                                                                           *)
(* A Row is a `deals` row joined with its `escrow_payments` row (at most one *)
(* per deal, by uq_escrow_payments_deal) and its `deal_status_history` rows. *)
(* The functions of service.py and escrow.py call one another inside one     *)
(* database transaction (transition -> settle_direct -> _apply_mark ->       *)
(* _drag_the_deal -> transition), so each is an operator from a row to the   *)
(* row it leaves, with a separate predicate for the refusals it raises.      *)
(* DealEscrow applies them to the committed rows; DealSessions applies the   *)
(* same operators to the copy of the row a session holds in memory.          *)
(****************************************************************************)
EXTENDS DealRules, Sequences, Naturals

\* One row of deal_status_history: the move and who is accountable for it.
LogRow == [from : DealStatuses \cup {"none"}, to : DealStatuses, actor : Actors]

\* status  deals.status, "none" before the deal exists
\* priced  deals.amount IS NOT NULL: an agreed total exists
\* pay     escrow_payments.status, "none" while there is no payment
\* mode    escrow_payments.mode, frozen when the payment is opened
\* ref     escrow_payments.provider_ref IS NOT NULL: the bank's handle is known
\* log     deal_status_history of the deal, oldest first
Row ==
  [ status : DealStatuses \cup {"none"},
    priced : BOOLEAN,
    pay    : EscrowStatuses \cup {"none"},
    mode   : Modes \cup {"none"},
    ref    : BOOLEAN,
    log    : Seq(LogRow) ]

NoDeal ==
  [ status |-> "none", priced |-> FALSE, pay |-> "none", mode |-> "none",
    ref |-> FALSE, log |-> <<>> ]

-----------------------------------------------------------------------------
(* Opening: _open, reached from the three doors that open a deal.            *)

Opened(priced) ==
  [ status |-> "negotiation", priced |-> priced, pay |-> "none", mode |-> "none",
    ref |-> FALSE,
    log |-> <<[from |-> "none", to |-> "negotiation", actor |-> "buyer"]>> ]

-----------------------------------------------------------------------------
(* service.transition                                                        *)

\* Fault: shipping on credit is not confined to the direct rail.
CanMove_AnyRail(r, to, actor) ==
  <<r.status, to>> \in VALID_TRANSITIONS /\ MayDrive(actor, r.status, to)

\* The refusals of `transition`, in one predicate: the table, the direct-only
\* gate, and the actor.  (The mandatory reason of a cancel or a dispute is an
\* input check: a call without one changes nothing.)
CanMove(r, to, actor) ==
  /\ <<r.status, to>> \in VALID_TRANSITIONS
  /\ <<r.status, to>> \in DIRECT_ONLY => r.mode = "direct"
  /\ MayDrive(actor, r.status, to)

\* Fault: the history row forgets who drove the move.
Moved_Anonymous(r, to, actor) ==
  [r EXCEPT !.status = to, !.log = Append(@, [from |-> r.status, to |-> to])]

\* The status and its history row, which always land together.
Moved(r, to, actor) ==
  [ r EXCEPT !.status = to,
             !.log = Append(@, [from |-> r.status, to |-> to, actor |-> actor]) ]

\* Fault: a paid direct deal is settled before the goods are received.
SettleDirect_OnPayment(r) ==
  IF r.mode = "direct" /\ r.pay = "funded"
  THEN Moved([r EXCEPT !.pay = "released"], "completed", "system")
  ELSE r

\* settle_direct: a direct deal that is both paid and received completes, as a
\* bank release would complete it (its _apply_mark cannot refuse: the payment
\* is funded, the deal delivered, and `completed` is the system's to assert).
SettleDirect(r) ==
  IF r.mode = "direct" /\ r.pay = "funded" /\ r.status = "delivered"
  THEN Moved([r EXCEPT !.pay = "released"], "completed", "system")
  ELSE r

\* Fault: only the payment end calls settle_direct.
Transitioned_Unsettled(r, to, actor) == Moved(r, to, actor)

\* The whole of `transition`: confirming delivery may settle a direct deal.
Transitioned(r, to, actor) ==
  LET m == Moved(r, to, actor)
  IN  IF to = "delivered" THEN SettleDirect(m) ELSE m

-----------------------------------------------------------------------------
(* escrow._apply_mark and the deal it drags                                  *)

\* Fault: any direct movement, not the funding alone, leaves the deal in place.
DealStays_AnyMovement(r, to) == r.mode = "direct" /\ r.status # "payment_pending"

\* _drag_the_deal leaves the deal alone when a direct payment arrives at a deal
\* that is not waiting for it.
DealStays(r, to) ==
  to = "funded" /\ r.mode = "direct" /\ r.status # "payment_pending"

\* A refund is the staff member's own cancel; the rest is the system's.
DragActor(to) == IF to = "refunded" THEN "staff" ELSE "system"

\* The three refusals _apply_mark can raise, in its order.  `door` is who asks:
\* "staff" (mark), "bank" (mark_from_provider) or "seller" (confirm_direct).
MovementExists(r, to) == <<r.pay, to>> \in ESCROW_TRANSITIONS

ReleaseIsDue(r, to) == to = "released" => r.status = "delivered"

\* Fault: money drags the deal past the table of moves.
DealFollows_AnyDeal(r, to, door) ==
  to = "refunded" => door = "staff"

DealFollows(r, to, door) ==
  \/ DealStays(r, to)
  \/ /\ to = "refunded" => door = "staff"
     /\ CanMove(r, DEAL_EFFECT[to], DragActor(to))

CanMark(r, to, door) ==
  /\ MovementExists(r, to)
  /\ ReleaseIsDue(r, to)
  /\ DealFollows(r, to, door)

\* The payment is stamped, the deal dragged, and a direct deal settled if the
\* goods were received before the money.
Marked(r, to) ==
  LET paid    == [r EXCEPT !.pay = to]
      dragged == IF DealStays(r, to) THEN paid
                 ELSE Moved(paid, DEAL_EFFECT[to], DragActor(to))
  IN  IF to = "funded" THEN SettleDirect(dragged) ELSE dragged

\* confirm_direct_payment checks the rail and the deal before it marks.
CanConfirm(r) ==
  /\ r.mode = "direct"
  /\ r.status \in DIRECT_PAYABLE
  /\ CanMark(r, "funded", "seller")

-----------------------------------------------------------------------------
(* escrow.open_for_deal                                                      *)

CanInvoice(r) ==
  r.pay = "none" /\ r.priced /\ CanMove(r, "payment_pending", "system")

Invoiced(r, mode) ==
  Moved([r EXCEPT !.pay = "pending", !.mode = mode], "payment_pending", "system")

-----------------------------------------------------------------------------
(* escrow.apply_provider_event: the verdict on one bank callback.            *)

\* Names of the holds: understood, not applied, left to an operator.
HoldReasons ==
  {"malformed", "unknown_ref", "wrong_rail", "amount_mismatch", "needs_operator",
   "invalid_transition", "release_before_delivery", "deal_blocked"}

Verdicts == {"noop", "applied"} \cup HoldReasons

\* Fault: an acknowledgement of what is already recorded counts as applied.
Verdict_AckApplies(r, claim, fits) ==
  IF claim = "unreadable" THEN "malformed"
  ELSE IF ~r.ref THEN "unknown_ref"
  ELSE IF r.mode # "live" THEN "wrong_rail"
  ELSE IF claim = "pending" THEN "noop"
  ELSE IF claim = r.pay THEN "applied"
  ELSE IF ~fits THEN "amount_mismatch"
  ELSE IF claim \notin AUTO_APPLIED THEN "needs_operator"
  ELSE IF ~CanMark(r, claim, "bank") THEN "deal_blocked"
  ELSE "applied"

\* `claim` is the status the bank reports, "unreadable" when no mapper can read
\* the payload; `fits` says the echoed amount and currency match the invoice.
\* The order is the code's: an acknowledgement of what is already recorded is
\* decided before the amount is looked at.
Verdict(r, claim, fits) ==
  IF claim = "unreadable" THEN "malformed"
  ELSE IF ~r.ref THEN "unknown_ref"
  ELSE IF r.mode # "live" THEN "wrong_rail"
  ELSE IF claim = "pending" \/ claim = r.pay THEN "noop"
  ELSE IF ~fits THEN "amount_mismatch"
  ELSE IF claim \notin AUTO_APPLIED THEN "needs_operator"
  ELSE IF ~MovementExists(r, claim) THEN "invalid_transition"
  ELSE IF ~ReleaseIsDue(r, claim) THEN "release_before_delivery"
  ELSE IF ~DealFollows(r, claim, "bank") THEN "deal_blocked"
  ELSE "applied"

\* Fault: a reported release is stamped on the event and not on the payment.
Applied_FundingOnly(r, claim, fits) ==
  IF Verdict(r, claim, fits) = "applied" /\ claim = "funded" THEN Marked(r, claim) ELSE r

\* What the verdict does to the row: only an applied one moves anything.
Applied(r, claim, fits) ==
  IF Verdict(r, claim, fits) = "applied" THEN Marked(r, claim) ELSE r

\* held_provider_events: a held callback is listed while the bank's claim and
\* the recorded status disagree, or while it has no claim we can read.
Listed(r, claim, verdict) ==
  /\ verdict \in HoldReasons
  /\ \/ claim = "unreadable"
     \/ ~r.ref
     \/ r.pay # claim

=============================================================================
