----------------------------- MODULE DealEscrow -----------------------------
(****************************************************************************)
(* The deal and escrow core with every transaction taken as one step: what   *)
(* the code promises when two sessions never overlap.  DealSessions removes  *)
(* that assumption and shows what is left of these promises.                 *)
(*                                                                           *)
(* Who acts: the parties and staff (HTTP handlers), the outbox consumers     *)
(* that follow the contract and open the escrow, the bank (webhook, broker   *)
(* task, sweeper) and the poller.  A refused call changes nothing and is not *)
(* a step.                                                                   *)
(****************************************************************************)
EXTENDS EscrowLedger, FiniteSets

CONSTANTS
  Deals,       \* deal ids
  Callbacks,   \* provider event ids, unique by (provider, external_id)
  MaxTrips     \* bound: disputes and contract rollbacks in the life of a deal

ASSUME MaxTripsAssumption == MaxTrips \in Nat

VARIABLES
  rows,        \* [Deals -> Row]: deals, escrow_payments, deal_status_history
  inbox,       \* provider_events written by the webhook
  queued,      \* callbacks with an applier task in the broker
  polls        \* provider_events synthesized by the poller, by deal and status

vars == <<rows, inbox, queued, polls>>

\* What a bank may say: a status we model, or something no mapper can read.
Claims == EscrowStatuses \cup {"unreadable"}

NoCallback == [verdict |-> "absent"]

Callback ==
  [deal : Deals, claim : Claims, fits : BOOLEAN, verdict : {"new"} \cup Verdicts]

TypeOK ==
  /\ rows \in [Deals -> Row]
  /\ inbox \in [Callbacks -> Callback \cup {NoCallback}]
  /\ queued \subseteq Callbacks
  /\ polls \in [Deals -> [EscrowStatuses -> {"absent"} \cup Verdicts]]

Init ==
  /\ rows = [d \in Deals |-> NoDeal]
  /\ inbox = [c \in Callbacks |-> NoCallback]
  /\ queued = {}
  /\ polls = [d \in Deals |-> [s \in EscrowStatuses |-> "absent"]]

\* A transaction that touches one deal and no provider event.
Write(d, r) ==
  /\ rows' = [rows EXCEPT ![d] = r]
  /\ UNCHANGED <<inbox, queued, polls>>

\* The two cycles of the deal machine are a dispute and a contract rollback;
\* Room bounds the trips through them, and with them the history.
Trips(r) ==
  { i \in 1..Len(r.log) :
      \/ r.log[i].to = "disputed"
      \/ r.log[i].to = "negotiation" /\ r.log[i].from = "contract_pending" }

Room(d) == Cardinality(Trips(rows[d])) < MaxTrips

-----------------------------------------------------------------------------
(* The deal before the money                                                 *)

\* open_deal_from_response / _inquiry / _sample all end in _open.  A deal from
\* an inquiry or a sample may have no agreed total.
OpenDeal(d) ==
  /\ rows[d].status = "none"
  /\ \E priced \in BOOLEAN : Write(d, Opened(priced))

\* tasks.deals._advance: an outbox consumer moves the deal only from the status
\* it expects, so a late or repeated event is a no-op.
Advance(d, to, expect) ==
  /\ rows[d].status = expect
  /\ CanMove(rows[d], to, "system")
  /\ Write(d, Transitioned(rows[d], to, "system"))

ContractSent(d)      == Advance(d, "contract_pending", "negotiation")
ContractActivated(d) == Advance(d, "contract_signed", "contract_pending")
ContractClosed(d)    == Room(d) /\ Advance(d, "negotiation", "contract_pending")

\* tasks.payments.open_escrow_on_deal_signed; the rail is whatever ESCROW_MODE
\* says at that moment.
OpenEscrow(d) ==
  /\ rows[d].status = "contract_signed"
  /\ CanInvoice(rows[d])
  /\ \E mode \in Modes : Write(d, Invoiced(rows[d], mode))

\* The live adapter (not written yet) stores the bank's reference on the row.
AdapterNamesRef(d) ==
  /\ rows[d].mode = "live" /\ ~rows[d].ref
  /\ Write(d, [rows[d] EXCEPT !.ref = TRUE])

-----------------------------------------------------------------------------
(* The doors people use                                                      *)

\* transition_deal -> transition_by_party
PartyMove(d, party, to) ==
  /\ to = "disputed" => Room(d)
  /\ CanMove(rows[d], to, party)
  /\ Write(d, Transitioned(rows[d], to, party))

\* resolve_dispute: cancel, or restore to any status the table allows.
ResolveDispute(d, to) ==
  /\ rows[d].status = "disputed"
  /\ CanMove(rows[d], to, "staff")
  /\ Write(d, Transitioned(rows[d], to, "staff"))

\* mark_escrow -> mark: an operator asserts a movement on any rail.
OperatorMark(d, to) ==
  /\ CanMark(rows[d], to, "staff")
  /\ Write(d, Marked(rows[d], to))

\* confirm_payment_received -> confirm_direct_payment
SellerConfirms(d) ==
  /\ CanConfirm(rows[d])
  /\ Write(d, Marked(rows[d], "funded"))

-----------------------------------------------------------------------------
(* The bank                                                                  *)

\* escrow_callback commits the inbox row, then tries to enqueue the applier; a
\* broker outage loses the task and keeps the row.
RecordCallback(c) ==
  /\ inbox[c] = NoCallback
  /\ \E d \in Deals, claim \in Claims, fits \in BOOLEAN :
       inbox' = [inbox EXCEPT ![c] =
                   [deal |-> d, claim |-> claim, fits |-> fits, verdict |-> "new"]]
  /\ \/ queued' = queued \cup {c}
     \/ UNCHANGED queued
  /\ UNCHANGED <<rows, polls>>

\* The bank retries: record_provider_event finds the row it wrote before, and
\* the handler enqueues the applier once more.
RedeliverCallback(c) ==
  /\ inbox[c] # NoCallback
  /\ c \notin queued
  /\ queued' = queued \cup {c}
  /\ UNCHANGED <<rows, inbox, polls>>

\* processed_at and process_result are stamped together, once.
Decided(event, verdict) == [event EXCEPT !.verdict = verdict]

\* Fault: no short-circuit on a processed event.
ApplyCallback_Again(c) ==
  LET d == inbox[c].deal
  IN  /\ inbox' = [inbox EXCEPT ![c] =
                     Decided(@, Verdict(rows[d], inbox[c].claim, inbox[c].fits))]
      /\ rows' = [rows EXCEPT ![d] = Applied(@, inbox[c].claim, inbox[c].fits)]

\* apply_provider_event: a processed event is left alone, any other is decided,
\* and the payment, the deal and the verdict commit together.
ApplyCallback(c) ==
  IF inbox[c].verdict = "new"
  THEN LET d     == inbox[c].deal
           claim == inbox[c].claim
           fits  == inbox[c].fits
       IN  /\ inbox' = [inbox EXCEPT ![c] = Decided(@, Verdict(rows[d], claim, fits))]
           /\ rows' = [rows EXCEPT ![d] = Applied(@, claim, fits)]
  ELSE UNCHANGED <<inbox, rows>>

ApplierTask(c) ==
  /\ c \in queued
  /\ ApplyCallback(c)
  /\ queued' = queued \ {c}
  /\ UNCHANGED polls

\* The task swallows an exception and rolls back: the event stays new.
ApplierFails(c) ==
  /\ c \in queued
  /\ queued' = queued \ {c}
  /\ UNCHANGED <<rows, inbox, polls>>

\* Fault: the sweeper waits for the broker to remember the callback too.
SweepCallback_QueuedOnly(c) ==
  /\ c \in queued
  /\ inbox[c].verdict = "new"
  /\ ApplyCallback(c)
  /\ UNCHANGED <<queued, polls>>

\* sweep_provider_events takes the unprocessed rows, one commit each.
SweepCallback(c) ==
  /\ inbox[c] # NoCallback
  /\ inbox[c].verdict = "new"
  /\ ApplyCallback(c)
  /\ UNCHANGED <<queued, polls>>

\* A live payment the poller still asks about.
Polled(r) == r.mode = "live" /\ r.ref /\ r.pay \in {"pending", "funded"}

\* The poller synthesizes an event when the bank disagrees with the record.
Disagrees(d, said) == Polled(rows[d]) /\ said # "silent" /\ said # rows[d].pay

\* The synthetic id is deterministic per reference and status, so a decided
\* disagreement is found again as a processed event.
Undecided(d, said) == Disagrees(d, said) /\ polls[d][said] = "absent"

\* reconcile_with_provider: one pass over the live payments, one commit.  The
\* bank is "silent" about a reference it does not know, and about all of the
\* rest once it has become unavailable.
Reconcile(report) ==
  /\ \E d \in Deals : Undecided(d, report[d])
  /\ rows' = [d \in Deals |->
                IF Undecided(d, report[d]) THEN Applied(rows[d], report[d], TRUE)
                ELSE rows[d]]
  /\ polls' = [d \in Deals |->
                IF Undecided(d, report[d])
                THEN [polls[d] EXCEPT ![report[d]] = Verdict(rows[d], report[d], TRUE)]
                ELSE polls[d]]
  /\ UNCHANGED <<inbox, queued>>

Reports == [Deals -> EscrowStatuses \cup {"silent"}]

-----------------------------------------------------------------------------

DealStep(d) ==
  \/ OpenDeal(d)
  \/ ContractSent(d)
  \/ ContractActivated(d)
  \/ ContractClosed(d)
  \/ OpenEscrow(d)
  \/ AdapterNamesRef(d)
  \/ \E to \in DealStatuses :
       \/ \E party \in Parties : PartyMove(d, party, to)
       \/ ResolveDispute(d, to)
  \/ \E to \in EscrowStatuses : OperatorMark(d, to)
  \/ SellerConfirms(d)

CallbackStep(c) ==
  \/ RecordCallback(c)
  \/ RedeliverCallback(c)
  \/ ApplierTask(c)
  \/ ApplierFails(c)
  \/ SweepCallback(c)

Next ==
  \/ \E d \in Deals : DealStep(d)
  \/ \E c \in Callbacks : CallbackStep(c)
  \/ \E report \in Reports : Reconcile(report)

Spec == Init /\ [][Next]_vars

\* The sweeper is on the beat schedule, every five minutes; nobody else is
\* obliged to act, not even the broker.
FairSpec == Spec /\ \A c \in Callbacks : WF_vars(SweepCallback(c))

-----------------------------------------------------------------------------
(* What the two records promise each other                                   *)

\* A deal is completed exactly when its money was paid out, and a refund always
\* ended the deal: the payment and the deal never drift apart at the end
\* (escrow._DEAL_EFFECT, settle_direct).
MoneyEndsWithTheDeal ==
  \A d \in Deals :
    /\ rows[d].pay = "released" <=> rows[d].status = "completed"
    /\ rows[d].pay = "refunded" => rows[d].status = "cancelled"

\* A deal that has reached the money side has an escrow payment behind it, and
\* a payment knows its rail (service._ACTOR_RULES on payment_pending).
Unbilled == {"none", "negotiation", "contract_pending", "contract_signed", "cancelled"}

InvoiceBehindTheDeal ==
  \A d \in Deals :
    /\ rows[d].pay = "none" => rows[d].status \in Unbilled
    /\ rows[d].pay = "none" <=> rows[d].mode = "none"
    /\ rows[d].ref => rows[d].mode = "live"

\* A direct deal never rests paid AND received: whichever of the two came last
\* has completed it (escrow.settle_direct).
DirectDealSettles ==
  \A d \in Deals :
    rows[d].mode = "direct" /\ rows[d].pay = "funded" => rows[d].status # "delivered"

\* Off the direct rail nothing is shipped on credit: a seller whose deal was
\* never disputed ships, and sees delivery confirmed, only with the buyer's
\* money in escrow (DIRECT_ONLY, _ACTOR_RULES on paid_escrow).
NeverDisputed(r) == \A i \in 1..Len(r.log) : r.log[i].to # "disputed"

EscrowProtectsSeller ==
  \A d \in Deals :
    /\ rows[d].status \in {"paid_escrow", "shipped", "delivered"}
    /\ rows[d].mode # "direct"
    /\ NeverDisputed(rows[d])
    => rows[d].pay = "funded"

\* Money is paid out only on a delivery that the buyer confirmed or staff
\* restored, as the deal's last move before completion (EscrowReleaseBeforeDelivery).
EscrowProtectsBuyer ==
  \A d \in Deals :
    rows[d].pay = "released" =>
      LET last == Len(rows[d].log)
      IN  /\ last >= 2
          /\ rows[d].log[last - 1].to = "delivered"
          /\ rows[d].log[last - 1].actor \in {"buyer", "staff"}

\* However many callbacks and polls report one movement, one of them at most
\* is applied; the others find it recorded (apply_provider_event).
CallbackAppliedOnce ==
  /\ \A c1, c2 \in Callbacks :
       /\ inbox[c1].verdict = "applied" /\ inbox[c2].verdict = "applied"
       /\ inbox[c1].deal = inbox[c2].deal /\ inbox[c1].claim = inbox[c2].claim
       => c1 = c2
  /\ \A c \in Callbacks :
       inbox[c].verdict = "applied" => polls[inbox[c].deal][inbox[c].claim] # "applied"

\* A movement applied for the bank is on the record of a live payment and is
\* never taken back, short of the refund an operator marks afterwards.
AppliedIsRecorded ==
  \A c \in Callbacks :
    inbox[c].verdict = "applied" =>
      LET r == rows[inbox[c].deal]
      IN  /\ r.mode = "live"
          /\ r.pay = inbox[c].claim \/ inbox[c].claim = "funded"
          /\ r.pay # "pending"

\* A decided callback keeps its verdict through retries, sweeps and polls.
DecidedStaysDecided ==
  [][/\ \A c \in Callbacks :
          inbox[c].verdict \in Verdicts => inbox'[c] = inbox[c]
     /\ \A d \in Deals, s \in EscrowStatuses :
          polls[d][s] \in Verdicts => polls'[d][s] = polls[d][s]]_vars

\* Every callback the webhook acknowledged is decided in the end, whatever the
\* broker lost and however often the applier failed (sweep_provider_events).
EveryCallbackDecided ==
  \A c \in Callbacks :
    inbox[c].verdict = "new" ~> inbox[c].verdict \in Verdicts

-----------------------------------------------------------------------------
(* The money alone                                                           *)

\* The row as an account of EscrowPromise.
MoneyOf(r) ==
  CASE r.pay = "none"     -> "none"
    [] r.pay = "pending"  -> "awaited"
    [] r.pay = "funded"   -> "held"
    [] r.pay = "released" -> "paid"
    [] r.pay = "refunded" -> "returned"

RailOf(r) == IF r.mode \in {"stub", "live"} THEN "escrow" ELSE r.mode

FateOf(r) ==
  CASE r.status = "delivered" -> "received"
    [] r.status \in {"completed", "cancelled"} -> r.status
    [] OTHER -> "open"

AccountOf(r) == [money |-> MoneyOf(r), rail |-> RailOf(r), fate |-> FateOf(r)]

Promise == INSTANCE EscrowPromise WITH account <- [d \in Deals |-> AccountOf(rows[d])]

\* Whoever moves the money, in whatever order: it is held once, and leaves once,
\* to the seller for received goods or back with the deal (escrow.py).
KeepsThePromise == Promise!Spec

-----------------------------------------------------------------------------
(* What the code's own words say and its transactions do not do.  Each of    *)
(* these is violated; README.md tells how.                                   *)

\* escrow.py, module docstring: "No hand-driven money statuses ... the only way
\* into them is through this module", so a deal at paid_escrow has its money.
PaidEscrowIsFunded ==
  \A d \in Deals : rows[d].status = "paid_escrow" => rows[d].pay = "funded"

\* escrow.mark: "an escrow can never report money that the deal does not
\* reflect", so funded money belongs to a deal that can still pay it or refund it.
\* The code breaks it, so no run asks for it: see README, section 4.
FundedMoneyHasADeal ==
  \A d \in Deals : rows[d].pay = "funded" => rows[d].status # "cancelled"

\* held_provider_events: "once the operator marks the payment by hand the two
\* agree and the row stops matching", so a settled hold stays settled.  The code
\* breaks it, so no run asks for it: see README, section 4.
Queue(c) ==
  /\ inbox[c] # NoCallback
  /\ Listed(rows[inbox[c].deal], inbox[c].claim, inbox[c].verdict)

SettledHoldStaysSettled ==
  [][\A c \in Callbacks :
       /\ inbox[c].verdict \in HoldReasons
       /\ inbox[c].claim # "pending"
       /\ ~Queue(c)
       => ~Queue(c)']_vars

=============================================================================
