---------------------------- MODULE DealSessions ----------------------------
(****************************************************************************)
(* One deal and its payment under concurrent database sessions.              *)
(*                                                                           *)
(* Each HTTP request and each task runs in a SQLAlchemy session of its own,  *)
(* at READ COMMITTED.  A session loads a row into its identity map when it   *)
(* first meets it; `SELECT ... FOR UPDATE` waits for the row lock but, with  *)
(* no populate_existing, leaves the attributes of a row that is already      *)
(* loaded as they are.  So a door that looks at the deal or the payment      *)
(* before it locks them (all do, in different places) decides on what it     *)
(* saw then.  A flush writes the columns the session changed and no others.  *)
(*                                                                           *)
(* A session is a copy of the row (`view`) moved by the operators of         *)
(* EscrowLedger.  What it writes is invisible until it commits, so a session *)
(* commits in the step that takes its last lock.                             *)
(****************************************************************************)
EXTENDS EscrowLedger, FiniteSets

CONSTANTS
  Sessions,    \* concurrent database sessions
  Callbacks,   \* provider event ids
  Overlap,     \* the doors whose sessions may overlap; the others run alone
  MaxTrips,    \* bound: trips through the cycles of the deal machine
  MaxLog       \* bound: history rows, for the histories that do not chain

Doors == {"party", "resolve", "contract", "invoice", "mark", "confirm", "bank"}

ASSUME OverlapAssumption == Overlap \subseteq Doors

VARIABLES
  row,         \* the committed deal, payment and history
  inbox,       \* committed provider_events of this deal's reference
  sess         \* [Sessions -> session]

vars == <<row, inbox, sess>>

Claims == EscrowStatuses \cup {"unreadable"}

NoCallback == [verdict |-> "absent"]

Callback == [claim : Claims, fits : BOOLEAN, verdict : {"new"} \cup Verdicts]

\* The status a contract event expects to find the deal in (tasks.deals).
Expected ==
  [contract_pending |-> "negotiation", contract_signed |-> "contract_pending",
   negotiation |-> "contract_pending"]

\* What a request or a task asks for.  `by` is the actor of a move, or the
\* callback a bank session applies.
Calls ==
  ({"party"} \X DealStatuses \X Parties)
  \cup ({"resolve"} \X DealStatuses \X {"staff"})
  \cup ({"contract"} \X (DOMAIN Expected) \X {"system"})
  \cup ({"invoice"} \X {"payment_pending"} \X {"system"})
  \cup ({"mark"} \X EscrowStatuses \X {"staff"})
  \cup ({"confirm"} \X {"funded"} \X {"seller"})
  \cup ({"bank"} \X Claims \X Callbacks)

\* call  <<door, to, by>>
\* view  the rows in the identity map, with the history this session adds
\* held  the row locks it has
Idle == [call |-> <<>>, view |-> NoDeal, held |-> {}]

Session == [call : Calls, view : Row, held : SUBSET {"pay", "deal"}]

TypeOK ==
  /\ row \in Row
  /\ inbox \in [Callbacks -> Callback \cup {NoCallback}]
  /\ sess \in [Sessions -> Session \cup {Idle}]

Init ==
  /\ row = NoDeal
  /\ inbox = [c \in Callbacks |-> NoCallback]
  /\ sess = [s \in Sessions |-> Idle]

Busy(s) == sess[s] # Idle
Door(s) == sess[s].call[1]
To(s)   == sess[s].call[2]
By(s)   == sess[s].call[3]

\* _apply_mark locks the payment before the deal; transition locks the deal,
\* and the payment only when there is a direct deal to settle.
FromPayment == {"mark", "confirm", "bank"}
FirstLock(s)  == IF Door(s) \in FromPayment THEN "pay" ELSE "deal"
SecondLock(s) == IF Door(s) \in FromPayment THEN "deal" ELSE "pay"

Free(lock) == \A s \in Sessions : lock \notin sess[s].held

-----------------------------------------------------------------------------
(* The bounds                                                                *)

Trips ==
  { i \in 1..Len(row.log) :
      \/ row.log[i].to = "disputed"
      \/ row.log[i].to = "negotiation" /\ row.log[i].from = "contract_pending" }

Room(to) ==
  /\ Len(row.log) < MaxLog
  /\ to \in {"disputed", "negotiation"} => Cardinality(Trips) < MaxTrips

MayOverlap(door) ==
  \A s \in Sessions : Busy(s) => {door, Door(s)} \subseteq Overlap

-----------------------------------------------------------------------------
(* Steps that are one transaction of one row                                 *)

OpenDeal ==
  /\ row.status = "none"
  /\ \E priced \in BOOLEAN : row' = Opened(priced)
  /\ UNCHANGED <<inbox, sess>>

\* The live adapter (not written yet) stores the bank's reference on the row;
\* how it overlaps with the sessions is not known, so here it does not.
AdapterNamesRef ==
  /\ \A s \in Sessions : ~Busy(s)
  /\ row.mode = "live" /\ ~row.ref
  /\ row' = [row EXCEPT !.ref = TRUE]
  /\ UNCHANGED <<inbox, sess>>

RecordCallback(c) ==
  /\ inbox[c] = NoCallback
  /\ row.status # "none"
  /\ \E claim \in Claims, fits \in BOOLEAN :
       inbox' = [inbox EXCEPT ![c] = [claim |-> claim, fits |-> fits, verdict |-> "new"]]
  /\ UNCHANGED <<row, sess>>

-----------------------------------------------------------------------------
(* A session begins: its handler reads the rows, before any lock.  What it   *)
(* read then is what its checks see, so a call that will be refused is known *)
(* now; it changes nothing and is not a session.                             *)

\* Fault: dispute resolution is open to a deal that is not disputed.
Admitted_AnyDeal(door, to, by) ==
  CASE door \in {"party", "resolve", "contract"} -> CanMove(row, to, by)
    [] door = "invoice"  -> row.status = "contract_signed" /\ CanInvoice(row)
    [] door = "mark"     -> CanMark(row, to, by)
    [] door = "confirm"  -> CanConfirm(row)
    [] door = "bank"     -> inbox[by].verdict = "new" /\ inbox[by].claim = to

Admitted(door, to, by) ==
  CASE door = "party"    -> CanMove(row, to, by)
    [] door = "resolve"  -> row.status = "disputed" /\ CanMove(row, to, by)
    [] door = "contract" -> row.status = Expected[to] /\ CanMove(row, to, by)
    [] door = "invoice"  -> row.status = "contract_signed" /\ CanInvoice(row)
    [] door = "mark"     -> CanMark(row, to, by)
    [] door = "confirm"  -> CanConfirm(row)
    [] door = "bank"     -> inbox[by].verdict = "new" /\ inbox[by].claim = to

Begin(s, call) ==
  /\ ~Busy(s)
  /\ MayOverlap(call[1])
  /\ Room(call[2])
  /\ Admitted(call[1], call[2], call[3])
  /\ sess' = [sess EXCEPT ![s] =
                [call |-> call, view |-> [row EXCEPT !.log = <<>>], held |-> {}]]
  /\ UNCHANGED <<row, inbox>>

-----------------------------------------------------------------------------
(* Ending a session                                                          *)

\* Fault: the status is compared and set, and the history written regardless.
Flushed_HistoryRegardless(old, new) ==
  [ row EXCEPT !.status = IF row.status = old.status THEN new.status ELSE @,
               !.pay    = IF new.pay # old.pay THEN new.pay ELSE @,
               !.mode   = IF new.mode # old.mode THEN new.mode ELSE @,
               !.log    = @ \o new.log ]

\* A flush is an UPDATE of the columns that differ from what was loaded, plus
\* the new history rows; the rest of the row is whatever is committed by then.
Flushed(old, new) ==
  [ row EXCEPT !.status = IF new.status # old.status THEN new.status ELSE @,
               !.pay    = IF new.pay # old.pay THEN new.pay ELSE @,
               !.mode   = IF new.mode # old.mode THEN new.mode ELSE @,
               !.log    = @ \o new.log ]

Commit(s, old, new) ==
  /\ row' = Flushed(old, new)
  /\ sess' = [sess EXCEPT ![s] = Idle]
  /\ UNCHANGED inbox

Rollback(s) ==
  /\ sess' = [sess EXCEPT ![s] = Idle]
  /\ UNCHANGED <<row, inbox>>

\* A bank session always commits its verdict, even when the mark inside its
\* savepoint was refused.
Decided(event, verdict) == [event EXCEPT !.verdict = verdict]

Decide(s, v) ==
  LET c    == By(s)
      fits == inbox[c].fits
  IN  /\ row' = Flushed(v, Applied(v, To(s), fits))
      /\ inbox' = [inbox EXCEPT ![c] = Decided(@, Verdict(v, To(s), fits))]
      /\ sess' = [sess EXCEPT ![s] = Idle]

\* Go on to the second lock with what is in the identity map by now.
Hold(s, v) ==
  /\ sess' = [sess EXCEPT ![s] = [@ EXCEPT !.view = v, !.held = {FirstLock(s)}]]
  /\ UNCHANGED <<row, inbox>>

-----------------------------------------------------------------------------
(* transition: the deal is locked, then, if a direct deal is to be settled,  *)
(* the payment.                                                              *)

\* The deal is as loaded; is_direct and for_deal read the payment only now.
WithPayment(v) == [v EXCEPT !.pay = row.pay, !.mode = row.mode]

Settles(v, to) ==
  to = "delivered" /\ v.mode = "direct" /\ v.pay = "funded"

LockDeal(s) ==
  LET v == WithPayment(sess[s].view)
  IN  /\ Busy(s) /\ Door(s) \in {"party", "resolve", "contract"}
      /\ sess[s].held = {}
      /\ Free("deal")
      /\ IF Settles(v, To(s)) THEN Hold(s, v)
         ELSE Commit(s, v, Transitioned(v, To(s), By(s)))

\* settle_direct's mark: the payment was funded when for_deal read it.
LockPaymentToSettle(s) ==
  LET v == sess[s].view
  IN  /\ Busy(s) /\ sess[s].held = {"deal"}
      /\ Free("pay")
      /\ Commit(s, v, Transitioned(v, To(s), By(s)))

-----------------------------------------------------------------------------
(* _apply_mark: the payment is locked, then the deal it drags.               *)

\* A funded direct payment whose deal is elsewhere than payment_pending locks
\* the deal only to complete it.
LeavesDeal(v, to) == DealStays(v, to) /\ v.status # "delivered"

LockPayment(s) ==
  LET v == sess[s].view
  IN  /\ Busy(s) /\ Door(s) \in {"mark", "confirm"}
      /\ sess[s].held = {}
      /\ Free("pay")
      /\ IF LeavesDeal(v, To(s)) THEN Commit(s, v, Marked(v, To(s))) ELSE Hold(s, v)

LockDealToDrag(s) ==
  LET v == sess[s].view
  IN  /\ Busy(s) /\ Door(s) \in {"mark", "confirm"}
      /\ sess[s].held = {"pay"}
      /\ Free("deal")
      /\ Commit(s, v, Marked(v, To(s)))

-----------------------------------------------------------------------------
(* apply_provider_event: the payment is loaded first, the deal only once the *)
(* payment is locked.                                                        *)

\* Verdicts reached before the mark is tried.
ReachesMark(s, v) ==
  Verdict(v, To(s), inbox[By(s)].fits) \in
    {"applied", "invalid_transition", "release_before_delivery", "deal_blocked"}

BankDecides(s) ==
  /\ Busy(s) /\ Door(s) = "bank" /\ sess[s].held = {}
  /\ ~ReachesMark(s, sess[s].view)
  /\ Decide(s, sess[s].view)

\* Fault: the deal is preloaded with the payment, as the operator's door does.
BankLocksPayment_DealPreloaded(s) ==
  LET v == sess[s].view
  IN  /\ Busy(s) /\ Door(s) = "bank" /\ sess[s].held = {}
      /\ ReachesMark(s, v)
      /\ Free("pay")
      /\ IF MovementExists(v, To(s)) /\ ReleaseIsDue(v, To(s)) THEN Hold(s, v)
         ELSE Decide(s, v)

\* Fault: the payment is read without its row lock.
BankLocksPayment_NoLock(s) ==
  LET v == [sess[s].view EXCEPT !.status = row.status]
  IN  /\ Busy(s) /\ Door(s) = "bank" /\ sess[s].held = {}
      /\ ReachesMark(s, sess[s].view)
      /\ IF MovementExists(v, To(s)) /\ ReleaseIsDue(v, To(s)) THEN Hold(s, v)
         ELSE Decide(s, v)

BankLocksPayment(s) ==
  LET v == [sess[s].view EXCEPT !.status = row.status]
  IN  /\ Busy(s) /\ Door(s) = "bank" /\ sess[s].held = {}
      /\ ReachesMark(s, sess[s].view)
      /\ Free("pay")
      /\ IF MovementExists(v, To(s)) /\ ReleaseIsDue(v, To(s)) THEN Hold(s, v)
         ELSE Decide(s, v)

BankLocksDeal(s) ==
  /\ Busy(s) /\ Door(s) = "bank" /\ sess[s].held = {"pay"}
  /\ Free("deal")
  /\ Decide(s, sess[s].view)

-----------------------------------------------------------------------------
(* open_for_deal                                                             *)

\* Fault: the payment is upserted.
IssueInvoice_Upsert(s) ==
  LET v == sess[s].view
  IN  /\ Busy(s) /\ Door(s) = "invoice"
      /\ Free("deal")
      /\ \E mode \in Modes : Commit(s, v, Invoiced(v, mode))

\* Fault: the failed insert is neither caught nor rolled back.
IssueInvoice_NoRollback(s) ==
  LET v == sess[s].view
  IN  /\ Busy(s) /\ Door(s) = "invoice"
      /\ Free("deal")
      /\ row.pay = "none"
      /\ \E mode \in Modes : Commit(s, v, Invoiced(v, mode))

\* The insert waits for the deal's row lock (the foreign key shares it) and for
\* any other insert; the later of two fails on uq_escrow_payments_deal.
IssueInvoice(s) ==
  LET v == sess[s].view
  IN  /\ Busy(s) /\ Door(s) = "invoice"
      /\ Free("deal")
      /\ IF row.pay = "none"
         THEN \E mode \in Modes : Commit(s, v, Invoiced(v, mode))
         ELSE Rollback(s)

-----------------------------------------------------------------------------
(* Postgres breaks a deadlock by aborting one of the sessions in it.         *)

Waits(s, lock) ==
  Busy(s) /\ sess[s].held # {} /\ lock = SecondLock(s)

AbortDeadlock(s) ==
  /\ \E t \in Sessions, mine, theirs \in {"pay", "deal"} :
       /\ mine \in sess[s].held   /\ Waits(t, mine)
       /\ theirs \in sess[t].held /\ Waits(s, theirs)
  /\ Rollback(s)

-----------------------------------------------------------------------------

Proceed(s) ==
  \/ LockDeal(s)
  \/ LockPaymentToSettle(s)
  \/ LockPayment(s)
  \/ LockDealToDrag(s)
  \/ BankDecides(s)
  \/ BankLocksPayment(s)
  \/ BankLocksDeal(s)
  \/ IssueInvoice(s)

Next ==
  \/ OpenDeal
  \/ AdapterNamesRef
  \/ \E c \in Callbacks : RecordCallback(c)
  \/ \E s \in Sessions, call \in Calls : Begin(s, call)
  \/ \E s \in Sessions : Proceed(s) \/ AbortDeadlock(s)

Spec == Init /\ [][Next]_vars

\* Postgres queues the waiters of a row lock, so a session that waits gets it
\* (strong fairness: others may hold it in between), and its deadlock detector
\* runs after deadlock_timeout.
FairSpec ==
  Spec /\ \A s \in Sessions : SF_vars(Proceed(s)) /\ WF_vars(AbortDeadlock(s))

-----------------------------------------------------------------------------
(* One session at a time is what DealEscrow describes.                       *)

Serial ==
  INSTANCE DealEscrow WITH
    Deals <- {"deal"},
    rows  <- [d \in {"deal"} |-> row],
    inbox <- [c \in Callbacks |->
                IF inbox[c] = NoCallback THEN NoCallback
                ELSE [deal |-> "deal", claim |-> inbox[c].claim, fits |-> inbox[c].fits,
                      verdict |-> inbox[c].verdict]],
    queued <- {},
    polls  <- [d \in {"deal"} |-> [status \in EscrowStatuses |-> "absent"]]

\* With one session every commit is a step of DealEscrow, and nothing else
\* shows: the doors compute what the operators say, in whatever steps.
ImplementsDealEscrow == Serial!Spec

-----------------------------------------------------------------------------
(* What is left when sessions overlap                                        *)

\* The deal and its history never part: the status is where the last history
\* row says (service.transition writes both under the deal's row lock).
HistoryEndsAtStatus ==
  row.log # <<>> => row.log[Len(row.log)].to = row.status

\* The rail a payment was opened on is frozen on it, even when a second
\* delivery of the event finds ESCROW_MODE flipped (open_for_deal).
RailIsFrozen ==
  [][row.mode # "none" => row'.mode = row.mode]_vars

\* Every session ends, whatever the others hold: the opposite lock orders of
\* transition and _apply_mark meet in a deadlock that Postgres breaks.
EverySessionEnds == \A s \in Sessions : Busy(s) ~> ~Busy(s)

\* service.transition: "Takes a row lock first so two concurrent transitions
\* cannot both read the same source status and both succeed", so the history is
\* one walk: every move starts where the one before it ended.
HistoryChains ==
  \A i \in 2..Len(row.log) : row.log[i].from = row.log[i - 1].to

\* escrow.py: "SELECT ... FOR UPDATE on the payment, so two operators clicking
\* at once cannot both transition the deal".
MoneyMovesOnce ==
  \A to \in {"paid_escrow", "completed"} :
    Cardinality({ i \in 1..Len(row.log) :
                    row.log[i].to = to /\ row.log[i].actor = "system" }) <= 1

\* settle_direct: "Called from both ends ... because on postpayment either may
\* come second", so a direct deal never rests paid and received.
DirectDealSettles ==
  row.mode = "direct" /\ row.pay = "funded" => row.status # "delivered"

\* sweep_provider_events: "Idempotent: an already-processed row is not selected,
\* and apply_provider_event short-circuits on one anyway".
DecidedStaysDecided ==
  [][\A c \in Callbacks : inbox[c].verdict \in Verdicts => inbox'[c] = inbox[c]]_vars

\* tasks.deals._advance: "Move the deal behind a contract to `to_status`, but
\* only from `expect`", so no contract event revives a cancelled deal.  The code
\* breaks it, so no run asks for it: see README, section 4.
CancelledStaysCancelled ==
  [][row.status = "cancelled" => row'.status = "cancelled"]_vars

=============================================================================
